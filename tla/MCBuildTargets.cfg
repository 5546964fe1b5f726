CONSTANT Unknown = {"su"}
SPECIFICATION Spec
INVARIANT BuildClosure
