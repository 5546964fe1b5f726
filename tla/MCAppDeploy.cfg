CONSTANTS
    NONE = NONE
    Partial = Partial
    MaxInv = 3
SPECIFICATION Spec
INVARIANT RamdiskPatchedOnce
INVARIANT PatchedWithThisBuild
