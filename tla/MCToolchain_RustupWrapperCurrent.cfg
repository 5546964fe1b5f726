CONSTANTS
    v1 = v1
    v2 = v2
    r1 = r1
    r2 = r2
    Versions = {v1, v2}
    Revs = {r1, r2}
    Tools = {"cargo", "rustup"}
    MaxInv = 4
    NONE = NONE
    Partial = Partial
SPECIFICATION Spec
INVARIANT RustupWrapperCurrent
