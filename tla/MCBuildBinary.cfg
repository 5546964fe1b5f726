CONSTANTS
    arm = arm
    x86 = x86
    NONE = NONE
    Partial = Partial
    ArchSeq <- MCArchSeq
    Requests <- MCRequests
    CleanRequests <- MCCleanRequests
    MaxInv = 3
SPECIFICATION FairSpec
INVARIANT TypeOK
INVARIANT PayloadHeaderCurrent
INVARIANT EmbeddedPayloadConsistent
INVARIANT LinkedRustConsistent
PROPERTY ImplementsBuildSpec
PROPERTY InvocationEnds
