CONSTANTS
    arm = arm
    x86 = x86
    NONE = NONE
    Partial = Partial
    ArchSeq <- MCArchSeq
    Requests <- MCRequests
    CleanRequests <- MCCleanRequests
    MaxInv = 3
SPECIFICATION Spec
INVARIANT ElfCleanerRunnable
