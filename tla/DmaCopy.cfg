CONSTANTS
    Sizes = {1, 2, 4}
    MaxBufSize = 2
    Faults <- AnyFault
SPECIFICATION FairSpec
INVARIANTS PhaseAgreement DmaSafe CopyComplete FilesKept
PROPERTIES Completes
CHECK_DEADLOCK FALSE
