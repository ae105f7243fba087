\* No call fails.
CONSTANTS
    MsgNb = 2
    MaxMsgs = 2
    Faults = {}
SPECIFICATION FairSpec
INVARIANT ExitOnlyOnInterrupt
CHECK_DEADLOCK FALSE
