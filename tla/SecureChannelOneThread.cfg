CONSTANTS
    MsgNb = 2
    MaxMsgs = 2
    Faults <- OneThread
SPECIFICATION FairSpec
INVARIANT ThreadsFinished
CHECK_DEADLOCK FALSE
