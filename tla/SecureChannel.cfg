CONSTANTS
    MsgNb = 2
    MaxMsgs = 2
    Faults <- BothThreads
SPECIFICATION FairSpec
INVARIANTS NeverSendToNull NoLostWakeup EndpointSafe HostExitOnlyOnInterrupt
PROPERTIES InterruptEnds
CHECK_DEADLOCK FALSE
