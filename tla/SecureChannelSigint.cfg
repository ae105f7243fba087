\* No call fails, except recvfrom.
CONSTANTS
    MsgNb = 2
    MaxMsgs = 2
    Faults = {}
SPECIFICATION FairSpec
PROPERTY InterruptCaught
CHECK_DEADLOCK FALSE
