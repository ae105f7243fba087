\* Timestamps of three bits: the time limit grows from 2 to 4, overflows to 0
\* and is then undefined, as 300000 does in 32 bits (it overflows from the
\* 14th abort on and is undefined from the 32nd).
CONSTANTS
    Bits = 3
    AbortMod = 4
    AbortTime = 2
    Word = 128
    Unit = 8
    UpdateFactor = 1
    AI = 1
    BaseRtt = 1
    NewFlowRate = 4
    MinRate = 1
    MaxDelay = 3
    MaxRate = 4
    MaxFlying = 2
SPECIFICATION FairSpec
PROPERTIES CongestionHeeded LoopSurvives
