\* The passing run's flow, asked about the answers to repeated requests.
CONSTANTS
    Bits = 3
    AbortMod = 4
    AbortTime = 2
    Word = 128
    Unit = 8
    UpdateFactor = 1
    AI = 1
    BaseRtt = 1
    NewFlowRate = 4
    MinRate = 1
    MaxDelay = 3
    MaxRate = 4
    MaxFlying = 2
SPECIFICATION FairSpec
PROPERTY OnlyAwaited
