CONSTANTS
    c1 = c1
    c2 = c2
    c3 = c3
    Clients = {c1, c2, c3}
    Daemons = {}
    Home <- NoHome
    NumClients <- ClientsPerDaemon
    BatchSize = 1
    NumBatches = 1
    DiscoverRepeats = 2
    Protocols = {"short", "zcopy"}
    NoPeer = NoPeer
    Junk = Junk
SPECIFICATION FairSpec
INVARIANTS ResultCorrect OperationCount TwoBatches
PROPERTIES SendBufferStable AllComplete
CONSTANTS d1 = d1 d2 = d2
