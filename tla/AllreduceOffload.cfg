CONSTANTS
    c1 = c1
    c2 = c2
    c3 = c3
    d1 = d1
    d2 = d2
    Clients = {c1, c2, c3}
    Daemons = {d1, d2}
    Home <- TwoHomes
    NumClients <- ClientsPerDaemon
    BatchSize = 1
    NumBatches = 1
    DiscoverRepeats = 1
    Protocols = {"short", "rndv"}
    NoPeer = NoPeer
    Junk = Junk
SPECIFICATION FairSpec
INVARIANTS ResultCorrect CallbackTargets PoolAccount
PROPERTIES AllComplete
