CONSTANTS
    c1 = c1
    c2 = c2
    c3 = c3
    Clients = {c1, c2, c3}
    Daemons = {}
    Home <- NoHome
    NumClients <- ClientsPerDaemon
    BatchSize = 1
    NumBatches = 0
    DiscoverRepeats = 1
    Protocols = {"rndv"}
    NoPeer = NoPeer
    Junk = Junk
SPECIFICATION Spec
INVARIANTS ResultCorrect
CONSTANTS d1 = d1 d2 = d2
