CONSTANTS
    Elems = {e1, e2, e3, e4, e5}
    Null = Null
    NbElems = 2
    MaxSize = 6
SPECIFICATION Spec
SYMMETRY Addresses
INVARIANTS TypeOK NoSharing NoLeak
PROPERTY ImplementsPool
CHECK_DEADLOCK FALSE
