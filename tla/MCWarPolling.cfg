SPECIFICATION Spec
CONSTANTS
    Keys = {k1, k2}
    NoKey = NoKey
    Requests = {r1}
    AcceptingNewFactions = TRUE
    MaxPending = 1
    MaxFaults = 1
INVARIANTS
    TypeOK
    ChainAlive
PROPERTIES
    NoFork
SYMMETRY Symmetry
