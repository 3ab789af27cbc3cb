SPECIFICATION Spec
CONSTANTS
    Keys = {k1, k2}
    NoKey = NoKey
    Requests = {r1}
    AcceptingNewFactions = FALSE
    MaxPending = 1
    MaxFaults = 0
PROPERTY RemovesOnlyRejected
