SPECIFICATION FairSpec
CONSTANTS
    Keys = {k1}
    NoKey = NoKey
    Requests = {r1}
    AcceptingNewFactions = FALSE
    MaxPending = 1
    MaxFaults = 2
PROPERTIES
    KeepsPolling
    StopDrains
    PollingEnds
