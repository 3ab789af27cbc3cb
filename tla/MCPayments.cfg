SPECIFICATION Spec
CONSTANTS
    u1 = u1
    u2 = u2
    Quantity <- MCQuantity
    Sender <- MCSender
    Users = {u1, u2}
    Faction = Faction
    Leader = u1
    Runs = {nightly, web}
    Nightly = nightly
    Transfers = {t1, t2}
    NoSub = NoSub
    WeeksPerXanax = 2
    WeekCost = 1
    WeekTicks = 1
    FetchLimit = 2
    MaxTime = 1
    MaxGrants = 1
    MaxTransfers = 2
    MaxFaults = 1
SYMMETRY Symmetry
INVARIANTS
    TypeOK
    Accounted
    NoFreeTime
PROPERTY LedgerSpec
CHECK_DEADLOCK FALSE
