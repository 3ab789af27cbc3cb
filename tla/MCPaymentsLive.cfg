SPECIFICATION FairSpec
CONSTANTS
    u1 = u1
    u2 = u2
    Quantity <- MCQuantity
    Sender <- MCSender
    Users = {u1, u2}
    Faction = Faction
    Leader = u1
    Runs = {nightly, web}
    Nightly = nightly
    Transfers = {t1}
    NoSub = NoSub
    WeeksPerXanax = 2
    WeekCost = 1
    WeekTicks = 1
    FetchLimit = 2
    MaxTime = 2
    MaxGrants = 0
    MaxTransfers = 0
    MaxFaults = 2
PROPERTY EveryPaymentRecorded
CHECK_DEADLOCK FALSE
