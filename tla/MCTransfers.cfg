SPECIFICATION Spec
CONSTANTS
    u1 = u1
    u2 = u2
    Quantity <- MCQuantity
    Sender <- MCSender
    Users = {u1, u2}
    Faction = Faction
    Leader = u1
    Runs = {nightly}
    Nightly = nightly
    Transfers = {t1, t2}
    NoSub = NoSub
    WeeksPerXanax = 2
    WeekCost = 1
    WeekTicks = 1
    FetchLimit = 2
    MaxTime = 0
    MaxGrants = 0
    MaxTransfers = 2
    MaxFaults = 0
PROPERTY TransferIsPaid
CHECK_DEADLOCK FALSE
