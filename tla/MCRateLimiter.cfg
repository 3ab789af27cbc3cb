SPECIFICATION Spec
CONSTANTS
    Keys = {k1, k2}
    Threads = {t1, t2}
    Global = Global
    NoKey = NoKey
    KeyLimit = 2
    BackgroundLimit = 1
    GlobalLimit = 3
    TornHardLimit = 4
    WindowTicks = 2
    MaxMinute = 1
    MaxCharges = 3
    MaxDepth = 2
    MaxFaults = 1
SYMMETRY Symmetry
VIEW Unstarved
CONSTRAINT EarlyFaults
INVARIANTS
    TypeOK
    KeyBudget
    GlobalBudget
    HeadroomFlagScoped
CHECK_DEADLOCK FALSE
