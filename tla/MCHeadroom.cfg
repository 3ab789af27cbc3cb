SPECIFICATION Spec
CONSTANTS
    Keys = {k1}
    Threads = {t1, t2}
    Global = Global
    NoKey = NoKey
    KeyLimit = 3
    BackgroundLimit = 2
    GlobalLimit = 9
    TornHardLimit = 6
    WindowTicks = 1
    MaxMinute = 0
    MaxCharges = 5
    MaxDepth = 1
    MaxFaults = 0
INVARIANT HeadroomForLive
CHECK_DEADLOCK FALSE
