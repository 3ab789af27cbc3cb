SPECIFICATION FairSpec
CONSTANTS
    MaxLobbies = 1
    Factions = {f1}
    NoFaction = NoFaction
    Creators = {c1}
    Visitors = {v1}
    LastId = 2
    MaxFaults = 1
INVARIANTS
    TypeOK
    PolledOrGone
    OneChain
    NotEndedAtBirth
PROPERTIES
    TerminatedDrains
    UnkeyedEnds
CHECK_DEADLOCK FALSE
