SPECIFICATION MCSpec
CONSTANTS
    Items = {i1, i2}
    Profits = {1, 2}
    MaxSellers = 2
    MaxFetches = 1
    MaxRuns = 2
    PageLimit = 2
    MaxPages = 4
    LastMoment = 2
    MaxMugs = 4
    MaxWalks = 1
INVARIANTS
    TypeOK
    StoredPriceIsTheItems
    RowsSorted
    FetchedExactly
PROPERTIES
    ButtonComesBack
CHECK_DEADLOCK FALSE
