SPECIFICATION MCSpec
CONSTANTS
    PageLimit = 1
    MaxMessages = 2
    MaxDrafts = 1
    MaxPolls = 2
    MaxLists = 1
    Companies = {1, 2}
    Filters = {"wide", "narrow"}
    Found <- MCFound
    MaxMatchPages = 2
    MaxSearches = 2
    ChunkSize = 1
    StatusPolls = 1
    RefreshPolls = 1
    MaxEvents = 3
INVARIANTS
    TypeOK
    RenderedOnce
    ShownInOrder
    BoxesFollowRooms
    SeenWasRead
    SearchTypeOK
    LatestShown
PROPERTIES
    FreshAfterRefresh
CHECK_DEADLOCK FALSE
