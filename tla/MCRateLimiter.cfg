SPECIFICATION MCSpec
CONSTANTS
    Keys = {k1, k2}
    MaxRequests = 2
    Window = 1
    Ticks = 2
    NoBucket = NoBucket
    MaxClock = 7
    MaxCount = 3
    Ids = {t1, t2}
    NoId = NoId
    Wanted = {"a", "b"}
    Texts <- PlayLists
    MaxParses = 2
    MaxLoads = 1
    MaxPosts = 1
    MaxErrors = 2
    N = 3
    MaxEvents = 2
INVARIANTS
    SlidingBound
    RefusalEarned
    DownloadedIsTrue
    WaitingIsFollowed
    HoldersMatch
SYMMETRY Symmetry
CHECK_DEADLOCK FALSE
