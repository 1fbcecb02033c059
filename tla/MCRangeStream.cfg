SPECIFICATION BrowserSpec
CONSTANTS
    Size = 4
    Largest = 6
    Chunk = 2
    SndCap = 3
    Requests = 2
    NoRange = NoRange
    Ids = {t1, t2}
    NoId = NoId
    MaxPolls = 2
    Downloads = {d1, d2}
    Songs = 2
    MaxSecond = 1
    NoFile = NoFile
    Hole = Hole
CHECK_DEADLOCK FALSE
INVARIANTS
    OnlyWhatWasAsked
    HeadersAreTrue
    SuccessIsTrue
    FollowsUnfinished
    ArchiveIsOwn
    NoStrayArchive
PROPERTIES
    RequestEnds
    ResultIsTold
