SPECIFICATION LibrarySpec
CONSTANTS
    Cases <- MCCases
    Names <- MCNames
    Params <- MCParams
    HeaderCapacity = 12
    Capacity = 4
    ElementSize = 2
    Items <- MCItems
    Junk = 255
    ArenaCapacity = 100
    BlockSizes = {0, 1, 16, 17, 40}
    Chunks = {0, 1, 23, 27, 64}
    MaxMessage = 130
    t1 = t1
    t2 = t2
    Threads = {t1, t2}
    None = None
    Hours = 2
    Offset = 1
    MaxTime = 2
    MaxLog = 3
    Years = {1799, 1800, 1900, 2000, 2023, 2024, 9999, 10000}
INVARIANTS
    TypeOK
    WritesStayInside
    SendBufferHolds
    AnswersAreFramed
    TargetFollowsGrammar
    LookupReadsLines
    CacheListIsJudged
    ArrayIsList
    BlocksStayApart
    AcceptKeyIsRfc
    LinesAreWhole
    DatesAreJudgedRight
CHECK_DEADLOCK FALSE
