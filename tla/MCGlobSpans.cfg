CONSTANTS
    Threads = {t1, t2}
    Data <- MCDescs
    Fan = 2
    MaxNodes = 7
    MaxFailures = 1
    Null = Null
    NArenas = 2
    PoolSize = 3
    FirstPage = 3
    LastPage = 6
    DefaultPages = 2
    Requests = {1, 2}
    MaxCalls = 6
    EpochMax = 3
    Word = 6
    Profiles <- MCProfiles
    MaxSpan = 1000000000
    MaxClasses = 100
SYMMETRY
    MCSymmetry
SPECIFICATION Spec
INVARIANTS
    HolderFindsSpan
    PagesAccounted
    EpochPassedOnlyByRace
    ClaimsGoRound
PROPERTIES
    ClassesAgree
