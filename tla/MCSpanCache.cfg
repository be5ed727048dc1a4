CONSTANTS
    Arenas = {a1}
    NPages = 6
    MapBases = {0, 1, 3}
    ClassPages <- Classes8
    NewSpanClass = 2
    AllocMax = 1000
    AgeMod = 16
    CountMod = 256
    AllowCrossOrigin = TRUE
    UnmapOnTermination = FALSE
    Gets <- OnePageTwoPageSlab
    AlignedGets <- TwoAligned
    SlabAllocMax = 0
    SlabClassOf <- NoSlabClasses
    Faults = {}
    Null = Null
SPECIFICATION Spec
INVARIANTS
    TypeOK
    SpansTile
    PagetrieExact
    NothingLost
    SummariesExact
    FreeCoalesced
    SpanFits
PROPERTIES
    ImplementsHeap
