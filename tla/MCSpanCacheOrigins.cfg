CONSTANTS
    Arenas = {a1, a2}
    NPages = 6
    MapBases = {0, 3}
    ClassPages <- Classes8
    NewSpanClass = 2
    AllocMax = 1000
    AgeMod = 16
    CountMod = 256
    AllowCrossOrigin = FALSE
    UnmapOnTermination = TRUE
    Gets <- OnePageTwoPageSlab
    AlignedGets <- NoGets
    SlabAllocMax = 0
    SlabClassOf <- NoSlabClasses
    Faults = {"spanpool", "slabpool"}
    Null = Null
SPECIFICATION Spec
INVARIANTS
    NoWildPointer
    OriginsExact
    NothingLost
    SummariesExact
