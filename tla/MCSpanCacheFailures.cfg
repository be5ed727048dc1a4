CONSTANTS
    Arenas = {a1}
    NPages = 4
    MapBases = {0, 1}
    ClassPages <- Classes8
    NewSpanClass = 1
    AllocMax = 1000
    AgeMod = 2
    CountMod = 6
    AllowCrossOrigin = TRUE
    UnmapOnTermination = FALSE
    Gets <- OnePage
    AlignedGets <- TwoAligned
    SlabAllocMax = 0
    SlabClassOf <- NoSlabClasses
    Faults = {"spanpool", "pagetrie", "unmap", "madvise"}
    Null = Null
SPECIFICATION Spec
CHECK_DEADLOCK FALSE
INVARIANTS
    SpansTile
    PagetrieExact
PROPERTIES
    ImplementsHeap
