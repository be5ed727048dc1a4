CONSTANTS
    Arenas = {a1}
    NPages = 10
    MapBases = {0}
    ClassPages <- Classes10
    NewSpanClass = 8
    AllocMax = 1000
    AgeMod = 16
    CountMod = 256
    AllowCrossOrigin = TRUE
    UnmapOnTermination = FALSE
    Gets <- TenPages
    AlignedGets <- NoGets
    SlabAllocMax = 0
    SlabClassOf <- NoSlabClasses
    Faults = {}
    Null = Null
SPECIFICATION Spec
INVARIANTS
    SpanFits
