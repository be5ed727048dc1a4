CONSTANTS
    Arenas = {a1}
    NPages = 4
    MapBases = {0, 1}
    ClassPages <- Classes8
    NewSpanClass = 0
    AllocMax = 1000
    AgeMod = 16
    CountMod = 256
    AllowCrossOrigin = TRUE
    UnmapOnTermination = TRUE
    Gets <- NoGets
    AlignedGets <- TwoAligned
    SlabAllocMax = 0
    SlabClassOf <- NoSlabClasses
    Faults = {}
    Null = Null
SPECIFICATION Spec
INVARIANTS
    OriginsExact
