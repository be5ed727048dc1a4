CONSTANTS
    Threads = {t1, t2}
    Spans = {p1, p2, p3}
    NBlocks = 4
    BatchSizes = {1, 5}
    Faults = {"put"}
    Null = Null
SPECIFICATION Spec
SYMMETRY Symmetry
CHECK_DEADLOCK FALSE
INVARIANTS
    TypeOK
    RegistryExact
    CountExact
    BlocksOnce
    SlabStays
PROPERTIES
    IdleOnlyByRollback
