CONSTANTS
    Threads = {t1, t2}
    Small = {s1, s2, s3, s4, s5}
    Large = {l1}
    Blocks <- AllBlocks
    Class <- Classes
    ClassOf <- ClassOfBlock
    Capacity <- Capacity42
    Nbytes <- Nbytes12
    EpochMax = 4
    NoCache = NoCache
SPECIFICATION Spec
SYMMETRY Symmetry
INVARIANTS
    TypeOK
    OnePlacePerBlock
    MarkInColumn
