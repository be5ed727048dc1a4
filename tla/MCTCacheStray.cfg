CONSTANTS
    Threads = {t1}
    Small = {s1, s2, s3, s4}
    Large = {l1}
    Blocks <- AllBlocks
    Class <- Classes
    ClassOf <- ClassOfBlock
    Capacity <- Capacity32
    Nbytes <- Nbytes58
    EpochMax = 16
    NoCache = NoCache
SPECIFICATION Spec
SYMMETRY Symmetry
CHECK_DEADLOCK FALSE
INVARIANTS
    DecayBatchValid
