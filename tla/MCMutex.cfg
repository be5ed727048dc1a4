CONSTANTS
    Threads = {t1, t2, t3}
    NoThread = NoThread
    MaxSpinCount = 1
    SemValueMax = 2
SPECIFICATION FairSpec
INVARIANTS
    TypeOK
    MutualExclusion
    OwnerRecorded
    NoLostWakeup
PROPERTIES
    OwnerCheckExact
    ImplementsLock
