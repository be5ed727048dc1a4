CONSTANTS
    Threads = {t1, t2}
    Globs = {g1, g2}
    Caches = {c1, c2, c3}
    MaxnGlobs = 3
    MaxFailures = 1
    Null = Null
SPECIFICATION Spec
SYMMETRY Symmetry
INVARIANTS
    CacheServesOwner
    LedgerReachesAll
