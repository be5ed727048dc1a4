------------------------------- MODULE MCGlob --------------------------------
EXTENDS Glob, TLC

Symmetry == Permutations(Threads) \cup Permutations(Globs) \cup Permutations(Caches)
=============================================================================
