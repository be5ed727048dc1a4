------------------------------ MODULE MCTCache ------------------------------
(* Instances of TCache, with the slab classes of the 64 KiB profile and    *)
(* bytes in units that divide them: 8 KiB (4 blocks cached), 16 KiB (2)    *)
(* and 10 KiB (3).                                                         *)
EXTENDS TCache, TLC

CONSTANTS Small, Large   \* the blocks of the first and of the second class

AllBlocks == Small \cup Large

Classes == {"small", "large"}

ClassOfBlock == [b \in AllBlocks |-> IF b \in Small THEN "small" ELSE "large"]

(* 8 KiB and 16 KiB, in units of 8 KiB *)
Capacity42 == [c \in Classes |-> IF c = "small" THEN 4 ELSE 2]

Nbytes12 == [c \in Classes |-> IF c = "small" THEN 1 ELSE 2]

(* 10 KiB and 16 KiB, in units of 2 KiB *)
Capacity32 == [c \in Classes |-> IF c = "small" THEN 3 ELSE 2]

Nbytes58 == [c \in Classes |-> IF c = "small" THEN 5 ELSE 8]

Symmetry == Permutations(Small) \cup Permutations(Large) \cup Permutations(Threads)
=============================================================================
