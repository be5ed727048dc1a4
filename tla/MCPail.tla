------------------------------- MODULE MCPail -------------------------------
(* An instance of Pail: batches of one block, and of more than a slab has. *)
EXTENDS Pail, TLC

Symmetry == Permutations(Spans) \cup Permutations(Threads)
=============================================================================
