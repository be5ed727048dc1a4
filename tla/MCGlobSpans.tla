---------------------------- MODULE MCGlobSpans -----------------------------
EXTENDS GlobSpans, SizeClasses

MCSymmetry == Permutations(Threads)

MCDescs == Descs

MCPages == {<<4096, 16, 16384>>, <<16384, 16, 16384>>, <<32768, 16, 16384>>,
            <<65536, 16, 16384>>, <<2097152, 256, 524288>>}

(* DEFAULT_CONFIGS *)
MCProfiles == {[page_size |-> p[1], min_align |-> p[2], slab_alloc_max |-> p[3],
                steps_per_pow2 |-> 4] : p \in MCPages}

(* In every profile, whenever a step is taken: each request is classed as   *)
(* the smallest class that holds it, slabs hold their blocks, and aligned   *)
(* requests get aligned blocks (tsalloc_config.h:67, config.py:94,          *)
(* tsalloc.c:74).                                                           *)
ClassesAgree == [][TablesAgree]_vars
=============================================================================
