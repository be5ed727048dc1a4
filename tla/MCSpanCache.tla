---------------------------- MODULE MCSpanCache -----------------------------
(* Instances of SpanCache.  The size classes are the first ones of every   *)
(* profile of config/_tsalloc_config.h: 1 to 8 pages, then 10.             *)
EXTENDS SpanCache

Classes8 == [k \in 0 .. 7 |-> k + 1]

Classes10 == [k \in 0 .. 8 |-> IF k < 8 THEN k + 1 ELSE 10]

NoSlabClasses == [n \in {} |-> 0]

NoGets == {}

OnePageTwoPageSlab == {<<0, FALSE>>, <<1, TRUE>>}

OnePage == {<<0, FALSE>>}

TenPages == {<<0, FALSE>>, <<8, FALSE>>}

(* Pages of 32 KiB or more are larger than slab_alloc_max, so every padded *)
(* size is a span class (SlabAllocMax = 0, NoSlabClasses).                 *)
TwoAligned == {<<2, 0>>}
=============================================================================
