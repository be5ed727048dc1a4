---------------------------- MODULE SizeClasses -----------------------------
(***************************************************************************)
(* The size classes from both ends: config.py generates the tables and     *)
(* tsalloc_config.h computes an index into them, by a table for slabs and  *)
(* by arithmetic for spans.  Classes count from 0, as in the code.         *)
(***************************************************************************)
EXTENDS Integers, FiniteSetsExt, SequencesExt

CONSTANTS Profiles,    \* DEFAULT_CONFIGS
          MaxSpan,     \* bound: the largest span class looked at (1 << 62)
          MaxClasses   \* bound: classes of a profile up to MaxSpan

ASSUME SizeClassesAssumption ==
    /\ MaxClasses \in Nat
    /\ \A c \in Profiles :
          /\ {c.page_size, c.min_align, c.steps_per_pow2} \subseteq {2 ^ k : k \in 0 .. 30}
          /\ c.min_align <= c.page_size /\ c.min_align <= c.slab_alloc_max

AtLeast(a, b) == IF a > b THEN a ELSE b

AtMost(a, b) == IF a < b THEN a ELSE b

(* math.log2 rounded down, 63 - clz *)
Log2(n) == CHOOSE k \in 0 .. 30 : 2 ^ k <= n /\ (k = 30 \/ n < 2 ^ (k + 1))

RoundUp(n, unit) == ((n + unit - 1) \div unit) * unit

-----------------------------------------------------------------------------
(* The generator *)

(* From one class to the next: a fraction of the power of two below it, in *)
(* whole units.                                                            *)
NextSize(size, unit, steps) ==
    size + (AtLeast(unit, 2 ^ Log2(size) \div steps) \div unit) * unit

(* The loop, which stays at its last class here *)
Sizes(unit, limit, steps) ==
    LET size[i \in 0 .. MaxClasses] ==
            IF i = 0 THEN unit
            ELSE LET s == size[i - 1]
                 IN  IF NextSize(s, unit, steps) > limit THEN s ELSE NextSize(s, unit, steps)
            n == Cardinality({size[i] : i \in 0 .. MaxClasses})
    IN  [i \in 1 .. n |-> size[i - 1]]

SlabSizes == [c \in Profiles |-> Sizes(c.min_align, c.slab_alloc_max, c.steps_per_pow2)]

SpanSizes == [c \in Profiles |-> Sizes(c.page_size, MaxSpan, c.steps_per_pow2)]

(* size2index: the first class that holds k * min_align bytes *)
SlabIndex == [c \in Profiles |->
                 [k \in 1 .. c.slab_alloc_max \div c.min_align |->
                     SelectInSeq(SlabSizes[c], LAMBDA s : s >= k * c.min_align) - 1]]

(* A slab has room for at least four blocks. *)
SlabSize(c, block) ==
    RoundUp(AtLeast(4, c.page_size \div block) * block, c.page_size)

(* nblocks never grows from one class to the next. *)
SlabBlocks ==
    [c \in Profiles |->
        [i \in DOMAIN SlabSizes[c] |->
            Min({SlabSize(c, SlabSizes[c][j]) \div SlabSizes[c][j] : j \in 1 .. i})]]

TcacheLimit(c, i) == AtMost(128, SlabBlocks[c][i] \div 2)

BitmapBits(c) == RoundUp(c.page_size \div c.min_align, 64)

-----------------------------------------------------------------------------
(* The blocks of a slab, as slab.c finds them: nbytes_block has 16 bits. *)

NbytesBlock(c, i) == SlabSizes[c][i] % 2 ^ 16

BlockOffset(c, i, k) == k * NbytesBlock(c, i)

BlockIndex(c, i, offset) == offset \div NbytesBlock(c, i)

-----------------------------------------------------------------------------
(* The lookups *)

(* a mutant: the group is that of nbytes, not of its last byte *)
SpanClassPast(c, nbytes) ==
    LET shift == Log2(c.steps_per_pow2)
        grp   == nbytes \div c.page_size
        epoch == Log2(grp) - shift + 1
    IN  IF grp < c.steps_per_pow2 THEN grp
        ELSE epoch * 2 ^ shift
             + (grp - 2 ^ (epoch + shift - 1)) \div 2 ^ (epoch - 1)

(* tsconfig_get_span_szclass *)
SpanClass(c, nbytes) ==
    LET shift == Log2(c.steps_per_pow2)
        grp   == (nbytes - 1) \div c.page_size
        epoch == Log2(grp) - shift + 1
    IN  IF grp < c.steps_per_pow2 THEN grp
        ELSE epoch * 2 ^ shift
             + (grp - 2 ^ (epoch + shift - 1)) \div 2 ^ (epoch - 1)

(* tsconfig_get_szclass *)
IsSlab(c, nbytes) == nbytes <= c.slab_alloc_max

SlabClass(c, nbytes) ==
    LET idx == (nbytes + c.min_align - 1) \div 2 ^ Log2(c.min_align)
    IN  SlabIndex[c][AtLeast(idx, 1)]

-----------------------------------------------------------------------------
(* What a request of nbytes may get: the first class that holds it *)
Smallest(sizes, class, nbytes) ==
    /\ class + 1 \in DOMAIN sizes
    /\ nbytes <= sizes[class + 1]
    /\ class > 0 => sizes[class] < nbytes

(* The requests next to the edges of the classes *)
Edges(sizes) == UNION {{s - 1, s, s + 1} : s \in ToSet(sizes)}

Aligns(c) == {2 ^ k : k \in 0 .. Log2(c.page_size)}

(* _tsalloc_aligned up to a page: the size is rounded up to the alignment. *)
AlignedClass(c, nbytes, align) == SlabClass(c, RoundUp(nbytes, align))

EdgeRequests(c, sizes) == Edges(sizes) \cap 1 .. Last(SpanSizes[c])

(* Every request gets the smallest class that holds it (tsalloc_config.h:67) *)
SmallestClass(c) ==
    /\ \A n \in EdgeRequests(c, SlabSizes[c]) :
          IsSlab(c, n) => Smallest(SlabSizes[c], SlabClass(c, n), n)
    /\ \A n \in EdgeRequests(c, SlabSizes[c]) \cup EdgeRequests(c, SpanSizes[c]) :
          Smallest(SpanSizes[c], SpanClass(c, n), n)

(* A slab is whole pages with room for its blocks and a bit for each, and a *)
(* column holds at least two blocks, so that half of it is something        *)
(* (config.py:94).                                                          *)
SlabsHold(c) ==
    \A i \in DOMAIN SlabSizes[c] :
        LET block == SlabSizes[c][i]
            slab  == SlabSize(c, block)
        IN  /\ SlabBlocks[c][i] * block <= slab
            /\ SpanSizes[c][SpanClass(c, slab) + 1] >= slab
            /\ SlabBlocks[c][i] <= BitmapBits(c)
            /\ TcacheLimit(c, i) >= 2

(* The blocks that answer an aligned request are multiples of the alignment *)
(* and begin at multiples of their size in a slab of pages (tsalloc.c:74).  *)
BlocksAligned(c) ==
    \A n \in EdgeRequests(c, SlabSizes[c]), align \in Aligns(c) :
        IsSlab(c, RoundUp(n, align)) =>
            SlabSizes[c][AlignedClass(c, n, align) + 1] % align = 0

(* Blocks do not overlap, each is within its slab, and a block put back is  *)
(* the one that was got (slab.c:104, 125).  Where a class passes 16 bits    *)
(* this is false of the code: in the 2 MiB profile all blocks of the class  *)
(* of 65536 have one address, and putting one back divides by zero.         *)
BlocksApart(c) ==
    c.slab_alloc_max < 2 ^ 16 =>
        \A i \in DOMAIN SlabSizes[c] :
            LET block == SlabSizes[c][i]
            IN  \A k \in {0, SlabBlocks[c][i] - 1} :
                    /\ BlockIndex(c, i, BlockOffset(c, i, k)) = k
                    /\ BlockOffset(c, i, k + 1) - BlockOffset(c, i, k) >= block
                    /\ BlockOffset(c, i, k) + block <= SlabSize(c, block)

(* The arithmetic of the C side and the tables of the Python side agree.    *)
TablesAgree ==
    \A c \in Profiles :
        SmallestClass(c) /\ SlabsHold(c) /\ BlocksAligned(c) /\ BlocksApart(c)
=============================================================================
