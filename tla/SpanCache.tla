----------------------------- MODULE SpanCache ------------------------------
(***************************************************************************)
(* The span caches of the arenas (scache.c, span.c, internal/bin.h) over   *)
(* the pagetrie they share.  The unit of memory is the page.  A cache runs *)
(* every operation under cache->lock, so an operation is one action; each  *)
(* action is a composition of the functions of the code, which here map a  *)
(* world (the state below) to a world.                                     *)
(*                                                                         *)
(* A span descriptor is named by the address of its span: no operation     *)
(* changes the addr of a descriptor it keeps (span_split cuts on the       *)
(* right, span_coalesce keeps the left descriptor, span_split_aligned      *)
(* recycles the origin for the leftmost piece).                            *)
(***************************************************************************)
EXTENDS Integers, Sequences, FiniteSetsExt

CONSTANTS Arenas,
          NPages,                \* bound: size of the address space
          MapBases,              \* bound: where the OS may place a mapping
          ClassPages,            \* szclass_max_nbytes_span, in pages
          NewSpanClass,          \* default_new_span_szclass
          AllocMax,              \* TSALLOC_ALLOC_MAX, in pages
          AgeMod,                \* 2^28: width of flags.age
          CountMod,              \* 2^64: width of bin.nspans
          AllowCrossOrigin,      \* allow_cross_origin_merge
          UnmapOnTermination,    \* unmap_on_termination
          Gets,                  \* bound: <<class, slab?>> asked of scache_get_span
          AlignedGets,           \* bound: <<align, class>> asked of .._aligned
          SlabAllocMax,          \* slab_alloc_max, in pages
          SlabClassOf,           \* szclass_of_nbytes_slab, at whole pages
          Faults,                \* which calls may fail
          Null

Page == 0 .. NPages - 1

Class == DOMAIN ClassPages

NoClass == -1

ASSUME SpanCacheAssumption ==
    /\ NPages \in Nat \ {0} /\ MapBases \subseteq Page
    /\ Cardinality(Class) \in Nat \ {0} /\ Class = 0 .. Cardinality(Class) - 1
    /\ ClassPages \in [Class -> Nat \ {0}] /\ ClassPages[0] = 1
    /\ \A j, k \in Class : j < k => ClassPages[j] < ClassPages[k]
    /\ \A n \in 1 .. NPages : \E k \in Class : n <= ClassPages[k]
    /\ NewSpanClass \in Class
    /\ AllocMax \in Nat /\ AgeMod \in Nat \ {0} /\ CountMod \in Nat \ {0}
    /\ AllowCrossOrigin \in BOOLEAN /\ UnmapOnTermination \in BOOLEAN
    /\ Gets \subseteq Class \X BOOLEAN
    /\ AlignedGets \subseteq (Nat \ {0}) \X Class
    /\ SlabAllocMax \in Nat /\ SlabClassOf \in [1 .. SlabAllocMax -> Nat]
    /\ Faults \subseteq {"spanpool", "slabpool", "pagetrie", "madvise", "unmap"}
    /\ Null \notin Page

States == {"CLEAN", "DIRTY", "RETAINED"}

VARIABLES span,       \* descriptors, by address; Null: none
          pagetrie,   \* page -> address of a descriptor; Null: no entry
          bucket,     \* the three heaps of each bin of each arena
          nspans,     \* bin.nspans
          epoch_min,  \* bin.epoch_min_nspans
          bitmap,     \* the nonempty classes, as scache.bitmap has them
          epoch,      \* scache.epoch, the age of the next mapping
          origins,    \* the list of records, head first
          mappings,   \* what auxil_map gave the caches: [arena, addr, npages]
          stranded,   \* what a failed rollback left mapped, in no cache
          held,       \* what the callers hold, with the request
          crashed     \* a null or freed pointer was dereferenced

vars == <<span, pagetrie, bucket, nspans, epoch_min, bitmap, epoch, origins,
          mappings, stranded, held, crashed>>

Now == [span |-> span, pagetrie |-> pagetrie, bucket |-> bucket,
        nspans |-> nspans, epoch_min |-> epoch_min, bitmap |-> bitmap,
        epoch |-> epoch, origins |-> origins, mappings |-> mappings,
        crashed |-> crashed]

(* No step follows a wild dereference. *)
Become(w) == /\ ~crashed
             /\ span' = w.span         /\ pagetrie' = w.pagetrie
             /\ bucket' = w.bucket     /\ nspans' = w.nspans
             /\ epoch_min' = w.epoch_min
             /\ bitmap' = w.bitmap     /\ epoch' = w.epoch
             /\ origins' = w.origins   /\ mappings' = w.mappings
             /\ crashed' = w.crashed

Init == /\ span = [p \in Page |-> Null]
        /\ pagetrie = [p \in Page |-> Null]
        /\ bucket = [b \in Arenas \X Class |-> [s \in States |-> {}]]
        /\ nspans = [b \in Arenas \X Class |-> 0]
        /\ epoch_min = [b \in Arenas \X Class |-> 0]
        /\ bitmap = [ar \in Arenas |-> {}]
        /\ epoch = [ar \in Arenas |-> 0]
        /\ origins = [ar \in Arenas |-> <<>>]
        /\ mappings = {}
        /\ stranded = {}
        /\ held = {}
        /\ crashed = FALSE

-----------------------------------------------------------------------------
(* Size classes *)

(* tsconfig_get_span_szclass: rounds up *)
SpanClass(n) == Min({k \in Class : ClassPages[k] >= n})

(* Mutant: the search starts one class too low. *)
FindFromBelow(w, ar, k) ==
    LET found == {i \in w.bitmap[ar] : i >= k - 1}
    IN  IF found = {} THEN NoClass ELSE Min(found)

FindNonemptyBin(w, ar, k) ==
    LET found == {i \in w.bitmap[ar] : i >= k}
    IN  IF found = {} THEN NoClass ELSE Min(found)

-----------------------------------------------------------------------------
(* Bins *)

BinOf(w, a) == <<w.span[a].arena, w.span[a].szclass>>

BinEmpty(w, b) == \A s \in States : w.bucket[b][s] = {}

SyncBitmap(w, b) ==
    IF BinEmpty(w, b) THEN [w EXCEPT !.bitmap[b[1]] = @ \ {b[2]}] ELSE w

Unretained(w, a) ==
    [w EXCEPT !.span[a].state = IF @ = "RETAINED" THEN "DIRTY" ELSE @]

(* Mutant: nspans is not counted up. *)
BinPutUncounted(w, a) ==
    LET b == BinOf(w, a)
        s == IF w.span[a].state = "RETAINED" THEN "RETAINED" ELSE "DIRTY"
    IN  [w EXCEPT !.span[a].state = s,
                  !.bucket[b][s] = @ \cup {a},
                  !.bitmap[b[1]] = @ \cup {b[2]}]

(* The insertion of a span into heap s of bin b *)
PutInto(w, a, b, s) ==
    [w EXCEPT !.span[a].state = s,
              !.bucket[b][s] = @ \cup {a},
              !.nspans[b] = (@ + 1) % CountMod,
              !.bitmap[b[1]] = @ \cup {b[2]}]

BinPut(w, a) ==
    PutInto(w, a, BinOf(w, a), IF w.span[a].state = "RETAINED" THEN "RETAINED" ELSE "DIRTY")

(* bin_remove_span: bucket_remove of a span that is in no heap is a no-op,  *)
(* the count goes down all the same, and the low-water mark stays.          *)
BinRemove(w, a) ==
    LET b == BinOf(w, a)
    IN  SyncBitmap(Unretained([w EXCEPT !.bucket[b][w.span[a].state] = @ \ {a},
                                        !.nspans[b] = (@ - 1) % CountMod], a), b)

(* The heap order of bucket.c: age, then address. *)
Oldest(w, S) ==
    CHOOSE a \in S : \A b \in S \ {a} :
        \/ w.span[a].age < w.span[b].age
        \/ w.span[a].age = w.span[b].age /\ a < b

FirstBucket(w, b) == IF w.bucket[b]["CLEAN"] # {} THEN "CLEAN"
                     ELSE IF w.bucket[b]["DIRTY"] # {} THEN "DIRTY"
                     ELSE "RETAINED"

NextOut(w, b) == Oldest(w, w.bucket[b][FirstBucket(w, b)])

(* Mutant: the bit of an emptied bin stays. *)
BinPopKeepsBit(w, b) ==
    LET a == NextOut(w, b)
        n == (w.nspans[b] - 1) % CountMod
    IN  Unretained([w EXCEPT !.bucket[b][FirstBucket(w, b)] = @ \ {a},
                             !.nspans[b] = n,
                             !.epoch_min[b] = IF @ > n THEN n ELSE @], a)

BinPop(w, b) ==
    LET a == NextOut(w, b)
        n == (w.nspans[b] - 1) % CountMod
    IN  SyncBitmap(Unretained([w EXCEPT !.bucket[b][FirstBucket(w, b)] = @ \ {a},
                                        !.nspans[b] = n,
                                        !.epoch_min[b] = IF @ > n THEN n ELSE @],
                              a), b)

-----------------------------------------------------------------------------
(* Pagetrie and records *)

Extent(w, a) == a .. (a + w.span[a].nbytes - 1)

PagetrieInsert(w, a) ==
    [w EXCEPT !.pagetrie = [p \in Page |-> IF p \in Extent(w, a) THEN a ELSE @[p]]]

PagetrieLookup(w, p) == IF p \in Page THEN w.pagetrie[p] ELSE Null

(* The list runs through span->record: a neighbour in the list that is     *)
(* freed or lost its record is a wild pointer.                             *)
Linked(w, a) == w.span[a] # Null /\ w.span[a].record # 0

RecordsPush(w, ar, a) ==
    LET list == w.origins[ar]
    IN  [w EXCEPT !.origins[ar] = <<a>> \o @,
                  !.crashed = @ \/ (list # <<>> /\ ~Linked(w, list[1]))]

RecordsRemove(w, ar, a) ==
    LET list == w.origins[ar]
        i    == CHOOSE j \in DOMAIN list : list[j] = a
    IN  [w EXCEPT !.origins[ar] = SubSeq(list, 1, i - 1)
                                  \o SubSeq(list, i + 1, Len(list)),
                  !.crashed = @ \/ \E j \in {i - 1, i + 1} \cap DOMAIN list :
                                       ~Linked(w, list[j])]

-----------------------------------------------------------------------------
(* Spans *)

(* span_create, pagetrie_insert and records_push of scache_mint_span, for  *)
(* a mapping of class k that the OS placed at base.                        *)
MintSpan(w, ar, k, base) ==
    LET n  == ClassPages[k]
        w1 == [w EXCEPT
                 !.span[base] = [age |-> w.epoch[ar], szclass |-> k, arena |-> ar,
                                 state |-> "CLEAN", is_slab |-> FALSE,
                                 is_alloc |-> FALSE, nbytes |-> n,
                                 record |-> IF UnmapOnTermination THEN n ELSE 0],
                 !.epoch[ar] = (@ + 1) % AgeMod,
                 !.mappings = @ \cup {[arena |-> ar, addr |-> base, npages |-> n]}]
        w2 == PagetrieInsert(w1, base)
    IN  IF UnmapOnTermination THEN RecordsPush(w2, ar, base) ELSE w2

MintClass(k) == IF NewSpanClass > k THEN NewSpanClass ELSE k

MappedPages(M) == UNION {m.addr .. (m.addr + m.npages - 1) : m \in M}

(* The OS places a mapping clear of all that is still mapped. *)
FreeRuns(n) ==
    {b \in MapBases :
        b .. (b + n - 1) \subseteq Page \ MappedPages(mappings \cup stranded)}

(* A descriptor cut from a at address b; only coordinates and flags are     *)
(* carried over, the record is not.                                        *)
Piece(w, a, n, k) ==
    [w.span[a] EXCEPT !.szclass = k, !.nbytes = n, !.record = 0]

(* span_split: the right end of the span becomes the new span *)
CutAddr(w, a, k) == a + w.span[a].nbytes - ClassPages[k]

(* Mutant: the remainder keeps its length. *)
CutoutKeepsLength(w, a, k) ==
    LET n    == ClassPages[k]
        c    == CutAddr(w, a, k)
        w1   == [w EXCEPT !.span[c] = Piece(w, a, n, k)]
    IN  PagetrieInsert(BinPut(w1, a), c)

CutoutSpan(w, a, k) ==
    LET n    == ClassPages[k]
        rest == w.span[a].nbytes - n
        c    == CutAddr(w, a, k)
        w1   == [w EXCEPT !.span[c] = Piece(w, a, n, k),
                          !.span[a].nbytes = rest,
                          !.span[a].szclass = SpanClass(rest)]
    IN  PagetrieInsert(IF rest = 0 THEN w ELSE BinPut(w1, a), c)

AlignUp(a, align) == ((a + align - 1) \div align) * align

(* Mutant: a left piece is made even if the origin is aligned. *)
SplitAlwaysLeft(w, a, align, k) ==
    LET n  == ClassPages[k]
        s  == AlignUp(a, align)
        r  == s + n
        nr == w.span[a].nbytes - (s - a) - n
        w1 == [w EXCEPT !.span[r] = Piece(w, a, nr, SpanClass(nr)),
                        !.span[s] = Piece(w, a, n, k),
                        !.span[a] = Piece(w, a, s - a, SpanClass(s - a))]
    IN  PagetrieInsert(PagetrieInsert(w1, s), r)

(* span_split_aligned and what scache_get_span_aligned does with the       *)
(* pieces: the aligned span, a right remainder and perhaps a left one.     *)
SplitAligned(w, a, align, k) ==
    LET n   == ClassPages[k]
        s   == AlignUp(a, align)
        r   == s + n
        nr  == w.span[a].nbytes - (s - a) - n
        w1  == [w EXCEPT !.span[r] = Piece(w, a, nr, SpanClass(nr)),
                         !.span[s] = Piece(w, a, n, k)]
        w2  == BinPut(PagetrieInsert(PagetrieInsert(w1, s), r), r)
        w3  == [w2 EXCEPT !.span[a] = Piece(w, a, s - a, SpanClass(s - a))]
    IN  IF s = a THEN w2 ELSE BinPut(PagetrieInsert(w3, a), a)

(* Mutant: an allocated left neighbour counts as free. *)
CanMergeAllocated(w, l, r) ==
    /\ l # Null /\ r # Null
    /\ ~w.span[r].is_alloc
    /\ w.span[l].arena = w.span[r].arena
    /\ l + w.span[l].nbytes = r
    /\ AllowCrossOrigin \/ w.span[l].age = w.span[r].age

(* Mutant: spans of different mappings merge whatever the configuration. *)
CanMergeAnyOrigin(w, l, r) ==
    /\ l # Null /\ r # Null
    /\ ~w.span[l].is_alloc /\ ~w.span[r].is_alloc
    /\ w.span[l].arena = w.span[r].arena
    /\ l + w.span[l].nbytes = r

CanMerge(w, l, r) ==
    /\ l # Null /\ r # Null
    /\ ~w.span[l].is_alloc /\ ~w.span[r].is_alloc
    /\ w.span[l].arena = w.span[r].arena
    /\ l + w.span[l].nbytes = r
    /\ w.span[l].nbytes + w.span[r].nbytes <= AllocMax
    /\ AllowCrossOrigin \/ w.span[l].age = w.span[r].age

(* span_coalesce: the record of r, if any, moves to l *)
CoalesceRecords(w, l, r) ==
    LET ar == w.span[l].arena
        n  == w.span[r].record
        w1 == [w EXCEPT !.span[l].record = @ + n]
        w2 == IF w.span[l].record = 0 THEN RecordsPush(w1, ar, l) ELSE w1
    IN  IF n = 0 THEN w ELSE RecordsRemove(w2, ar, r)

SpanCoalesce(w, l, r) ==
    LET sl == w.span[l]
        sr == w.span[r]
        n  == sl.nbytes + sr.nbytes
        w1 == CoalesceRecords(w, l, r)
    IN  [w1 EXCEPT
           !.span[l] = [@ EXCEPT
              !.age = IF sl.age < sr.age THEN sl.age ELSE sr.age,
              !.szclass = SpanClass(n),
              !.state = IF "RETAINED" \in {sl.state, sr.state} THEN "RETAINED"
                        ELSE IF "DIRTY" \in {sl.state, sr.state} THEN "DIRTY"
                        ELSE "CLEAN",
              !.nbytes = n],
           !.span[r] = Null]

LeftOf(w, a) == PagetrieLookup(w, a - 1)

RightOf(w, a) == PagetrieLookup(w, a + w.span[a].nbytes)

(* Mutant: the merged span is not entered. *)
MergeAdjUnindexed(w, a) ==
    LET l  == LeftOf(w, a)
        r  == RightOf(w, a)
        w1 == IF CanMerge(w, l, a) THEN BinRemove(w, l) ELSE w
        w2 == IF CanMerge(w, a, r) THEN BinRemove(w1, r) ELSE w1
        w3 == IF CanMerge(w, l, a) THEN SpanCoalesce(w2, l, a) ELSE w2
        m  == IF CanMerge(w, l, a) THEN l ELSE a
    IN  IF CanMerge(w, a, r) THEN SpanCoalesce(w3, m, r) ELSE w3

(* Mutant: the right neighbour stays in its bin. *)
MergeAdjKeepsBinned(w, a) ==
    LET l  == LeftOf(w, a)
        r  == RightOf(w, a)
        w1 == IF CanMerge(w, l, a) THEN SpanCoalesce(BinRemove(w, l), l, a) ELSE w
        m  == IF CanMerge(w, l, a) THEN l ELSE a
        w2 == IF CanMerge(w, a, r) THEN SpanCoalesce(w1, m, r) ELSE w1
    IN  PagetrieInsert(w2, m)

(* Mutant: only the left neighbour is looked at. *)
MergeAdjLeftOnly(w, a) ==
    LET l == LeftOf(w, a)
    IN  IF CanMerge(w, l, a)
        THEN PagetrieInsert(SpanCoalesce(BinRemove(w, l), l, a), l)
        ELSE w

(* scache_merge_adj: both neighbours leave their bins before either merge *)
MergeAdj(w, a) ==
    LET l  == LeftOf(w, a)
        r  == RightOf(w, a)
        ml == CanMerge(w, l, a)
        mr == CanMerge(w, a, r)
        w1 == IF ml THEN BinRemove(w, l) ELSE w
        w2 == IF mr THEN BinRemove(w1, r) ELSE w1
        w3 == IF ml THEN SpanCoalesce(w2, l, a) ELSE w2
        m  == IF ml THEN l ELSE a
        w4 == IF mr THEN SpanCoalesce(w3, m, r) ELSE w3
    IN  PagetrieInsert(w4, m)

MergedAddr(w, a) == IF CanMerge(w, LeftOf(w, a), a) THEN LeftOf(w, a) ELSE a

-----------------------------------------------------------------------------
(* scache_get_span *)

(* Where the span comes from: a pop of the best bin, or else a new mapping. *)
(* A bit set for an empty bin gives no span (see PopNull).                 *)
Sources(ar, k) ==
    LET i == FindNonemptyBin(Now, ar, k)
        b == <<ar, i>>
    IN  IF i = NoClass
        THEN {[w |-> MintSpan(Now, ar, MintClass(k), base), a |-> base] :
                 base \in FreeRuns(ClassPages[MintClass(k)])}
        ELSE IF BinEmpty(Now, b) THEN {}
        ELSE {[w |-> BinPop(Now, b), a |-> NextOut(Now, b)]}

IsOverfit(ar, k) == LET i == FindNonemptyBin(Now, ar, k)
                    IN  IF i = NoClass THEN NewSpanClass > k ELSE i > k

(* The source trimmed to the class asked for *)
Fitted(ar, k, o) ==
    IF IsOverfit(ar, k)
    THEN [w |-> CutoutSpan(o.w, o.a, k), a |-> CutAddr(o.w, o.a, k)]
    ELSE o

Deliver(w, a, k, slab, align) ==
    /\ Become([w EXCEPT !.span[a].is_alloc = TRUE, !.span[a].is_slab = slab])
    /\ held' = held \cup {[addr |-> a, class |-> k, align |-> align]}
    /\ UNCHANGED stranded

GetSpan(ar, k, slab) ==
    \E o \in Sources(ar, k) :
        Deliver(Fitted(ar, k, o).w, Fitted(ar, k, o).a, k, slab, 1)

(* Mutant: the source is not binned again. *)
NoDescriptorLeaks(ar, k) ==
    /\ "spanpool" \in Faults
    /\ IsOverfit(ar, k)
    /\ \E o \in Sources(ar, k) : Become(o.w)
    /\ UNCHANGED <<held, stranded>>

(* Mutant: the source is shortened before the descriptor is asked for. *)
NoDescriptorShortens(ar, k) ==
    /\ "spanpool" \in Faults
    /\ IsOverfit(ar, k)
    /\ \E o \in Sources(ar, k) :
          Become(BinPut([o.w EXCEPT !.span[o.a].nbytes = @ - ClassPages[k]], o.a))
    /\ UNCHANGED <<held, stranded>>

(* spanpool cannot give a descriptor for the cut: the source is binned. *)
GetSpanNoDescriptor(ar, k) ==
    /\ "spanpool" \in Faults
    /\ IsOverfit(ar, k)
    /\ \E o \in Sources(ar, k) : Become(BinPut(o.w, o.a))
    /\ UNCHANGED <<held, stranded>>

(* slabpool cannot give slab metadata: the cut itself is binned. *)
GetSpanNoSlab(ar, k) ==
    /\ "slabpool" \in Faults
    /\ \E o \in Sources(ar, k) :
          Become(BinPut(Fitted(ar, k, o).w, Fitted(ar, k, o).a))
    /\ UNCHANGED <<held, stranded>>

(* span_destroy of a new span: its memory and its descriptor go back.  If  *)
(* auxil_unmap fails, both stay, and the caller drops them.                *)
SpanDestroy(m) == \/ UNCHANGED stranded
                  \/ "unmap" \in Faults /\ stranded' = stranded \cup {m}

(* Mutant: the entries written before the failure stay. *)
MintStaysIndexed(ar, k) ==
    /\ "pagetrie" \in Faults
    /\ FindNonemptyBin(Now, ar, k) = NoClass
    /\ \E base \in FreeRuns(ClassPages[MintClass(k)]) :
          Become([Now EXCEPT !.pagetrie[base] = base])
    /\ UNCHANGED <<held, stranded>>

(* pagetrie_insert fails and takes back its entries, the new span is        *)
(* destroyed and the result of that ignored.                               *)
MintRolledBack(ar, k) ==
    /\ "pagetrie" \in Faults
    /\ FindNonemptyBin(Now, ar, k) = NoClass
    /\ \E base \in FreeRuns(ClassPages[MintClass(k)]) :
          SpanDestroy([arena |-> ar, addr |-> base, npages |-> ClassPages[MintClass(k)]])
    /\ Become([Now EXCEPT !.epoch[ar] = (@ + 1) % AgeMod])
    /\ UNCHANGED held

(* bin_get_span returns TSALLOC_SUCCESS and a null span, which is used.    *)
PopNull(ar, k) ==
    /\ FindNonemptyBin(Now, ar, k) # NoClass
    /\ BinEmpty(Now, <<ar, FindNonemptyBin(Now, ar, k)>>)
    /\ Become([Now EXCEPT !.crashed = TRUE])
    /\ UNCHANGED <<held, stranded>>

-----------------------------------------------------------------------------
(* scache_get_span_aligned *)

(* tsconfig_get_szclass(..).szclass: a slab class for small sizes *)
AlignedClass(align, k) ==
    LET n == align + ClassPages[k]
    IN  IF n <= SlabAllocMax THEN SlabClassOf[n] ELSE SpanClass(n)

(* A size no class holds is refused before anything is done. *)
ASSUME AlignedGetsAssumption ==
    \A g \in AlignedGets : /\ AlignedClass(g[1], g[2]) \in Class
                          /\ \E k \in Class : g[1] + ClassPages[g[2]] <= ClassPages[k]

SplitFits(o, align, k) == o.w.span[o.a].nbytes >= align + ClassPages[k]

GetSpanAligned(ar, align, k) ==
    \E o \in Sources(ar, AlignedClass(align, k)) :
        /\ SplitFits(o, align, k)
        /\ Deliver(SplitAligned(o.w, o.a, align, k), AlignUp(o.a, align), k,
                   FALSE, align)

(* The split fails: the origin was taken out of its bin and stays out. *)
GetSpanAlignedFails(ar, align, k) ==
    \E o \in Sources(ar, AlignedClass(align, k)) :
        /\ ~SplitFits(o, align, k) \/ "spanpool" \in Faults
        /\ Become(o.w)
        /\ UNCHANGED <<held, stranded>>

-----------------------------------------------------------------------------
(* scache_put_span *)

Released(a) == [Now EXCEPT !.span[a].is_alloc = FALSE, !.span[a].is_slab = FALSE]

PutSpan(h) ==
    LET w == Released(h.addr)
    IN  /\ Become(BinPut(MergeAdj(w, h.addr), MergedAddr(w, h.addr)))
        /\ held' = held \ {h}
        /\ UNCHANGED stranded

(* madvise(UNRETAIN) of a neighbour fails: scache_merge_adj returns, the    *)
(* span and a left neighbour already removed stay in no bin.               *)
PutSpanFails(h) ==
    LET w == Released(h.addr)
        l == LeftOf(w, h.addr)
        r == RightOf(w, h.addr)
        ml == CanMerge(w, l, h.addr)
    IN  /\ "madvise" \in Faults
        /\ \/ ml /\ w.span[l].state = "RETAINED" /\ Become(w)
           \/ /\ CanMerge(w, h.addr, r) /\ w.span[r].state = "RETAINED"
              /\ Become(IF ml THEN BinRemove(w, l) ELSE w)
        /\ held' = held \ {h}
        /\ UNCHANGED stranded

-----------------------------------------------------------------------------
(* scache_decay: bin_decay of every bin retains the oldest dirty spans, as *)
(* many as stayed in the bin all through the epoch.                        *)

Idle(ar, k) ==
    LET D == bucket[<<ar, k>>]["DIRTY"]
        Older(a) == {b \in D \ {a} : Oldest(Now, {a, b}) = b}
    IN  {a \in D : Cardinality(Older(a)) < epoch_min[<<ar, k>>]}

(* lost: the span of a bin whose madvise(RETAIN) fails; it was popped, and *)
(* the bin keeps its bit and its younger spans.                            *)
Decay(ar) ==
    \E lost \in SUBSET UNION {Idle(ar, k) : k \in Class} :
        LET Retire(k) == {a \in Idle(ar, k) : \A b \in lost \cap Idle(ar, k) :
                                                 a # b /\ Oldest(Now, {a, b}) = a}
            Left(k) == (nspans[<<ar, k>>] - Cardinality(lost \cap Idle(ar, k)))
                       % CountMod
            Mine == {ar} \X Class
        IN  /\ ~crashed
            /\ lost = {} \/ "madvise" \in Faults
            /\ \A k \in Class : Cardinality(lost \cap Idle(ar, k)) <= 1
            /\ span' = [a \in Page |->
                          IF \E k \in Class : a \in Retire(k)
                          THEN [span[a] EXCEPT !.state = "RETAINED"] ELSE span[a]]
            /\ bucket' = [b \in DOMAIN bucket |->
                  IF b \notin Mine THEN bucket[b]
                  ELSE [bucket[b] EXCEPT
                          !["DIRTY"] = @ \ (Retire(b[2]) \cup lost),
                          !["RETAINED"] = @ \cup Retire(b[2])]]
            /\ nspans' = [b \in DOMAIN nspans |->
                            IF b \in Mine THEN Left(b[2]) ELSE nspans[b]]
            /\ epoch_min' = [b \in DOMAIN epoch_min |->
                               IF b \in Mine THEN Left(b[2]) ELSE epoch_min[b]]
            /\ UNCHANGED <<pagetrie, bitmap, epoch, origins, mappings, stranded,
                           held, crashed>>

-----------------------------------------------------------------------------
Next == \/ \E ar \in Arenas, g \in Gets :
             \/ GetSpan(ar, g[1], g[2])
             \/ GetSpanNoDescriptor(ar, g[1])
             \/ g[2] /\ GetSpanNoSlab(ar, g[1])
             \/ MintRolledBack(ar, g[1])
             \/ PopNull(ar, g[1])
        \/ \E ar \in Arenas, g \in AlignedGets :
             \/ GetSpanAligned(ar, g[1], g[2])
             \/ GetSpanAlignedFails(ar, g[1], g[2])
             \/ MintRolledBack(ar, AlignedClass(g[1], g[2]))
             \/ PopNull(ar, AlignedClass(g[1], g[2]))
        \/ \E h \in held : PutSpan(h) \/ PutSpanFails(h)
        \/ \E ar \in Arenas : Decay(ar)

Spec == Init /\ [][Next]_vars

-----------------------------------------------------------------------------
Spans == {a \in Page : span[a] # Null}

SpanRecord == [age : 0 .. AgeMod - 1, szclass : Class, arena : Arenas,
               state : States, is_slab : BOOLEAN, is_alloc : BOOLEAN,
               nbytes : 1 .. NPages, record : Nat]

ASSUME NullAssumption == Null \notin SpanRecord

TypeOK == /\ \A a \in Page : span[a] = Null \/ span[a] \in SpanRecord
          /\ pagetrie \in [Page -> Page \cup {Null}]
          /\ bucket \in [Arenas \X Class -> [States -> SUBSET Page]]
          /\ nspans \in [Arenas \X Class -> 0 .. CountMod - 1]
          /\ epoch_min \in [Arenas \X Class -> 0 .. CountMod - 1]
          /\ bitmap \in [Arenas -> SUBSET Class]
          /\ epoch \in [Arenas -> 0 .. AgeMod - 1]
          /\ \A ar \in Arenas : origins[ar] \in Seq(Page)
          /\ mappings \cup stranded
                \subseteq [arena : Arenas, addr : Page, npages : 1 .. NPages]
          /\ held \subseteq [addr : Page, class : Class, align : Nat \ {0}]
          /\ crashed \in BOOLEAN

(* Through any sequence of splits, coalescings and mappings the spans      *)
(* partition the memory that is mapped: no page belongs to two descriptors *)
(* and none is forgotten, but for the mappings whose rollback could not    *)
(* unmap them, which no span ever touches again (span.c:101-114, 150-194,  *)
(* 237-329, 371-382, scache.c:241).                                        *)
SpansTile ==
    /\ UNION {Extent(Now, a) : a \in Spans}
          = MappedPages(mappings \cup stranded) \ MappedPages(stranded)
    /\ \A a, b \in Spans : a # b => Extent(Now, a) \cap Extent(Now, b) = {}

(* The pagetrie gives for every page of a span the descriptor of the span, *)
(* so that a free of any address finds its span and span_get_adj never     *)
(* follows the pointer of a descriptor that coalescing gave back to the    *)
(* pool (scache.c:340, 388, 814-837).  Every other page, and that of a     *)
(* mapping that could be neither entered nor unmapped, has no entry.       *)
PagetrieExact ==
    \A p \in Page : IF p \in MappedPages(mappings)
                    THEN /\ pagetrie[p] \in Spans
                         /\ p \in Extent(Now, pagetrie[p])
                    ELSE pagetrie[p] = Null

(* A span is held by one caller or lies in the one heap of the one bin its *)
(* flags name; no span is lost and none is in two places.                  *)
NothingLost ==
    /\ \A a \in Spans : span[a].is_alloc <=> \E h \in held : h.addr = a
    /\ \A h \in held : h.addr \in Spans
    /\ \A b \in Arenas \X Class, s \in States :
          bucket[b][s] = {a \in Spans : /\ ~span[a].is_alloc /\ span[a].state = s
                                        /\ BinOf(Now, a) = b}

(* The two summaries a search relies on instead of the heaps, the bitmap   *)
(* and the counters, agree with the heaps (scache.c:113, 136, 168).        *)
SummariesExact ==
    \A ar \in Arenas, k \in Class :
        LET b == <<ar, k>>
            all == UNION {bucket[b][s] : s \in States}
        IN  /\ nspans[b] = Cardinality(all)
            /\ k \in bitmap[ar] <=> all # {}

(* Free memory of one mapping is never left in two adjacent pieces: the    *)
(* remainder of a cut and a span put back always find their free           *)
(* neighbours, whatever the order of the puts (scache.c:263-351).          *)
FreeCoalesced ==
    \A a, b \in Spans :
        CanMerge(Now, a, b) => span[a].age # span[b].age

(* A caller gets what it asked for, whatever was split and coalesced       *)
(* before: at least the size of the class, at a multiple of the alignment. *)
SpanFits == \A h \in held : /\ span[h.addr].nbytes >= ClassPages[h.class]
                           /\ h.addr % h.align = 0

(* No operation follows a null or a freed pointer.                         *)
NoWildPointer == ~crashed

(* What scache_destroy would unmap now, record by record. *)
DestroyUnmaps(ar) ==
    {[arena |-> ar, addr |-> origins[ar][i],
      npages |-> IF span[origins[ar][i]] = Null THEN 0
                 ELSE span[origins[ar][i]].record] : i \in DOMAIN origins[ar]}

(* An arena that must unmap explicitly has at every moment one record per  *)
(* mapping, with the address and size of the mapping, however its spans    *)
(* were split and coalesced since.                                         *)
OriginsExact ==
    UnmapOnTermination => \A ar \in Arenas :
        DestroyUnmaps(ar) = {m \in mappings \cup stranded : m.arena = ar}

(* The span caches give their callers an abstract heap: held ranges never  *)
(* overlap, and no operation on other spans changes them.                  *)
Heap == INSTANCE AbstractHeap WITH
            live <- {[addr |-> h.addr, npages |-> span[h.addr].nbytes] : h \in held}

ImplementsHeap == Heap!HSpec
=============================================================================
