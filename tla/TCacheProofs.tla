---------------------------- MODULE TCacheProofs ----------------------------
(***************************************************************************)
(* Proofs about TCache for any number of threads, blocks and classes and   *)
(* for any capacities: until a decay reads below a column every block has  *)
(* one place, and no decay does when a put into a full column keeps all    *)
(* but one of its blocks.                                                  *)
(***************************************************************************)
EXTENDS TCache, DistinctSeqs

(* What a column holds: distinct blocks of its class, no more than fit *)
ColumnOK(col, c) ==
    /\ col \in Column
    /\ Len(col.blocks) <= Capacity[c]
    /\ col.epoch_min_nblocks <= Capacity[c]
    /\ Distinct(col.blocks)
    /\ \A b \in ToSet(col.blocks) : ClassOf[b] = c

CacheOK(tc) ==
    /\ tc \in Cache
    /\ \A c \in Class : /\ ColumnOK(tc.columns[c], c)
                        /\ {tc.alloc, tc.free} \subseteq 0 .. EpochMax - 1

(* The low-water mark of a column does not exceed what it holds. *)
Marked(col) == col.epoch_min_nblocks <= Len(col.blocks)

AllMarked(tc) == \A c \in Class : Marked(tc.columns[c])

(* A put into a full column keeps all but one of its blocks, or all. *)
MarkFits == \A c \in Class : KeptOnFlush(c) + 1 >= Capacity[c]

(* The blocks in the cache of a thread *)
Held(t) == IF cache[t] = NoCache THEN {} ELSE InColumns(cache[t])

Typed == /\ pool \subseteq Blocks /\ user \subseteq Blocks
         /\ isoff \in [Threads -> BOOLEAN]
         /\ stray \in BOOLEAN
         /\ cache \in [Threads -> {NoCache} \cup Cache]
         /\ \A t \in Caching : CacheOK(cache[t])

(* Pool, user and the caches share the blocks out among them. *)
Placed == /\ pool \cup user \cup UNION {Held(t) : t \in Threads} = Blocks
          /\ pool \cap user = {}
          /\ \A t \in Threads : Held(t) \cap (pool \cup user) = {}
          /\ \A t, u \in Threads : t # u => Held(t) \cap Held(u) = {}

Inv == Typed /\ (~stray => Placed)

(* A column read before its first block is what the mark leads to. *)
MarksOK == /\ ~stray
           /\ \A t \in Caching : AllMarked(cache[t])

-----------------------------------------------------------------------------
(* A batch is a sequence of as many distinct blocks of the arenas, of the  *)
(* class asked for.                                                        *)
LEMMA BatchSeq ==
    ASSUME NEW c \in Class, NEW batch \in Batches(c)
    PROVE  /\ batch \in Seq(PoolOf(c)) /\ Len(batch) = RefillCount(c)
           /\ Distinct(batch) /\ ToSet(batch) \subseteq PoolOf(c)
<1>1. RefillCount(c) \in Nat \ {0}
  BY TCacheAssumption DEF RefillCount
<1>2. PICK S \in kSubset(RefillCount(c), PoolOf(c)) : batch \in SetToSeqs(S)
  BY DEF Batches
<1>3. S \subseteq PoolOf(c) /\ Cardinality(S) = RefillCount(c)
  BY DEF kSubset
<1>4. /\ batch \in [1 .. RefillCount(c) -> S]
      /\ \A i, j \in 1 .. RefillCount(c) : i # j => batch[i] # batch[j]
  BY <1>2, <1>3 DEF SetToSeqs
<1>5. batch \in Seq(PoolOf(c)) /\ Len(batch) = RefillCount(c)
  BY <1>1, <1>3, <1>4
<1>6. ToSet(batch) \subseteq PoolOf(c)
  BY <1>5, ToSetSeq
<1> QED
  BY <1>4, <1>5, <1>6 DEF Distinct

-----------------------------------------------------------------------------
(* Columns *)

(* A refilled column holds the batch. *)
LEMMA RefillOK ==
    ASSUME NEW c \in Class, NEW col, ColumnOK(col, c), col.blocks = <<>>,
           pool \subseteq Blocks, NEW batch \in Batches(c)
    PROVE  LET full == [col EXCEPT !.blocks = @ \o batch]
           IN  /\ ColumnOK(full, c) /\ full.blocks = batch /\ batch # <<>>
               /\ Marked(col) => Marked(full)
<1> DEFINE full == [col EXCEPT !.blocks = @ \o batch]
<1>1. /\ batch \in Seq(Blocks) /\ Len(batch) = RefillCount(c) /\ Distinct(batch)
      /\ \A b \in ToSet(batch) : ClassOf[b] = c
      /\ RefillCount(c) \in 1 .. Capacity[c]
  <2>1. /\ batch \in Seq(PoolOf(c)) /\ Len(batch) = RefillCount(c)
        /\ Distinct(batch) /\ ToSet(batch) \subseteq PoolOf(c)
    BY BatchSeq
  <2>2. Capacity[c] \in Nat \ {0, 1}
    BY TCacheAssumption
  <2>3. \A b \in PoolOf(c) : ClassOf[b] = c
    BY DEF PoolOf
  <2>4. batch \in Seq(Blocks)
    BY <2>1 DEF PoolOf
  <2> QED
    BY <2>1, <2>2, <2>3, <2>4 DEF RefillCount
<1>2. full.blocks = batch /\ full.epoch_min_nblocks = col.epoch_min_nblocks /\ full \in Column
  BY <1>1 DEF ColumnOK, Column
<1> HIDE DEF full
<1>3. ColumnOK(full, c) /\ (Marked(col) => Marked(full))
  BY <1>1, <1>2 DEF ColumnOK, Column, Marked
<1> QED
  BY <1>1, <1>2, <1>3 DEF full

(* The last block goes out of a column. *)
LEMMA PopOK ==
    ASSUME NEW c \in Class, NEW col, ColumnOK(col, c), col.blocks # <<>>
    PROVE  /\ ColumnOK(Popped(col), c)
           /\ Last(col.blocks) \in ToSet(col.blocks)
           /\ ToSet(Popped(col).blocks) = ToSet(col.blocks) \ {Last(col.blocks)}
           /\ Marked(Popped(col))
<1>1. /\ col.blocks \in Seq(Blocks) /\ Len(col.blocks) <= Capacity[c]
      /\ Capacity[c] \in Nat /\ col.epoch_min_nblocks \in 0 .. Capacity[c]
      /\ Distinct(col.blocks)
      /\ \A b \in ToSet(col.blocks) : ClassOf[b] = c
  BY TCacheAssumption DEF ColumnOK, Column
<1> DEFINE s == col.blocks
<1>2. /\ Len(s) \in Nat \ {0}
      /\ Front(s) \in Seq(Blocks) /\ Len(Front(s)) = Len(s) - 1
      /\ Distinct(Front(s)) /\ Last(s) \in ToSet(s)
      /\ ToSet(Front(s)) = ToSet(s) \ {Last(s)}
  BY <1>1, FrontSeq
<1>3. /\ Popped(col).blocks = Front(s)
      /\ Popped(col).epoch_min_nblocks \in 0 .. Len(s) - 1
      /\ Popped(col) \in Column
  BY <1>1, <1>2 DEF Popped, Nblocks, Column
<1> QED
  BY <1>1, <1>2, <1>3 DEF ColumnOK, Marked

(* A block goes into a column, which gives back its upper end if it was    *)
(* full; the mark stays in the column if all but one block are kept.       *)
LEMMA PushOK ==
    ASSUME NEW c \in Class, NEW col, ColumnOK(col, c),
           NEW b \in Blocks, ClassOf[b] = c, b \notin ToSet(col.blocks)
    PROVE  /\ ColumnOK(Pushed(col, c, b), c)
           /\ ToSet(Pushed(col, c, b).blocks) \cup Overflow(col, c) = ToSet(col.blocks) \cup {b}
           /\ ToSet(Pushed(col, c, b).blocks) \cap Overflow(col, c) = {}
           /\ MarkFits /\ Marked(col) => Marked(Pushed(col, c, b))
<1> DEFINE s == col.blocks
           k == KeptOnFlush(c)
           kept == IF Len(s) = Capacity[c] THEN SubSeq(s, 1, k) ELSE s
<1>1. /\ s \in Seq(Blocks) /\ Len(s) <= Capacity[c] /\ Len(s) \in Nat
      /\ Capacity[c] \in Nat \ {0, 1} /\ col.epoch_min_nblocks \in 0 .. Capacity[c]
      /\ Distinct(s) /\ \A x \in ToSet(s) : ClassOf[x] = c
  BY TCacheAssumption DEF ColumnOK, Column
<1>2. k \in 1 .. Capacity[c] - 1
  BY <1>1 DEF KeptOnFlush
<1>3. /\ kept \in Seq(Blocks) /\ Len(kept) < Capacity[c] /\ Len(kept) \in Nat
      /\ Distinct(kept)
      /\ ToSet(kept) \cup Overflow(col, c) = ToSet(s)
      /\ ToSet(kept) \cap Overflow(col, c) = {}
  <2>1. CASE Len(s) = Capacity[c]
    <3>1. k \in 0 .. Len(s)
      BY <1>1, <1>2, <2>1
    <3> HIDE DEF k, s
    <3> QED
      BY <1>1, <1>2, <2>1, <3>1, CutSeq DEF Overflow, Nblocks, Upper, s, k
  <2>2. CASE Len(s) # Capacity[c]
    BY <1>1, <2>2 DEF Overflow, Nblocks
  <2> QED
    BY <2>1, <2>2
<1>4. /\ Pushed(col, c, b).blocks = Append(kept, b)
      /\ Pushed(col, c, b).epoch_min_nblocks = col.epoch_min_nblocks
      /\ Pushed(col, c, b) \in Column
  <2>1. Pushed(col, c, b) = [col EXCEPT !.blocks = Append(kept, b)]
    BY DEF Pushed, Nblocks
  <2> HIDE DEF kept
  <2>2. Append(kept, b) \in Seq(Blocks)
    BY <1>3
  <2> QED
    BY <2>1, <2>2 DEF ColumnOK, Column
<1>5. MarkFits /\ Marked(col) => col.epoch_min_nblocks <= Len(kept) + 1
  <2>1. CASE Len(s) = Capacity[c]
    <3>1. Len(kept) = k
      BY <1>1, <1>2, <2>1
    <3> QED
      BY <1>1, <1>2, <2>1, <3>1 DEF MarkFits
  <2>2. CASE Len(s) # Capacity[c]
    BY <1>1, <2>2 DEF Marked
  <2> QED
    BY <2>1, <2>2
<1> HIDE DEF kept, k
<1>6. b \notin ToSet(kept) /\ b \notin Overflow(col, c)
  BY <1>3
<1>7. /\ Len(Append(kept, b)) = Len(kept) + 1 /\ Distinct(Append(kept, b))
      /\ ToSet(Append(kept, b)) = ToSet(kept) \cup {b}
  BY <1>3, <1>6, AppendSeq
<1>8. ColumnOK(Pushed(col, c, b), c)
  BY <1>1, <1>3, <1>4, <1>7 DEF ColumnOK
<1> QED
  BY <1>1, <1>3, <1>4, <1>5, <1>6, <1>7, <1>8 DEF Marked

(* A decay keeps the lower end of a column and gives back the upper. *)
LEMMA DecayOK ==
    ASSUME NEW c \in Class, NEW col, ColumnOK(col, c), ~(KeptOnDecay(col) < 0)
    PROVE  /\ ColumnOK(Decayed(col), c) /\ Marked(Decayed(col))
           /\ ToSet(Decayed(col).blocks) \cup Upper(col.blocks, KeptOnDecay(col))
                = ToSet(col.blocks)
           /\ ToSet(Decayed(col).blocks) \cap Upper(col.blocks, KeptOnDecay(col)) = {}
<1> DEFINE s == col.blocks
           k == KeptOnDecay(col)
<1>1. /\ s \in Seq(Blocks) /\ Len(s) <= Capacity[c] /\ Len(s) \in Nat
      /\ Capacity[c] \in Nat /\ Distinct(s) /\ \A x \in ToSet(s) : ClassOf[x] = c
  BY TCacheAssumption DEF ColumnOK, Column
<1>2. k \in 0 .. Len(s)
  BY <1>1 DEF KeptOnDecay, Nblocks, ColumnOK, Column
<1>3. /\ Decayed(col) = [blocks |-> SubSeq(s, 1, k), epoch_min_nblocks |-> k]
  BY DEF Decayed
<1> HIDE DEF k, s
<1>4. /\ SubSeq(s, 1, k) \in Seq(Blocks) /\ Len(SubSeq(s, 1, k)) = k
      /\ Distinct(SubSeq(s, 1, k))
      /\ ToSet(SubSeq(s, 1, k)) \cup Upper(s, k) = ToSet(s)
      /\ ToSet(SubSeq(s, 1, k)) \cap Upper(s, k) = {}
  BY <1>1, <1>2, CutSeq DEF Upper
<1>5. ColumnOK(Decayed(col), c) /\ Marked(Decayed(col))
  BY <1>1, <1>2, <1>3, <1>4 DEF ColumnOK, Column, Marked
<1> QED
  BY <1>3, <1>4, <1>5 DEF s, k

-----------------------------------------------------------------------------
(* Caches *)

(* The blocks of the other columns *)
Elsewhere(tc, c) == {b \in InColumns(tc) : ClassOf[b] # c}

(* What a cache holds is what the column of a class holds, all of that     *)
(* class, and what the other columns hold, none of it.                     *)
LEMMA InOneColumn ==
    ASSUME NEW tc, CacheOK(tc), NEW c \in Class
    PROVE  /\ InColumns(tc) = Elsewhere(tc, c) \cup ToSet(tc.columns[c].blocks)
           /\ Elsewhere(tc, c) \cap ToSet(tc.columns[c].blocks) = {}
           /\ InColumns(tc) \subseteq Blocks
<1>1. \A d \in Class : \A b \in ToSet(tc.columns[d].blocks) : ClassOf[b] = d /\ b \in Blocks
  <2> SUFFICES ASSUME NEW d \in Class
               PROVE  \A b \in ToSet(tc.columns[d].blocks) : ClassOf[b] = d /\ b \in Blocks
    OBVIOUS
  <2>1. tc.columns[d].blocks \in Seq(Blocks)
    BY DEF CacheOK, ColumnOK, Column
  <2> QED
    BY <2>1, ToSetSeq DEF CacheOK, ColumnOK
<1>2. \A b : b \in InColumns(tc) <=> \E d \in Class : b \in ToSet(tc.columns[d].blocks)
  BY DEF InColumns
<1> QED
  BY <1>1, <1>2 DEF Elsewhere

(* One column of a cache changes. *)
LEMMA ColumnChanges ==
    ASSUME NEW tc, CacheOK(tc), NEW c \in Class, NEW col, ColumnOK(col, c),
           NEW tc2 \in Cache, tc2.columns = [tc.columns EXCEPT ![c] = col],
           {tc2.alloc, tc2.free} \subseteq 0 .. EpochMax - 1
    PROVE  /\ CacheOK(tc2)
           /\ InColumns(tc2) = Elsewhere(tc, c) \cup ToSet(col.blocks)
           /\ AllMarked(tc) /\ Marked(col) => AllMarked(tc2)
<1>1. /\ tc2.columns[c] = col
      /\ \A d \in Class : d # c => tc2.columns[d] = tc.columns[d]
  BY DEF CacheOK, Cache
<1>2. CacheOK(tc2)
  BY <1>1 DEF CacheOK
<1>3. InColumns(tc2) = Elsewhere(tc2, c) \cup ToSet(col.blocks)
  BY <1>1, <1>2, InOneColumn
<1>4. Elsewhere(tc2, c) = Elsewhere(tc, c)
  <2>1. /\ \A d \in Class : \A b \in ToSet(tc.columns[d].blocks) : ClassOf[b] = d
        /\ \A d \in Class : \A b \in ToSet(tc2.columns[d].blocks) : ClassOf[b] = d
    BY <1>2 DEF CacheOK, ColumnOK
  <2>2. \A b : ClassOf[b] # c => (b \in InColumns(tc2) <=> b \in InColumns(tc))
    BY <2>1, <1>1 DEF InColumns
  <2> QED
    BY <2>2 DEF Elsewhere
<1>5. AllMarked(tc) /\ Marked(col) => AllMarked(tc2)
  BY <1>1 DEF AllMarked
<1> QED
  BY <1>2, <1>3, <1>4, <1>5

(* The decay of every column *)
DecayedCache(tc) == [tc EXCEPT !.columns = [c \in Class |-> Decayed(@[c])]]

LEMMA DecayCache ==
    ASSUME NEW tc, CacheOK(tc), ~DecayStrays(tc)
    PROVE  /\ CacheOK(DecayedCache(tc)) /\ AllMarked(DecayedCache(tc))
           /\ InColumns(DecayedCache(tc)) \cup Stale(tc) = InColumns(tc)
           /\ InColumns(DecayedCache(tc)) \cap Stale(tc) = {}
<1> DEFINE tc2 == DecayedCache(tc)
           col(c) == tc.columns[c]
           kept(c) == ToSet(Decayed(col(c)).blocks)
           back(c) == Upper(col(c).blocks, KeptOnDecay(col(c)))
<1>1. \A c \in Class : /\ ColumnOK(Decayed(col(c)), c) /\ Marked(Decayed(col(c)))
                        /\ kept(c) \cup back(c) = ToSet(col(c).blocks)
                        /\ kept(c) \cap back(c) = {}
  BY DecayOK DEF CacheOK, DecayStrays
<1>2. /\ tc2 \in Cache /\ tc2.alloc = tc.alloc /\ tc2.free = tc.free
      /\ \A c \in Class : tc2.columns[c] = Decayed(col(c))
  BY <1>1 DEF DecayedCache, CacheOK, Cache, ColumnOK
<1>3. CacheOK(tc2) /\ AllMarked(tc2)
  BY <1>1, <1>2 DEF CacheOK, AllMarked
<1>4. /\ InColumns(tc2) = UNION {kept(c) : c \in Class}
      /\ Stale(tc) = UNION {back(c) : c \in Class}
      /\ InColumns(tc) = UNION {ToSet(col(c).blocks) : c \in Class}
  BY <1>2 DEF InColumns, Stale
<1>5. \A c \in Class : \A b \in ToSet(col(c).blocks) : ClassOf[b] = c
  BY DEF CacheOK, ColumnOK
<1> HIDE DEF kept, back, tc2
<1>6. InColumns(tc2) \cup Stale(tc) = InColumns(tc)
  BY <1>1, <1>4
<1>7. InColumns(tc2) \cap Stale(tc) = {}
  BY <1>1, <1>4, <1>5
<1> QED
  BY <1>3, <1>6, <1>7 DEF tc2

-----------------------------------------------------------------------------
(* Steps *)

(* Blocks move between the pool, the program and the cache of one thread. *)
LEMMA MovePlaces ==
    ASSUME Typed, Placed, NEW t \in Threads, NEW tc, tc = NoCache \/ CacheOK(tc),
           NEW held, held = IF tc = NoCache THEN {} ELSE InColumns(tc),
           cache' = [cache EXCEPT ![t] = tc],
           pool' \cup user' \cup held = pool \cup user \cup Held(t),
           pool' \cap user' = {}, held \cap (pool' \cup user') = {}
    PROVE  Placed' /\ pool' \subseteq Blocks /\ user' \subseteq Blocks
<1>1. /\ Held(t)' = held
      /\ \A u \in Threads : u # t => Held(u)' = Held(u)
  BY DEF Typed, Held
<1>2. \A b : b \in UNION {Held(u) : u \in Threads} <=> \E u \in Threads : b \in Held(u)
  OBVIOUS
<1>3. \A b : b \in UNION {Held(u)' : u \in Threads} <=> \E u \in Threads : b \in Held(u)'
  OBVIOUS
<1>4. \A u \in Threads : u # t => Held(u)' \cap (pool \cup user \cup Held(t)) = {}
  BY <1>1 DEF Placed
<1>5. pool' \cup user' \cup UNION {Held(u)' : u \in Threads}
        = pool \cup user \cup UNION {Held(u) : u \in Threads}
  BY <1>1, <1>2, <1>3
<1>6. Placed'
  BY <1>1, <1>4, <1>5 DEF Placed
<1> QED
  BY <1>5, <1>6 DEF Placed

(* The cache a call works on, empty when the call makes it *)
LEMMA CacheOfOK ==
    ASSUME Typed, NEW t \in Threads, NEW c \in Class
    PROVE  /\ CacheOK(CacheOf(t)) /\ InColumns(CacheOf(t)) = Held(t)
           /\ (\A u \in Caching : AllMarked(cache[u])) => AllMarked(CacheOf(t))
<1>1. EpochMax \in Nat /\ EpochMax >= 2 /\ \A d \in Class : Capacity[d] \in Nat
  <2>1. Nbytes[c] \in 1 .. (EpochMax \div 2) /\ EpochMax \in Nat
    BY TCacheAssumption
  <2> QED
    BY <2>1, TCacheAssumption
<1>2. CASE cache[t] = NoCache
  <2> DEFINE none == [blocks |-> <<>>, epoch_min_nblocks |-> 0]
  <2>1. \A d \in Class : ColumnOK(none, d) /\ Marked(none)
    BY <1>1 DEF ColumnOK, Column, Distinct, ToSet, Marked
  <2>2. none.blocks = <<>> /\ ToSet(<<>>) = {} /\ none \in Column
    BY DEF Column, ToSet
  <2>3. /\ EmptyCache \in Cache /\ EmptyCache.alloc = 0 /\ EmptyCache.free = 0
        /\ \A d \in Class : EmptyCache.columns[d] = none
    BY <2>2 DEF EmptyCache, Cache
  <2> HIDE DEF none
  <2>4. CacheOK(EmptyCache) /\ AllMarked(EmptyCache)
    BY <1>1, <2>1, <2>3 DEF CacheOK, AllMarked
  <2>5. InColumns(EmptyCache) = {}
    BY <2>2, <2>3 DEF InColumns
  <2> QED
    BY <1>2, <2>4, <2>5 DEF CacheOf, Held
<1>3. CASE cache[t] # NoCache
  BY <1>3 DEF CacheOf, Held, Typed, Caching
<1> QED
  BY <1>2, <1>3

(* A counter that does not end the epoch stays below its maximum. *)
LEMMA CountedBelow ==
    ASSUME NEW c \in Class, NEW n \in 0 .. EpochMax - 1
    PROVE  Counted(n, c) \in 0 .. EpochMax - 1
<1>1. /\ EpochMax \in Nat /\ Nbytes[c] \in Nat /\ EpochMax > 0
  BY TCacheAssumption
<1> QED
  BY <1>1 DEF Counted, EndsEpoch

(* What a call leaves is stored, decayed if it ends an epoch. *)
LEMMA StoreKeeps ==
    ASSUME Typed, ~stray, Placed, NEW t \in Threads, NEW tc, CacheOK(tc),
           NEW p, NEW ends \in BOOLEAN, Store(t, tc, p, ends),
           isoff' = isoff, user' \subseteq Blocks,
           p \cup user' \cup InColumns(tc) = pool \cup user \cup Held(t),
           p \cap user' = {}, InColumns(tc) \cap (p \cup user') = {}
    PROVE  /\ Inv'
           /\ AllMarked(tc) /\ MarksOK => MarksOK'
<1>1. CASE ends /\ DecayStrays(tc)
  <2>1. stray' = TRUE /\ UNCHANGED <<cache, pool>>
    BY <1>1 DEF Store
  <2>2. AllMarked(tc) => ~DecayStrays(tc)
    BY DEF AllMarked, Marked, DecayStrays, KeptOnDecay, Nblocks, CacheOK, ColumnOK, Column
  <2> QED
    BY <1>1, <2>1, <2>2 DEF Inv, Typed, Caching
<1>2. CASE ~(ends /\ DecayStrays(tc))
  <2> DEFINE tc2 == IF ends THEN DecayedCache(tc) ELSE tc
  <2>1. cache' = [cache EXCEPT ![t] = tc2] /\ stray' = stray
    BY <1>2 DEF Store, DecayedCache
  <2>2. pool' = IF ends THEN p \cup Stale(tc) ELSE p
    BY <1>2 DEF Store
  <2>3. /\ CacheOK(tc2) /\ (AllMarked(tc) => AllMarked(tc2))
        /\ InColumns(tc2) \cup pool' = InColumns(tc) \cup p
        /\ InColumns(tc2) \cap (pool' \cup user') = {}
        /\ pool' \cap user' = {}
    <3>1. CASE ends
      <4>1. /\ CacheOK(tc2) /\ AllMarked(tc2)
            /\ InColumns(tc2) \cup Stale(tc) = InColumns(tc)
            /\ InColumns(tc2) \cap Stale(tc) = {}
        BY <1>2, <3>1, DecayCache
      <4>2. pool' = p \cup Stale(tc)
        BY <2>2, <3>1
      <4> HIDE DEF tc2
      <4> QED
        BY <4>1, <4>2
    <3>2. CASE ~ends
      BY <2>2, <3>2
    <3> QED
      BY <3>1, <3>2
  <2> HIDE DEF tc2
  <2>4. tc2 \in Cache /\ tc2 # NoCache
    BY <2>3, TCacheAssumption DEF CacheOK
  <2>5. Placed' /\ pool' \subseteq Blocks /\ user' \subseteq Blocks
    <3>1. pool' \cup user' \cup InColumns(tc2) = pool \cup user \cup Held(t)
      BY <2>3
    <3> QED
      BY <2>1, <2>3, <2>4, <3>1, MovePlaces
  <2>6. cache' \in [Threads -> {NoCache} \cup Cache] /\ \A u \in Caching' : CacheOK(cache'[u])
    BY <2>1, <2>3, <2>4 DEF Typed, Caching
  <2>7. AllMarked(tc) /\ MarksOK => MarksOK'
    BY <2>1, <2>3 DEF MarksOK, Caching, Typed
  <2> QED
    BY <2>1, <2>5, <2>6, <2>7 DEF Inv, Typed, Caching
<1> QED
  BY <1>1, <1>2
(* An allocation through the cache *)
LEMMA AllocKeeps ==
    ASSUME Inv, NEW t \in Threads, NEW c \in Class, Alloc(t, c)
    PROVE  Inv' /\ (MarksOK => MarksOK')
<1> DEFINE tc  == CacheOf(t)
           col == tc.columns[c]
           k   == Counted(tc.alloc, c)
<1>1. PICK batch \in IF col.blocks = <<>> THEN Batches(c) ELSE {<<>>} :
         LET full == [col EXCEPT !.blocks = @ \o batch]
         IN  /\ user' = user \cup {Last(full.blocks)}
             /\ Store(t, [tc EXCEPT !.columns[c] = Popped(full), !.alloc = k],
                      pool \ ToSet(batch), EndsEpoch(tc.alloc, c))
  BY DEF Alloc
<1> DEFINE full == [col EXCEPT !.blocks = @ \o batch]
           tc2  == [tc EXCEPT !.columns[c] = Popped(full), !.alloc = k]
<1>2. Typed /\ ~stray /\ Placed /\ isoff' = isoff
  BY DEF Alloc, Inv
<1>3. /\ CacheOK(tc) /\ InColumns(tc) = Held(t)
      /\ MarksOK => AllMarked(tc)
  BY <1>2, CacheOfOK DEF MarksOK
<1>4. ColumnOK(col, c)
  BY <1>3 DEF CacheOK
<1> HIDE DEF tc
<1>5. /\ ColumnOK(full, c) /\ full.blocks # <<>>
      /\ ToSet(full.blocks) = ToSet(col.blocks) \cup ToSet(batch)
      /\ ToSet(batch) \subseteq pool
      /\ Marked(col) => Marked(full)
  <2>1. CASE col.blocks = <<>>
    <3>1. batch \in Batches(c) /\ pool \subseteq Blocks
      BY <1>1, <1>2, <2>1 DEF Typed
    <3>2. ToSet(batch) \subseteq pool
      BY <3>1, BatchSeq DEF PoolOf
    <3>3. ToSet(col.blocks) = {}
      BY <2>1 DEF ToSet
    <3> HIDE DEF col
    <3> QED
      BY <1>4, <2>1, <3>1, <3>2, <3>3, RefillOK
  <2>2. CASE col.blocks # <<>>
    <3>1. batch = <<>> /\ ToSet(batch) = {}
      BY <1>1, <2>2 DEF ToSet
    <3>2. full = col
      <4>1. col \in Column
        BY <1>4 DEF ColumnOK
      <4> HIDE DEF col
      <4>2. col.blocks \o batch = col.blocks
        BY <3>1, <4>1 DEF Column
      <4> QED
        BY <4>1, <4>2 DEF Column
    <3> HIDE DEF col, full
    <3> QED
      BY <1>4, <2>2, <3>1, <3>2
  <2> QED
    BY <2>1, <2>2
<1> HIDE DEF full
<1>6. /\ ColumnOK(Popped(full), c) /\ Last(full.blocks) \in ToSet(full.blocks)
      /\ ToSet(Popped(full).blocks) = ToSet(full.blocks) \ {Last(full.blocks)}
      /\ Marked(Popped(full))
  BY <1>5, PopOK
<1>7. k \in 0 .. EpochMax - 1 /\ k \in Nat
  BY <1>3, CountedBelow, TCacheAssumption DEF CacheOK
<1>8. /\ tc2 \in Cache /\ tc2.columns = [tc.columns EXCEPT ![c] = Popped(full)]
      /\ {tc2.alloc, tc2.free} \subseteq 0 .. EpochMax - 1
  <2> HIDE DEF k
  <2>1. tc \in Cache /\ Popped(full) \in Column /\ {tc.alloc, tc.free} \subseteq 0 .. EpochMax - 1
    BY <1>3, <1>6 DEF CacheOK, ColumnOK
  <2> QED
    BY <1>7, <2>1 DEF Cache
<1>9. Store(t, tc2, pool \ ToSet(batch), EndsEpoch(tc.alloc, c))
  BY <1>1 DEF full
<1> HIDE DEF tc2, k
<1>10. /\ CacheOK(tc2) /\ (AllMarked(tc) => AllMarked(tc2))
       /\ InColumns(tc2) = Elsewhere(tc, c) \cup ToSet(Popped(full).blocks)
  BY <1>3, <1>6, <1>8, ColumnChanges
<1>11. /\ Held(t) = Elsewhere(tc, c) \cup ToSet(col.blocks)
       /\ Elsewhere(tc, c) \cap ToSet(col.blocks) = {}
  BY <1>3, InOneColumn
<1>12. user' = user \cup {Last(full.blocks)}
  BY <1>1 DEF full
<1> HIDE DEF col
<1>13. /\ pool \cap user = {} /\ Held(t) \cap (pool \cup user) = {}
       /\ Held(t) \subseteq Blocks /\ pool \subseteq Blocks /\ user \subseteq Blocks
  BY <1>2 DEF Placed, Typed
<1>14. /\ (pool \ ToSet(batch)) \cup user' \cup InColumns(tc2) = pool \cup user \cup Held(t)
       /\ (pool \ ToSet(batch)) \cap user' = {}
       /\ InColumns(tc2) \cap ((pool \ ToSet(batch)) \cup user') = {}
       /\ user' \subseteq Blocks
  BY <1>5, <1>6, <1>10, <1>11, <1>12, <1>13
<1>15. EndsEpoch(tc.alloc, c) \in BOOLEAN
  BY DEF EndsEpoch
<1> QED
  BY <1>2, <1>3, <1>9, <1>10, <1>14, <1>15, StoreKeeps

(* A free through the cache *)
LEMMA FreeKeeps ==
    ASSUME Inv, NEW t \in Threads, NEW b \in user, Free(t, b)
    PROVE  Inv' /\ (MarkFits /\ MarksOK => MarksOK')
<1> DEFINE c   == ClassOf[b]
           tc  == CacheOf(t)
           col == tc.columns[c]
           k   == Counted(tc.free, c)
           tc2 == [tc EXCEPT !.columns[c] = Pushed(col, c, b), !.free = k]
           p   == pool \cup Overflow(col, c)
<1>1. Typed /\ ~stray /\ Placed /\ isoff' = isoff /\ user' = user \ {b}
  BY DEF Free, Inv
<1>2. Store(t, tc2, p, EndsEpoch(tc.free, c))
  BY DEF Free
<1>3. b \in Blocks /\ c \in Class
  BY <1>1, TCacheAssumption DEF Typed
<1>4. /\ CacheOK(tc) /\ InColumns(tc) = Held(t)
      /\ MarksOK => AllMarked(tc)
  <2> HIDE DEF c
  <2> QED
    BY <1>1, <1>3, CacheOfOK DEF MarksOK
<1> HIDE DEF tc
<1>5. /\ Held(t) = Elsewhere(tc, c) \cup ToSet(col.blocks)
      /\ Elsewhere(tc, c) \cap ToSet(col.blocks) = {}
  <2> HIDE DEF c
  <2> QED
    BY <1>3, <1>4, InOneColumn
<1>6. /\ pool \cap user = {} /\ Held(t) \cap (pool \cup user) = {}
      /\ pool \subseteq Blocks /\ user \subseteq Blocks
  BY <1>1 DEF Placed, Typed
<1>7. ColumnOK(col, c) /\ b \notin ToSet(col.blocks) /\ b \notin Elsewhere(tc, c)
  BY <1>3, <1>4, <1>5, <1>6 DEF CacheOK
<1>8. /\ ColumnOK(Pushed(col, c, b), c)
      /\ ToSet(Pushed(col, c, b).blocks) \cup Overflow(col, c) = ToSet(col.blocks) \cup {b}
      /\ ToSet(Pushed(col, c, b).blocks) \cap Overflow(col, c) = {}
      /\ MarkFits /\ Marked(col) => Marked(Pushed(col, c, b))
  <2> HIDE DEF col
  <2> QED
    BY <1>3, <1>7, PushOK
<1>9. k \in 0 .. EpochMax - 1 /\ k \in Nat
  <2> HIDE DEF c
  <2> QED
    BY <1>3, <1>4, CountedBelow, TCacheAssumption DEF CacheOK
<1>10. /\ tc2 \in Cache /\ tc2.columns = [tc.columns EXCEPT ![c] = Pushed(col, c, b)]
       /\ {tc2.alloc, tc2.free} \subseteq 0 .. EpochMax - 1
  <2> HIDE DEF k, c, col
  <2>1. /\ tc \in Cache /\ Pushed(col, c, b) \in Column
        /\ {tc.alloc, tc.free} \subseteq 0 .. EpochMax - 1
    BY <1>3, <1>4, <1>8 DEF CacheOK, ColumnOK
  <2> QED
    BY <1>3, <1>9, <2>1 DEF Cache
<1> HIDE DEF tc2, k, c
<1>11. /\ CacheOK(tc2)
       /\ AllMarked(tc) /\ MarkFits => AllMarked(tc2)
       /\ InColumns(tc2) = Elsewhere(tc, c) \cup ToSet(Pushed(col, c, b).blocks)
  <2>1. AllMarked(tc) => Marked(col)
    BY <1>3 DEF AllMarked
  <2> HIDE DEF col
  <2> QED
    BY <1>3, <1>4, <1>8, <1>10, <2>1, ColumnChanges
<1> HIDE DEF col
<1>12. /\ p \cup user' \cup InColumns(tc2) = pool \cup user \cup Held(t)
       /\ p \cap user' = {}
       /\ InColumns(tc2) \cap (p \cup user') = {}
       /\ user' \subseteq Blocks
  BY <1>1, <1>5, <1>6, <1>7, <1>8, <1>11
<1>13. EndsEpoch(tc.free, c) \in BOOLEAN
  BY DEF EndsEpoch
<1> HIDE DEF p
<1> QED
  BY <1>1, <1>2, <1>4, <1>11, <1>12, <1>13, StoreKeeps

(* The steps that move no block between columns and epochs *)
LEMMA OthersKeep ==
    ASSUME Inv, NEW t \in Threads,
           \/ \E c \in Class : AllocFails(t, c) \/ AllocDirect(t, c)
           \/ \E b \in user : FreeDirect(t, b)
           \/ TurnOff(t) \/ TurnOn(t)
    PROVE  Inv' /\ (MarksOK => MarksOK')
<1>1. ~stray /\ Typed /\ Placed /\ stray' = stray
  BY DEF Inv, AllocFails, AllocDirect, FreeDirect, TurnOff, TurnOn
<1>2. CASE \E c \in Class : AllocFails(t, c)
  <2>1. PICK c \in Class : AllocFails(t, c)
    BY <1>2
  <2> DEFINE tc == CacheOf(t)
  <2>2. /\ CacheOK(tc) /\ InColumns(tc) = Held(t)
        /\ MarksOK => AllMarked(tc)
    BY <1>1, CacheOfOK DEF MarksOK
  <2>3. cache' = [cache EXCEPT ![t] = tc] /\ UNCHANGED <<pool, user, isoff>>
    BY <2>1 DEF AllocFails
  <2> HIDE DEF tc
  <2>4. tc \in Cache /\ tc # NoCache
    BY <2>2, TCacheAssumption DEF CacheOK
  <2>5. Placed'
    BY <1>1, <2>2, <2>3, <2>4, MovePlaces DEF Placed
  <2>6. Typed'
    BY <1>1, <2>2, <2>3, <2>4 DEF Typed, Caching
  <2>7. MarksOK => MarksOK'
    BY <1>1, <2>2, <2>3 DEF MarksOK, Caching, Typed
  <2> QED
    BY <2>5, <2>6, <2>7 DEF Inv
<1>3. CASE (\E c \in Class : AllocDirect(t, c)) \/ \E b \in user : FreeDirect(t, b)
  <2>1. UNCHANGED <<cache, isoff>>
    BY <1>3 DEF AllocDirect, FreeDirect
  <2>2. /\ pool' \cup user' = pool \cup user
        /\ pool' \cap user' = {}
    BY <1>1, <1>3 DEF AllocDirect, FreeDirect, PoolOf, Placed
  <2>3. Placed'
    BY <1>1, <2>1, <2>2 DEF Placed, Held
  <2>4. Typed' /\ (MarksOK => MarksOK')
    BY <1>1, <2>1, <2>2 DEF Typed, Caching, MarksOK
  <2> QED
    BY <2>3, <2>4 DEF Inv
<1>4. CASE TurnOff(t)
  <2>1. /\ cache' = [cache EXCEPT ![t] = NoCache] /\ user' = user
        /\ isoff' = [isoff EXCEPT ![t] = TRUE]
        /\ pool' = pool \cup Held(t)
    BY <1>4 DEF TurnOff, Flushed, Held
  <2>2. Placed' /\ pool' \subseteq Blocks /\ user' \subseteq Blocks
    <3>1. /\ pool' \cup user' \cup {} = pool \cup user \cup Held(t)
          /\ pool' \cap user' = {}
      BY <1>1, <2>1 DEF Placed
    <3> QED
      BY <1>1, <2>1, <3>1, MovePlaces
  <2>3. Typed' /\ (MarksOK => MarksOK')
    BY <1>1, <2>1, <2>2 DEF Typed, Caching, MarksOK
  <2> QED
    BY <2>2, <2>3 DEF Inv
<1>5. CASE TurnOn(t)
  <2>1. isoff' = [isoff EXCEPT ![t] = FALSE] /\ UNCHANGED <<pool, user, cache>>
    BY <1>5 DEF TurnOn
  <2>2. Typed' /\ Placed' /\ (MarksOK => MarksOK')
    BY <1>1, <2>1 DEF Typed, Caching, MarksOK, Placed, Held
  <2> QED
    BY <2>2 DEF Inv
<1> QED
  BY <1>2, <1>3, <1>4, <1>5

-----------------------------------------------------------------------------
(* Every block is in the arenas at first and there is no cache. *)
LEMMA InvInit == Init => Inv /\ MarksOK
  BY DEF Init, Inv, Typed, Placed, MarksOK, Held, Caching

(* A step keeps the invariant, and the marks in their columns if a put     *)
(* into a full column keeps all but one of its blocks.                     *)
LEMMA InvStep == Inv /\ [Next]_vars => Inv' /\ (MarkFits /\ MarksOK => MarksOK')
<1> SUFFICES ASSUME Inv, [Next]_vars PROVE Inv' /\ (MarkFits /\ MarksOK => MarksOK')
  OBVIOUS
<1>1. CASE UNCHANGED vars
  BY <1>1 DEF vars, Inv, Typed, Placed, MarksOK, Held, Caching
<1>2. CASE Next
  <2>1. PICK t \in Threads :
           \/ \E c \in Class : Alloc(t, c) \/ AllocFails(t, c) \/ AllocDirect(t, c)
           \/ \E b \in user : Free(t, b) \/ FreeDirect(t, b)
           \/ TurnOff(t) \/ TurnOn(t)
    BY <1>2 DEF Next
  <2> QED
    BY <2>1, AllocKeeps, FreeKeeps, OthersKeep
<1> QED
  BY <1>1, <1>2

(* What the invariant says of the sequences of a cache *)
LEMMA InvPlaces == Typed /\ Placed => OnePlacePerBlock
<1> SUFFICES ASSUME Typed, Placed PROVE OnePlacePerBlock
  OBVIOUS
<1>1. UNION {InColumns(cache[t]) : t \in Caching} = UNION {Held(t) : t \in Threads}
  BY DEF Held, Caching
<1>2. ASSUME NEW t \in Caching, NEW c \in Class
      PROVE  LET s == cache[t].columns[c].blocks
             IN  /\ IsInjective(s)
                 /\ \A b \in ToSet(s) : ClassOf[b] = c
                 /\ ToSet(s) \cap (pool \cup user) = {}
                 /\ \A u \in Caching \ {t} : ToSet(s) \cap InColumns(cache[u]) = {}
  <2> DEFINE s == cache[t].columns[c].blocks
  <2>1. ColumnOK(cache[t].columns[c], c) /\ t \in Threads
    BY DEF Typed, CacheOK, Caching
  <2>2. IsInjective(s)
    BY <2>1 DEF ColumnOK, Column, Distinct, IsInjective
  <2>3. ToSet(s) \subseteq Held(t) /\ \A u \in Caching : Held(u) = InColumns(cache[u])
    BY <2>1 DEF Held, InColumns, Caching
  <2> HIDE DEF s
  <2>4. \A u \in Caching \ {t} : ToSet(s) \cap InColumns(cache[u]) = {}
    BY <2>1, <2>3 DEF Placed, Caching
  <2> QED
    BY <2>1, <2>2, <2>3, <2>4 DEF Placed, ColumnOK, s
<1> QED
  BY <1>1, <1>2 DEF OnePlacePerBlock, Placed

(* Whatever the capacities, the columns hold no more than fits, the marks  *)
(* are counts that fit, and the byte counters stay below the epoch.        *)
THEOREM CachesTyped == Spec => []TypeOK
<1>1. Inv => TypeOK
  BY TCacheAssumption DEF Inv, Typed, TypeOK, CacheOK, ColumnOK, Column, Cache, Caching, Nblocks
<1> QED
  BY <1>1, InvInit, InvStep, PTL DEF Spec

(* Until a decay reads below a column, a block has one place: the arenas,  *)
(* the program or one slot of one column of its class, whichever threads   *)
(* allocate and free it and whatever the capacities are.                   *)
THEOREM OnePlaceUntilStray == Spec => [](~stray => OnePlacePerBlock)
<1>1. Inv => (~stray => OnePlacePerBlock)
  BY InvPlaces DEF Inv
<1> QED
  BY <1>1, InvInit, InvStep, PTL DEF Spec

(* When a put into a full column keeps all but one of its blocks, as it    *)
(* does for the capacities 2 and 4 (column.h:223), no decay reads below a  *)
(* column, and every block has one place in every reachable state.         *)
THEOREM MarksStay == ASSUME MarkFits PROVE Spec => [](MarkInColumn /\ OnePlacePerBlock)
<1>1. Inv /\ MarksOK => MarkInColumn /\ OnePlacePerBlock
  <2> SUFFICES ASSUME Inv, MarksOK PROVE MarkInColumn
    BY InvPlaces DEF Inv, MarksOK
  <2> QED
    BY DEF Inv, MarksOK, Typed, MarkInColumn, AllMarked, Marked, KeptOnDecay, Nblocks,
           CacheOK, ColumnOK, Column, Caching
<1>2. Init => Inv /\ MarksOK
  BY InvInit
<1>3. (Inv /\ MarksOK) /\ [Next]_vars => (Inv /\ MarksOK)'
  BY InvStep
<1> QED
  BY <1>1, <1>2, <1>3, PTL DEF Spec

(* For the same capacities the blocks a decay hands to the arenas are      *)
(* blocks of the column (column.h:247).                                    *)
THEOREM DecaysStay == ASSUME MarkFits PROVE Spec => []DecayBatchValid
<1>1. MarksOK => DecayBatchValid
  BY DEF MarksOK, DecayBatchValid
<1>2. Init => Inv /\ MarksOK
  BY InvInit
<1>3. (Inv /\ MarksOK) /\ [Next]_vars => (Inv /\ MarksOK)'
  BY InvStep
<1> QED
  BY <1>1, <1>2, <1>3, PTL DEF Spec
=============================================================================
