------------------------------- MODULE TCache -------------------------------
(***************************************************************************)
(* The thread-local block caches (internal/tcache.h, internal/column.h)    *)
(* and the block paths of glob.c that use them.  A cache is touched by its *)
(* own thread only and the arenas take their locks, so a call is one       *)
(* action.  The arenas are a pool of free blocks here.                     *)
(***************************************************************************)
EXTENDS Integers, FiniteSetsExt, SequencesExt

CONSTANTS Threads,
          Blocks,      \* bound: every block the arenas can ever mint
          Class,       \* the slab size classes
          ClassOf,     \* the slab of a block tells its class
          Capacity,    \* tcache_info
          Nbytes,      \* szclass_max_nbytes_slab
          EpochMax,    \* epoch.max, slab_alloc_max * 2
          NoCache      \* tlocal_bcache is null

Column == [blocks : Seq(Blocks), epoch_min_nblocks : Nat]

Cache == [columns : [Class -> Column], free : Nat, alloc : Nat]

ASSUME TCacheAssumption ==
    /\ ClassOf \in [Blocks -> Class]
    /\ Capacity \in [Class -> Nat \ {0, 1}]
    /\ EpochMax \in Nat
    /\ Nbytes \in [Class -> 1 .. (EpochMax \div 2)]
    /\ NoCache \notin Cache

VARIABLES pool,     \* the blocks free in the arenas
          user,     \* the blocks the program holds
          cache,    \* tlocal_bcache of each thread
          isoff,    \* tlocal_bcache_isoff
          stray     \* a column was read below blocks[0]

vars == <<pool, user, cache, isoff, stray>>

(* tcache_create, col_init *)
EmptyCache == [columns |-> [c \in Class |-> [blocks |-> <<>>, epoch_min_nblocks |-> 0]],
               free |-> 0, alloc |-> 0]

CacheOf(t) == IF cache[t] = NoCache THEN EmptyCache ELSE cache[t]

Init == /\ pool = Blocks
        /\ user = {}
        /\ cache = [t \in Threads |-> NoCache]
        /\ isoff = [t \in Threads |-> FALSE]
        /\ stray = FALSE

Nblocks(col) == Len(col.blocks)

InColumns(tc) == UNION {ToSet(tc.columns[c].blocks) : c \in Class}

PoolOf(c) == {b \in pool : ClassOf[b] = c}

-----------------------------------------------------------------------------
(* Columns *)

RefillCount(c) == IF Capacity[c] \div 2 > 1 THEN Capacity[c] \div 2 ELSE 1

(* The batches an arena may give for a refill of an empty column. *)
Batches(c) == UNION {SetToSeqs(S) : S \in kSubset(RefillCount(c), PoolOf(c))}

(* a mutant: the low-water mark stays *)
PoppedUnmarked(col) == [col EXCEPT !.blocks = Front(@)]

(* The last block goes out; the low-water mark follows. *)
Popped(col) ==
    LET n == Nblocks(col) - 1
    IN  [blocks |-> Front(col.blocks),
         epoch_min_nblocks |-> IF n < col.epoch_min_nblocks THEN n
                               ELSE col.epoch_min_nblocks]

KeptOnFlush(c) == IF 3 * (Capacity[c] \div 4) > 1 THEN 3 * (Capacity[c] \div 4) ELSE 1

Upper(blocks, n) == ToSet(SubSeq(blocks, n + 1, Len(blocks)))

(* a mutant: what is given back begins one block too low *)
OverflowTooLow(col, c) ==
    IF Nblocks(col) = Capacity[c] THEN Upper(col.blocks, KeptOnFlush(c) - 1) ELSE {}

(* What a put into a full column gives back first: its upper end.  The     *)
(* low-water mark does not follow.                                         *)
Overflow(col, c) ==
    IF Nblocks(col) = Capacity[c] THEN Upper(col.blocks, KeptOnFlush(c)) ELSE {}

Pushed(col, c, b) ==
    [col EXCEPT !.blocks = Append(IF Nblocks(col) = Capacity[c]
                                  THEN SubSeq(@, 1, KeptOnFlush(c)) ELSE @, b)]

(* col_decay gives back the upper epoch_min_nblocks blocks.                *)
KeptOnDecay(col) == Nblocks(col) - col.epoch_min_nblocks

Decayed(col) == [blocks |-> SubSeq(col.blocks, 1, KeptOnDecay(col)),
                 epoch_min_nblocks |-> KeptOnDecay(col)]

Stale(tc) == UNION {Upper(tc.columns[c].blocks, KeptOnDecay(tc.columns[c])) : c \in Class}

(* KeptOnDecay wraps: the batch begins before the column, and so on.       *)
DecayStrays(tc) == \E c \in Class : KeptOnDecay(tc.columns[c]) < 0

-----------------------------------------------------------------------------
(* The byte counters *)

EndsEpoch(count, c) == EpochMax - Nbytes[c] <= count

(* a mutant: the counter is not reset *)
CountedOn(count, c) == count + Nbytes[c]

Counted(count, c) == IF EndsEpoch(count, c) THEN 0 ELSE count + Nbytes[c]

(* The call leaves thread t with cache tc and the arenas with the free     *)
(* blocks p, after the decay of all columns if it ended an epoch.          *)
Store(t, tc, p, ends) ==
    IF ends /\ DecayStrays(tc)
    THEN stray' = TRUE /\ UNCHANGED <<cache, pool>>
    ELSE /\ cache' = [cache EXCEPT ![t] =
                        IF ends THEN [tc EXCEPT !.columns = [c \in Class |-> Decayed(@[c])]]
                        ELSE tc]
         /\ pool' = IF ends THEN p \cup Stale(tc) ELSE p
         /\ UNCHANGED stray

-----------------------------------------------------------------------------
(* glob_alloc_block through the cache, which is made on first use *)
Alloc(t, c) ==
    /\ ~stray /\ ~isoff[t]
    /\ LET tc  == CacheOf(t)
           col == tc.columns[c]
       IN  \E batch \in IF col.blocks = <<>> THEN Batches(c) ELSE {<<>>} :
             LET full == [col EXCEPT !.blocks = @ \o batch]
             IN  /\ user' = user \cup {Last(full.blocks)}
                 /\ Store(t, [tc EXCEPT !.columns[c] = Popped(full),
                                        !.alloc = Counted(@, c)],
                          pool \ ToSet(batch), EndsEpoch(tc.alloc, c))
    /\ UNCHANGED isoff

(* No arena can give the batch: the call fails, the cache it made stays.   *)
AllocFails(t, c) ==
    /\ ~stray /\ ~isoff[t]
    /\ CacheOf(t).columns[c].blocks = <<>>
    /\ Cardinality(PoolOf(c)) < RefillCount(c)
    /\ cache' = [cache EXCEPT ![t] = CacheOf(t)]
    /\ UNCHANGED <<pool, user, isoff, stray>>

(* glob_alloc_block with the cache turned off: one block from an arena *)
AllocDirect(t, c) ==
    /\ ~stray /\ isoff[t]
    /\ \E b \in PoolOf(c) : /\ user' = user \cup {b}
                            /\ pool' = pool \ {b}
    /\ UNCHANGED <<cache, isoff, stray>>

(* glob_free_block: any thread may free what any thread allocated *)
Free(t, b) ==
    /\ ~stray /\ ~isoff[t]
    /\ LET c   == ClassOf[b]
           tc  == CacheOf(t)
           col == tc.columns[c]
       IN  Store(t, [tc EXCEPT !.columns[c] = Pushed(col, c, b), !.free = Counted(@, c)],
                 pool \cup Overflow(col, c), EndsEpoch(tc.free, c))
    /\ user' = user \ {b}
    /\ UNCHANGED isoff

FreeDirect(t, b) ==
    /\ ~stray /\ isoff[t]
    /\ user' = user \ {b}
    /\ pool' = pool \cup {b}
    /\ UNCHANGED <<cache, isoff, stray>>

(* What tcache_destroy gives back *)
Flushed(t) == IF cache[t] = NoCache THEN {} ELSE InColumns(cache[t])

(* glob_turnoff_tcache *)
TurnOff(t) ==
    /\ ~stray
    /\ pool' = pool \cup Flushed(t)
    /\ cache' = [cache EXCEPT ![t] = NoCache]
    /\ isoff' = [isoff EXCEPT ![t] = TRUE]
    /\ UNCHANGED <<user, stray>>

TurnOn(t) ==
    /\ ~stray /\ isoff[t]
    /\ isoff' = [isoff EXCEPT ![t] = FALSE]
    /\ UNCHANGED <<pool, user, cache, stray>>

Next == \E t \in Threads :
           \/ \E c \in Class : Alloc(t, c) \/ AllocFails(t, c) \/ AllocDirect(t, c)
           \/ \E b \in user : Free(t, b) \/ FreeDirect(t, b)
           \/ TurnOff(t) \/ TurnOn(t)

Spec == Init /\ [][Next]_vars

-----------------------------------------------------------------------------
Caching == {t \in Threads : cache[t] # NoCache}

TypeOK == /\ pool \subseteq Blocks /\ user \subseteq Blocks
          /\ isoff \in [Threads -> BOOLEAN]
          /\ stray \in BOOLEAN
          /\ \A t \in Caching, c \in Class :
                /\ cache[t].columns[c].blocks \in Seq(Blocks)
                /\ Nblocks(cache[t].columns[c]) <= Capacity[c]
                /\ cache[t].columns[c].epoch_min_nblocks \in 0 .. Capacity[c]
                /\ {cache[t].alloc, cache[t].free} \subseteq 0 .. EpochMax - 1

(* Through refills, overflows, decays and flushes, and frees by another    *)
(* thread than the one that allocated, a block has one place: with the     *)
(* program, in one slot of one column of its class, or in the arenas.      *)
OnePlacePerBlock ==
    /\ pool \cup user \cup UNION {InColumns(cache[t]) : t \in Caching} = Blocks
    /\ pool \cap user = {}
    /\ \A t \in Caching, c \in Class :
          LET s == cache[t].columns[c].blocks
          IN  /\ IsInjective(s)
              /\ \A b \in ToSet(s) : ClassOf[b] = c
              /\ ToSet(s) \cap (pool \cup user) = {}
              /\ \A u \in Caching \ {t} : ToSet(s) \cap InColumns(cache[u]) = {}

(* The low-water mark of a column never exceeds what the column holds, so  *)
(* that the batch of a decay lies inside the column (column.h:241-253).    *)
MarkInColumn ==
    \A t \in Caching, c \in Class :
        KeptOnDecay(cache[t].columns[c]) >= 0

(* The blocks a decay hands to glob_put_batch_inarena are blocks.          *)
DecayBatchValid == ~stray
=============================================================================
