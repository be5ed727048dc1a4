-------------------------------- MODULE Pail --------------------------------
(***************************************************************************)
(* A pail (internal/pail.h): the slabs of one size class of one arena,     *)
(* with the free bitmap of each slab (slab.c).  A put works under          *)
(* pail->lock, span cache calls included, so it is one action; but it      *)
(* finds the slab of its block in the pagetrie before it takes the lock    *)
(* (glob.h:70, arena.h:97), which is an action of its own.  A batch holds  *)
(* the lock while it takes, or gives back, one block after the other.      *)
(***************************************************************************)
EXTENDS Integers, FiniteSetsExt, SequencesExt

CONSTANTS Threads,     \* the threads that put blocks back
          Spans,       \* bound: what the span cache can give as slabs
          NBlocks,     \* init_info->nblocks
          BatchSizes,  \* bound: sizes of the batches asked for
          Faults,      \* {"put"}: scache_put_span may fail
          Null

Index == 0 .. NBlocks - 1

Block == Spans \X Index

(* min_blocks = 4 in config.py: a slab never has a single block. *)
ASSUME PailAssumption == /\ IsFiniteSet(Spans)
                         /\ NBlocks \in Nat \ {0, 1}
                         /\ BatchSizes \subseteq Nat \ {0}
                         /\ Faults \subseteq {"put"}
                         /\ Null \notin Block
                         /\ \A bits \in SUBSET Index : bits # Null

VARIABLES free,      \* the set bits of each slab's bitmap; Null: not a slab
          slabs,     \* the registry, head first
          nslabs,
          batch,     \* the batch that holds the lock: blocks left, dest, failed
          out,       \* the blocks in thread caches or with the program
          putting,   \* the block whose slab a thread has looked up
          freed      \* slabmeta was used after slab_deinit

vars == <<free, slabs, nslabs, batch, out, putting, freed>>

NoBatch == [left |-> 0, got |-> <<>>, failed |-> FALSE]

Init == /\ free = [s \in Spans |-> Null]
        /\ slabs = <<>>
        /\ nslabs = 0
        /\ batch = NoBatch
        /\ out = {}
        /\ putting = [t \in Threads |-> Null]
        /\ freed = FALSE

-----------------------------------------------------------------------------
(* The functions of pail.h map a pail, as the functions of span caches map *)
(* a world.                                                                *)

Now == [free |-> free, slabs |-> slabs, nslabs |-> nslabs]

(* registered, though not a slab *)
Dead == {s \in ToSet(slabs) : free[s] = Null}

Unused == {s \in Spans : free[s] = Null} \ Dead

(* a mutant: nslabs++ is missing *)
MintUncounted(p, s) == [p EXCEPT !.free[s] = Index, !.slabs = <<s>> \o @]

(* _pail_mint_slab: scache_get_span, slab_init, registry_push *)
Minted(p, s) == [p EXCEPT !.free[s] = Index,
                          !.slabs = <<s>> \o @,
                          !.nslabs = @ + 1]

(* slab_get_block: the lowest set bit, from the slab at the head *)
NextBlock(p) == <<Head(p.slabs), Min(p.free[Head(p.slabs)])>>

(* a mutant: the bit stays set *)
TakenKeepsBit(p) == p

Taken(p) ==
    LET s == Head(p.slabs)
        i == Min(p.free[s])
    IN  [p EXCEPT !.free[s] = @ \ {i},
                  !.slabs = IF p.free[s] = {i} THEN Tail(@) ELSE @]

(* a mutant: every slab put to is registered *)
PutBackPushes(p, b) == [p EXCEPT !.free[b[1]] = @ \cup {b[2]}, !.slabs = <<b[1]>> \o @]

(* slab_put_block, and registry_push of a slab that had no free block *)
PutBack(p, b) ==
    [p EXCEPT !.free[b[1]] = @ \cup {b[2]},
              !.slabs = IF p.free[b[1]] = {} THEN <<b[1]>> \o @ ELSE @]

(* mutants: one block is out, two slabs are kept *)
FlushesEarly(p, s) == Cardinality(p.free[s]) >= NBlocks - 1 /\ p.nslabs > 1

FlushesLate(p, s) == p.free[s] = Index /\ p.nslabs > 2

Flushes(p, s) == p.free[s] = Index /\ p.nslabs > 1

(* registry_remove *)
Removed(q, s) == RemoveAt(q, CHOOSE i \in DOMAIN q : q[i] = s)

(* a mutant: nslabs-- is missing *)
FlushedUncounted(p, s) == [p EXCEPT !.free[s] = Null, !.slabs = Removed(@, s)]

(* scache_put_span, after registry_remove *)
Flushed(p, s) == [p EXCEPT !.free[s] = Null, !.nslabs = @ - 1,
                           !.slabs = Removed(@, s)]

(* When it fails it has deinitialized the slab, which is registered again. *)
FlushFailed(p, s) == [p EXCEPT !.free[s] = Null,
                               !.slabs = <<s>> \o Removed(@, s)]

Become(p) == free' = p.free /\ slabs' = p.slabs /\ nslabs' = p.nslabs

-----------------------------------------------------------------------------
(* pail_get_batch, under the lock to its end *)

Unlocked == batch = NoBatch

GetBatch(n) ==
    /\ ~freed /\ Unlocked
    /\ batch' = [NoBatch EXCEPT !.left = n]
    /\ UNCHANGED <<free, slabs, nslabs, out, putting, freed>>

(* _pail_get_block: from the slab at the head, minted if there is none *)
GetBlock ==
    /\ ~freed /\ batch.left > 0 /\ ~batch.failed
    /\ \E p \in IF slabs = <<>> THEN {Minted(Now, s) : s \in Unused}
               ELSE {Now : s \in {Head(slabs)} \ Dead} :
          /\ Become(Taken(p))
          /\ batch' = [batch EXCEPT !.left = @ - 1, !.got = Append(@, NextBlock(p))]
    /\ UNCHANGED <<out, putting, freed>>

(* No span can be had for a new slab. *)
GetBlockFails ==
    /\ ~freed /\ batch.left > 0 /\ ~batch.failed
    /\ slabs = <<>>
    /\ batch' = [batch EXCEPT !.failed = TRUE]
    /\ UNCHANGED <<free, slabs, nslabs, out, putting, freed>>

(* The head is a span whose slab was deinitialized. *)
GetBlockFreed ==
    /\ ~freed /\ batch.left > 0 /\ ~batch.failed
    /\ slabs # <<>> /\ Head(slabs) \in Dead
    /\ freed' = TRUE
    /\ UNCHANGED <<free, slabs, nslabs, batch, out, putting>>

(* What a batch that failed got is put back, and no slab is flushed. *)
RollBack ==
    /\ ~freed /\ batch.failed /\ batch.got # <<>>
    /\ Become(PutBack(Now, Head(batch.got)))
    /\ batch' = [batch EXCEPT !.got = Tail(@)]
    /\ UNCHANGED <<out, putting, freed>>

(* The batch is complete, or given back. *)
EndBatch ==
    /\ ~freed
    /\ IF batch.failed THEN batch.got = <<>> ELSE batch.left = 0 /\ batch.got # <<>>
    /\ batch' = NoBatch
    /\ out' = out \cup ToSet(batch.got)
    /\ UNCHANGED <<free, slabs, nslabs, putting, freed>>

-----------------------------------------------------------------------------
(* glob_put_batch_inarena: pagetrie_lookup of the block, without a lock *)
LookUpSlab(t, b) ==
    /\ ~freed /\ putting[t] = Null
    /\ putting' = [putting EXCEPT ![t] = b]
    /\ out' = out \ {b}
    /\ UNCHANGED <<free, slabs, nslabs, batch, freed>>

(* pail_put_block, by a thread whose block is b *)
PutBlock(t, b) ==
    LET s == b[1]
        p == PutBack(Now, b)
    IN  /\ ~freed /\ Unlocked
        /\ Become(IF Flushes(p, s) THEN Flushed(p, s) ELSE p)
        /\ putting' = [putting EXCEPT ![t] = Null]
        /\ UNCHANGED <<batch, out, freed>>

PutBlockFails(t, b) ==
    LET s == b[1]
        p == PutBack(Now, b)
    IN  /\ ~freed /\ Unlocked /\ "put" \in Faults
        /\ Flushes(p, s) /\ Become(FlushFailed(p, s))
        /\ putting' = [putting EXCEPT ![t] = Null]
        /\ UNCHANGED <<batch, out, freed>>

Next == \/ \E n \in BatchSizes : GetBatch(n)
        \/ GetBlock \/ GetBlockFails \/ GetBlockFreed \/ RollBack \/ EndBatch
        \/ \E t \in Threads, b \in out : LookUpSlab(t, b)
        \/ \E t \in Threads : \E b \in {putting[t]} \ {Null} :
              PutBlock(t, b) \/ PutBlockFails(t, b)

Spec == Init /\ [][Next]_vars

-----------------------------------------------------------------------------
Live == {s \in Spans : free[s] # Null}

Putting == {putting[t] : t \in Threads} \ {Null}

Taking == ToSet(batch.got)

TypeOK == /\ free \in [Spans -> {Null} \cup SUBSET Index]
          /\ slabs \in Seq(Spans)
          /\ nslabs \in 0 .. Cardinality(Spans)
          /\ batch \in [left : Nat, got : Seq(Block), failed : BOOLEAN]
          /\ out \subseteq Block
          /\ putting \in [Threads -> {Null} \cup Block]
          /\ freed \in BOOLEAN

(* The registry lists every slab that has a free block, once, and no slab  *)
(* that has none: slab_get_block on a full one would return null, and a    *)
(* slab that is missing is lost until a block of it comes back.            *)
RegistryExact == /\ IsInjective(slabs)
                 /\ ToSet(slabs) \cap Live = {s \in Live : free[s] # {}}

(* nslabs counts the slabs, so that the last one and only it is kept when  *)
(* it is idle (pail.h:166).  A slab whose flush failed is still counted.   *)
CountExact == nslabs = Cardinality(Live \cup ToSet(slabs))

(* Each block of each slab has one place: its bit, the batch under way, a  *)
(* thread cache or the program, or one thread on its way to                *)
(* pail_put_block.                                                         *)
BlocksOnce ==
    /\ \A t, u \in Threads : t # u /\ putting[t] = putting[u] => putting[t] = Null
    /\ IsInjective(batch.got)
    /\ out \cap Putting = {} /\ Taking \cap (out \cup Putting) = {}
    /\ \A s \in Live, i \in Index :
          i \in free[s] <=> <<s, i>> \notin out \cup Putting \cup Taking

(* The slab a thread found without a lock is a slab when it gets the lock, *)
(* whatever other threads put back meanwhile (glob.h:70, pail.h:160).      *)
SlabStays == \A b \in out \cup Putting \cup Taking : b[1] \in Live

Surplus == {s \in Live : free[s] = Index /\ nslabs > 1}

(* An idle slab that is not the last one is flushed by the put that makes  *)
(* it idle; only the rollback of a failed batch leaves one behind.         *)
IdleOnlyByRollback == [][Surplus' \subseteq Surplus \/ RollBack]_vars
=============================================================================
