----------------------------- MODULE GlobSpans ------------------------------
(***************************************************************************)
(* Span allocations and frees of several threads at once (glob.c,          *)
(* internal/glob.h, internal/arena.h): a thread claims an arena without a  *)
(* lock, gets a span under the lock of that arena's span cache, enters it  *)
(* in the pagetrie the arenas share, and keeps the arena's allocation      *)
(* epoch without a lock again.  A free finds the span by a lookup without  *)
(* a lock.  The bins are reduced to: the smallest span that fits.          *)
(***************************************************************************)
EXTENDS PageTrie, FiniteSetsExt, SequencesExt

CONSTANTS NArenas,        \* glob->narenas
          PoolSize,       \* bound: descriptors of an arena
          FirstPage,      \* bound: where the OS starts to map
          LastPage,       \*        and stops
          DefaultPages,   \* default_new_span_szclass, in pages
          Requests,       \* bound: sizes asked for, in pages
          MaxCalls,       \* bound: calls of one run
          EpochMax,       \* epoch.max, in pages
          Word            \* 2^64: width of size_t

Arenas == 0 .. NArenas - 1

(* The descriptors of an arena: spanpool is the arena's own. *)
Descs == Arenas \X (1 .. PoolSize)

ASSUME GlobSpansAssumption == /\ NArenas \in Nat \ {0}
                              /\ PoolSize \in Nat /\ DefaultPages \in Nat
                              /\ FirstPage \in Nat \ {0} /\ LastPage \in Nat
                              /\ LastPage + 1 \in Pages \* the last page is never mapped
                              /\ Requests \subseteq Nat \ {0}
                              /\ EpochMax \in Nat \ {0} /\ Word \in Nat /\ EpochMax < Word
                              /\ MaxCalls \in Nat
                              /\ Data = Descs

VARIABLES desc,        \* the content of each descriptor
          pool,        \* spanpool: an arena's free descriptors, a stack
          mapped,      \* pages the OS gave, but for the stranded
          stranded,    \* mappings no rollback could undo, with their descriptor
          arenaLock,   \* scache->lock: its holder
          arena_idx,   \* glob->arena_idx
          alloc,       \* arena->epoch.alloc
          call,        \* the call each thread is in
          held,        \* spans the program holds
          leaked,      \* spans a failed call took and did not give
          claims,      \* claims of each arena, less the least
          raced,       \* arenas whose counter moved between compare and add
          calls        \* begun so far

vars == <<trieVars, desc, pool, mapped, stranded, arenaLock, arena_idx, alloc, call,
          held, leaked, claims, raced, calls>>

memVars == <<desc, pool, mapped, stranded>>
epochVars == <<alloc, raced>>
claimVars == <<arena_idx, claims>>

Begin == calls < MaxCalls /\ calls' = calls + 1

NoCall == [at |-> "idle", want |-> 0, addr |-> Null, arena |-> Null,
           span |-> Null, left |-> Null, seen |-> Null, loaded |-> Null]

Init == /\ TrieInit
        /\ desc = [d \in Descs |-> [base |-> 0, len |-> 0, alloc |-> FALSE, binned |-> FALSE]]
        /\ pool = [a \in Arenas |-> [i \in 1 .. PoolSize |-> i]]
        /\ mapped = {} /\ stranded = {}
        /\ arenaLock = [a \in Arenas |-> Null]
        /\ arena_idx = 0
        /\ alloc = [a \in Arenas |-> 0]
        /\ call = [t \in Threads |-> NoCall]
        /\ held = {} /\ leaked = {}
        /\ claims = [a \in Arenas |-> 0]
        /\ raced = {}
        /\ calls = 0

At(t, at) == call[t].at = at

Now(t, at) == call' = [call EXCEPT ![t].at = at]

Finish(t) == call' = [call EXCEPT ![t] = NoCall]

Quiet(t) == op' = [op EXCEPT ![t] = NoOp] /\ UNCHANGED <<node, nnodes, trieLock, failures>>

(* A call of pagetrie_insert or pagetrie_lookup begins in this step. *)
TrieCall == UNCHANGED <<node, nnodes, trieLock, failures>>

PagesOf(d) == desc[d].base .. desc[d].base + desc[d].len - 1

Unlock(a) == arenaLock' = [arenaLock EXCEPT ![a] = Null]

-----------------------------------------------------------------------------
(* glob_claim_arena *)

Malloc(t, n) ==
    /\ At(t, "idle") /\ Begin
    /\ call' = [call EXCEPT ![t] = [NoCall EXCEPT !.at = "claim", !.want = n, !.seen = arena_idx]]
    /\ UNCHANGED <<trieVars, memVars, arenaLock, claimVars, epochVars, held, leaked>>

NextArena(i) == IF i + 1 >= NArenas THEN 0 ELSE i + 1

CountClaim(c) == LET c1 == [claims EXCEPT ![c] = @ + 1]
                     least == Min({c1[a] : a \in Arenas})
                 IN  [a \in Arenas |-> c1[a] - least]

(* a mutant: the index is stored, not exchanged *)
ClaimArenaByStore(t) ==
    /\ At(t, "claim")
    /\ arena_idx' = NextArena(call[t].seen)
    /\ claims' = CountClaim(call[t].seen)
    /\ call' = [call EXCEPT ![t].at = "get", ![t].arena = call[t].seen, ![t].seen = Null]
    /\ UNCHANGED <<trieVars, memVars, arenaLock, epochVars, held, leaked>>

(* The compare-and-swap; a failure loads the index again. *)
ClaimArena(t) ==
    /\ At(t, "claim")
    /\ \/ /\ arena_idx = call[t].seen
          /\ arena_idx' = NextArena(arena_idx)
          /\ claims' = CountClaim(arena_idx)
          /\ call' = [call EXCEPT ![t].at = "get", ![t].arena = arena_idx, ![t].seen = Null]
       \/ /\ call' = [call EXCEPT ![t].seen = arena_idx]
          /\ UNCHANGED claimVars
    /\ UNCHANGED <<trieVars, memVars, arenaLock, epochVars, held, leaked>>

-----------------------------------------------------------------------------
(* scache_get_span: from "mint" to "cutting" the thread holds the lock. *)

(* objpool_alloc, objpool_free: those that were never given out are below *)
(* those that came back.                                                  *)
NewDesc(a) == <<a, Head(pool[a])>>

TakeDesc(a) == pool' = [pool EXCEPT ![a] = Tail(@)]

PutDescs(a, ds) == pool' = [pool EXCEPT ![a] = ds \o @]

Strays == {s.span : s \in stranded}

InUse == {d \in Descs : d[2] \notin ToSet(pool[d[1]]) /\ d \notin Strays}

Fitting(a, n) == {d \in InUse : d[1] = a /\ desc[d].binned /\ desc[d].len >= n}

SpanRange(s) == s.addr .. s.addr + s.len - 1

Rooms(k) == {b \in FirstPage .. LastPage :
                /\ b + k - 1 <= LastPage /\ (b .. b + k - 1) \cap mapped = {}
                /\ \A s \in stranded : (b .. b + k - 1) \cap SpanRange(s) = {}}

Lock(t, a) == arenaLock[a] = Null /\ arenaLock' = [arenaLock EXCEPT ![a] = t]

PopBin(t) ==
    LET a == call[t].arena
    IN  /\ At(t, "get") /\ Lock(t, a)
        /\ \E d \in Fitting(a, call[t].want) :
              /\ \A e \in Fitting(a, call[t].want) : desc[d].len <= desc[e].len
              /\ desc' = [desc EXCEPT ![d].binned = FALSE]
              /\ call' = [call EXCEPT ![t].at = "cut", ![t].span = d]
        /\ UNCHANGED <<trieVars, pool, mapped, stranded, claimVars, epochVars, held, leaked>>

(* scache_mint_span, as far as its pagetrie_insert *)
Mint(t) ==
    LET a == call[t].arena
        k == IF DefaultPages > call[t].want THEN DefaultPages ELSE call[t].want
        d == NewDesc(a)
    IN  /\ At(t, "get") /\ Fitting(a, call[t].want) = {}
        /\ IF Rooms(k) = {} \/ pool[a] = <<>>
           THEN /\ arenaLock[a] = Null
                /\ Finish(t)
                /\ UNCHANGED <<trieVars, memVars, arenaLock>>
           ELSE LET b == Min(Rooms(k))
                IN  /\ Lock(t, a)
                    /\ desc' = [desc EXCEPT ![d] = [base |-> b, len |-> k,
                                                    alloc |-> FALSE, binned |-> FALSE]]
                    /\ TakeDesc(a)
                    /\ mapped' = mapped \cup (b .. b + k - 1)
                    /\ StartInsert(t, b, b + k - 1, d) /\ TrieCall
                    /\ call' = [call EXCEPT ![t].at = "mint", ![t].span = d]
                    /\ UNCHANGED stranded
        /\ UNCHANGED <<claimVars, epochVars, held, leaked>>

(* span_destroy: unmapped, the descriptor comes back; but when the OS fails *)
(* too, span_destroy returns at once, and its result is not looked at.      *)
SpanDestroy(d) ==
    \/ /\ mapped' = mapped \ PagesOf(d)
       /\ PutDescs(d[1], <<d[2]>>)
       /\ UNCHANGED stranded
    \/ /\ mapped' = mapped \ PagesOf(d)
       /\ stranded' = stranded \cup {[addr |-> desc[d].base, len |-> desc[d].len, span |-> d]}
       /\ UNCHANGED pool

(* The insert is done; or it failed, which failures counts, and the span is *)
(* destroyed.                                                               *)
Minted(t) ==
    LET d == call[t].span
    IN  /\ At(t, "mint") /\ Returned(t)
        /\ IF op[t].ok THEN Now(t, "cut") /\ UNCHANGED <<memVars, arenaLock>>
           ELSE /\ SpanDestroy(d)
                /\ Unlock(call[t].arena)
                /\ Finish(t)
                /\ UNCHANGED desc
        /\ Quiet(t)
        /\ UNCHANGED <<claimVars, epochVars, held, leaked>>

(* scache_cutout_span: the upper end is cut, the rest goes to its bin. *)
CutOut(t) ==
    LET d == call[t].span
        n == call[t].want
        e == NewDesc(call[t].arena)
        b == desc[d].base + desc[d].len - n
    IN  /\ At(t, "cut") /\ desc[d].len > n
        /\ IF pool[call[t].arena] = <<>>
           THEN /\ desc' = [desc EXCEPT ![d].binned = TRUE]
                /\ Unlock(call[t].arena) /\ Finish(t)
                /\ UNCHANGED <<trieVars, pool>>
           ELSE /\ desc' = [desc EXCEPT ![d].len = @ - n, ![d].binned = TRUE,
                                        ![e] = [base |-> b, len |-> n,
                                                alloc |-> FALSE, binned |-> FALSE]]
                /\ TakeDesc(call[t].arena)
                /\ StartInsert(t, b, b + n - 1, e) /\ TrieCall
                /\ call' = [call EXCEPT ![t].at = "cutting", ![t].span = e]
                /\ UNCHANGED arenaLock
        /\ UNCHANGED <<mapped, stranded, claimVars, epochVars, held, leaked>>

Give(t) ==
    LET d == call[t].span
    IN  /\ \/ At(t, "cut") /\ desc[d].len = call[t].want
           \/ At(t, "cutting") /\ Returned(t)
        /\ desc' = [desc EXCEPT ![d].alloc = TRUE]
        /\ Unlock(call[t].arena)
        /\ call' = [call EXCEPT ![t].at = "epoch", ![t].addr = desc[d].base]
        /\ Quiet(t)
        /\ UNCHANGED <<pool, mapped, stranded, claimVars, epochVars, held, leaked>>

-----------------------------------------------------------------------------
(* The epoch of arena_get_span, without a lock: compare, then add or decay *)

(* a mutant: reaching the maximum is no reason to decay *)
EpochFullLate(a, n) == (EpochMax - alloc[a]) % Word < n

EpochFull(a, n) == (EpochMax - alloc[a]) % Word <= n

EpochCheck(t) ==
    LET a == call[t].arena
    IN  /\ At(t, "epoch")
        /\ call' = [call EXCEPT ![t].at = IF EpochFull(a, call[t].want) THEN "decay" ELSE "add",
                                ![t].seen = alloc[a]]
        /\ UNCHANGED <<trieVars, memVars, arenaLock, claimVars, epochVars, held, leaked>>

Deliver(t) == /\ held' = held \cup {[addr |-> call[t].addr, len |-> call[t].want]}
              /\ Finish(t)

(* epoch.alloc += nbytes is a load and a store; a build may also keep the  *)
(* value it compared.                                                      *)
EpochLoad(t) ==
    /\ At(t, "add")
    /\ \E v \in {call[t].seen, alloc[call[t].arena]} :
          call' = [call EXCEPT ![t].at = "store", ![t].loaded = v]
    /\ UNCHANGED <<trieVars, memVars, arenaLock, claimVars, epochVars, held, leaked>>

EpochStore(t) ==
    LET a == call[t].arena
    IN  /\ At(t, "store")
        /\ alloc' = [alloc EXCEPT ![a] = (call[t].loaded + call[t].want) % Word]
        /\ raced' = IF call[t].loaded = call[t].seen THEN raced ELSE raced \cup {a}
        /\ Deliver(t)
        /\ UNCHANGED <<trieVars, memVars, arenaLock, claimVars, leaked>>

(* _arena_decay takes the lock of the span cache; when it fails the span   *)
(* is neither returned nor put back.                                       *)
Decay(t) ==
    LET a == call[t].arena
    IN  /\ At(t, "decay") /\ arenaLock[a] = Null
        /\ \/ Now(t, "reset") /\ UNCHANGED <<failures, leaked>>
           \/ /\ failures < MaxFailures
              /\ failures' = failures + 1
              /\ leaked' = leaked \cup {[addr |-> call[t].addr, len |-> call[t].want]}
              /\ Finish(t)
        /\ UNCHANGED <<node, nnodes, trieLock, op, memVars, arenaLock, claimVars,
                       epochVars, held>>

EpochReset(t) ==
    LET a == call[t].arena
    IN  /\ At(t, "reset")
        /\ alloc' = [alloc EXCEPT ![a] = 0]
        /\ Deliver(t)
        /\ UNCHANGED <<trieVars, memVars, arenaLock, claimVars, raced, leaked>>

-----------------------------------------------------------------------------
(* glob_free of a span; "left" to "merge" hold the lock of its arena. *)

Free(t, h) ==
    /\ At(t, "idle") /\ Begin /\ h \in held
    /\ held' = held \ {h}
    /\ call' = [call EXCEPT ![t] = [NoCall EXCEPT !.at = "find", !.addr = h.addr, !.want = h.len]]
    /\ StartLookup(t, h.addr) /\ TrieCall
    /\ UNCHANGED <<memVars, arenaLock, claimVars, epochVars, leaked>>

(* scache_put_span, as far as the first lookup of span_get_adj; or, without *)
(* a descriptor, TSALLOC_INVALID_ARGS                                       *)
PutSpan(t) ==
    LET d == op[t].data
    IN  /\ At(t, "find") /\ Returned(t)
        /\ IF d = Null THEN Finish(t) /\ Quiet(t) /\ UNCHANGED <<desc, arenaLock>>
           ELSE /\ Lock(t, d[1])
                /\ desc' = [desc EXCEPT ![d].alloc = FALSE]
                /\ call' = [call EXCEPT ![t].at = "left", ![t].span = d, ![t].arena = d[1]]
                /\ StartLookup(t, desc[d].base - 1) /\ TrieCall
        /\ UNCHANGED <<pool, mapped, stranded, claimVars, epochVars, held, leaked>>

GetRight(t) ==
    LET d == call[t].span
    IN  /\ At(t, "left") /\ Returned(t)
        /\ call' = [call EXCEPT ![t].at = "right", ![t].left = op[t].data]
        /\ StartLookup(t, desc[d].base + desc[d].len) /\ TrieCall
        /\ UNCHANGED <<memVars, arenaLock, claimVars, epochVars, held, leaked>>

Adjacent(l, r) == desc[l].base + desc[l].len = desc[r].base

(* a mutant: the arenas are not compared *)
CanMergeAnyArena(l, r) == /\ l # Null /\ r # Null
                          /\ ~desc[l].alloc /\ ~desc[r].alloc
                          /\ Adjacent(l, r)

(* span_can_merge: it may read a neighbour whose arena is not locked, or   *)
(* which went back to its pool meanwhile.                                  *)
CanMerge(l, r) == /\ l # Null /\ r # Null
                  /\ ~desc[l].alloc /\ ~desc[r].alloc
                  /\ l[1] = r[1]
                  /\ Adjacent(l, r)

(* scache_merge_adj, as far as its pagetrie_insert: the leftmost descriptor *)
(* stays, the others go back to the pool.                                   *)
MergeAdj(t) ==
    LET d      == call[t].span
        l      == call[t].left
        r      == op[t].data
        left   == CanMerge(l, d)
        right  == CanMerge(d, r)
        keep   == IF left THEN l ELSE d
        merged == {d} \cup (IF left THEN {l} ELSE {}) \cup (IF right THEN {r} ELSE {})
        len    == (IF left THEN desc[l].len ELSE 0) + desc[d].len
                  + (IF right THEN desc[r].len ELSE 0)
        base   == desc[keep].base
    IN  /\ At(t, "right") /\ Returned(t)
        /\ desc' = [e \in Descs |-> [desc[e] EXCEPT !.len = IF e = keep THEN len ELSE @,
                                                    !.binned = @ /\ e \notin merged]]
        /\ PutDescs(d[1], (IF right THEN <<r[2]>> ELSE <<>>) \o (IF left THEN <<d[2]>> ELSE <<>>))
        /\ call' = [call EXCEPT ![t].at = "merge", ![t].span = keep, ![t].left = Null]
        /\ StartInsert(t, base, base + len - 1, keep) /\ TrieCall
        /\ UNCHANGED <<mapped, stranded, arenaLock, claimVars, epochVars, held, leaked>>

(* The result of that insert is not looked at. *)
PutDone(t) ==
    LET d == call[t].span
    IN  /\ At(t, "merge") /\ Returned(t)
        /\ desc' = [desc EXCEPT ![d].binned = TRUE]
        /\ Unlock(call[t].arena)
        /\ Finish(t) /\ Quiet(t)
        /\ UNCHANGED <<pool, mapped, stranded, claimVars, epochVars, held, leaked>>

-----------------------------------------------------------------------------
Trie(t) == /\ TrieStep(t)
           /\ UNCHANGED <<memVars, arenaLock, claimVars, epochVars, call, held, leaked>>

(* What follows the start of a call *)
Continue(t) ==
    \/ ClaimArena(t) \/ PopBin(t) \/ Mint(t) \/ Minted(t) \/ CutOut(t) \/ Give(t)
    \/ EpochCheck(t) \/ EpochLoad(t) \/ EpochStore(t) \/ Decay(t) \/ EpochReset(t)
    \/ PutSpan(t) \/ GetRight(t) \/ MergeAdj(t) \/ PutDone(t)
    \/ Trie(t)

(* The bound is reached and every call has returned. *)
Terminated == /\ calls = MaxCalls /\ \A t \in Threads : At(t, "idle")
              /\ UNCHANGED vars

Next == \/ \E t \in Threads :
               \/ \E n \in Requests : Malloc(t, n)
               \/ \E h \in held : Free(t, h)
               \/ Continue(t) /\ UNCHANGED calls
        \/ Terminated

Spec == Init /\ [][Next]_vars

-----------------------------------------------------------------------------
(* Whoever frees a span finds the descriptor of exactly that span, whatever *)
(* other threads split, merge, map or roll back while the three loads run   *)
(* (pagetrie.c:270).                                                        *)
HolderFindsSpan ==
    \A t \in Threads :
        At(t, "find") /\ Returned(t) =>
            /\ op[t].data \in InUse
            /\ desc[op[t].data] = [base |-> call[t].addr, len |-> call[t].want,
                                   alloc |-> TRUE, binned |-> FALSE]

(* What a call has in its hands: nothing yet, a span by its address, or a   *)
(* span by its descriptor                                                   *)
InHand(t) == CASE call[t].at \in {"idle", "claim", "get"} -> {}
               [] call[t].at = "find" -> SpanRange([addr |-> call[t].addr, len |-> call[t].want])
               [] OTHER -> PagesOf(call[t].span)

PlacesOf(p) == Cardinality({d \in InUse : desc[d].binned /\ p \in PagesOf(d)})
               + Cardinality({s \in held \cup leaked : p \in SpanRange(s)})
               + Cardinality({t \in Threads : p \in InHand(t)})

(* Every mapped page is in one place only: a bin, a span the program holds, *)
(* the hands of one call, or lost by a decay that failed; and one that a    *)
(* rollback could not unmap is in none, nor ever given again.  So no page   *)
(* is given twice, no two arenas take each other's spans, and nothing else  *)
(* is lost (scache.c:241, scache.c:261, arena.h:217).                       *)
PagesAccounted == /\ \A p \in Pages : PlacesOf(p) = IF p \in mapped THEN 1 ELSE 0
                  /\ \A s \in stranded : SpanRange(s) \cap mapped = {}

(* The counter of an arena reaches its maximum, after which the unsigned    *)
(* difference is huge and decays stop, only when a thread added to a value  *)
(* that was not the one it had compared (arena.h:217).                      *)
EpochPassedOnlyByRace == \A a \in Arenas \ raced : alloc[a] < EpochMax

(* However many threads claim at once, the claims go round: no arena is     *)
(* ever two claims ahead of another (glob.h:52).                            *)
ClaimsGoRound == /\ arena_idx \in Arenas
                 /\ \A a \in Arenas : claims[a] \in {0, 1}
=============================================================================
