-------------------------- MODULE GlobSpansProofs ---------------------------
(***************************************************************************)
(* Proofs about GlobSpans for any number of arenas, threads, descriptors   *)
(* and pages.  What the threads share without a lock: the claims of        *)
(* glob_claim_arena go round, and the epoch counter of an arena passes its *)
(* maximum only by a race.  And the pages: every mapped page is in one     *)
(* place, and the unlocked lookup of a free finds the span it frees.       *)
(***************************************************************************)
EXTENDS GlobSpans, PageTrieProofs, DistinctSeqs, FiniteSetTheorems, SequenceTheorems,
        WellFoundedInduction

(* How many claims each arena is ahead: the arenas below the index have had *)
(* their turn of this round (glob.h:45).                                    *)
Ahead(i) == [a \in Arenas |-> IF a < i THEN 1 ELSE 0]

ClaimsInv == /\ arena_idx \in Arenas
             /\ claims = Ahead(arena_idx)

(* The least element of a set is what Min returns. *)
LEMMA MinIs == ASSUME NEW S, NEW m \in S, S \subseteq Int, \A x \in S : m <= x
               PROVE  Min(S) = m
<1> DEFINE IsLeast(x) == \A y \in S : x <= y
<1>1. \A x \in S : IsLeast(x) => x = m
  OBVIOUS
<1>2. m \in S /\ IsLeast(m)
  OBVIOUS
<1>3. Min(S) = CHOOSE x \in S : IsLeast(x)
  BY DEF Min
<1> HIDE DEF IsLeast
<1> QED
  BY <1>1, <1>2, <1>3

(* The index stays below narenas (glob.h:47). *)
LEMMA NextInArenas == ASSUME NEW i \in Arenas PROVE NextArena(i) \in Arenas
  BY GlobSpansAssumption DEF NextArena, Arenas

(* Counting the claim of the arena at the index gives what is ahead at the  *)
(* next index: one more of this round, or none when the round is complete.  *)
LEMMA CountIsNext ==
    ASSUME NEW i \in Arenas, claims = Ahead(i)
    PROVE  CountClaim(i) = Ahead(NextArena(i))
<1> DEFINE c1 == [claims EXCEPT ![i] = @ + 1]
           least == IF i + 1 >= NArenas THEN 1 ELSE 0
<1>1. NArenas \in Nat \ {0} /\ i \in Nat /\ i < NArenas /\ Arenas = 0 .. NArenas - 1
  BY GlobSpansAssumption DEF Arenas
<1>2. c1 = [a \in Arenas |-> IF a <= i THEN 1 ELSE 0]
  BY <1>1 DEF Ahead
<1>3. Min({c1[a] : a \in Arenas}) = least
  <2>1. \A a \in Arenas : c1[a] \in {0, 1} /\ least <= c1[a]
    BY <1>1, <1>2
  <2>2. \E a \in Arenas : c1[a] = least
    <3>1. CASE i + 1 >= NArenas
      BY <1>1, <1>2, <3>1
    <3>2. CASE ~(i + 1 >= NArenas)
      <4>1. i + 1 \in Arenas /\ c1[i + 1] = 0
        BY <1>1, <1>2, <3>2
      <4> QED
        BY <4>1, <3>2
    <3> QED
      BY <3>1, <3>2
  <2> DEFINE S == {c1[a] : a \in Arenas}
  <2>3. least \in S /\ S \subseteq Int /\ \A x \in S : least <= x
    BY <2>1, <2>2
  <2> HIDE DEF S, least
  <2>4. Min(S) = least
    BY <2>3, MinIs
  <2> QED
    BY <2>4 DEF S
<1>4. CountClaim(i) = [a \in Arenas |-> c1[a] - least]
  BY <1>3 DEF CountClaim
<1>5. \A a \in Arenas : c1[a] - least = IF a < NextArena(i) THEN 1 ELSE 0
  BY <1>1, <1>2 DEF NextArena
<1> QED
  BY <1>4, <1>5 DEF Ahead

(* Every call but a claim leaves index and claims alone. *)
LEMMA OthersKeepClaims ==
    ASSUME NEW t \in Threads,
           \/ \E n \in Requests : Malloc(t, n)
           \/ \E h \in held : Free(t, h)
           \/ PopBin(t) \/ Mint(t) \/ Minted(t) \/ CutOut(t) \/ Give(t)
           \/ EpochCheck(t) \/ EpochLoad(t) \/ EpochStore(t) \/ Decay(t) \/ EpochReset(t)
           \/ PutSpan(t) \/ GetRight(t) \/ MergeAdj(t) \/ PutDone(t)
           \/ Trie(t)
    PROVE  UNCHANGED claimVars
<1>1. CASE \E n \in Requests : Malloc(t, n)
  BY <1>1 DEF Malloc
<1>2. CASE \E h \in held : Free(t, h)
  BY <1>2 DEF Free
<1>3. CASE PopBin(t) \/ Mint(t) \/ Minted(t)
  BY <1>3 DEF PopBin, Mint, Minted
<1>4. CASE CutOut(t) \/ Give(t)
  BY <1>4 DEF CutOut, Give
<1>5. CASE EpochCheck(t) \/ EpochLoad(t) \/ EpochStore(t) \/ Decay(t) \/ EpochReset(t)
  BY <1>5 DEF EpochCheck, EpochLoad, EpochStore, Decay, EpochReset
<1>6. CASE PutSpan(t) \/ GetRight(t) \/ MergeAdj(t) \/ PutDone(t)
  BY <1>6 DEF PutSpan, GetRight, MergeAdj, PutDone
<1>7. CASE Trie(t)
  BY <1>7 DEF Trie
<1> QED
  BY <1>1, <1>2, <1>3, <1>4, <1>5, <1>6, <1>7

(* The compare-and-swap claims the arena at the index, or only loads again. *)
LEMMA ClaimKeeps ==
    ASSUME ClaimsInv, NEW t \in Threads, ClaimArena(t)
    PROVE  ClaimsInv'
<1>1. CASE /\ arena_idx' = NextArena(arena_idx)
           /\ claims' = CountClaim(arena_idx)
  BY <1>1, NextInArenas, CountIsNext DEF ClaimsInv, Ahead, Arenas
<1>2. CASE UNCHANGED claimVars
  BY <1>2 DEF ClaimsInv, claimVars, Ahead, Arenas
<1> QED
  BY <1>1, <1>2 DEF ClaimArena

(* Nobody has claimed at first. *)
LEMMA ClaimsInit == Init => ClaimsInv
  BY GlobSpansAssumption DEF Init, ClaimsInv, Ahead, Arenas

(* A step of any thread keeps the invariant. *)
LEMMA ClaimsStep == ClaimsInv /\ [Next]_vars => ClaimsInv'
<1> SUFFICES ASSUME ClaimsInv, [Next]_vars PROVE ClaimsInv'
  OBVIOUS
<1>1. CASE \E t \in Threads : ClaimArena(t)
  BY <1>1, ClaimKeeps
<1>2. CASE UNCHANGED claimVars
  BY <1>2 DEF ClaimsInv, claimVars, Ahead, Arenas
<1>3. CASE UNCHANGED vars
  BY <1>3, <1>2 DEF vars, claimVars
<1> QED
  BY <1>1, <1>2, <1>3, OthersKeepClaims DEF Next, Continue, Terminated

(* In every behaviour, for every number of threads and arenas, the claims  *)
(* go round: the index names an arena, and no arena is two claims ahead of *)
(* another (glob.h:45).                                                    *)
THEOREM ClaimsRound == Spec => []ClaimsGoRound
<1>1. ClaimsInv => ClaimsGoRound
  BY DEF ClaimsInv, ClaimsGoRound, Ahead
<1> QED
  BY <1>1, ClaimsInit, ClaimsStep, PTL DEF Spec

-----------------------------------------------------------------------------
(* The epoch *)

(* Where a call that allocates knows what it wants *)
Allocating == {"claim", "get", "mint", "cut", "cutting", "epoch", "add", "store"}

IsCall(c) == c = [f \in DOMAIN NoCall |-> c[f]]

CallsOK == /\ call = [t \in Threads |-> call[t]]
           /\ alloc = [a \in Arenas |-> alloc[a]]
           /\ \A t \in Threads :
                 /\ IsCall(call[t])
                 /\ call[t].at \in Allocating => call[t].want \in Nat

(* A thread that has compared the counter has room below the maximum for   *)
(* what it adds to the value it saw.                                       *)
RoomSeen == \A t \in Threads :
               call[t].at \in {"add", "store"} /\ call[t].arena \in Arenas \ raced =>
                   /\ call[t].seen \in 0 .. EpochMax - 1
                   /\ call[t].want < EpochMax - call[t].seen

BelowMax == \A a \in Arenas \ raced : alloc[a] \in 0 .. EpochMax - 1

EpochInv == CallsOK /\ RoomSeen /\ BelowMax

(* A step of t that touches no counter and compares none *)
Elsewhere(t) ==
    /\ UNCHANGED epochVars
    /\ call' = [call EXCEPT ![t] = call'[t]]
    /\ IsCall(call'[t])
    /\ call'[t].at \notin {"add", "store"}
    /\ call'[t].at \in Allocating => call'[t].want \in Nat

(* Such a step keeps the invariant. *)
LEMMA ElsewhereKeeps ==
    ASSUME EpochInv, NEW t \in Threads, Elsewhere(t)
    PROVE  EpochInv'
<1>1. CallsOK'
  BY DEF EpochInv, CallsOK, Elsewhere, IsCall, epochVars
<1>2. RoomSeen'
  BY DEF EpochInv, CallsOK, RoomSeen, Elsewhere, epochVars
<1>3. BelowMax'
  BY DEF EpochInv, BelowMax, Elsewhere, epochVars
<1> QED
  BY <1>1, <1>2, <1>3 DEF EpochInv

(* The steps before the epoch of a call that allocates are of that kind. *)
LEMMA GetsElsewhere ==
    ASSUME EpochInv, NEW t \in Threads,
           \/ \E n \in Requests : Malloc(t, n)
           \/ ClaimArena(t) \/ PopBin(t) \/ Mint(t) \/ Minted(t) \/ CutOut(t) \/ Give(t)
    PROVE  Elsewhere(t)
<1> USE DEF EpochInv, CallsOK, Elsewhere, IsCall, Allocating, At, NoCall
<1>1. CASE \E n \in Requests : Malloc(t, n)
  <2>1. PICK n \in Requests :
           /\ call' = [call EXCEPT ![t] = [NoCall EXCEPT !.at = "claim", !.want = n,
                                                         !.seen = arena_idx]]
           /\ UNCHANGED epochVars
    BY <1>1 DEF Malloc
  <2>2. n \in Nat
    BY GlobSpansAssumption
  <2> QED
    BY <2>1, <2>2
<1>2. CASE ClaimArena(t)
  BY <1>2 DEF ClaimArena
<1>3. CASE PopBin(t)
  <2>1. PICK d : /\ call[t].at = "get"
                 /\ call' = [call EXCEPT ![t].at = "cut", ![t].span = d]
                 /\ UNCHANGED epochVars
    BY <1>3, Zenon DEF PopBin
  <2>2. /\ call'[t] = [call[t] EXCEPT !.at = "cut", !.span = d]
        /\ call' = [call EXCEPT ![t] = call'[t]]
    BY <2>1
  <2>3. call'[t].at = "cut" /\ call'[t].want = call[t].want /\ call[t].want \in Nat
    BY <2>1, <2>2
  <2> QED
    BY <2>1, <2>2, <2>3
<1>4. CASE Mint(t)
  BY <1>4 DEF Mint, Finish
<1>5. CASE Minted(t)
  BY <1>5 DEF Minted, Now, Finish
<1>6. CASE CutOut(t)
  BY <1>6 DEF CutOut, Finish
<1>7. CASE Give(t)
  <2>1. PICK x : /\ call[t].at = "cut" \/ call[t].at = "cutting"
                 /\ call' = [call EXCEPT ![t].at = "epoch", ![t].addr = x]
                 /\ UNCHANGED epochVars
    <3>1. call[t].at = "cut" \/ call[t].at = "cutting"
      BY <1>7 DEF Give
    <3> QED
      BY <1>7, <3>1, Zenon DEF Give
  <2>2. /\ call'[t] = [call[t] EXCEPT !.at = "epoch", !.addr = x]
        /\ call' = [call EXCEPT ![t] = call'[t]]
    BY <2>1
  <2>3. call'[t].at = "epoch" /\ call'[t].want = call[t].want /\ call[t].want \in Nat
    BY <2>1, <2>2
  <2> QED
    BY <2>1, <2>2, <2>3
<1> QED
  BY <1>1, <1>2, <1>3, <1>4, <1>5, <1>6, <1>7

(* So are a decay and the steps of a free. *)
LEMMA FreesElsewhere ==
    ASSUME EpochInv, NEW t \in Threads,
           \/ Decay(t)
           \/ \E h \in held : Free(t, h)
           \/ PutSpan(t) \/ GetRight(t) \/ MergeAdj(t) \/ PutDone(t)
    PROVE  Elsewhere(t)
<1> USE DEF EpochInv, CallsOK, Elsewhere, IsCall, Allocating, At, NoCall
<1>1. CASE Decay(t)
  BY <1>1 DEF Decay, Now, Finish
<1>2. CASE \E h \in held : Free(t, h)
  <2>1. PICK h \in held :
           /\ call' = [call EXCEPT ![t] = [NoCall EXCEPT !.at = "find", !.addr = h.addr,
                                                         !.want = h.len]]
           /\ UNCHANGED epochVars
    BY <1>2 DEF Free
  <2> QED
    BY <2>1
<1>3. CASE PutSpan(t)
  BY <1>3 DEF PutSpan, Finish
<1>4. CASE GetRight(t)
  <2>1. /\ call' = [call EXCEPT ![t].at = "right", ![t].left = op[t].data]
        /\ UNCHANGED epochVars
    BY <1>4 DEF GetRight
  <2> QED
    BY <2>1
<1>5. CASE MergeAdj(t)
  <2>1. PICK keep :
           /\ call' = [call EXCEPT ![t].at = "merge", ![t].span = keep, ![t].left = Null]
           /\ UNCHANGED epochVars
    BY <1>5, Zenon DEF MergeAdj
  <2>2. /\ call'[t] = [call[t] EXCEPT !.at = "merge", !.span = keep, !.left = Null]
        /\ call' = [call EXCEPT ![t] = call'[t]]
    BY <2>1
  <2>3. call'[t].at = "merge"
    BY <2>2
  <2> QED
    BY <2>1, <2>2, <2>3
<1>6. CASE PutDone(t)
  BY <1>6 DEF PutDone, Finish
<1> QED
  BY <1>1, <1>2, <1>3, <1>4, <1>5, <1>6

(* A number below the modulus is its own remainder. *)
LEMMA SmallMod == ASSUME NEW x \in Nat, NEW w \in Nat \ {0}, x < w PROVE x % w = x
  OBVIOUS

(* Below the maximum the unsigned difference is the difference, so what    *)
(* does not fill the epoch fits below the maximum (arena.h:217).           *)
LEMMA NotFullHasRoom ==
    ASSUME NEW a \in Arenas, alloc[a] \in 0 .. EpochMax - 1,
           NEW n \in Nat, ~EpochFull(a, n)
    PROVE  n < EpochMax - alloc[a]
<1>1. EpochMax - alloc[a] \in Nat /\ EpochMax - alloc[a] < Word /\ Word \in Nat \ {0}
  BY GlobSpansAssumption
<1>2. (EpochMax - alloc[a]) % Word = EpochMax - alloc[a]
  BY <1>1, SmallMod
<1> QED
  BY <1>1, <1>2 DEF EpochFull

(* The compare records a value with room. *)
LEMMA CheckKeeps ==
    ASSUME EpochInv, NEW t \in Threads, EpochCheck(t)
    PROVE  EpochInv'
<1> USE DEF EpochInv, At
<1> DEFINE a    == call[t].arena
           full == EpochFull(a, call[t].want)
<1>0. PICK at \in {"decay", "add"} :
         /\ call[t].at = "epoch" /\ (at = "add" => ~full)
         /\ call' = [call EXCEPT ![t].at = at, ![t].seen = alloc[a]]
         /\ UNCHANGED epochVars
  <2>1. CASE full
    BY <2>1 DEF EpochCheck
  <2>2. CASE ~full
    BY <2>2 DEF EpochCheck
  <2> QED
    BY <2>1, <2>2
<1> HIDE DEF full
<1>1. CallsOK'
  <2>1. call'[t] = [call[t] EXCEPT !.at = at, !.seen = alloc[a]]
    BY <1>0 DEF CallsOK
  <2>2. IsCall(call'[t])
    BY <2>1 DEF CallsOK, IsCall, NoCall
  <2>3. call'[t].at \in {"decay", "add"} /\ call'[t].want = call[t].want
    BY <2>1 DEF CallsOK, IsCall, NoCall
  <2>4. call[t].want \in Nat
    BY <1>0 DEF CallsOK, Allocating
  <2> QED
    BY <1>0, <2>2, <2>3, <2>4 DEF CallsOK, IsCall, epochVars
<1>2. RoomSeen'
  <2> SUFFICES ASSUME NEW u \in Threads, call'[u].at \in {"add", "store"},
                      call'[u].arena \in Arenas \ raced'
               PROVE  /\ call'[u].seen \in 0 .. EpochMax - 1
                      /\ call'[u].want < EpochMax - call'[u].seen
    BY DEF RoomSeen
  <2>1. CASE u # t
    BY <1>0, <2>1 DEF CallsOK, RoomSeen, epochVars
  <2>2. CASE u = t
    <3>1. /\ a \in Arenas \ raced /\ call[t].want \in Nat /\ ~full
          /\ call'[t].seen = alloc[a] /\ call'[t].want = call[t].want
      <4>1. call'[t] = [call[t] EXCEPT !.at = at, !.seen = alloc[a]]
        BY <1>0 DEF CallsOK
      <4>2. /\ call'[t].at = at /\ call'[t].arena = a
            /\ call'[t].seen = alloc[a] /\ call'[t].want = call[t].want
        BY <4>1 DEF CallsOK, IsCall, NoCall
      <4> QED
        BY <1>0, <2>2, <4>2 DEF CallsOK, Allocating, epochVars
    <3>2. alloc[a] \in 0 .. EpochMax - 1
      BY <3>1 DEF BelowMax
    <3> QED
      BY <2>2, <3>1, <3>2, NotFullHasRoom DEF full
  <2> QED
    BY <2>1, <2>2
<1>3. BelowMax'
  BY <1>0 DEF BelowMax, epochVars
<1> QED
  BY <1>1, <1>2, <1>3

(* The load keeps what was seen and wanted. *)
LEMMA LoadKeeps ==
    ASSUME EpochInv, NEW t \in Threads, EpochLoad(t)
    PROVE  EpochInv'
<1> USE DEF EpochInv, At
<1>1. CallsOK'
  BY DEF CallsOK, IsCall, Allocating, EpochLoad, epochVars
<1>2. RoomSeen'
  BY DEF CallsOK, RoomSeen, IsCall, EpochLoad, epochVars
<1>3. BelowMax'
  BY DEF BelowMax, EpochLoad, epochVars
<1> QED
  BY <1>1, <1>2, <1>3

(* A sum stored stays below the maximum, or its arena is raced from now on. *)
LEMMA StoreKeeps ==
    ASSUME EpochInv, NEW t \in Threads, EpochStore(t)
    PROVE  EpochInv'
<1> USE DEF EpochInv, At
<1> DEFINE a == call[t].arena
<1>1. CallsOK'
  BY DEF CallsOK, IsCall, Allocating, EpochStore, Deliver, Finish, NoCall
<1>2. raced \subseteq raced' /\ call' = [call EXCEPT ![t] = NoCall]
  BY DEF EpochStore, Deliver, Finish
<1>3. RoomSeen'
  BY <1>2 DEF CallsOK, RoomSeen, NoCall
<1>4. BelowMax'
  <2> SUFFICES ASSUME NEW b \in Arenas \ raced' PROVE alloc'[b] \in 0 .. EpochMax - 1
    BY DEF BelowMax
  <2>1. CASE b # a
    BY <1>2, <2>1 DEF CallsOK, BelowMax, EpochStore
  <2>2. CASE b = a
    <3>1. /\ call[t].loaded = call[t].seen
          /\ call[t].at = "store" /\ a \in Arenas \ raced
          /\ alloc'[a] = (call[t].loaded + call[t].want) % Word
      BY <1>2, <2>2 DEF CallsOK, EpochStore
    <3>2. /\ call[t].seen \in 0 .. EpochMax - 1 /\ call[t].want \in Nat
          /\ call[t].want < EpochMax - call[t].seen
      BY <3>1 DEF RoomSeen, CallsOK, Allocating
    <3> DEFINE sum == call[t].seen + call[t].want
    <3>3. sum \in 0 .. EpochMax - 1 /\ sum < Word /\ Word \in Nat \ {0}
      BY <3>2, GlobSpansAssumption
    <3>4. sum % Word = sum
      BY <3>3, SmallMod
    <3> QED
      BY <2>2, <3>1, <3>3, <3>4
  <2> QED
    BY <2>1, <2>2
<1> QED
  BY <1>1, <1>3, <1>4

(* A decay that is done starts the counter over. *)
LEMMA ResetKeeps ==
    ASSUME EpochInv, NEW t \in Threads, EpochReset(t)
    PROVE  EpochInv'
<1> USE DEF EpochInv, At
<1>1. CallsOK'
  BY DEF CallsOK, IsCall, Allocating, EpochReset, Deliver, Finish, NoCall
<1>2. RoomSeen'
  BY DEF CallsOK, RoomSeen, EpochReset, Deliver, Finish, NoCall
<1>3. BelowMax'
  BY GlobSpansAssumption DEF CallsOK, BelowMax, EpochReset
<1> QED
  BY <1>1, <1>2, <1>3

(* Where no call moves and no counter does, nothing changes: the steps of   *)
(* the pagetrie are of this kind.                                           *)
LEMMA NoMoveKeeps ==
    ASSUME EpochInv, UNCHANGED <<call, epochVars>>
    PROVE  EpochInv'
  BY DEF EpochInv, CallsOK, RoomSeen, BelowMax, IsCall, epochVars

(* The counters start at 0 and no thread is in a call. *)
LEMMA EpochInit == Init => EpochInv
<1> SUFFICES ASSUME Init PROVE EpochInv
  OBVIOUS
<1>1. CallsOK
  BY DEF Init, CallsOK, IsCall, NoCall, Allocating
<1>2. RoomSeen
  BY DEF Init, RoomSeen, NoCall
<1>3. BelowMax
  BY GlobSpansAssumption DEF Init, BelowMax
<1> QED
  BY <1>1, <1>2, <1>3 DEF EpochInv

(* A step of any thread keeps the invariant. *)
LEMMA EpochStep == EpochInv /\ [Next]_vars => EpochInv'
<1> SUFFICES ASSUME EpochInv, [Next]_vars PROVE EpochInv'
  OBVIOUS
<1>1. ASSUME NEW t \in Threads, \E n \in Requests : Malloc(t, n) PROVE EpochInv'
  BY <1>1, GetsElsewhere, ElsewhereKeeps
<1>2. ASSUME NEW t \in Threads, \E h \in held : Free(t, h) PROVE EpochInv'
  BY <1>2, FreesElsewhere, ElsewhereKeeps
<1>3. ASSUME NEW t \in Threads, Continue(t) PROVE EpochInv'
  <2>1. CASE ClaimArena(t) \/ PopBin(t) \/ Mint(t) \/ Minted(t) \/ CutOut(t) \/ Give(t)
    BY <2>1, GetsElsewhere, ElsewhereKeeps
  <2>2. CASE EpochCheck(t) \/ EpochLoad(t) \/ EpochStore(t) \/ EpochReset(t)
    BY <2>2, CheckKeeps, LoadKeeps, StoreKeeps, ResetKeeps
  <2>3. CASE Decay(t) \/ PutSpan(t) \/ GetRight(t) \/ MergeAdj(t) \/ PutDone(t)
    BY <2>3, FreesElsewhere, ElsewhereKeeps
  <2>4. CASE Trie(t)
    BY <2>4, NoMoveKeeps DEF Trie
  <2> QED
    BY <1>3, <2>1, <2>2, <2>3, <2>4 DEF Continue
<1>4. CASE UNCHANGED vars
  BY <1>4, NoMoveKeeps DEF vars, epochVars
<1> QED
  BY <1>1, <1>2, <1>3, <1>4 DEF Next, Terminated

(* For every number of threads and arenas, every epoch and every width of  *)
(* the counter: an arena's counter reaches its maximum, after which decays *)
(* stop, only when a thread added to a value other than the one it had     *)
(* compared (arena.h:217).                                                 *)
THEOREM EpochKept == Spec => []EpochPassedOnlyByRace
<1>1. EpochInv => EpochPassedOnlyByRace
  BY GlobSpansAssumption DEF EpochInv, BelowMax, EpochPassedOnlyByRace
<1> QED
  BY <1>1, EpochInit, EpochStep, PTL DEF Spec

-----------------------------------------------------------------------------
(* The pages *)

WorkAts == {"mint", "cut", "cutting", "left", "right", "merge"}

PassAts == {"epoch", "add", "store", "decay", "reset"}

(* A thread works on a span under the lock of its arena, passes one it was  *)
(* given, or finds one it frees.                                            *)
Works(t) == call[t].at \in WorkAts

Passes(t) == call[t].at \in PassAts

Out(t) == Passes(t) \/ At(t, "find")

SpanRec(d) == [addr |-> desc[d].base, len |-> desc[d].len]

CallSpan(t) == [addr |-> call[t].addr, len |-> call[t].want]

DescsTyped ==
    /\ desc \in [Descs -> [base : Nat, len : Nat, alloc : BOOLEAN, binned : BOOLEAN]]
    /\ pool \in [Arenas -> Seq(1 .. PoolSize)]
    /\ \A a \in Arenas : Distinct(pool[a])
    /\ \A d \in Strays : d \in Descs /\ d[2] \notin ToSet(pool[d[1]])
    /\ arenaLock = [a \in Arenas |-> arenaLock[a]]

Tiles ==
    /\ mapped \subseteq FirstPage .. LastPage
    /\ \A d \in InUse : desc[d].len > 0 /\ PagesOf(d) \subseteq mapped
    /\ \A d, e \in InUse : d # e => PagesOf(d) \cap PagesOf(e) = {}
    /\ \A p \in mapped : \E d \in InUse : p \in PagesOf(d)

WorkOK(t) ==
    LET d == call[t].span
        a == call[t].arena
    IN  /\ call[t].at \in {"idle", "claim", "get", "find"} \cup WorkAts \cup PassAts
        /\ call[t].at \in {"claim", "get", "mint", "cut", "cutting"} => call[t].want \in Nat \ {0}
        /\ At(t, "get") => a \in Arenas
        /\ Works(t) => d \in InUse /\ d[1] = a /\ arenaLock[a] = t
                       /\ ~desc[d].alloc /\ ~desc[d].binned
        /\ call[t].at \in {"mint", "cut"} => desc[d].len >= call[t].want
        /\ At(t, "cutting") => desc[d].len = call[t].want
        /\ Passes(t) => d \in InUse /\ desc[d].alloc /\ SpanRec(d) = CallSpan(t)

FlagOK(d) == /\ ~(desc[d].alloc /\ desc[d].binned)
             /\ \/ desc[d].alloc \/ desc[d].binned
                \/ \E t \in Threads : Works(t) /\ call[t].span = d

FlagsOK == \A d \in InUse : FlagOK(d)

Given == {SpanRec(d) : d \in {e \in InUse : desc[e].alloc}}

Tokens ==
    /\ held \cup leaked \subseteq Given /\ held \cap leaked = {}
    /\ \A t \in Threads : Out(t) => CallSpan(t) \in Given \ (held \cup leaked)
    /\ \A t, u \in Threads : Out(t) /\ Out(u) /\ CallSpan(u) = CallSpan(t) => u = t
    /\ \A s \in Given : s \in held \cup leaked \/ \E t \in Threads : Out(t) /\ CallSpan(t) = s

InsertAts == {"mint", "cutting", "merge"}

LookAts == {"left", "right", "find"}

LookPage(t) ==
    CASE At(t, "left")  -> desc[call[t].span].base - 1
      [] At(t, "right") -> desc[call[t].span].base + desc[call[t].span].len
      [] At(t, "find")  -> call[t].addr

TaskFits(t) ==
    LET d == call[t].span
    IN  /\ call[t].at \in InsertAts =>
             \/ /\ op[t].at \in Inserts /\ op[t].data = d /\ op[t].first = desc[d].base
                /\ op[t].last = desc[d].base + desc[d].len - 1 /\ op[t].page \in PagesOf(d)
             \/ /\ At(t, "mint") /\ op[t].at = "rollback" /\ op[t].first = desc[d].base
                /\ op[t].last \in desc[d].base - 1 .. desc[d].base + desc[d].len - 2
                /\ op[t].page \in desc[d].base .. op[t].last + 1
             \/ Returned(t) /\ (op[t].ok \/ At(t, "mint"))
        /\ call[t].at \in LookAts =>
             \/ op[t].at \in Loads /\ op[t].page = LookPage(t)
             \/ Returned(t)
        /\ call[t].at \notin InsertAts \cup LookAts => op[t].at = "idle"

Pending(t) ==
    IF call[t].at \notin InsertAts THEN {}
    ELSE IF op[t].at \in Inserts THEN op[t].page .. op[t].last
    ELSE IF op[t].at = "rollback" \/ ~op[t].ok THEN PagesOf(call[t].span)
    ELSE {}

UnmappedNull == \A p \in Pages \ mapped : Entry(p) = Null

SettledLead == \A d \in InUse : \A p \in PagesOf(d) :
                  Entry(p) = d \/ \E t \in Threads : p \in Pending(t)

PendingOK(t) ==
    \A p \in Pending(t) :
        IF At(t, "mint")
        THEN Entry(p) = IF op[t].at = "rollback" /\ p \in op[t].page .. op[t].last
                        THEN call[t].span ELSE Null
        ELSE Entry(p) \in Descs /\ Entry(p)[1] = call[t].arena

OfArena(d, a) == d = Null \/ (d \in Descs /\ (d[1] = a => d \in InUse))

LookOK(t) ==
    /\ call[t].at \in {"left", "right"} /\ Returned(t) => OfArena(op[t].data, call[t].arena)
    /\ At(t, "right") => OfArena(call[t].left, call[t].arena)
    /\ At(t, "find") /\ Returned(t) =>
          op[t].data \in InUse /\ desc[op[t].data].alloc /\ SpanRec(op[t].data) = CallSpan(t)

SpansInv ==
    /\ CallsOK /\ TrieInv /\ DescsTyped /\ Tiles /\ FlagsOK /\ Tokens
    /\ UnmappedNull /\ SettledLead
    /\ \A t \in Threads : WorkOK(t) /\ TaskFits(t) /\ PendingOK(t) /\ LookOK(t)

(* What the types say of one descriptor *)
LEMMA DescFields ==
    ASSUME DescsTyped, NEW d \in Descs
    PROVE  /\ desc[d].base \in Nat /\ desc[d].len \in Nat
           /\ desc[d].alloc \in BOOLEAN /\ desc[d].binned \in BOOLEAN
           /\ desc[d] = [base |-> desc[d].base, len |-> desc[d].len,
                         alloc |-> desc[d].alloc, binned |-> desc[d].binned]
           /\ d[1] \in Arenas /\ d[2] \in 1 .. PoolSize /\ d = <<d[1], d[2]>> /\ d # Null
<1>1. desc[d] \in [base : Nat, len : Nat, alloc : BOOLEAN, binned : BOOLEAN]
  BY DEF DescsTyped
<1>2. d # Null
  BY GlobSpansAssumption, PageTrieAssumption
<1> QED
  BY <1>1, <1>2 DEF Descs

(* The pages of a span are pages of the tree, and so are its neighbours. *)
LEMMA SpanPages ==
    ASSUME DescsTyped, Tiles, NEW d \in InUse
    PROVE  /\ d \in Descs /\ desc[d].base \in Nat \ {0} /\ desc[d].len \in Nat \ {0}
           /\ desc[d].base \in PagesOf(d)
           /\ PagesOf(d) \subseteq mapped /\ mapped \subseteq Pages
           /\ desc[d].base - 1 \in Pages /\ desc[d].base + desc[d].len \in Pages
<1>1. d \in Descs
  BY DEF InUse
<1>2. desc[d].base \in Nat /\ desc[d].len \in Nat
  BY <1>1, DescFields
<1>3. desc[d].len > 0 /\ PagesOf(d) \subseteq mapped /\ mapped \subseteq FirstPage .. LastPage
  BY DEF Tiles
<1>4. desc[d].base \in PagesOf(d) /\ desc[d].base + desc[d].len - 1 \in PagesOf(d)
  BY <1>2, <1>3 DEF PagesOf
<1>5. FirstPage \in Nat \ {0} /\ LastPage \in Nat /\ LastPage + 1 \in Pages /\ Fan \in Nat \ {0}
  BY GlobSpansAssumption, PageTrieAssumption
<1>6. Fan * Fan * Fan \in Nat
  BY <1>5
<1>7. mapped \subseteq Pages
  BY <1>3, <1>5, <1>6 DEF Pages
<1>8. desc[d].base \in FirstPage .. LastPage /\ desc[d].base + desc[d].len - 1 \in FirstPage .. LastPage
  BY <1>3, <1>4
<1>9. desc[d].base - 1 \in Pages /\ desc[d].base + desc[d].len \in Pages
  BY <1>2, <1>5, <1>6, <1>8 DEF Pages
<1> QED
  BY <1>1, <1>2, <1>3, <1>4, <1>5, <1>7, <1>8, <1>9

(* Two spans have no page in common, so their addresses differ. *)
LEMMA SpanOfPage ==
    ASSUME DescsTyped, Tiles, NEW d \in InUse, NEW e \in InUse
    PROVE  /\ \A p \in PagesOf(d) : p \in PagesOf(e) => d = e
           /\ desc[d].base = desc[e].base => d = e
           /\ SpanRec(d) = SpanRec(e) => d = e
<1>1. \A p \in PagesOf(d) : p \in PagesOf(e) => d = e
  BY DEF Tiles
<1>2. desc[d].base \in PagesOf(d) /\ desc[e].base \in PagesOf(e)
  BY SpanPages
<1> QED
  BY <1>1, <1>2 DEF SpanRec

(* A free finds its own span. *)
LEMMA Finds == SpansInv => HolderFindsSpan
<1> SUFFICES ASSUME SpansInv, NEW t \in Threads, At(t, "find"), Returned(t)
             PROVE  /\ op[t].data \in InUse
                    /\ desc[op[t].data] = [base |-> call[t].addr, len |-> call[t].want,
                                           alloc |-> TRUE, binned |-> FALSE]
  BY DEF HolderFindsSpan
<1> DEFINE d == op[t].data
<1>1. d \in InUse /\ desc[d].alloc /\ SpanRec(d) = CallSpan(t)
  BY DEF SpansInv, LookOK
<1>2. d \in Descs /\ DescsTyped
  BY <1>1 DEF InUse, SpansInv
<1>3. ~desc[d].binned
  BY <1>1 DEF SpansInv, FlagsOK, FlagOK
<1> HIDE DEF d
<1>4. /\ desc[d] = [base |-> desc[d].base, len |-> desc[d].len,
                    alloc |-> desc[d].alloc, binned |-> desc[d].binned]
      /\ desc[d].alloc \in BOOLEAN /\ desc[d].binned \in BOOLEAN
  BY <1>2, DescFields
<1>5. desc[d].base = call[t].addr /\ desc[d].len = call[t].want
  BY <1>1 DEF SpanRec, CallSpan
<1>6. desc[d].alloc = TRUE /\ desc[d].binned = FALSE
  BY <1>1, <1>3, <1>4
<1> QED
  BY <1>1, <1>4, <1>5, <1>6 DEF d

(* What a call that is out has in its hands is a span of the program. *)
LEMMA HandOut ==
    ASSUME SpansInv, NEW t \in Threads, NEW d \in InUse, Out(t), CallSpan(t) = SpanRec(d)
    PROVE  InHand(t) = PagesOf(d)
<1>1. call[t].addr = desc[d].base /\ call[t].want = desc[d].len
  BY DEF CallSpan, SpanRec
<1>2. CASE At(t, "find")
  BY <1>1, <1>2 DEF InHand, At, SpanRange, PagesOf
<1>3. CASE Passes(t)
  <2>1. call[t].span \in InUse /\ SpanRec(call[t].span) = SpanRec(d)
    BY <1>3 DEF SpansInv, WorkOK
  <2>2. call[t].span = d
    BY <2>1, SpanOfPage DEF SpansInv
  <2> QED
    BY <1>3, <2>2 DEF InHand, Passes, PassAts
<1> QED
  BY <1>2, <1>3 DEF Out

(* Only the thread that works on a span has its lock. *)
LEMMA OneWorker ==
    ASSUME SpansInv, NEW t \in Threads, NEW u \in Threads, Works(t), Works(u),
           call[t].arena = call[u].arena
    PROVE  t = u
  BY DEF SpansInv, WorkOK

(* In which of the three kinds of place the page p of a span is *)
LEMMA Placed ==
    ASSUME SpansInv, NEW p \in mapped, NEW d \in InUse, p \in PagesOf(d)
    PROVE  /\ \A e \in InUse : p \in PagesOf(e) => e = d
           /\ \A s \in held \cup leaked : p \in SpanRange(s) => desc[d].alloc /\ s = SpanRec(d)
           /\ \A t \in Threads : p \in InHand(t) =>
                 \/ Works(t) /\ call[t].span = d /\ ~desc[d].alloc /\ ~desc[d].binned
                 \/ Out(t) /\ CallSpan(t) = SpanRec(d) /\ desc[d].alloc
<1>0. DescsTyped /\ Tiles /\ Tokens
  BY DEF SpansInv
<1>1. \A e \in InUse : p \in PagesOf(e) => e = d
  BY <1>0, SpanOfPage
<1>2. ASSUME NEW s \in Given, p \in SpanRange(s)
      PROVE  desc[d].alloc /\ s = SpanRec(d)
  <2>1. PICK e \in InUse : desc[e].alloc /\ s = SpanRec(e)
    BY <1>2 DEF Given
  <2>2. p \in PagesOf(e)
    BY <1>2, <2>1 DEF SpanRange, SpanRec, PagesOf
  <2> QED
    BY <1>1, <2>1, <2>2
<1>3. ASSUME NEW t \in Threads, p \in InHand(t)
      PROVE  \/ Works(t) /\ call[t].span = d /\ ~desc[d].alloc /\ ~desc[d].binned
             \/ Out(t) /\ CallSpan(t) = SpanRec(d) /\ desc[d].alloc
  <2>1. CASE Works(t)
    <3>1. call[t].span \in InUse /\ ~desc[call[t].span].alloc /\ ~desc[call[t].span].binned
      BY <2>1 DEF SpansInv, WorkOK
    <3>2. InHand(t) = PagesOf(call[t].span)
      BY <2>1 DEF InHand, Works, WorkAts
    <3> QED
      BY <1>1, <1>3, <2>1, <3>1, <3>2
  <2>2. CASE Out(t)
    <3>1. PICK e \in InUse : desc[e].alloc /\ CallSpan(t) = SpanRec(e)
      BY <1>0, <2>2 DEF Tokens, Given
    <3>2. InHand(t) = PagesOf(e)
      BY <2>2, <3>1, HandOut
    <3>3. e = d
      BY <1>1, <1>3, <3>2
    <3> QED
      BY <2>2, <3>1, <3>3
  <2>3. CASE call[t].at \in {"idle", "claim", "get"}
    BY <1>3, <2>3 DEF InHand
  <2> QED
    BY <2>1, <2>2, <2>3 DEF SpansInv, WorkOK, Works, Out, Passes, At
<1>4. held \cup leaked \subseteq Given
  BY <1>0 DEF Tokens
<1> QED
  BY <1>1, <1>2, <1>3, <1>4

(* Every page has its place. *)
LEMMA Accounted ==
    ASSUME SpansInv, NEW p \in Pages
    PROVE  PlacesOf(p) = IF p \in mapped THEN 1 ELSE 0
<1> DEFINE B == {d \in InUse : desc[d].binned /\ p \in PagesOf(d)}
           H == {s \in held \cup leaked : p \in SpanRange(s)}
           C == {t \in Threads : p \in InHand(t)}
<1>0. DescsTyped /\ Tiles /\ Tokens /\ FlagsOK
  BY DEF SpansInv
<1>1. PlacesOf(p) = Cardinality(B) + Cardinality(H) + Cardinality(C)
  BY DEF PlacesOf
<1>2. Cardinality({}) = 0 /\ \A x : Cardinality({x}) = 1
  BY FS_EmptySet, FS_Singleton
<1> HIDE DEF B, H, C
<1>3. CASE p \notin mapped
  <2>1. \A d \in InUse : p \notin PagesOf(d)
    BY <1>0, <1>3, SpanPages
  <2>2. B = {}
    BY <2>1 DEF B
  <2>3. H = {}
    <3> SUFFICES ASSUME NEW s \in held \cup leaked, p \in SpanRange(s) PROVE FALSE
      BY DEF H
    <3>1. PICK d \in InUse : s = SpanRec(d)
      BY <1>0 DEF Tokens, Given
    <3> QED
      BY <2>1, <3>1 DEF SpanRange, SpanRec, PagesOf
  <2>4. C = {}
    <3> SUFFICES ASSUME NEW t \in Threads, p \in InHand(t) PROVE FALSE
      BY DEF C
    <3>1. CASE Works(t)
      <4>1. call[t].span \in InUse
        BY <3>1 DEF SpansInv, WorkOK
      <4>2. InHand(t) = PagesOf(call[t].span)
        BY <3>1 DEF InHand, Works, WorkAts
      <4> QED
        BY <2>1, <4>1, <4>2
    <3>2. CASE Out(t)
      <4>1. PICK e \in InUse : CallSpan(t) = SpanRec(e)
        BY <1>0, <3>2 DEF Tokens, Given
      <4>2. InHand(t) = PagesOf(e)
        BY <3>2, <4>1, HandOut
      <4> QED
        BY <2>1, <4>2
    <3>3. CASE call[t].at \in {"idle", "claim", "get"}
      BY <3>3 DEF InHand
    <3> QED
      BY <3>1, <3>2, <3>3 DEF SpansInv, WorkOK, Works, Out, Passes, At
  <2> QED
    BY <1>1, <1>2, <1>3, <2>2, <2>3, <2>4
<1>4. CASE p \in mapped
  <2>1. PICK d \in InUse : p \in PagesOf(d)
    BY <1>0, <1>4 DEF Tiles
  <2>2. /\ \A e \in InUse : p \in PagesOf(e) => e = d
        /\ \A s \in held \cup leaked : p \in SpanRange(s) => desc[d].alloc /\ s = SpanRec(d)
        /\ \A t \in Threads : p \in InHand(t) =>
              \/ Works(t) /\ call[t].span = d /\ ~desc[d].alloc /\ ~desc[d].binned
              \/ Out(t) /\ CallSpan(t) = SpanRec(d) /\ desc[d].alloc
    BY <1>4, <2>1, Placed
  <2>3. ~(desc[d].alloc /\ desc[d].binned)
    BY <1>0 DEF FlagsOK, FlagOK
  <2>4. CASE desc[d].binned
    <3>1. B = {d} /\ H = {} /\ C = {}
      BY <2>1, <2>2, <2>3, <2>4 DEF B, H, C
    <3> QED
      BY <1>1, <1>2, <1>4, <3>1
  <2>5. CASE desc[d].alloc
    <3>1. B = {}
      BY <2>2, <2>3, <2>5 DEF B
    <3>2. SpanRec(d) \in Given /\ p \in SpanRange(SpanRec(d))
      BY <2>1, <2>5 DEF Given, SpanRec, SpanRange, PagesOf
    <3>3. CASE SpanRec(d) \in held \cup leaked
      <4>1. H = {SpanRec(d)}
        BY <2>2, <3>2, <3>3 DEF H
      <4>2. C = {}
        BY <1>0, <2>2, <2>5, <3>3 DEF Tokens, C
      <4> QED
        BY <1>1, <1>2, <1>4, <3>1, <4>1, <4>2
    <3>4. CASE SpanRec(d) \notin held \cup leaked
      <4>1. PICK t \in Threads : Out(t) /\ CallSpan(t) = SpanRec(d)
        BY <1>0, <3>2, <3>4 DEF Tokens
      <4>2. p \in InHand(t)
        BY <2>1, <4>1, HandOut
      <4>3. \A u \in Threads : p \in InHand(u) => u = t
        BY <1>0, <2>2, <2>5, <4>1 DEF Tokens
      <4>4. C = {t}
        BY <4>2, <4>3 DEF C
      <4>5. H = {}
        BY <2>2, <3>4 DEF H
      <4> QED
        BY <1>1, <1>2, <1>4, <3>1, <4>4, <4>5
    <3> QED
      BY <3>3, <3>4
  <2>6. CASE ~desc[d].alloc /\ ~desc[d].binned
    <3>1. PICK t \in Threads : Works(t) /\ call[t].span = d
      BY <1>0, <2>6 DEF FlagsOK, FlagOK
    <3>2. p \in InHand(t)
      BY <2>1, <3>1 DEF InHand, Works, WorkAts
    <3>3. \A u \in Threads : Works(u) /\ call[u].span = d => u = t
      BY <3>1, OneWorker DEF SpansInv, WorkOK
    <3>4. C = {t}
      BY <2>2, <2>6, <3>2, <3>3 DEF C
    <3>5. B = {} /\ H = {}
      BY <2>2, <2>6 DEF B, H
    <3>6. Cardinality(B) = 0 /\ Cardinality(H) = 0 /\ Cardinality(C) = 1
      BY <1>2, <3>4, <3>5
    <3> QED
      BY <1>1, <1>4, <3>6
  <2> QED
    BY <2>4, <2>5, <2>6
<1> QED
  BY <1>3, <1>4

-----------------------------------------------------------------------------
(* Steps that change the descriptors of one arena *)

Relies(u, d) == \/ (Works(u) \/ Passes(u)) /\ call[u].span = d
                \/ At(u, "find") /\ Returned(u) /\ op[u].data = d

Moves(t) == /\ call' = [call EXCEPT ![t] = call'[t]]
            /\ op' = [op EXCEPT ![t] = op'[t]] /\ IsOp(op'[t])

(* The descriptors in D are not another thread's, and its lock stays. *)
KeptOff(u, D) == /\ \A d \in D : ~Relies(u, d) /\ (Works(u) => d[1] # call[u].arena)
                 /\ Works(u) => arenaLock'[call[u].arena] = u

(* A step of t that touches no descriptor outside D, where no other thread  *)
(* relies on or works with one in D, and leaves the tree alone              *)
Frame(t, D) ==
    /\ Moves(t)
    /\ op'[t] = op[t] \/ op'[t].at \in {"idle", "lock", "load1"}
    /\ UNCHANGED <<node, nnodes>>
    /\ \A d \in Descs \ D : desc'[d] = desc[d] /\ (d \in InUse' <=> d \in InUse)
    /\ \A u \in Threads \ {t} : KeptOff(u, D)

(* The other threads are in the same call and operation. *)
LEMMA OthersSame ==
    ASSUME SpansInv, NEW t \in Threads, Moves(t), NEW u \in Threads, u # t
    PROVE  call'[u] = call[u] /\ op'[u] = op[u]
  BY DEF SpansInv, CallsOK, TrieInv, OpsTyped, Moves

(* Where no node changes no entry does. *)
LEMMA NodesStill ==
    ASSUME UNCHANGED node PROVE \A p : Entry(p)' = Entry(p)
  BY DEF Entry, Slot, LeafAt, Kid, Idx1, Idx2, Idx3

(* What the invariant says of another thread stays true. *)
LEMMA OthersKeep ==
    ASSUME SpansInv, NEW t \in Threads, NEW D, Frame(t, D), NEW u \in Threads, u # t
    PROVE  /\ WorkOK(u)' /\ TaskFits(u)' /\ PendingOK(u)' /\ LookOK(u)'
           /\ Pending(u)' = Pending(u)
<1>1. call'[u] = call[u] /\ op'[u] = op[u]
  BY OthersSame DEF Frame
<1>2. /\ \A d \in Descs \ D : desc'[d] = desc[d] /\ (d \in InUse' <=> d \in InUse)
      /\ \A d \in D : ~Relies(u, d) /\ (Works(u) => d[1] # call[u].arena)
      /\ Works(u) => arenaLock'[call[u].arena] = u
  BY DEF Frame, KeptOff
<1>3. /\ Works(u)' = Works(u) /\ Passes(u)' = Passes(u) /\ \A at : At(u, at)' = At(u, at)
      /\ CallSpan(u)' = CallSpan(u) /\ Returned(u)' = Returned(u)
  BY <1>1 DEF Works, Passes, At, CallSpan, Returned
<1>4. WorkOK(u) /\ TaskFits(u) /\ PendingOK(u) /\ LookOK(u) /\ InUse \subseteq Descs
  BY DEF SpansInv, InUse
<1>5. ASSUME NEW d, Works(u) \/ Passes(u), d = call[u].span
      PROVE  d \in InUse /\ d \in InUse' /\ desc'[d] = desc[d]
  <2>1. d \in InUse /\ Relies(u, d)
    BY <1>4, <1>5 DEF WorkOK, Relies
  <2>2. d \in Descs \ D
    BY <1>2, <1>4, <2>1
  <2> QED
    BY <1>2, <2>1, <2>2
<1>6. WorkOK(u)'
  BY <1>1, <1>2, <1>3, <1>4, <1>5 DEF WorkOK, SpanRec, CallSpan, At, Works, Passes
<1>7. call[u].at \in InsertAts \cup {"left", "right"} => Works(u)
  BY DEF Works, WorkAts, InsertAts
<1>8. Works(u) => PagesOf(call[u].span)' = PagesOf(call[u].span)
  BY <1>1, <1>5 DEF PagesOf
<1>9. call[u].at \in LookAts => LookPage(u)' = LookPage(u)
  BY <1>1, <1>5, <1>7 DEF LookPage, LookAts, At
<1>10. TaskFits(u)'
  BY <1>1, <1>3, <1>4, <1>5, <1>7, <1>8, <1>9 DEF TaskFits, Returned, At
<1>11. Pending(u)' = Pending(u)
  BY <1>1, <1>7, <1>8 DEF Pending
<1>12. PendingOK(u)'
  <2>1. \A p : Entry(p)' = Entry(p)
    BY NodesStill DEF Frame
  <2> QED
    BY <1>1, <1>3, <1>4, <1>11, <2>1 DEF PendingOK, Descs, Arenas
<1>13. LookOK(u)'
  <2>1. ASSUME NEW d, Works(u), OfArena(d, call[u].arena)
        PROVE  d = Null \/ (d \in Descs /\ (d[1] = call[u].arena => d \in InUse'))
    BY <1>2, <2>1 DEF OfArena
  <2>2. ASSUME At(u, "find"), Returned(u)
        PROVE  /\ op[u].data \in InUse' /\ desc'[op[u].data] = desc[op[u].data]
    <3>1. op[u].data \in InUse /\ Relies(u, op[u].data)
      BY <1>4, <2>2 DEF LookOK, Relies
    <3> QED
      BY <1>2, <1>4, <3>1
  <2>3. call[u].at \in {"left", "right"} => Works(u)
    BY <1>7
  <2> QED
    BY <1>1, <1>3, <1>4, <2>1, <2>2, <2>3 DEF LookOK, OfArena, SpanRec, At, Returned, Descs, Arenas
<1> QED
  BY <1>6, <1>10, <1>11, <1>12, <1>13

(* What is still to be stored belongs to the span in hand. *)
LEMMA PendingPages ==
    ASSUME SpansInv, NEW t \in Threads, NEW p \in Pending(t)
    PROVE  /\ Works(t) /\ p \in PagesOf(call[t].span) /\ call[t].span \in InUse
           /\ p \in mapped /\ p \in Pages
<1>1. call[t].at \in InsertAts /\ Works(t)
  BY DEF Pending, InsertAts, Works, WorkAts
<1>2. call[t].span \in InUse /\ DescsTyped /\ Tiles
  BY <1>1 DEF SpansInv, WorkOK
<1> DEFINE d == call[t].span
<1>3. /\ desc[d].base \in Nat \ {0} /\ desc[d].len \in Nat \ {0}
      /\ PagesOf(d) \subseteq mapped /\ mapped \subseteq Pages
  BY <1>2, SpanPages
<1>4. CASE op[t].at \in Inserts
  <2>1. p \in op[t].page .. op[t].last
    BY <1>1, <1>4 DEF Pending
  <2>2. op[t].page \in PagesOf(d) /\ op[t].last = desc[d].base + desc[d].len - 1
    BY <1>1, <1>4 DEF SpansInv, TaskFits, Inserts, Returned
  <2>3. p \in PagesOf(d)
    BY <1>3, <2>1, <2>2 DEF PagesOf
  <2> QED
    BY <1>1, <1>2, <1>3, <2>3
<1>5. CASE op[t].at \notin Inserts
  <2>1. p \in PagesOf(d)
    BY <1>1, <1>5 DEF Pending
  <2> QED
    BY <1>1, <1>2, <1>3, <2>1
<1> QED
  BY <1>4, <1>5

(* The descriptors of an arena whose lock t has, or which is free, and of  *)
(* which the program was given none *)
Guards(t, a, D) ==
    /\ \A d \in D : d[1] = a /\ (d \in InUse => ~desc[d].alloc)
    /\ arenaLock[a] \in {Null, t}
    /\ \A b \in Arenas \ {a} : arenaLock'[b] = arenaLock[b]

(* The lock of its arena keeps the others off the descriptors of a thread. *)
LEMMA LockKeepsOff ==
    ASSUME SpansInv, NEW t \in Threads, NEW a, NEW D, Guards(t, a, D)
    PROVE  \A u \in Threads \ {t} : KeptOff(u, D)
<1> SUFFICES ASSUME NEW u \in Threads, u # t PROVE KeptOff(u, D)
  OBVIOUS
<1> USE DEF Guards
<1>1. WorkOK(u) /\ LookOK(u)
  BY DEF SpansInv
<1>2. u # Null
  BY PageTrieAssumption
<1>3. Works(u) => /\ call[u].arena \in Arenas /\ arenaLock[call[u].arena] = u
                  /\ call[u].arena # a /\ call[u].span[1] = call[u].arena
  BY <1>1, <1>2 DEF WorkOK, InUse, Descs
<1>4. ASSUME NEW d \in D PROVE ~Relies(u, d)
  <2>1. Works(u) => call[u].span # d
    BY <1>3
  <2>2. Passes(u) => call[u].span # d
    BY <1>1 DEF WorkOK
  <2>3. At(u, "find") /\ Returned(u) => op[u].data # d
    BY <1>1 DEF LookOK
  <2> QED
    BY <2>1, <2>2, <2>3 DEF Relies
<1> QED
  BY <1>3, <1>4 DEF KeptOff

(* The flags of the descriptors that do not change *)
LEMMA FlagsFrame ==
    ASSUME SpansInv, NEW t \in Threads, NEW D, Frame(t, D),
           Works(t) => call[t].span \in D \/ (Works(t)' /\ call'[t].span = call[t].span),
           \A d \in D : d \in InUse' => FlagOK(d)'
    PROVE  FlagsOK'
<1> SUFFICES ASSUME NEW d \in InUse', d \notin D PROVE FlagOK(d)'
  BY DEF FlagsOK
<1>1. d \in Descs
  BY DEF InUse, Descs, Arenas
<1>2. d \in InUse /\ desc'[d] = desc[d]
  BY <1>1 DEF Frame
<1>3. FlagOK(d)
  BY <1>2 DEF SpansInv, FlagsOK
<1>4. ASSUME NEW u \in Threads, Works(u), call[u].span = d
      PROVE  Works(u)' /\ call'[u].span = d
  <2>1. CASE u # t
    <3>1. call'[u] = call[u]
      BY <2>1, OthersSame DEF Frame
    <3> QED
      BY <1>4, <3>1 DEF Works
  <2>2. CASE u = t
    BY <1>4, <2>2
  <2> QED
    BY <2>1, <2>2
<1> QED
  BY <1>2, <1>3, <1>4 DEF FlagOK

(* What the program was given *)
LEMMA GivenFrame ==
    ASSUME NEW t, NEW D, Frame(t, D),
           \A d \in D : (d \in InUse => ~desc[d].alloc) /\ (d \in InUse' => ~desc'[d].alloc)
    PROVE  Given' = Given
<1>1. InUse \subseteq Descs /\ InUse' \subseteq Descs
  BY DEF InUse, Descs, Arenas
<1>2. \A d \in Descs \ D : desc'[d] = desc[d] /\ (d \in InUse' <=> d \in InUse)
  BY DEF Frame
<1> DEFINE A == {d \in InUse : desc[d].alloc}
           B == {d \in InUse' : desc'[d].alloc}
<1>3. A = B /\ \A d \in A : desc'[d] = desc[d]
  BY <1>1, <1>2
<1>4. {SpanRec(d) : d \in A} = {[addr |-> desc'[d].base, len |-> desc'[d].len] : d \in B}
  BY <1>3 DEF SpanRec
<1> QED
  BY <1>4 DEF Given, SpanRec

(* Where nothing is given or taken back *)
LEMMA TokensFrame ==
    ASSUME SpansInv, NEW t \in Threads, Moves(t), Given' = Given, UNCHANGED <<held, leaked>>,
           Out(t)' = Out(t), Out(t) => CallSpan(t)' = CallSpan(t)
    PROVE  Tokens'
<1>1. ASSUME NEW u \in Threads PROVE Out(u)' = Out(u) /\ (Out(u) => CallSpan(u)' = CallSpan(u))
  <2>1. CASE u # t
    <3>1. call'[u] = call[u]
      BY <2>1, OthersSame
    <3> QED
      BY <3>1 DEF Out, Passes, At, CallSpan
  <2> QED
    BY <2>1
<1> QED
  BY <1>1 DEF SpansInv, Tokens

(* The pages of the descriptors that do not change lead where they led. *)
LEMMA SettledFrame ==
    ASSUME SpansInv, NEW t \in Threads, NEW D, Frame(t, D),
           call[t].span \in D \/ Pending(t) = {},
           \A d \in D : d \in InUse' =>
              \A p \in PagesOf(d)' : Entry(p) = d \/ \E u \in Threads : p \in Pending(u)'
    PROVE  SettledLead'
<1> SUFFICES ASSUME NEW d \in InUse', d \notin D, NEW p \in PagesOf(d)'
             PROVE  Entry(p)' = d \/ \E u \in Threads : p \in Pending(u)'
  <2>1. \A p : Entry(p)' = Entry(p)
    BY NodesStill DEF Frame
  <2> QED
    BY <2>1 DEF SettledLead
<1>1. \A q : Entry(q)' = Entry(q)
  BY NodesStill DEF Frame
<1>2. d \in Descs
  BY DEF InUse, Descs, Arenas
<1>3. d \in InUse /\ desc'[d] = desc[d] /\ p \in PagesOf(d)
  BY <1>2 DEF Frame, PagesOf
<1>4. Entry(p) = d \/ \E u \in Threads : p \in Pending(u)
  BY <1>3 DEF SpansInv, SettledLead
<1>5. ASSUME NEW u \in Threads, p \in Pending(u) PROVE p \in Pending(u)'
  <2>1. CASE u # t
    BY <1>5, <2>1, OthersKeep
  <2>2. CASE u = t
    <3>1. call[t].span \in InUse /\ p \in PagesOf(call[t].span)
      BY <1>5, <2>2, PendingPages
    <3>2. call[t].span = d
      BY <1>3, <3>1, SpanOfPage DEF SpansInv
    <3> QED
      BY <1>5, <2>2, <3>2
  <2> QED
    BY <2>1, <2>2
<1> QED
  BY <1>1, <1>4, <1>5

(* Pages stay where every span in use keeps its range. *)
LEMMA TilesSame ==
    ASSUME Tiles, InUse' = InUse, mapped' = mapped,
           \A d \in InUse : desc'[d].base = desc[d].base /\ desc'[d].len = desc[d].len
    PROVE  Tiles'
<1>1. \A d \in InUse : PagesOf(d)' = PagesOf(d)
  BY DEF PagesOf
<1> QED
  BY <1>1 DEF Tiles

(* What is left to show of a step *)
LEMMA FrameKeeps ==
    ASSUME SpansInv, CallsOK', NEW t \in Threads, NEW D, Frame(t, D),
           WorkOK(t)', TaskFits(t)', PendingOK(t)', LookOK(t)',
           DescsTyped', Tiles', FlagsOK', Tokens', UnmappedNull', SettledLead'
    PROVE  SpansInv'
<1>1. \A u \in Threads : WorkOK(u)' /\ TaskFits(u)' /\ PendingOK(u)' /\ LookOK(u)'
  BY OthersKeep
<1>2. TrieInv'
  <2>1. TrieInv /\ TrieTree /\ OpsTyped /\ OpPath(t) /\ UNCHANGED <<node, nnodes>>
    BY DEF SpansInv, TrieInv, Frame
  <2>2. TrieTree' /\ Grows /\ EntriesStay
    BY <2>1, TreeStays
  <2>3. op' = [op EXCEPT ![t] = op'[t]] /\ IsOp(op'[t])
    BY DEF Frame, Moves
  <2>4. OpPath(t)'
    <3>1. CASE op'[t] = op[t]
      <4>1. /\ op[t].at \in {"level2", "load2"} => Idx1(op[t].page) \in Slots
            /\ op[t].at \in {"store", "load3"} => Idx1(op[t].page) \in Slots /\ Idx2(op[t].page) \in Slots
        BY <2>1, PageIdx DEF OpPath
      <4> QED
        BY <2>1, <2>2, <3>1, <4>1 DEF OpPath, Grows, Pages, Idx1, Idx2, Kid, LeafAt
    <3>2. CASE op'[t].at \in {"idle", "lock", "load1"}
      BY <3>2 DEF OpPath
    <3> QED
      BY <3>1, <3>2 DEF Frame
  <2> QED
    BY <2>1, <2>2, <2>3, <2>4, PathsStay
<1> QED
  BY <1>1, <1>2 DEF SpansInv

-----------------------------------------------------------------------------
(* Steps that leave the spans alone *)

Still == UNCHANGED <<node, nnodes, desc, pool, stranded, mapped, arenaLock>>

(* Such a step moves a call on, which keeps what it has in hand. *)
LEMMA StillKeeps ==
    ASSUME SpansInv, CallsOK', NEW t \in Threads, Moves(t), Still,
           op'[t] = op[t] \/ op'[t].at \in {"idle", "lock", "load1"},
           Works(t) => Works(t)' /\ call'[t].span = call[t].span,
           Pending(t) = {},
           WorkOK(t)', TaskFits(t)', PendingOK(t)', LookOK(t)', Tokens'
    PROVE  SpansInv'
<1>1. /\ InUse' = InUse /\ \A d : PagesOf(d)' = PagesOf(d)
      /\ \A p : Entry(p)' = Entry(p)
  BY NodesStill DEF Still, InUse, Strays, PagesOf
<1>2. Frame(t, {})
  <2>1. \A u \in Threads \ {t} : Works(u) => arenaLock'[call[u].arena] = u
    BY DEF SpansInv, WorkOK, Still
  <2> QED
    BY <1>1, <2>1 DEF Frame, Still, KeptOff
<1>3. DescsTyped'
  BY DEF SpansInv, DescsTyped, Strays, Still, Descs, Arenas
<1>4. Tiles'
  BY <1>1, TilesSame DEF SpansInv, Still
<1>5. FlagsOK'
  BY <1>2, FlagsFrame
<1>6. UnmappedNull'
  BY <1>1 DEF SpansInv, UnmappedNull, Still, Pages
<1>7. SettledLead'
  BY <1>2, SettledFrame
<1> QED
  BY <1>2, <1>3, <1>4, <1>5, <1>6, <1>7, FrameKeeps

(* The fields of a call *)
LEMMA CallFields ==
    ASSUME CallsOK, NEW t \in Threads
    PROVE  /\ call[t] = [f \in DOMAIN NoCall |-> call[t][f]]
           /\ DOMAIN NoCall = {"at", "want", "addr", "arena", "span", "left", "seen", "loaded"}
           /\ call = [u \in Threads |-> call[u]]
  BY DEF CallsOK, IsCall, NoCall

(* A call that does neither insert nor look up has no operation. *)
LEMMA NoTask ==
    ASSUME SpansInv, NEW t \in Threads, call[t].at \notin InsertAts \cup LookAts
    PROVE  op[t].at = "idle" /\ Pending(t) = {} /\ ~Returned(t)
  BY DEF SpansInv, TaskFits, Pending, Returned

(* A call of one of these kinds owes nothing but what it passes on. *)
LEMMA LightKeeps ==
    ASSUME SpansInv, CallsOK', NEW t \in Threads, UNCHANGED <<op, node, nnodes, desc, pool, stranded, mapped, arenaLock>>,
           call' = [call EXCEPT ![t] = call'[t]],
           call[t].at \in {"idle", "claim"} \cup PassAts,
           call'[t].at \in {"idle", "claim", "get"} \cup PassAts,
           call'[t].at \in {"claim", "get"} => call'[t].want \in Nat \ {0},
           call'[t].at = "get" => call'[t].arena \in Arenas,
           call'[t].at \in PassAts => call[t].at \in PassAts /\ call'[t].span = call[t].span
                                      /\ call'[t].addr = call[t].addr /\ call'[t].want = call[t].want,
           Tokens'
    PROVE  SpansInv'
<1>1. op[t].at = "idle" /\ Pending(t) = {} /\ ~Returned(t) /\ ~Works(t)
  BY NoTask DEF InsertAts, LookAts, PassAts, Works, WorkAts
<1>2. Moves(t)
  BY DEF Moves, SpansInv, TrieInv, OpsTyped
<1>3. WorkOK(t)'
  <2>1. InUse' = InUse
    BY DEF InUse, Strays
  <2>2. call'[t].at \in PassAts => call[t].span \in InUse /\ desc[call[t].span].alloc /\ SpanRec(call[t].span) = CallSpan(t)
    BY DEF SpansInv, WorkOK, Passes
  <2>3. call'[t].at \notin WorkAts
    BY DEF WorkAts, PassAts
  <2>4. call'[t].at \notin {"mint", "cut", "cutting"}
    BY DEF WorkAts, PassAts
  <2>5. call'[t].at \in PassAts => /\ call'[t].span \in InUse /\ desc'[call'[t].span].alloc
                                   /\ desc'[call'[t].span].base = call'[t].addr
                                   /\ desc'[call'[t].span].len = call'[t].want
    BY <2>2 DEF SpanRec, CallSpan
  <2> QED
    BY <2>1, <2>3, <2>4, <2>5 DEF WorkOK, Works, Passes, At, Arenas, SpanRec, CallSpan
<1>4. call'[t].at \notin InsertAts \cup LookAts
  BY DEF InsertAts, LookAts, PassAts
<1>5. TaskFits(t)'
  BY <1>1, <1>4 DEF TaskFits
<1>6. PendingOK(t)'
  BY <1>4 DEF PendingOK, Pending
<1>7. LookOK(t)'
  BY <1>4 DEF LookOK, LookAts, At
<1> QED
  BY <1>1, <1>2, <1>3, <1>5, <1>6, <1>7, StillKeeps DEF Still

(* The given spans where no descriptor changes *)
LEMMA GivenSame == ASSUME UNCHANGED <<desc, pool, stranded>> PROVE Given' = Given /\ InUse' = InUse
  BY DEF Given, SpanRec, InUse, Strays, Descs, Arenas

(* A call begins. *)
LEMMA MallocSpans ==
    ASSUME SpansInv, CallsOK', NEW t \in Threads, NEW n \in Requests, Malloc(t, n)
    PROVE  SpansInv'
<1>0. CallsOK
  BY DEF SpansInv
<1>1. /\ call' = [call EXCEPT ![t] = [NoCall EXCEPT !.at = "claim", !.want = n, !.seen = arena_idx]]
      /\ call[t].at = "idle"
      /\ UNCHANGED <<op, node, nnodes, desc, pool, stranded, mapped, arenaLock, held, leaked>>
  BY DEF Malloc, At, trieVars, memVars
<1>2. call'[t] = [NoCall EXCEPT !.at = "claim", !.want = n, !.seen = arena_idx]
  BY <1>0, <1>1, CallFields
<1>3. call'[t].at = "claim" /\ call'[t].want \in Nat \ {0}
  BY <1>2, GlobSpansAssumption DEF NoCall
<1>4. Tokens'
  BY <1>1, <1>2, <1>3, GivenSame, TokensFrame DEF SpansInv, TrieInv, OpsTyped, Moves, Out, Passes, PassAts, At
<1> QED
  BY <1>1, <1>2, <1>3, <1>4, LightKeeps DEF PassAts

(* An arena is claimed, or the index loaded again. *)
LEMMA ClaimSpans ==
    ASSUME SpansInv, CallsOK', arena_idx \in Arenas, NEW t \in Threads, ClaimArena(t)
    PROVE  SpansInv'
<1>0. CallsOK
  BY DEF SpansInv
<1>1. /\ call[t].at = "claim"
      /\ UNCHANGED <<op, node, nnodes, desc, pool, stranded, mapped, arenaLock, held, leaked>>
      /\ \/ call' = [call EXCEPT ![t].at = "get", ![t].arena = arena_idx, ![t].seen = Null]
         \/ call' = [call EXCEPT ![t].seen = arena_idx]
  BY DEF ClaimArena, At, trieVars, memVars
<1>2. \/ call'[t] = [call[t] EXCEPT !.at = "get", !.arena = arena_idx, !.seen = Null]
      \/ call'[t] = [call[t] EXCEPT !.seen = arena_idx]
  BY <1>0, <1>1, CallFields
<1>3. /\ call' = [call EXCEPT ![t] = call'[t]]
      /\ call'[t].at \in {"claim", "get"} /\ call'[t].want = call[t].want
      /\ call'[t].at = "get" => call'[t].arena = arena_idx
  BY <1>0, <1>1, <1>2, CallFields
<1>4. call[t].want \in Nat \ {0}
  BY <1>1 DEF SpansInv, WorkOK
<1>5. Tokens'
  BY <1>1, <1>3, GivenSame, TokensFrame DEF SpansInv, TrieInv, OpsTyped, Moves, Out, Passes, PassAts, At
<1> QED
  BY <1>1, <1>3, <1>4, <1>5, LightKeeps DEF PassAts

(* The counter is compared, or loaded. *)
LEMMA EpochSpans ==
    ASSUME SpansInv, CallsOK', NEW t \in Threads, EpochCheck(t) \/ EpochLoad(t)
    PROVE  SpansInv'
<1>0. CallsOK
  BY DEF SpansInv
<1>1. /\ call[t].at \in {"epoch", "add"}
      /\ UNCHANGED <<op, node, nnodes, desc, pool, stranded, mapped, arenaLock, held, leaked>>
  BY DEF EpochCheck, EpochLoad, At, trieVars, memVars
<1>2. /\ call' = [call EXCEPT ![t] = call'[t]]
      /\ call'[t].at \in {"decay", "add", "store"}
      /\ call'[t].want = call[t].want /\ call'[t].addr = call[t].addr /\ call'[t].span = call[t].span
  <2>1. CASE EpochCheck(t)
    <3>0. PICK y : y = alloc[call[t].arena]
      OBVIOUS
    <3>1. PICK x \in {"decay", "add"} : call' = [call EXCEPT ![t].at = x, ![t].seen = y]
      BY <2>1, <3>0 DEF EpochCheck
    <3>2. call'[t] = [call[t] EXCEPT !.at = x, !.seen = y]
      BY <1>0, <3>1, CallFields
    <3> QED
      BY <1>0, <3>1, <3>2, CallFields
  <2>2. CASE EpochLoad(t)
    <3>1. PICK y : call' = [call EXCEPT ![t].at = "store", ![t].loaded = y]
      BY <2>2 DEF EpochLoad
    <3>2. call'[t] = [call[t] EXCEPT !.at = "store", !.loaded = y]
      BY <1>0, <3>1, CallFields
    <3> QED
      BY <1>0, <3>1, <3>2, CallFields
  <2> QED
    BY <2>1, <2>2
<1>3. Moves(t)
  BY <1>1, <1>2 DEF Moves, SpansInv, TrieInv, OpsTyped
<1>4. Out(t) /\ Out(t)' /\ CallSpan(t)' = CallSpan(t)
  BY <1>1, <1>2 DEF Out, Passes, PassAts, CallSpan
<1>5. Tokens'
  BY <1>1, <1>3, <1>4, GivenSame, TokensFrame
<1> QED
  BY <1>1, <1>2, <1>5, LightKeeps DEF PassAts

(* What was passed on is in the hands of the program, or leaked. *)
LEMMA TokenLeaves ==
    ASSUME SpansInv, NEW t \in Threads, UNCHANGED <<op, desc, pool, stranded>>, Passes(t),
           call' = [call EXCEPT ![t] = NoCall],
           \/ held' = held \cup {CallSpan(t)} /\ leaked' = leaked
           \/ leaked' = leaked \cup {CallSpan(t)} /\ held' = held
    PROVE  Tokens'
<1>1. Given' = Given /\ Tokens /\ Out(t)
  BY GivenSame DEF SpansInv, Out
<1>2. call'[t] = NoCall /\ ~Out(t)'
  BY CallFields DEF SpansInv, Out, Passes, PassAts, At, NoCall
<1>3. ASSUME NEW u \in Threads, u # t PROVE Out(u)' = Out(u) /\ CallSpan(u)' = CallSpan(u)
  <2>1. call'[u] = call[u]
    BY <1>3, CallFields DEF SpansInv
  <2> QED
    BY <2>1 DEF Out, Passes, At, CallSpan
<1>4. CallSpan(t) \in Given \ (held \cup leaked)
  BY <1>1 DEF Tokens
<1> DEFINE s == CallSpan(t)
           all == held \cup leaked
<1>5. all' = all \cup {s} /\ all' \subseteq Given' /\ held' \cap leaked' = {}
  BY <1>1, <1>4 DEF Tokens
<1>6. \A u \in Threads : Out(u)' => CallSpan(u)' \in Given' \ all'
  BY <1>1, <1>2, <1>3, <1>4, <1>5 DEF Tokens
<1>7. \A v, u \in Threads : Out(v)' /\ Out(u)' /\ CallSpan(u)' = CallSpan(v)' => u = v
  BY <1>1, <1>2, <1>3 DEF Tokens
<1>8. \A g \in Given' : g \in all' \/ \E u \in Threads : Out(u)' /\ CallSpan(u)' = g
  BY <1>1, <1>3, <1>5 DEF Tokens
<1> QED
  BY <1>5, <1>6, <1>7, <1>8 DEF Tokens

(* A span is handed over. *)
LEMMA DeliverSpans ==
    ASSUME SpansInv, CallsOK', NEW t \in Threads, EpochStore(t) \/ EpochReset(t)
    PROVE  SpansInv'
<1>1. /\ call[t].at \in PassAts
      /\ UNCHANGED <<op, node, nnodes, desc, pool, stranded, mapped, arenaLock, leaked>>
      /\ held' = held \cup {CallSpan(t)} /\ call' = [call EXCEPT ![t] = NoCall]
  BY DEF EpochStore, EpochReset, At, trieVars, memVars, Deliver, Finish, CallSpan, PassAts
<1>2. call'[t] = NoCall /\ call' = [call EXCEPT ![t] = call'[t]]
  BY <1>1, CallFields DEF SpansInv
<1>3. Tokens'
  BY <1>1, TokenLeaves DEF Passes
<1>4. call'[t].at = "idle" /\ "idle" \notin PassAts
  BY <1>2 DEF NoCall, PassAts
<1>5. UNCHANGED <<op, node, nnodes, desc, pool, stranded, mapped, arenaLock>>
  BY <1>1
<1> QED
  BY <1>1, <1>2, <1>3, <1>4, <1>5, LightKeeps

(* A decay goes on, or loses the span. *)
LEMMA DecaySpans ==
    ASSUME SpansInv, CallsOK', NEW t \in Threads, Decay(t)
    PROVE  SpansInv'
<1>1. /\ call[t].at = "decay"
      /\ UNCHANGED <<op, node, nnodes, desc, pool, stranded, mapped, arenaLock, held>>
      /\ \/ call' = [call EXCEPT ![t].at = "reset"] /\ leaked' = leaked
         \/ leaked' = leaked \cup {CallSpan(t)} /\ call' = [call EXCEPT ![t] = NoCall]
  BY DEF Decay, At, memVars, Now, Finish, CallSpan
<1>2. CASE call' = [call EXCEPT ![t].at = "reset"] /\ leaked' = leaked
  <2>1. /\ call' = [call EXCEPT ![t] = call'[t]]
        /\ call'[t].at = "reset"
        /\ call'[t].want = call[t].want /\ call'[t].addr = call[t].addr /\ call'[t].span = call[t].span
    <3>1. call'[t] = [call[t] EXCEPT !.at = "reset"]
      BY <1>2, CallFields DEF SpansInv
    <3> QED
      BY <1>2, <3>1, CallFields DEF SpansInv
  <2>2. Moves(t)
    BY <1>1, <2>1 DEF Moves, SpansInv, TrieInv, OpsTyped
  <2>3. Out(t) /\ Out(t)' /\ CallSpan(t)' = CallSpan(t)
    BY <1>1, <2>1 DEF Out, Passes, PassAts, CallSpan
  <2>4. Tokens'
    BY <1>1, <1>2, <2>2, <2>3, GivenSame, TokensFrame
  <2> QED
    BY <1>1, <2>1, <2>4, LightKeeps DEF PassAts
<1>3. CASE leaked' = leaked \cup {CallSpan(t)} /\ call' = [call EXCEPT ![t] = NoCall]
  <2>2. call'[t] = NoCall /\ call' = [call EXCEPT ![t] = call'[t]]
    BY <1>3, CallFields DEF SpansInv
  <2>3. Tokens'
    BY <1>1, <1>3, TokenLeaves DEF Passes, PassAts
  <2> QED
    BY <1>1, <2>2, <2>3, LightKeeps DEF NoCall, PassAts
<1> QED
  BY <1>1, <1>2, <1>3

(* The operations that start *)
LEMMA StartFields ==
    ASSUME SpansInv, NEW t \in Threads
    PROVE  /\ \A p : StartLookup(t, p) =>
                 /\ op' = [op EXCEPT ![t] = op'[t]] /\ IsOp(op'[t])
                 /\ op'[t].at = "load1" /\ op'[t].page = p /\ op'[t].ok
           /\ \A f, l, d : StartInsert(t, f, l, d) =>
                 /\ op' = [op EXCEPT ![t] = op'[t]] /\ IsOp(op'[t])
                 /\ op'[t].at = "lock" /\ op'[t].page = f /\ op'[t].first = f /\ op'[t].last = l
                 /\ op'[t].data = d /\ op'[t].ok
           /\ Quiet(t) => /\ op' = [op EXCEPT ![t] = op'[t]] /\ IsOp(op'[t])
                          /\ op'[t].at = "idle" /\ op'[t].ok
<1>1. op = [u \in Threads |-> op[u]]
  BY DEF SpansInv, TrieInv, OpsTyped
<1>2. ASSUME NEW p, StartLookup(t, p)
      PROVE  /\ op' = [op EXCEPT ![t] = op'[t]] /\ IsOp(op'[t])
             /\ op'[t].at = "load1" /\ op'[t].page = p /\ op'[t].ok
  <2>1. op' = [op EXCEPT ![t] = [NoOp EXCEPT !.at = "load1", !.page = p]]
    BY <1>2 DEF StartLookup
  <2>2. op'[t] = [NoOp EXCEPT !.at = "load1", !.page = p]
    BY <1>1, <2>1
  <2> QED
    BY <1>1, <2>1, <2>2 DEF IsOp, NoOp
<1>3. ASSUME NEW f, NEW l, NEW d, StartInsert(t, f, l, d)
      PROVE  /\ op' = [op EXCEPT ![t] = op'[t]] /\ IsOp(op'[t])
             /\ op'[t].at = "lock" /\ op'[t].page = f /\ op'[t].first = f /\ op'[t].last = l
             /\ op'[t].data = d /\ op'[t].ok
  <2>1. op' = [op EXCEPT ![t] = [NoOp EXCEPT !.at = "lock", !.page = f,
                                         !.first = f, !.last = l, !.data = d]]
    BY <1>3 DEF StartInsert
  <2>2. op'[t] = [NoOp EXCEPT !.at = "lock", !.page = f, !.first = f, !.last = l, !.data = d]
    BY <1>1, <2>1
  <2> QED
    BY <1>1, <2>1, <2>2 DEF IsOp, NoOp
<1>4. ASSUME Quiet(t)
      PROVE  /\ op' = [op EXCEPT ![t] = op'[t]] /\ IsOp(op'[t])
             /\ op'[t].at = "idle" /\ op'[t].ok
  <2>1. op' = [op EXCEPT ![t] = NoOp]
    BY <1>4 DEF Quiet
  <2>2. op'[t] = NoOp
    BY <1>1, <2>1
  <2> QED
    BY <1>1, <2>1, <2>2 DEF IsOp, NoOp
<1> QED
  BY <1>2, <1>3, <1>4

(* A step of a call that is out with nothing, before and after *)
LEMMA NoneOut ==
    ASSUME SpansInv, NEW t \in Threads, Moves(t), Given' = Given, UNCHANGED <<held, leaked>>,
           ~Out(t), ~Out(t)'
    PROVE  Tokens'
<1>1. Out(t)' = Out(t)
  BY DEF Out, Passes, At
<1> QED
  BY <1>1, TokensFrame

(* Where no thread is out that was, and no new one is, but one takes a span *)
(* from the program *)
LEMMA TokenTaken ==
    ASSUME SpansInv, NEW t \in Threads, UNCHANGED <<desc, pool, stranded, leaked>>, NEW h \in held,
           held' = held \ {h}, ~Out(t), Moves(t), Out(t)', CallSpan(t)' = h
    PROVE  Tokens'
<1>1. Given' = Given /\ Tokens
  BY GivenSame DEF SpansInv
<1>2. ASSUME NEW u \in Threads, u # t PROVE Out(u)' = Out(u) /\ CallSpan(u)' = CallSpan(u)
  <2>1. call'[u] = call[u]
    BY <1>2, OthersSame
  <2> QED
    BY <2>1 DEF Out, Passes, At, CallSpan
<1> DEFINE all == held \cup leaked
<1>3. h \in Given /\ all' = all \ {h} /\ h \in all /\ all \subseteq Given
  BY <1>1 DEF Tokens
<1>4. held' \cap leaked' = {}
  BY <1>1 DEF Tokens
<1>5. \A u \in Threads : Out(u)' => CallSpan(u)' \in Given' \ all'
  BY <1>1, <1>2, <1>3 DEF Tokens
<1>6. \A v, u \in Threads : Out(v)' /\ Out(u)' /\ CallSpan(u)' = CallSpan(v)' => u = v
  BY <1>1, <1>2, <1>3 DEF Tokens
<1>7. \A g \in Given' : g \in all' \/ \E u \in Threads : Out(u)' /\ CallSpan(u)' = g
  BY <1>1, <1>2, <1>3 DEF Tokens
<1> QED
  BY <1>1, <1>3, <1>4, <1>5, <1>6, <1>7 DEF Tokens

(* A free begins. *)
LEMMA FreeSpans ==
    ASSUME SpansInv, CallsOK', NEW t \in Threads, NEW h \in held, Free(t, h)
    PROVE  SpansInv'
<1>1. /\ call[t].at = "idle" /\ held' = held \ {h} /\ StartLookup(t, h.addr)
      /\ UNCHANGED <<node, nnodes, desc, pool, stranded, mapped, arenaLock, leaked>>
      /\ call' = [call EXCEPT ![t] = [NoCall EXCEPT !.at = "find", !.addr = h.addr, !.want = h.len]]
  BY DEF Free, TrieCall, memVars, At
<1>2. /\ op' = [op EXCEPT ![t] = op'[t]] /\ IsOp(op'[t])
      /\ op'[t].at = "load1" /\ op'[t].page = h.addr
  BY <1>1, StartFields
<1>3. /\ call' = [call EXCEPT ![t] = call'[t]]
      /\ call'[t].at = "find" /\ call'[t].addr = h.addr /\ call'[t].want = h.len
  <2>1. call'[t] = [NoCall EXCEPT !.at = "find", !.addr = h.addr, !.want = h.len]
    BY <1>1, CallFields DEF SpansInv
  <2>2. call'[t].at = "find" /\ call'[t].addr = h.addr /\ call'[t].want = h.len
    BY <2>1 DEF NoCall
  <2>3. call' = [call EXCEPT ![t] = call'[t]]
    BY <1>1, <2>1
  <2> QED
    BY <2>2, <2>3
<1>4. Moves(t)
  BY <1>2, <1>3 DEF Moves
<1>5. h = [addr |-> h.addr, len |-> h.len]
  BY DEF SpansInv, Tokens, Given, SpanRec
<1>6. Out(t)' /\ CallSpan(t)' = h /\ ~Out(t) /\ ~Works(t) /\ ~Works(t)' /\ ~Passes(t)'
  BY <1>1, <1>3, <1>5 DEF Out, At, CallSpan, Works, WorkAts, Passes, PassAts
<1>7. Tokens'
  BY <1>1, <1>4, <1>6, TokenTaken
<1>8. Pending(t) = {} /\ Pending(t)' = {}
  BY <1>1, <1>3 DEF Pending, InsertAts
<1>9. WorkOK(t)'
  BY <1>3, <1>6 DEF WorkOK, At
<1>10. TaskFits(t)'
  BY <1>2, <1>3 DEF TaskFits, InsertAts, LookAts, Loads, LookPage, At
<1>11. PendingOK(t)' /\ LookOK(t)'
  BY <1>2, <1>3, <1>8 DEF PendingOK, LookOK, Returned, At
<1> QED
  BY <1>1, <1>2, <1>4, <1>6, <1>7, <1>8, <1>9, <1>10, <1>11, StillKeeps DEF Still

(* The second lookup begins. *)
LEMMA GetRightSpans ==
    ASSUME SpansInv, CallsOK', NEW t \in Threads, GetRight(t)
    PROVE  SpansInv'
<1>1. /\ call[t].at = "left" /\ Returned(t)
      /\ StartLookup(t, desc[call[t].span].base + desc[call[t].span].len)
      /\ UNCHANGED <<node, nnodes, desc, pool, stranded, mapped, arenaLock, leaked, held>>
      /\ call' = [call EXCEPT ![t].at = "right", ![t].left = op[t].data]
  BY DEF GetRight, TrieCall, memVars, At
<1>2. /\ op' = [op EXCEPT ![t] = op'[t]] /\ IsOp(op'[t])
      /\ op'[t].at = "load1" /\ op'[t].page = desc[call[t].span].base + desc[call[t].span].len
  BY <1>1, StartFields
<1>3. /\ call' = [call EXCEPT ![t] = call'[t]]
      /\ call'[t].at = "right" /\ call'[t].left = op[t].data
      /\ call'[t].span = call[t].span /\ call'[t].arena = call[t].arena
  <2>1. call'[t] = [call[t] EXCEPT !.at = "right", !.left = op[t].data]
    BY <1>1, CallFields DEF SpansInv
  <2> QED
    BY <1>1, <2>1, CallFields DEF SpansInv
<1>4. Moves(t)
  BY <1>2, <1>3 DEF Moves
<1>5. ~Out(t)' /\ ~Out(t) /\ Works(t) /\ Works(t)' /\ ~Passes(t)'
  BY <1>1, <1>3 DEF Out, At, Works, WorkAts, Passes, PassAts
<1>6. Tokens'
  BY <1>1, <1>4, <1>5, GivenSame, NoneOut
<1>7. Pending(t) = {} /\ Pending(t)' = {}
  BY <1>1, <1>3 DEF Pending, InsertAts
<1>8. InUse' = InUse
  BY <1>1 DEF InUse, Strays
<1>9. WorkOK(t)'
  BY <1>1, <1>3, <1>5, <1>8 DEF WorkOK, At, WorkAts, PassAts, SpansInv
<1>10. TaskFits(t)'
  BY <1>1, <1>2, <1>3 DEF TaskFits, InsertAts, LookAts, Loads, LookPage, At
<1>11. PendingOK(t)'
  BY <1>7 DEF PendingOK
<1>12. OfArena(op[t].data, call[t].arena)
  BY <1>1 DEF SpansInv, LookOK
<1>13. LookOK(t)'
  <2>1. op[t].data = Null \/ (op[t].data \in Descs /\ (op[t].data[1] = call[t].arena => op[t].data \in InUse'))
    BY <1>8, <1>12 DEF OfArena
  <2>2. call'[t].left = Null \/ (call'[t].left \in Descs /\ (call'[t].left[1] = call'[t].arena => call'[t].left \in InUse'))
    BY <1>3, <2>1
  <2> QED
    BY <1>2, <1>3, <2>2 DEF LookOK, Returned, At, OfArena, Descs, Arenas
<1> QED
  BY <1>1, <1>2, <1>3, <1>4, <1>5, <1>6, <1>7, <1>9, <1>10, <1>11, <1>13, StillKeeps DEF Still

(* A call that fails before it has anything *)
LEMMA NoSpanSpans ==
    ASSUME SpansInv, CallsOK', NEW t \in Threads, call[t].at \in {"idle", "claim", "get"},
           UNCHANGED <<op, node, nnodes, desc, pool, stranded, mapped, arenaLock, held, leaked>>,
           Finish(t)
    PROVE  SpansInv'
<1>1. call'[t] = NoCall /\ call' = [call EXCEPT ![t] = call'[t]]
  BY CallFields DEF SpansInv, Finish
<1>2. call'[t].at = "idle"
  BY <1>1 DEF NoCall
<1>3. Moves(t)
  BY <1>1 DEF Moves, SpansInv, TrieInv, OpsTyped
<1>4. op[t].at = "idle" /\ Pending(t) = {} /\ ~Works(t)
  BY NoTask DEF InsertAts, LookAts, Works, WorkAts
<1>5. ~Out(t)' /\ ~Out(t)
  BY <1>2 DEF Out, Passes, PassAts, At
<1>6. Tokens'
  BY <1>3, <1>5, GivenSame, NoneOut
<1>7. WorkOK(t)' /\ TaskFits(t)' /\ PendingOK(t)' /\ LookOK(t)'
  BY <1>2, <1>4 DEF WorkOK, Works, WorkAts, Passes, PassAts, At, TaskFits, InsertAts, LookAts, Returned,
        Pending, PendingOK, LookOK
<1> QED
  BY <1>1, <1>3, <1>4, <1>6, <1>7, StillKeeps DEF Still

(* The insert of a new span is done. *)
LEMMA MintedSpans ==
    ASSUME SpansInv, CallsOK', NEW t \in Threads, Minted(t), op[t].ok
    PROVE  SpansInv'
<1>1. /\ call[t].at = "mint" /\ Returned(t)
      /\ UNCHANGED <<node, nnodes, desc, pool, stranded, mapped, arenaLock, leaked, held>>
      /\ Quiet(t) /\ call' = [call EXCEPT ![t].at = "cut"]
  BY DEF Minted, Now, memVars, At, Quiet
<1>2. op' = [op EXCEPT ![t] = op'[t]] /\ IsOp(op'[t]) /\ op'[t].at = "idle"
  BY <1>1, StartFields
<1>3. /\ call' = [call EXCEPT ![t] = call'[t]]
      /\ call'[t].at = "cut" /\ call'[t].want = call[t].want
      /\ call'[t].span = call[t].span /\ call'[t].arena = call[t].arena
  <2>1. call'[t] = [call[t] EXCEPT !.at = "cut"]
    BY <1>1, CallFields DEF SpansInv
  <2> QED
    BY <1>1, <2>1, CallFields DEF SpansInv
<1>4. Moves(t)
  BY <1>2, <1>3 DEF Moves
<1>5. ~Out(t)' /\ ~Out(t) /\ Works(t) /\ Works(t)' /\ ~Passes(t)'
  BY <1>1, <1>3 DEF Out, At, Works, WorkAts, Passes, PassAts
<1>6. Tokens'
  BY <1>1, <1>4, <1>5, GivenSame, NoneOut
<1>7. Pending(t) = {} /\ Pending(t)' = {}
  BY <1>1, <1>3 DEF Pending, InsertAts, Returned, Inserts
<1>8. InUse' = InUse
  BY <1>1 DEF InUse, Strays
<1>9. WorkOK(t)'
  BY <1>1, <1>3, <1>5, <1>8 DEF WorkOK, At, WorkAts, PassAts, SpansInv
<1>10. TaskFits(t)' /\ PendingOK(t)' /\ LookOK(t)'
  BY <1>2, <1>3, <1>7 DEF TaskFits, InsertAts, LookAts, PendingOK, LookOK, At
<1> QED
  BY <1>1, <1>2, <1>3, <1>4, <1>5, <1>6, <1>7, <1>9, <1>10, StillKeeps DEF Still

-----------------------------------------------------------------------------
(* Steps that set a flag of one descriptor *)

DescType == [base : Nat, len : Nat, alloc : BOOLEAN, binned : BOOLEAN]

(* A flag is set. *)
LEMMA FlagSet ==
    ASSUME DescsTyped, NEW d \in Descs, NEW b \in BOOLEAN, pool' = pool, stranded' = stranded,
           \/ desc' = [desc EXCEPT ![d].binned = b]
           \/ desc' = [desc EXCEPT ![d].alloc = b]
    PROVE  /\ desc' \in [Descs -> DescType]
           /\ desc'[d].base = desc[d].base /\ desc'[d].len = desc[d].len
           /\ desc' = [desc EXCEPT ![d].binned = b] => desc'[d].binned = b /\ desc'[d].alloc = desc[d].alloc
           /\ desc' = [desc EXCEPT ![d].alloc = b] => desc'[d].alloc = b /\ desc'[d].binned = desc[d].binned
           /\ \A e \in Descs \ {d} : desc'[e] = desc[e]
           /\ InUse' = InUse
           /\ \A e \in InUse : PagesOf(e)' = PagesOf(e)
<1>1. desc \in [Descs -> DescType]
  BY DEF DescsTyped, DescType
<1>2. InUse' = InUse /\ InUse \subseteq Descs
  BY DEF InUse, Strays, Descs, Arenas
<1>3. /\ desc'[d].base = desc[d].base /\ desc'[d].len = desc[d].len
      /\ \A e \in Descs \ {d} : desc'[e] = desc[e]
      /\ desc' \in [Descs -> DescType]
  BY <1>1 DEF DescType
<1>4. /\ desc' = [desc EXCEPT ![d].binned = b] => desc'[d].binned = b /\ desc'[d].alloc = desc[d].alloc
      /\ desc' = [desc EXCEPT ![d].alloc = b] => desc'[d].alloc = b /\ desc'[d].binned = desc[d].binned
  BY <1>1 DEF DescType
<1>5. \A e \in InUse : PagesOf(e)' = PagesOf(e)
  <2> SUFFICES ASSUME NEW e \in InUse PROVE PagesOf(e)' = PagesOf(e)
    OBVIOUS
  <2>1. desc'[e].base = desc[e].base /\ desc'[e].len = desc[e].len
    BY <1>2, <1>3
  <2> QED
    BY <2>1 DEF PagesOf
<1> QED
  BY <1>2, <1>3, <1>4, <1>5

(* A lock is taken or given back. *)
LEMMA LockSet ==
    ASSUME DescsTyped, NEW a \in Arenas, NEW x, arenaLock' = [arenaLock EXCEPT ![a] = x]
    PROVE  /\ arenaLock' = [b \in Arenas |-> arenaLock'[b]] /\ arenaLock'[a] = x
           /\ \A b \in Arenas \ {a} : arenaLock'[b] = arenaLock[b]
  BY DEF DescsTyped

(* Such a step of a thread that has nothing to store *)
LEMMA FlagKeeps ==
    ASSUME SpansInv, CallsOK', NEW t \in Threads, NEW d \in InUse, Frame(t, {d}),
           pool' = pool, stranded' = stranded, mapped' = mapped, InUse' = InUse,
           desc' \in [Descs -> DescType], arenaLock' = [a \in Arenas |-> arenaLock'[a]],
           desc'[d].base = desc[d].base, desc'[d].len = desc[d].len,
           Pending(t) = {},
           Works(t) => call[t].span = d, FlagOK(d)',
           WorkOK(t)', TaskFits(t)', PendingOK(t)', LookOK(t)', Tokens'
    PROVE  SpansInv'
<1>1. DescsTyped'
  BY DEF SpansInv, DescsTyped, Strays, DescType, Descs, Arenas
<1>2. \A e \in InUse : desc'[e].base = desc[e].base /\ desc'[e].len = desc[e].len
  BY DEF Frame, InUse
<1>3. Tiles'
  BY <1>2, TilesSame DEF SpansInv
<1>4. FlagsOK'
  <2>1. \A e \in {d} : e \in InUse' => FlagOK(e)'
    BY DEF FlagOK, InUse, Descs, Arenas
  <2> QED
    BY <2>1, FlagsFrame
<1>5. UnmappedNull'
  <2>1. \A p : Entry(p)' = Entry(p)
    BY NodesStill DEF Frame
  <2> QED
    BY <2>1 DEF SpansInv, UnmappedNull, Pages
<1>6. SettledLead'
  <2>1. ASSUME NEW p \in PagesOf(d)'
        PROVE  Entry(p) = d \/ \E u \in Threads : p \in Pending(u)'
    <3>1. p \in PagesOf(d)
      BY <2>1 DEF PagesOf
    <3>2. Entry(p) = d \/ \E u \in Threads : p \in Pending(u)
      BY <3>1 DEF SpansInv, SettledLead
    <3>3. \A u \in Threads : p \in Pending(u) => p \in Pending(u)'
      <4> SUFFICES ASSUME NEW u \in Threads, p \in Pending(u) PROVE p \in Pending(u)'
        OBVIOUS
      <4>1. u # t
        OBVIOUS
      <4> QED
        BY <4>1, OthersKeep
    <3> QED
      BY <3>2, <3>3
  <2>2. \A e \in {d} : e \in InUse' =>
           \A p \in PagesOf(e)' : Entry(p) = e \/ \E u \in Threads : p \in Pending(u)'
    BY <2>1 DEF PagesOf
  <2> QED
    BY <2>2, SettledFrame
<1> QED
  BY <1>1, <1>3, <1>4, <1>5, <1>6, FrameKeeps

(* The frame of such a step, under the lock of its arena *)
LEMMA FlagFrame ==
    ASSUME SpansInv, NEW t \in Threads, NEW d \in InUse, Moves(t),
           op'[t] = op[t] \/ op'[t].at \in {"idle", "lock", "load1"},
           UNCHANGED <<node, nnodes>>, InUse' = InUse,
           \A e \in Descs \ {d} : desc'[e] = desc[e],
           ~desc[d].alloc, arenaLock[d[1]] \in {Null, t},
           \A b \in Arenas \ {d[1]} : arenaLock'[b] = arenaLock[b]
    PROVE  Frame(t, {d})
<1>1. Guards(t, d[1], {d})
  BY DEF Guards
<1>2. \A u \in Threads \ {t} : KeptOff(u, {d})
  BY <1>1, LockKeepsOff
<1> QED
  BY <1>2 DEF Frame

(* A span is taken from its bin. *)
LEMMA PopSpans ==
    ASSUME SpansInv, CallsOK', NEW t \in Threads, PopBin(t)
    PROVE  SpansInv'
<1> DEFINE a == call[t].arena
<1>1. /\ call[t].at = "get" /\ arenaLock[a] = Null /\ arenaLock' = [arenaLock EXCEPT ![a] = t]
      /\ UNCHANGED <<op, node, nnodes, pool, stranded, mapped, leaked, held>>
      /\ \E d \in Fitting(a, call[t].want) :
            /\ desc' = [desc EXCEPT ![d].binned = FALSE]
            /\ call' = [call EXCEPT ![t].at = "cut", ![t].span = d]
  BY DEF PopBin, Lock, trieVars, At
<1>2. PICK d \in Fitting(a, call[t].want) :
            /\ desc' = [desc EXCEPT ![d].binned = FALSE]
            /\ call' = [call EXCEPT ![t].at = "cut", ![t].span = d]
  BY <1>1
<1>3. d \in InUse /\ d \in Descs /\ d[1] = a /\ desc[d].binned /\ desc[d].len >= call[t].want /\ ~desc[d].alloc
  BY DEF Fitting, InUse, SpansInv, FlagsOK, FlagOK
<1>4. DescsTyped /\ a \in Arenas
  BY <1>1 DEF SpansInv, WorkOK, At
<1>5. /\ call' = [call EXCEPT ![t] = call'[t]]
      /\ call'[t].at = "cut" /\ call'[t].want = call[t].want
      /\ call'[t].span = d /\ call'[t].arena = a
  <2>1. call'[t] = [call[t] EXCEPT !.at = "cut", !.span = d]
    BY <1>2, CallFields DEF SpansInv
  <2> QED
    BY <1>2, <2>1, CallFields DEF SpansInv
<1> HIDE DEF a
<1>6. /\ desc' \in [Descs -> DescType] /\ desc'[d].base = desc[d].base /\ desc'[d].len = desc[d].len
      /\ ~desc'[d].binned /\ ~desc'[d].alloc /\ InUse' = InUse
      /\ \A e \in Descs \ {d} : desc'[e] = desc[e]
  BY <1>1, <1>2, <1>3, <1>4, FlagSet
<1>7. /\ arenaLock' = [b \in Arenas |-> arenaLock'[b]] /\ arenaLock'[a] = t
      /\ \A b \in Arenas \ {a} : arenaLock'[b] = arenaLock[b]
  BY <1>1, <1>4, LockSet
<1>8. op[t].at = "idle" /\ Pending(t) = {} /\ ~Returned(t) /\ ~Works(t) /\ ~Out(t)
  BY <1>1, NoTask DEF InsertAts, LookAts, Works, WorkAts, Out, Passes, PassAts, At
<1>9. Moves(t)
  BY <1>1, <1>5 DEF Moves, SpansInv, TrieInv, OpsTyped
<1>10. Frame(t, {d})
  BY <1>1, <1>3, <1>6, <1>7, <1>9, FlagFrame
<1>11. Works(t)' /\ ~Out(t)' /\ ~Passes(t)'
  BY <1>5 DEF Works, WorkAts, Out, Passes, PassAts, At
<1>12. Tokens'
  <2>1. Given' = Given
    <3>1. \A e \in {d} : (e \in InUse => ~desc[e].alloc) /\ (e \in InUse' => ~desc'[e].alloc)
      BY <1>3, <1>6
    <3> QED
      BY <1>10, <3>1, GivenFrame
  <2> QED
    BY <1>1, <1>8, <1>9, <1>11, <2>1, NoneOut
<1>13. call[t].want \in Nat \ {0}
  BY <1>1 DEF SpansInv, WorkOK
<1>14. WorkOK(t)'
  BY <1>3, <1>5, <1>6, <1>7, <1>11, <1>13 DEF WorkOK, At, WorkAts, PassAts
<1>15. TaskFits(t)' /\ PendingOK(t)' /\ LookOK(t)'
  BY <1>1, <1>5, <1>8 DEF TaskFits, InsertAts, LookAts, PendingOK, Pending, LookOK, At
<1>16. FlagOK(d)'
  <2>1. d \in InUse' => ~(desc'[d].alloc /\ desc'[d].binned) /\ Works(t)' /\ call'[t].span = d
    BY <1>5, <1>6, <1>11
  <2> QED
    BY <1>3, <1>6, <2>1 DEF FlagOK
<1> QED
  BY <1>1, <1>3, <1>6, <1>7, <1>8, <1>10, <1>12, <1>14, <1>15, <1>16, FlagKeeps

(* A span in hand goes to its bin and the call is over. *)
LEMMA BinSpans ==
    ASSUME SpansInv, CallsOK', NEW t \in Threads, NEW d, d = call[t].span, Works(t), Pending(t) = {},
           desc' = [desc EXCEPT ![d].binned = TRUE], Unlock(call[t].arena), Finish(t),
           op' = [op EXCEPT ![t] = op'[t]] /\ IsOp(op'[t]), op'[t].at = "idle",
           UNCHANGED <<node, nnodes, pool, stranded, mapped, held, leaked>>
    PROVE  SpansInv'
<1> DEFINE a == call[t].arena
<1>1. /\ d \in InUse /\ d \in Descs /\ d[1] = a /\ ~desc[d].alloc /\ arenaLock[a] = t
      /\ DescsTyped /\ a \in Arenas
  BY DEF SpansInv, WorkOK, InUse, Descs
<1>2. /\ call' = [call EXCEPT ![t] = call'[t]] /\ call'[t].at = "idle"
  BY CallFields DEF SpansInv, Finish, NoCall
<1>3. arenaLock' = [arenaLock EXCEPT ![a] = Null]
  BY DEF Unlock
<1> HIDE DEF a
<1>6. /\ desc' \in [Descs -> DescType] /\ desc'[d].base = desc[d].base /\ desc'[d].len = desc[d].len
      /\ desc'[d].binned /\ ~desc'[d].alloc /\ InUse' = InUse
      /\ \A e \in Descs \ {d} : desc'[e] = desc[e]
  BY <1>1, FlagSet
<1>7. /\ arenaLock' = [b \in Arenas |-> arenaLock'[b]]
      /\ \A b \in Arenas \ {a} : arenaLock'[b] = arenaLock[b]
  BY <1>1, <1>3, LockSet
<1>9. Moves(t)
  BY <1>2 DEF Moves
<1>10. Frame(t, {d})
  BY <1>1, <1>6, <1>7, <1>9, FlagFrame
<1>11. ~Out(t) /\ ~Out(t)' /\ ~Passes(t)' /\ ~Works(t)'
  BY <1>2 DEF Works, WorkAts, Out, Passes, PassAts, At
<1>12. Tokens'
  <2>1. Given' = Given
    <3>1. \A e \in {d} : (e \in InUse => ~desc[e].alloc) /\ (e \in InUse' => ~desc'[e].alloc)
      BY <1>1, <1>6
    <3> QED
      BY <1>10, <3>1, GivenFrame
  <2> QED
    BY <1>9, <1>11, <2>1, NoneOut
<1>14. WorkOK(t)'
  BY <1>2, <1>11 DEF WorkOK, At
<1>15. TaskFits(t)' /\ PendingOK(t)' /\ LookOK(t)'
  BY <1>2 DEF TaskFits, InsertAts, LookAts, PendingOK, Pending, LookOK, At
<1>16. FlagOK(d)'
  BY <1>6 DEF FlagOK
<1> QED
  BY <1>1, <1>6, <1>7, <1>10, <1>12, <1>14, <1>15, <1>16, FlagKeeps

(* The end of a free *)
LEMMA PutDoneSpans ==
    ASSUME SpansInv, CallsOK', NEW t \in Threads, PutDone(t)
    PROVE  SpansInv'
<1>1. /\ call[t].at = "merge" /\ Returned(t)
      /\ desc' = [desc EXCEPT ![call[t].span].binned = TRUE]
      /\ Unlock(call[t].arena) /\ Finish(t) /\ Quiet(t)
      /\ UNCHANGED <<node, nnodes, pool, stranded, mapped, held, leaked>>
  BY DEF PutDone, At, Quiet
<1>2. op[t].ok
  BY <1>1 DEF SpansInv, TaskFits, InsertAts, Returned, Inserts, At
<1>3. Works(t) /\ Pending(t) = {}
  BY <1>1, <1>2 DEF Works, WorkAts, Pending, Returned, Inserts
<1>4. op' = [op EXCEPT ![t] = op'[t]] /\ IsOp(op'[t]) /\ op'[t].at = "idle"
  BY <1>1, StartFields
<1> QED
  BY <1>1, <1>3, <1>4, BinSpans

(* No descriptor for the part that is cut *)
LEMMA CutFailsSpans ==
    ASSUME SpansInv, CallsOK', NEW t \in Threads, CutOut(t), pool[call[t].arena] = <<>>
    PROVE  SpansInv'
<1>1. /\ call[t].at = "cut"
      /\ desc' = [desc EXCEPT ![call[t].span].binned = TRUE]
      /\ Unlock(call[t].arena) /\ Finish(t) /\ op' = op
      /\ UNCHANGED <<node, nnodes, pool, stranded, mapped, held, leaked>>
  BY DEF CutOut, At, trieVars
<1>2. Works(t) /\ Pending(t) = {} /\ op[t].at = "idle"
  BY <1>1, NoTask DEF Works, WorkAts, InsertAts, LookAts
<1>3. op' = [op EXCEPT ![t] = op'[t]] /\ IsOp(op'[t])
  BY <1>1 DEF SpansInv, TrieInv, OpsTyped
<1> QED
  BY <1>1, <1>2, <1>3, BinSpans

(* A span is given: from now on it is known by its address. *)
LEMMA GiveSpans ==
    ASSUME SpansInv, CallsOK', NEW t \in Threads, Give(t)
    PROVE  SpansInv'
<1>0. PICK d : d = call[t].span
  OBVIOUS
<1> DEFINE a == call[t].arena
<1>1. /\ \/ call[t].at = "cut" /\ desc[d].len = call[t].want
         \/ call[t].at = "cutting" /\ Returned(t)
      /\ desc' = [desc EXCEPT ![d].alloc = TRUE]
      /\ arenaLock' = [arenaLock EXCEPT ![a] = Null]
      /\ call' = [call EXCEPT ![t].at = "epoch", ![t].addr = desc[d].base]
      /\ Quiet(t) /\ UNCHANGED <<node, nnodes, pool, stranded, mapped, held, leaked>>
  BY <1>0 DEF Give, Unlock, At, Quiet
<1>2. Works(t) /\ ~Out(t)
  BY <1>1 DEF Works, WorkAts, Out, Passes, PassAts, At
<1>3. /\ d \in InUse /\ d \in Descs /\ d[1] = a /\ ~desc[d].alloc /\ ~desc[d].binned /\ arenaLock[a] = t
      /\ DescsTyped /\ a \in Arenas /\ Tokens
  BY <1>0, <1>2 DEF SpansInv, WorkOK, InUse, Descs
<1>4. desc[d].len = call[t].want /\ Pending(t) = {}
  <2>1. CASE call[t].at = "cut"
    BY <1>0, <1>1, <2>1 DEF Pending, InsertAts
  <2>2. CASE call[t].at = "cutting"
    <3>1. op[t].ok /\ desc[d].len = call[t].want
      BY <1>0, <1>1, <2>2 DEF SpansInv, TaskFits, WorkOK, InsertAts, Returned, Inserts, At
    <3> QED
      BY <1>1, <2>2, <3>1 DEF Pending, InsertAts, Returned, Inserts
  <2> QED
    BY <1>1, <2>1, <2>2
<1>5. /\ call' = [call EXCEPT ![t] = call'[t]] /\ call'[t].at = "epoch"
      /\ call'[t].span = d /\ call'[t].addr = desc[d].base /\ call'[t].want = call[t].want
  <2>1. call'[t] = [call[t] EXCEPT !.at = "epoch", !.addr = desc[d].base]
    BY <1>1, CallFields DEF SpansInv
  <2> QED
    BY <1>0, <1>1, <2>1, CallFields DEF SpansInv
<1>6. op' = [op EXCEPT ![t] = op'[t]] /\ IsOp(op'[t]) /\ op'[t].at = "idle"
  BY <1>1, StartFields
<1> HIDE DEF a
<1>7. /\ desc' \in [Descs -> DescType] /\ desc'[d].base = desc[d].base /\ desc'[d].len = desc[d].len
      /\ ~desc'[d].binned /\ desc'[d].alloc /\ InUse' = InUse
      /\ \A e \in Descs \ {d} : desc'[e] = desc[e]
  BY <1>1, <1>3, FlagSet
<1>8. /\ arenaLock' = [b \in Arenas |-> arenaLock'[b]]
      /\ \A b \in Arenas \ {a} : arenaLock'[b] = arenaLock[b]
  BY <1>1, <1>3, LockSet
<1>9. Moves(t)
  BY <1>5, <1>6 DEF Moves
<1>10. Frame(t, {d})
  BY <1>1, <1>3, <1>6, <1>7, <1>8, <1>9, FlagFrame
<1>11. Out(t)' /\ Passes(t)' /\ ~Works(t)'
  BY <1>5 DEF Works, WorkAts, Out, Passes, PassAts, At
<1>12. CallSpan(t)' = SpanRec(d) /\ SpanRec(d)' = SpanRec(d)
  BY <1>4, <1>5, <1>7 DEF CallSpan, SpanRec
<1>13. Tokens'
  <2>1. Given' = Given \cup {SpanRec(d)}
    <3>1. \A e \in InUse : SpanRec(e)' = SpanRec(e) /\ (desc'[e].alloc <=> desc[e].alloc \/ e = d)
      BY <1>3, <1>7, <1>12 DEF SpanRec, InUse
    <3>2. \A g : g \in Given' <=> \E e \in InUse : desc'[e].alloc /\ g = SpanRec(e)
      BY <1>7, <3>1 DEF Given, SpanRec
    <3>3. \A g : g \in Given <=> \E e \in InUse : desc[e].alloc /\ g = SpanRec(e)
      BY DEF Given
    <3>4. \A g : g \in Given' <=> g \in Given \/ g = SpanRec(d)
      BY <1>3, <3>1, <3>2, <3>3
    <3> QED
      BY <3>4
  <2>2. SpanRec(d) \notin Given
    <3> SUFFICES ASSUME SpanRec(d) \in Given PROVE FALSE
      OBVIOUS
    <3>1. PICK e \in InUse : desc[e].alloc /\ SpanRec(d) = SpanRec(e)
      BY DEF Given
    <3>2. e = d
      BY <1>3, <3>1, SpanOfPage DEF SpansInv
    <3> QED
      BY <1>3, <3>1, <3>2
  <2>3. ASSUME NEW u \in Threads, u # t PROVE Out(u)' = Out(u) /\ CallSpan(u)' = CallSpan(u)
    <3>1. call'[u] = call[u]
      BY <1>9, <2>3, OthersSame
    <3> QED
      BY <3>1 DEF Out, Passes, At, CallSpan
  <2>4. held' \cup leaked' = held \cup leaked
    BY <1>1
  <2>5. held' \cup leaked' \subseteq Given' /\ held' \cap leaked' = {}
    BY <1>1, <1>3, <2>1 DEF Tokens
  <2>6. \A u \in Threads : Out(u)' => CallSpan(u)' \in Given' \ (held' \cup leaked')
    BY <1>2, <1>3, <1>12, <2>1, <2>2, <2>3, <2>4 DEF Tokens
  <2>7. \A v, u \in Threads : Out(v)' /\ Out(u)' /\ CallSpan(u)' = CallSpan(v)' => u = v
    BY <1>3, <1>12, <2>2, <2>3 DEF Tokens
  <2>8. \A g \in Given' : g \in held' \cup leaked' \/ \E u \in Threads : Out(u)' /\ CallSpan(u)' = g
    BY <1>2, <1>3, <1>11, <1>12, <2>1, <2>3, <2>4 DEF Tokens
  <2> QED
    BY <2>5, <2>6, <2>7, <2>8 DEF Tokens
<1>14. WorkOK(t)'
  BY <1>3, <1>5, <1>7, <1>11, <1>12 DEF WorkOK, At, PassAts
<1>15. TaskFits(t)' /\ PendingOK(t)' /\ LookOK(t)'
  BY <1>5, <1>6 DEF TaskFits, InsertAts, LookAts, PendingOK, Pending, LookOK, At
<1>16. FlagOK(d)'
  BY <1>7 DEF FlagOK
<1>17. /\ pool' = pool /\ stranded' = stranded /\ mapped' = mapped /\ InUse' = InUse
       /\ desc'[d].base = desc[d].base /\ desc'[d].len = desc[d].len
  BY <1>1, <1>7
<1>18. d \in InUse /\ Pending(t) = {} /\ (Works(t) => call[t].span = d)
  BY <1>0, <1>3, <1>4
<1> QED
  BY <1>7, <1>8, <1>10, <1>13, <1>14, <1>15, <1>16, <1>17, <1>18, FlagKeeps

(* A span comes back: the thread that freed it is the only one that has it. *)
LEMMA PutSpans ==
    ASSUME SpansInv, CallsOK', NEW t \in Threads, PutSpan(t)
    PROVE  SpansInv'
<1>0. PICK d : d = op[t].data
  OBVIOUS
<1>1. call[t].at = "find" /\ Returned(t)
  BY DEF PutSpan, At
<1>2. /\ d \in InUse /\ d \in Descs /\ desc[d].alloc /\ SpanRec(d) = CallSpan(t)
      /\ d # Null /\ ~desc[d].binned
  <2>1. d \in InUse /\ d \in Descs /\ desc[d].alloc /\ SpanRec(d) = CallSpan(t)
    BY <1>0, <1>1 DEF SpansInv, LookOK, At, InUse
  <2> QED
    BY <2>1, DescFields DEF SpansInv, FlagsOK, FlagOK
<1>3. PICK a : a = d[1]
  OBVIOUS
<1>4. /\ desc' = [desc EXCEPT ![d].alloc = FALSE]
      /\ arenaLock[a] = Null /\ arenaLock' = [arenaLock EXCEPT ![a] = t]
      /\ call' = [call EXCEPT ![t].at = "left", ![t].span = d, ![t].arena = a]
      /\ StartLookup(t, desc[d].base - 1)
      /\ UNCHANGED <<node, nnodes, pool, stranded, mapped, held, leaked>>
  BY <1>0, <1>2, <1>3 DEF PutSpan, Lock, TrieCall
<1>5. DescsTyped /\ Tokens /\ a \in Arenas
  BY <1>2, <1>3 DEF SpansInv, Descs
<1>6. Out(t) /\ ~Works(t) /\ Pending(t) = {}
  BY <1>1 DEF Out, At, Works, WorkAts, Pending, InsertAts
<1>7. /\ call' = [call EXCEPT ![t] = call'[t]] /\ call'[t].at = "left"
      /\ call'[t].span = d /\ call'[t].arena = a
  <2>1. call'[t] = [call[t] EXCEPT !.at = "left", !.span = d, !.arena = a]
    BY <1>4, CallFields DEF SpansInv
  <2> QED
    BY <1>4, <2>1, CallFields DEF SpansInv
<1>8. op' = [op EXCEPT ![t] = op'[t]] /\ IsOp(op'[t]) /\ op'[t].at = "load1"
      /\ op'[t].page = desc[d].base - 1
  BY <1>4, StartFields
<1>9. /\ desc' \in [Descs -> DescType] /\ desc'[d].base = desc[d].base /\ desc'[d].len = desc[d].len
      /\ ~desc'[d].binned /\ ~desc'[d].alloc /\ InUse' = InUse
      /\ \A e \in Descs \ {d} : desc'[e] = desc[e]
  BY <1>2, <1>4, <1>5, FlagSet
<1>10. /\ arenaLock' = [b \in Arenas |-> arenaLock'[b]] /\ arenaLock'[a] = t
       /\ \A b \in Arenas \ {a} : arenaLock'[b] = arenaLock[b]
  BY <1>4, <1>5, LockSet
<1>11. Moves(t)
  BY <1>7, <1>8 DEF Moves
<1>12. ASSUME NEW u \in Threads, u # t PROVE KeptOff(u, {d})
  <2>1. WorkOK(u) /\ LookOK(u) /\ u # Null
    BY PageTrieAssumption DEF SpansInv
  <2>2. ~(Out(u) /\ CallSpan(u) = SpanRec(d))
    BY <1>2, <1>5, <1>6, <1>12 DEF Tokens
  <2>3. Works(u) => call[u].span # d /\ call[u].arena # a /\ call[u].arena \in Arenas
                    /\ arenaLock[call[u].arena] = u
    BY <1>2, <1>4, <2>1 DEF WorkOK, InUse, Descs
  <2>4. Passes(u) => call[u].span # d
    BY <2>1, <2>2 DEF WorkOK, Out
  <2>5. At(u, "find") /\ Returned(u) => op[u].data # d
    BY <2>1, <2>2 DEF LookOK, Out
  <2> QED
    BY <1>3, <1>10, <2>3, <2>4, <2>5 DEF KeptOff, Relies
<1>13. Frame(t, {d})
  BY <1>4, <1>8, <1>9, <1>11, <1>12 DEF Frame
<1>14. ~Out(t)' /\ ~Passes(t)' /\ Works(t)'
  BY <1>7 DEF Works, WorkAts, Out, Passes, PassAts, At
<1>15. Tokens'
  <2>1. \A e \in InUse : SpanRec(e)' = SpanRec(e) /\ (desc'[e].alloc <=> desc[e].alloc /\ e # d)
    BY <1>2, <1>9 DEF SpanRec, InUse
  <2>2. \A e \in InUse : SpanRec(e) = SpanRec(d) => e = d
    BY <1>2, SpanOfPage DEF SpansInv
  <2>3. Given' = Given \ {SpanRec(d)}
    <3>1. \A g : g \in Given' <=> \E e \in InUse : desc'[e].alloc /\ g = SpanRec(e)
      BY <1>9, <2>1 DEF Given, SpanRec
    <3>2. \A g : g \in Given <=> \E e \in InUse : desc[e].alloc /\ g = SpanRec(e)
      BY DEF Given
    <3>3. \A g : g \in Given' <=> g \in Given /\ g # SpanRec(d)
      BY <1>2, <2>1, <2>2, <3>1, <3>2
    <3> QED
      BY <3>3
  <2>4. ASSUME NEW u \in Threads, u # t PROVE Out(u)' = Out(u) /\ CallSpan(u)' = CallSpan(u)
    <3>1. call'[u] = call[u]
      BY <1>11, <2>4, OthersSame
    <3> QED
      BY <3>1 DEF Out, Passes, At, CallSpan
  <2>5. SpanRec(d) \notin held \cup leaked
    BY <1>2, <1>5, <1>6 DEF Tokens
  <2>6. held' \cup leaked' = held \cup leaked
    BY <1>4
  <2>7. held' \cup leaked' \subseteq Given' /\ held' \cap leaked' = {}
    BY <1>4, <1>5, <2>3, <2>5 DEF Tokens
  <2>8. \A u \in Threads : Out(u)' => CallSpan(u)' \in Given' \ (held' \cup leaked')
    BY <1>2, <1>5, <1>6, <1>14, <2>3, <2>4, <2>6 DEF Tokens
  <2>9. \A v, u \in Threads : Out(v)' /\ Out(u)' /\ CallSpan(u)' = CallSpan(v)' => u = v
    BY <1>5, <1>14, <2>4 DEF Tokens
  <2>10. \A g \in Given' : g \in held' \cup leaked' \/ \E u \in Threads : Out(u)' /\ CallSpan(u)' = g
    BY <1>2, <1>5, <2>3, <2>4, <2>6 DEF Tokens
  <2> QED
    BY <2>7, <2>8, <2>9, <2>10 DEF Tokens
<1>16. WorkOK(t)'
  BY <1>2, <1>3, <1>7, <1>9, <1>10, <1>14 DEF WorkOK, At, WorkAts, PassAts
<1>17. TaskFits(t)'
  BY <1>7, <1>8, <1>9 DEF TaskFits, InsertAts, LookAts, Loads, LookPage, At
<1>18. PendingOK(t)' /\ LookOK(t)'
  BY <1>7, <1>8 DEF InsertAts, PendingOK, Pending, LookOK, At, Returned
<1>19. FlagOK(d)'
  BY <1>7, <1>9, <1>14 DEF FlagOK
<1> QED
  BY <1>2, <1>4, <1>6, <1>9, <1>10, <1>13, <1>15, <1>16, <1>17, <1>18, <1>19, FlagKeeps

(* A set of natural numbers that is not empty has a least element. *)
LEMMA LeastOf == ASSUME NEW S, S \subseteq Nat, S # {} PROVE Min(S) \in S
<1> DEFINE F == FiniteSubsetsOf(Nat)
           R == StrictSubsetOrdering(Nat)
           Below(n) == S \cap (0 .. n)
           B == {Below(n) : n \in S}
<1>1. IsWellFoundedOn(R, F)
  BY FS_StrictSubsetOrderingWellFounded
<1>2. B \subseteq F /\ B # {}
  <2>1. ASSUME NEW n \in Nat PROVE IsFiniteSet(Below(n))
    <3>1. IsFiniteSet(0 .. n) /\ Below(n) \in SUBSET (0 .. n)
      BY FS_Interval
    <3> HIDE DEF Below
    <3> QED
      BY <3>1, FS_Subset
  <2> QED
    BY <2>1 DEF FiniteSubsetsOf
<1>3. PICK b \in B : \A c \in B : <<c, b>> \notin R
  <2> HIDE DEF F, R, B
  <2> QED
    BY <1>1, <1>2, WFMin
<1>4. PICK n \in S : b = Below(n)
  OBVIOUS
<1>5. ASSUME NEW m \in S PROVE n <= m
  <2> SUFFICES ASSUME m < n PROVE FALSE
    OBVIOUS
  <2>1. Below(m) \subseteq Below(n) /\ n \in Below(n) /\ n \notin Below(m)
    OBVIOUS
  <2>2. <<Below(m), Below(n)>> \in R
    BY <2>1 DEF StrictSubsetOrdering
  <2> QED
    BY <1>3, <1>4, <2>2
<1> HIDE DEF B
<1>6. \A m \in S : n <= m
  BY <1>5
<1>7. Min(S) = n
  BY ONLY n \in S, S \subseteq Nat, Nat \subseteq Int, <1>6, MinIs
<1> QED
  BY <1>7

-----------------------------------------------------------------------------
(* Descriptors leave their pool and come back. *)

PoolsOK == /\ pool \in [Arenas -> Seq(1 .. PoolSize)]
           /\ \A a \in Arenas : Distinct(pool[a])
           /\ \A d \in Strays : d \in Descs /\ d[2] \notin ToSet(pool[d[1]])

(* A descriptor leaves the pool of its arena. *)
LEMMA PoolTaken ==
    ASSUME DescsTyped, NEW a \in Arenas, pool[a] # <<>>, TakeDesc(a), NEW e, e = NewDesc(a),
           stranded' = stranded
    PROVE  /\ PoolsOK' /\ e \in Descs /\ e[1] = a /\ e \notin InUse
           /\ InUse' = InUse \cup {e}
<1> DEFINE q == pool[a]
           S == 1 .. PoolSize
<1>1. q \in Seq(S) /\ Distinct(q) /\ q # <<>> /\ pool' = [pool EXCEPT ![a] = Tail(q)]
      /\ pool \in [Arenas -> Seq(S)] /\ \A b \in Arenas : Distinct(pool[b])
  BY DEF DescsTyped, TakeDesc
<1>2. e = <<a, Head(q)>>
  BY DEF NewDesc
<1> HIDE DEF q, S
<1>3. /\ Head(q) \in ToSet(q) /\ Tail(q) \in Seq(S) /\ Distinct(Tail(q))
      /\ ToSet(Tail(q)) = ToSet(q) \ {Head(q)} /\ ToSet(q) \subseteq S
  BY <1>1, TailSeq, ToSetSeq
<1>4. PoolsOK'
  <2>1. ASSUME NEW b \in Arenas PROVE ToSet(pool'[b]) \subseteq ToSet(pool[b])
    BY <1>1, <1>3 DEF q
  <2>2. \A f \in Strays : f[1] \in Arenas
    BY DEF DescsTyped, Descs
  <2>3. \A f \in Strays' : f \in Descs /\ f[2] \notin ToSet(pool'[f[1]])
    BY <2>1, <2>2 DEF DescsTyped, Strays
  <2> QED
    BY <1>1, <1>3, <2>3 DEF PoolsOK, S, Arenas, Strays
<1>5. e \in Descs /\ e[1] = a /\ e[2] = Head(q)
  BY <1>2, <1>3 DEF Descs, S
<1>6. e \notin InUse /\ e \notin Strays /\ Strays' = Strays
  BY <1>3, <1>5 DEF InUse, Strays, DescsTyped, q
<1>7. ASSUME NEW f \in Descs PROVE f \in InUse' <=> f \in InUse \/ f = e
  <2>1. f[1] \in Arenas /\ f = <<f[1], f[2]>>
    BY DEF Descs
  <2>2. CASE f[1] = a
    <3>1. pool'[a] = Tail(q)
      BY <1>1
    <3>2. f = e <=> f[2] = Head(q)
      BY <1>2, <2>1, <2>2
    <3> QED
      BY <1>3, <1>6, <2>2, <3>1, <3>2 DEF InUse, Descs, Arenas, q
  <2>3. CASE f[1] # a
    <3>1. pool'[f[1]] = pool[f[1]]
      BY <1>1, <2>1, <2>3
    <3> QED
      BY <1>5, <1>6, <2>3, <3>1 DEF InUse, Descs, Arenas
  <2> QED
    BY <2>2, <2>3
<1>8. InUse' \subseteq Descs /\ InUse \subseteq Descs
  BY DEF InUse, Descs, Arenas
<1>9. InUse' = InUse \cup {e}
  BY <1>5, <1>7, <1>8
<1> QED
  BY <1>4, <1>5, <1>6, <1>9

(* Pools from which just the descriptors in U, and the strays, are taken *)
PoolsAre(q, U) ==
    /\ q \in [Arenas -> Seq(1 .. PoolSize)]
    /\ \A a \in Arenas : Distinct(q[a])
    /\ \A f \in Descs : f[2] \notin ToSet(q[f[1]]) <=> f \in U \cup Strays
    /\ U \cap Strays = {} /\ Strays \subseteq Descs

(* The pools, before and after a step *)
LEMMA PoolsNow ==
    /\ DescsTyped => PoolsAre(pool, InUse)
    /\ \A U : U \subseteq Descs /\ stranded' = stranded /\ PoolsAre(pool', U) => PoolsOK' /\ InUse' = U
  BY DEF DescsTyped, PoolsAre, InUse, Strays, PoolsOK, Descs, Arenas

(* One comes back to the pool. *)
LEMMA PoolGiven ==
    ASSUME NEW old, NEW U, PoolsAre(old, U), NEW a \in Arenas, NEW d \in Descs, d \in U, d[1] = a,
           NEW new, new = [old EXCEPT ![a] = <<d[2]>> \o @]
    PROVE  PoolsAre(new, U \ {d})
<1> DEFINE q == old[a]
           S == 1 .. PoolSize
           x == d[2]
           r == <<x>> \o q
<1>1. /\ q \in Seq(S) /\ Distinct(q) /\ new = [old EXCEPT ![a] = r]
      /\ old \in [Arenas -> Seq(S)] /\ \A b \in Arenas : Distinct(old[b])
      /\ \A f \in Descs : f[2] \notin ToSet(old[f[1]]) <=> f \in U \cup Strays
      /\ U \cap Strays = {} /\ Strays \subseteq Descs /\ d \notin Strays
  BY DEF PoolsAre
<1>2. d = <<a, x>> /\ x \in S /\ x \notin ToSet(q)
  BY <1>1 DEF Descs
<1> HIDE DEF q, S, x
<1>3. r \in Seq(S) /\ Distinct(r) /\ ToSet(r) = ToSet(q) \cup {x}
  BY <1>1, <1>2, ConsSeq
<1> HIDE DEF r
<1>4. new \in [Arenas -> Seq(S)] /\ \A b \in Arenas : Distinct(new[b])
  <2>1. new \in [Arenas -> Seq(S)] /\ new[a] = r /\ \A b \in Arenas \ {a} : new[b] = old[b]
    BY <1>1, <1>3
  <2> QED
    BY <1>1, <1>3, <2>1
<1>5. ASSUME NEW f \in Descs PROVE f[2] \notin ToSet(new[f[1]]) <=> f \in (U \ {d}) \cup Strays
  <2>1. f[1] \in Arenas /\ f = <<f[1], f[2]>>
    BY DEF Descs
  <2>2. CASE f[1] = a
    <3>1. new[a] = r
      BY <1>1
    <3>2. f = d <=> f[2] = x
      BY <1>2, <2>1, <2>2
    <3> QED
      BY <1>1, <1>3, <2>2, <3>1, <3>2 DEF q
  <2>3. CASE f[1] # a
    <3>1. new[f[1]] = old[f[1]]
      BY <1>1, <2>1, <2>3
    <3> QED
      BY <1>1, <2>3, <3>1
  <2> QED
    BY <2>2, <2>3
<1> QED
  BY <1>1, <1>4, <1>5 DEF S, PoolsAre

(* What a thread works on leads to itself unless it is still to be stored. *)
LEMMA OwnSettled ==
    ASSUME SpansInv, NEW t \in Threads, Works(t), NEW p \in PagesOf(call[t].span), p \notin Pending(t)
    PROVE  Entry(p) = call[t].span
<1>1. call[t].span \in InUse
  BY DEF SpansInv, WorkOK
<1>2. Entry(p) = call[t].span \/ \E u \in Threads : p \in Pending(u)
  BY <1>1 DEF SpansInv, SettledLead
<1>3. ASSUME NEW u \in Threads, p \in Pending(u) PROVE u = t
  <2>1. Works(u) /\ p \in PagesOf(call[u].span) /\ call[u].span \in InUse
    BY <1>3, PendingPages
  <2>2. call[u].span = call[t].span
    BY <1>1, <2>1, SpanOfPage DEF SpansInv
  <2>3. call[u].arena = call[t].arena
    BY <2>1, <2>2 DEF SpansInv, WorkOK
  <2> QED
    BY <2>1, <2>3, OneWorker
<1> QED
  BY <1>2, <1>3

(* A span that nobody works on leads to itself. *)
LEMMA OthersSettled ==
    ASSUME SpansInv, NEW d \in InUse, \A u \in Threads : ~(Works(u) /\ call[u].span = d),
           NEW p \in PagesOf(d)
    PROVE  Entry(p) = d
<1>1. Entry(p) = d \/ \E u \in Threads : p \in Pending(u)
  BY DEF SpansInv, SettledLead
<1>2. ASSUME NEW u \in Threads, p \in Pending(u) PROVE FALSE
  <2>1. Works(u) /\ p \in PagesOf(call[u].span) /\ call[u].span \in InUse
    BY <1>2, PendingPages
  <2>2. call[u].span = d
    BY <2>1, SpanOfPage DEF SpansInv
  <2> QED
    BY <2>1, <2>2
<1> QED
  BY <1>1, <1>2

(* A step under the lock of an arena that touches its descriptors in D only *)
LEMMA GuardFrame ==
    ASSUME SpansInv, NEW t \in Threads, NEW a, NEW D, Guards(t, a, D), Moves(t),
           op'[t].at \in {"idle", "lock", "load1"}, UNCHANGED <<node, nnodes>>,
           \A d \in Descs \ D : desc'[d] = desc[d] /\ (d \in InUse' <=> d \in InUse)
    PROVE  Frame(t, D)
<1>1. \A u \in Threads \ {t} : KeptOff(u, D)
  BY LockKeepsOff
<1> QED
  BY <1>1 DEF Frame

(* The upper end of a span becomes a span of its own. *)
LEMMA CutSpans ==
    ASSUME SpansInv, CallsOK', NEW t \in Threads, CutOut(t), pool[call[t].arena] # <<>>
    PROVE  SpansInv'
<1>0. PICK d, a, n, e, b : /\ d = call[t].span /\ a = call[t].arena /\ n = call[t].want
                           /\ e = NewDesc(a) /\ b = desc[d].base + desc[d].len - n
  OBVIOUS
<1> DEFINE rec == [base |-> b, len |-> n, alloc |-> FALSE, binned |-> FALSE]
<1>1. /\ call[t].at = "cut" /\ desc[d].len > n
      /\ desc' = [desc EXCEPT ![d].len = @ - n, ![d].binned = TRUE, ![e] = rec]
      /\ TakeDesc(a) /\ StartInsert(t, b, b + n - 1, e)
      /\ call' = [call EXCEPT ![t].at = "cutting", ![t].span = e]
      /\ UNCHANGED <<node, nnodes, stranded, mapped, arenaLock, held, leaked>>
  BY <1>0 DEF CutOut, At, TrieCall
<1>2. Works(t) /\ ~Out(t) /\ op[t].at = "idle" /\ Pending(t) = {} /\ ~Returned(t)
  BY <1>1, NoTask DEF Works, WorkAts, InsertAts, LookAts, Out, Passes, PassAts, At
<1>3. /\ d \in InUse /\ d \in Descs /\ d[1] = a /\ ~desc[d].alloc /\ ~desc[d].binned
      /\ arenaLock[a] = t /\ DescsTyped /\ Tiles /\ a \in Arenas /\ n \in Nat \ {0}
  BY <1>0, <1>1, <1>2 DEF SpansInv, WorkOK, InUse, Descs
<1>4. /\ PoolsOK' /\ e \in Descs /\ e[1] = a /\ e \notin InUse /\ InUse' = InUse \cup {e} /\ e # d
  <2>1. PoolsOK' /\ e \in Descs /\ e[1] = a /\ e \notin InUse /\ InUse' = InUse \cup {e}
    BY <1>0, <1>1, <1>3, PoolTaken
  <2> QED
    BY <1>3, <2>1
<1>5. /\ desc[d].base \in Nat \ {0} /\ desc[d].len \in Nat \ {0}
      /\ b \in Nat /\ b = desc[d].base + desc[d].len - n /\ rec \in DescType
  <2>1. desc[d].base \in Nat \ {0} /\ desc[d].len \in Nat \ {0}
    BY <1>3, SpanPages
  <2>2. b = desc[d].base + desc[d].len - n
    BY <1>0
  <2>3. b \in Nat
    BY <1>1, <1>3, <2>1, <2>2
  <2> QED
    BY <1>3, <2>1, <2>2, <2>3 DEF DescType
<1> HIDE DEF rec
<1>6. desc \in [Descs -> DescType]
  BY <1>3 DEF DescsTyped, DescType
<1>7. /\ desc' = [desc EXCEPT ![d] = desc'[d], ![e] = rec]
      /\ desc'[d] = [desc[d] EXCEPT !.len = @ - n, !.binned = TRUE] /\ desc'[e] = rec
  BY <1>1, <1>3, <1>4, <1>6
<1>8. /\ desc'[d].base = desc[d].base /\ desc'[d].len = desc[d].len - n
      /\ ~desc'[d].alloc /\ desc'[d].binned /\ desc'[d] \in DescType
      /\ desc'[e].base = b /\ desc'[e].len = n /\ ~desc'[e].alloc /\ ~desc'[e].binned
  <2>1. desc[d] \in DescType /\ desc[d].len - n \in Nat
    BY <1>1, <1>3, <1>5, <1>6
  <2>2. desc'[e].base = b /\ desc'[e].len = n /\ ~desc'[e].alloc /\ ~desc'[e].binned
    BY <1>7 DEF rec
  <2>3. desc'[d] = [base |-> desc[d].base, len |-> desc[d].len - n,
                    alloc |-> desc[d].alloc, binned |-> TRUE]
    BY <1>7, <2>1 DEF DescType
  <2> QED
    BY <1>3, <2>1, <2>2, <2>3 DEF DescType
<1>9. /\ desc' \in [Descs -> DescType]
      /\ \A f \in Descs \ {d, e} : desc'[f] = desc[f] /\ (f \in InUse' <=> f \in InUse)
  BY <1>3, <1>4, <1>5, <1>6, <1>7, <1>8
<1>10. /\ PagesOf(d)' \cup PagesOf(e)' = PagesOf(d) /\ PagesOf(d)' \cap PagesOf(e)' = {}
       /\ PagesOf(e)' = b .. b + n - 1
       /\ \A f \in InUse \ {d} : PagesOf(f)' = PagesOf(f)
  <2>1. \A f \in InUse \ {d} : PagesOf(f)' = PagesOf(f)
    BY <1>4, <1>9 DEF PagesOf, InUse
  <2>2. PagesOf(e)' = b .. b + n - 1 /\ PagesOf(d)' = desc[d].base .. b - 1
    <3>1. PICK x, y : x = desc[d].base /\ y = desc[d].len
      OBVIOUS
    <3>2. x \in Nat /\ y \in Nat /\ n \in Nat /\ b = x + y - n
      BY <1>3, <1>5, <3>1
    <3>3. x + (y - n) - 1 = b - 1
      BY ONLY <3>2
    <3> QED
      BY <1>8, <3>1, <3>3 DEF PagesOf
  <2>3. PagesOf(d) = desc[d].base .. b + n - 1
    <3>1. PICK x, y : x = desc[d].base /\ y = desc[d].len
      OBVIOUS
    <3>2. x \in Nat /\ y \in Nat /\ n \in Nat /\ b = x + y - n
      BY <1>3, <1>5, <3>1
    <3>3. x + y - 1 = b + n - 1
      BY ONLY <3>2
    <3> QED
      BY <3>1, <3>3 DEF PagesOf
  <2>4. PICK x : x = desc[d].base
    OBVIOUS
  <2>5. x \in Nat /\ b \in Nat /\ n \in Nat \ {0} /\ x < b
    BY <1>1, <1>3, <1>5, <2>4
  <2>6. /\ (x .. b - 1) \cup (b .. b + n - 1) = x .. b + n - 1
        /\ (x .. b - 1) \cap (b .. b + n - 1) = {}
    BY ONLY <2>5
  <2> QED
    BY <2>1, <2>2, <2>3, <2>4, <2>6
<1>11. /\ call' = [call EXCEPT ![t] = call'[t]] /\ call'[t].at = "cutting"
       /\ call'[t].span = e /\ call'[t].arena = a /\ call'[t].want = n
  <2>1. call'[t] = [call[t] EXCEPT !.at = "cutting", !.span = e]
    BY <1>1, CallFields DEF SpansInv
  <2> QED
    BY <1>0, <1>1, <2>1, CallFields DEF SpansInv
<1>12. /\ op' = [op EXCEPT ![t] = op'[t]] /\ IsOp(op'[t])
       /\ op'[t].at = "lock" /\ op'[t].page = b /\ op'[t].first = b /\ op'[t].last = b + n - 1
       /\ op'[t].data = e
  BY <1>1, StartFields
<1>13. Moves(t)
  BY <1>11, <1>12 DEF Moves
<1>14. Frame(t, {d, e})
  <2>1. Guards(t, a, {d, e})
    BY <1>1, <1>3, <1>4 DEF Guards
  <2> QED
    BY <1>1, <1>9, <1>12, <1>13, <2>1, GuardFrame
<1>15. Works(t)' /\ ~Out(t)' /\ ~Passes(t)'
  BY <1>11 DEF Works, WorkAts, Out, Passes, PassAts, At
<1>16. DescsTyped'
  BY <1>1, <1>3, <1>4, <1>9 DEF DescsTyped, PoolsOK, DescType, Descs, Arenas
<1>17. Tiles'
  <2>1. mapped' \subseteq FirstPage .. LastPage
    BY <1>1, <1>3 DEF Tiles
  <2>2. \A f \in InUse' : desc'[f].len > 0 /\ PagesOf(f)' \subseteq mapped'
    <3> SUFFICES ASSUME NEW f \in InUse' PROVE desc'[f].len > 0 /\ PagesOf(f)' \subseteq mapped'
      OBVIOUS
    <3>1. CASE f \in {d, e}
      <4>1. PagesOf(d) \subseteq mapped
        BY <1>3 DEF Tiles
      <4>2. desc'[d].len > 0 /\ desc'[e].len > 0
        BY <1>1, <1>3, <1>5, <1>8
      <4>3. PagesOf(d)' \subseteq PagesOf(d) /\ PagesOf(e)' \subseteq PagesOf(d)
        BY <1>10
      <4>4. PagesOf(f)' \subseteq PagesOf(d)
        BY <3>1, <4>3 DEF PagesOf
      <4> QED
        BY <1>1, <3>1, <4>1, <4>2, <4>4
    <3>2. CASE f \notin {d, e}
      <4>1. f \in InUse /\ f \in Descs
        BY <1>4, <3>2 DEF InUse
      <4>2. desc'[f] = desc[f] /\ PagesOf(f)' = PagesOf(f)
        BY <1>9, <1>10, <3>2, <4>1
      <4> QED
        BY <1>1, <1>3, <4>1, <4>2 DEF Tiles
    <3> QED
      BY <3>1, <3>2
  <2>3. \A f, g \in InUse' : f # g => PagesOf(f)' \cap PagesOf(g)' = {}
    <3>1. \A f \in InUse \ {d} : PagesOf(f)' = PagesOf(f) /\ PagesOf(f) \cap PagesOf(d) = {}
      BY <1>3, <1>10 DEF Tiles
    <3>2. \A f \in InUse \ {d} : PagesOf(f)' \cap PagesOf(d)' = {} /\ PagesOf(f)' \cap PagesOf(e)' = {}
      BY <1>10, <3>1
    <3>3. \A f, g \in InUse \ {d} : f # g => PagesOf(f)' \cap PagesOf(g)' = {}
      BY <1>3, <1>10 DEF Tiles
    <3> SUFFICES ASSUME NEW f \in InUse', NEW g \in InUse', f # g, NEW p,
                        p \in PagesOf(f)', p \in PagesOf(g)'
                 PROVE  FALSE
      OBVIOUS
    <3>4. f \in (InUse \ {d}) \cup {d, e} /\ g \in (InUse \ {d}) \cup {d, e}
      BY <1>4
    <3>5. CASE f \in InUse \ {d} /\ g \in InUse \ {d}
      BY <3>3, <3>5
    <3>6. CASE f \in InUse \ {d} /\ g \in {d, e}
      BY <3>2, <3>6 DEF PagesOf
    <3>7. CASE f \in {d, e} /\ g \in InUse \ {d}
      BY <3>2, <3>7 DEF PagesOf
    <3>8. CASE f \in {d, e} /\ g \in {d, e}
      BY <1>10, <3>8 DEF PagesOf
    <3> QED
      BY <3>4, <3>5, <3>6, <3>7, <3>8
  <2>4. ASSUME NEW p \in mapped' PROVE \E f \in InUse' : p \in PagesOf(f)'
    <3>1. PICK f \in InUse : p \in PagesOf(f)
      BY <1>1, <1>3 DEF Tiles
    <3>2. CASE f = d
      BY <1>3, <1>4, <1>10, <3>1, <3>2
    <3>3. CASE f # d
      BY <1>4, <1>10, <3>1, <3>3
    <3> QED
      BY <3>2, <3>3
  <2> QED
    BY <2>1, <2>2, <2>3, <2>4 DEF Tiles
<1>18. FlagsOK'
  <2>1. FlagOK(d)'
    BY <1>8 DEF FlagOK
  <2>2. FlagOK(e)'
    BY <1>8, <1>11, <1>15 DEF FlagOK
  <2>3. \A f \in {d, e} : f \in InUse' => FlagOK(f)'
    BY <2>1, <2>2 DEF FlagOK
  <2> QED
    BY <1>0, <1>14, <2>3, FlagsFrame
<1>19. Tokens'
  <2>1. \A f \in {d, e} : (f \in InUse => ~desc[f].alloc) /\ (f \in InUse' => ~desc'[f].alloc)
    BY <1>3, <1>4, <1>8
  <2>2. Given' = Given
    BY <1>14, <2>1, GivenFrame
  <2> QED
    BY <1>1, <1>2, <1>13, <1>15, <2>2, NoneOut
<1>20. \A p : Entry(p)' = Entry(p)
  BY <1>1, NodesStill
<1>21. UnmappedNull'
  BY <1>1, <1>20 DEF SpansInv, UnmappedNull, Pages
<1>22. \A p \in PagesOf(d) : Entry(p) = d
  BY <1>0, <1>2, OwnSettled
<1>23. Pending(t)' = PagesOf(e)'
  BY <1>10, <1>11, <1>12 DEF Pending, InsertAts, Inserts
<1>24. SettledLead'
  <2>1. \A p \in PagesOf(d)' : Entry(p) = d
    BY <1>10, <1>22
  <2>2. \A p \in PagesOf(e)' : p \in Pending(t)'
    BY <1>23
  <2>3. \A f \in {d, e} : f \in InUse' =>
           \A p \in PagesOf(f)' : Entry(p) = f \/ \E u \in Threads : p \in Pending(u)'
    BY <2>1, <2>2 DEF PagesOf
  <2> QED
    BY <1>2, <1>14, <2>3, SettledFrame
<1>25. WorkOK(t)'
  BY <1>1, <1>3, <1>4, <1>8, <1>11, <1>15 DEF WorkOK, At, WorkAts, PassAts
<1>26. TaskFits(t)'
  <2>1. b \in PagesOf(e)'
    BY <1>3, <1>5, <1>10
  <2>2. op'[t].page \in PagesOf(e)' /\ op'[t].at \in Inserts /\ op'[t].last = desc'[e].base + desc'[e].len - 1
    BY <1>8, <1>12, <2>1 DEF Inserts
  <2>3. op'[t].page \in desc'[e].base .. desc'[e].base + desc'[e].len - 1
    BY <2>2 DEF PagesOf
  <2> QED
    BY <1>8, <1>11, <1>12, <2>2, <2>3 DEF TaskFits, InsertAts, LookAts, At, PagesOf
<1>27. PendingOK(t)'
  <2>1. \A p \in Pending(t)' : Entry(p) \in Descs /\ Entry(p)[1] = a
    BY <1>3, <1>10, <1>22, <1>23
  <2> QED
    BY <1>11, <1>20, <2>1 DEF PendingOK, At, Descs, Arenas
<1>28. LookOK(t)'
  BY <1>11 DEF LookOK, At
<1> QED
  BY <1>14, <1>16, <1>17, <1>18, <1>19, <1>21, <1>24, <1>25, <1>26, <1>27, <1>28, FrameKeeps

(* Pages are mapped for a new span, or there is none to be had. *)
LEMMA MintSpans ==
    ASSUME SpansInv, CallsOK', NEW t \in Threads, Mint(t)
    PROVE  SpansInv'
<1>0. PICK a, n, k, e : /\ a = call[t].arena /\ n = call[t].want
                        /\ k = (IF DefaultPages > n THEN DefaultPages ELSE n)
                        /\ e = NewDesc(a)
  OBVIOUS
<1>1. call[t].at = "get"
  BY DEF Mint, At
<1>2. CASE Rooms(k) = {} \/ pool[a] = <<>>
  <2>1. Finish(t) /\ UNCHANGED <<op, node, nnodes, desc, pool, stranded, mapped, arenaLock, held, leaked>>
    BY <1>0, <1>2 DEF Mint, trieVars, memVars
  <2> QED
    BY <1>1, <2>1, NoSpanSpans
<1>3. CASE ~(Rooms(k) = {} \/ pool[a] = <<>>)
  <2>0. PICK b : b = Min(Rooms(k))
    OBVIOUS
  <2> DEFINE rec == [base |-> b, len |-> k, alloc |-> FALSE, binned |-> FALSE]
  <2>1. /\ arenaLock[a] = Null /\ arenaLock' = [arenaLock EXCEPT ![a] = t]
        /\ desc' = [desc EXCEPT ![e] = rec]
        /\ TakeDesc(a) /\ StartInsert(t, b, b + k - 1, e)
        /\ mapped' = mapped \cup (b .. b + k - 1)
        /\ call' = [call EXCEPT ![t].at = "mint", ![t].span = e]
        /\ UNCHANGED <<node, nnodes, stranded, held, leaked>>
    BY <1>0, <1>3, <2>0 DEF Mint, Lock, TrieCall
  <2>2. ~Works(t) /\ ~Out(t) /\ op[t].at = "idle" /\ Pending(t) = {}
    BY <1>1, NoTask DEF Works, WorkAts, InsertAts, LookAts, Out, Passes, PassAts, At
  <2>3. DescsTyped /\ Tiles /\ a \in Arenas /\ n \in Nat \ {0}
    BY <1>0, <1>1 DEF SpansInv, WorkOK, At
  <2>4. k \in Nat \ {0} /\ n <= k
    BY <1>0, <2>3, GlobSpansAssumption
  <2>5. /\ b \in Nat /\ b .. b + k - 1 \subseteq FirstPage .. LastPage
        /\ (b .. b + k - 1) \cap mapped = {}
    <3>1. Rooms(k) \subseteq Nat /\ Rooms(k) # {}
      BY <1>3, GlobSpansAssumption DEF Rooms
    <3>2. b \in Rooms(k)
      BY <2>0, <3>1, LeastOf
    <3> QED
      BY <2>4, <3>2, GlobSpansAssumption DEF Rooms
  <2>6. /\ PoolsOK' /\ e \in Descs /\ e[1] = a /\ e \notin InUse /\ InUse' = InUse \cup {e}
    BY <1>0, <1>3, <2>1, <2>3, PoolTaken
  <2>7. rec \in DescType
    BY <2>4, <2>5 DEF DescType
  <2>8. /\ desc' \in [Descs -> DescType] /\ desc'[e] = rec
        /\ \A f \in Descs \ {e} : desc'[f] = desc[f] /\ (f \in InUse' <=> f \in InUse)
    <3> HIDE DEF rec
    <3> QED
      BY <2>1, <2>3, <2>6, <2>7 DEF DescsTyped, DescType
  <2>9. desc'[e].base = b /\ desc'[e].len = k /\ ~desc'[e].alloc /\ ~desc'[e].binned
    BY <2>8
  <2> HIDE DEF rec
  <2>10. /\ PagesOf(e)' = b .. b + k - 1
         /\ \A f \in InUse : PagesOf(f)' = PagesOf(f)
    <3>1. PagesOf(e)' = b .. b + k - 1
      BY <2>9 DEF PagesOf
    <3>2. \A f \in InUse : PagesOf(f)' = PagesOf(f)
      BY <2>6, <2>8 DEF PagesOf, InUse
    <3> QED
      BY <3>1, <3>2
  <2>11. /\ call' = [call EXCEPT ![t] = call'[t]] /\ call'[t].at = "mint"
         /\ call'[t].span = e /\ call'[t].arena = a /\ call'[t].want = n
    <3>1. call'[t] = [call[t] EXCEPT !.at = "mint", !.span = e]
      BY <2>1, CallFields DEF SpansInv
    <3> QED
      BY <1>0, <2>1, <3>1, CallFields DEF SpansInv
  <2>12. /\ op' = [op EXCEPT ![t] = op'[t]] /\ IsOp(op'[t])
         /\ op'[t].at = "lock" /\ op'[t].page = b /\ op'[t].first = b /\ op'[t].last = b + k - 1
         /\ op'[t].data = e
    BY <2>1, StartFields
  <2>13. Moves(t)
    BY <2>11, <2>12 DEF Moves
  <2>14. /\ arenaLock' = [c \in Arenas |-> arenaLock'[c]] /\ arenaLock'[a] = t
         /\ \A c \in Arenas \ {a} : arenaLock'[c] = arenaLock[c]
    BY <2>1, <2>3, LockSet
  <2>15. Frame(t, {e})
    <3>1. Guards(t, a, {e})
      BY <2>1, <2>6, <2>14 DEF Guards
    <3> QED
      BY <2>1, <2>8, <2>12, <2>13, <3>1, GuardFrame
  <2>16. Works(t)' /\ ~Out(t)' /\ ~Passes(t)'
    BY <2>11 DEF Works, WorkAts, Out, Passes, PassAts, At
  <2>17. DescsTyped'
    BY <2>6, <2>8, <2>14 DEF DescsTyped, PoolsOK, DescType, Descs, Arenas
  <2>18. Tiles'
    <3>1. mapped' \subseteq FirstPage .. LastPage
      BY <2>1, <2>3, <2>5 DEF Tiles
    <3>2. ASSUME NEW f \in InUse' PROVE desc'[f].len > 0 /\ PagesOf(f)' \subseteq mapped'
      <4>1. CASE f = e
        <5>1. desc'[e].len > 0 /\ PagesOf(e)' \subseteq mapped'
          BY <2>1, <2>4, <2>9, <2>10
        <5> QED
          BY <4>1, <5>1 DEF PagesOf
      <4>2. CASE f # e
        <5>1. f \in InUse /\ f \in Descs
          BY <2>6, <4>2 DEF InUse
        <5>2. desc'[f] = desc[f] /\ PagesOf(f)' = PagesOf(f)
          BY <2>8, <2>10, <4>2, <5>1
        <5> QED
          BY <2>1, <2>3, <5>1, <5>2 DEF Tiles
      <4> QED
        BY <4>1, <4>2
    <3>3. \A f, g \in InUse' : f # g => PagesOf(f)' \cap PagesOf(g)' = {}
      <4>1. \A f \in InUse : PagesOf(f)' \subseteq mapped
        BY <2>3, <2>10 DEF Tiles
      <4>2. \A f \in InUse : PagesOf(f)' \cap PagesOf(e)' = {}
        BY <2>5, <2>10, <4>1
      <4>3. \A f, g \in InUse : f # g => PagesOf(f)' \cap PagesOf(g)' = {}
        BY <2>3, <2>10 DEF Tiles
      <4> SUFFICES ASSUME NEW f \in InUse', NEW g \in InUse', f # g, NEW p,
                          p \in PagesOf(f)', p \in PagesOf(g)'
                   PROVE  FALSE
        OBVIOUS
      <4>4. (f \in InUse \/ f = e) /\ (g \in InUse \/ g = e)
        BY <2>6
      <4>5. CASE f \in InUse /\ g \in InUse
        BY <4>3, <4>5
      <4>6. CASE f \in InUse /\ g = e
        BY <4>2, <4>6 DEF PagesOf
      <4>7. CASE f = e /\ g \in InUse
        BY <4>2, <4>7 DEF PagesOf
      <4> QED
        BY <4>4, <4>5, <4>6, <4>7
    <3>4. ASSUME NEW p \in mapped' PROVE \E f \in InUse' : p \in PagesOf(f)'
      <4>1. CASE p \in mapped
        <5>1. PICK f \in InUse : p \in PagesOf(f)
          BY <2>3, <4>1 DEF Tiles
        <5> QED
          BY <2>6, <2>10, <5>1
      <4>2. CASE p \in b .. b + k - 1
        BY <2>6, <2>10, <4>2
      <4> QED
        BY <2>1, <4>1, <4>2
    <3> QED
      BY <3>1, <3>2, <3>3, <3>4 DEF Tiles
  <2>19. FlagsOK'
    <3>1. FlagOK(e)'
      BY <2>9, <2>11, <2>16 DEF FlagOK
    <3>2. \A f \in {e} : f \in InUse' => FlagOK(f)'
      BY <3>1 DEF FlagOK
    <3> QED
      BY <2>2, <2>15, <3>2, FlagsFrame
  <2>20. Tokens'
    <3>1. \A f \in {e} : (f \in InUse => ~desc[f].alloc) /\ (f \in InUse' => ~desc'[f].alloc)
      BY <2>6, <2>9
    <3>2. Given' = Given
      BY <2>15, <3>1, GivenFrame
    <3> QED
      BY <2>1, <2>2, <2>13, <2>16, <3>2, NoneOut
  <2>21. \A p : Entry(p)' = Entry(p)
    BY <2>1, NodesStill
  <2>22. UnmappedNull'
    BY <2>1, <2>21 DEF SpansInv, UnmappedNull, Pages
  <2>23. Pending(t)' = PagesOf(e)'
    BY <2>10, <2>11, <2>12 DEF Pending, InsertAts, Inserts
  <2>24. SettledLead'
    <3>1. \A p \in PagesOf(e)' : p \in Pending(t)'
      BY <2>23
    <3>2. \A f \in {e} : f \in InUse' =>
             \A p \in PagesOf(f)' : Entry(p) = f \/ \E u \in Threads : p \in Pending(u)'
      BY <3>1 DEF PagesOf
    <3> QED
      BY <2>2, <2>15, <3>2, SettledFrame
  <2>25. WorkOK(t)'
    BY <2>3, <2>4, <2>6, <2>9, <2>11, <2>14, <2>16 DEF WorkOK, At, WorkAts, PassAts
  <2>26. TaskFits(t)'
    <3>1. b \in b .. b + k - 1
      BY <2>4, <2>5
    <3>2. op'[t].page \in desc'[e].base .. desc'[e].base + desc'[e].len - 1
      BY <2>9, <2>12, <3>1
    <3>3. op'[t].at \in Inserts /\ op'[t].last = desc'[e].base + desc'[e].len - 1
      BY <2>9, <2>12 DEF Inserts
    <3> QED
      BY <2>9, <2>11, <2>12, <3>2, <3>3 DEF TaskFits, InsertAts, LookAts, At, PagesOf
  <2>27. PendingOK(t)'
    <3>1. \A p \in Pending(t)' : p \in Pages \ mapped
      <4>1. FirstPage .. LastPage \subseteq Pages
        BY GlobSpansAssumption, PageTrieAssumption DEF Pages
      <4> QED
        BY <2>5, <2>10, <2>23, <4>1
    <3>2. \A p \in Pending(t)' : Entry(p) = Null
      BY <3>1 DEF SpansInv, UnmappedNull
    <3> QED
      BY <2>11, <2>12, <2>21, <3>2 DEF PendingOK, At
  <2>28. LookOK(t)'
    BY <2>11 DEF LookOK, At
  <2> QED
    BY <2>15, <2>17, <2>18, <2>19, <2>20, <2>22, <2>24, <2>25, <2>26, <2>27, <2>28, FrameKeeps
<1> QED
  BY <1>2, <1>3

(* The insert of a new span failed: nothing leads to it, it is unmapped. *)
LEMMA UnmapSpans ==
    ASSUME SpansInv, CallsOK', NEW t \in Threads, Minted(t), ~op[t].ok
    PROVE  SpansInv'
<1>0. PICK d, a : d = call[t].span /\ a = call[t].arena
  OBVIOUS
<1>1. /\ call[t].at = "mint" /\ Returned(t)
      /\ SpanDestroy(d) /\ mapped' = mapped \ PagesOf(d)
      /\ arenaLock' = [arenaLock EXCEPT ![a] = Null] /\ call' = [call EXCEPT ![t] = NoCall]
      /\ Quiet(t) /\ UNCHANGED <<node, nnodes, desc, held, leaked>>
  BY <1>0 DEF Minted, At, Quiet, SpanDestroy, Unlock, Finish
<1>2. Works(t) /\ ~Out(t)
  BY <1>1 DEF Works, WorkAts, Out, Passes, PassAts, At
<1>3. /\ d \in InUse /\ d \in Descs /\ d[1] = a /\ ~desc[d].alloc /\ ~desc[d].binned
      /\ arenaLock[a] = t /\ DescsTyped /\ Tiles /\ a \in Arenas
  BY <1>0, <1>2 DEF SpansInv, WorkOK, InUse, Descs
<1>5. PoolsOK' /\ InUse' = InUse \ {d}
  <2>1. PoolsAre(pool, InUse) /\ InUse \subseteq Descs
    BY <1>3, PoolsNow DEF InUse
  <2>2. CASE pool' = [pool EXCEPT ![a] = <<d[2]>> \o @] /\ stranded' = stranded
    <3>1. PoolsAre(pool', InUse \ {d})
      BY <1>3, <2>1, <2>2, PoolGiven
    <3> QED
      BY <2>1, <2>2, <3>1, PoolsNow
  <2>3. CASE pool' = pool
             /\ stranded' = stranded
                            \cup {[addr |-> desc[d].base, len |-> desc[d].len, span |-> d]}
    <3> DEFINE rec == [addr |-> desc[d].base, len |-> desc[d].len, span |-> d]
    <3>r. rec.span = d
      OBVIOUS
    <3> HIDE DEF rec
    <3>s. stranded' = stranded \cup {rec}
      BY <2>3 DEF rec
    <3>1. Strays' = Strays \cup {d}
      <4>1. \A s \in stranded' : s \in stranded \/ s = rec
        BY <3>s
      <4>2. stranded \subseteq stranded' /\ rec \in stranded'
        BY <3>s
      <4> QED
        BY <3>r, <4>1, <4>2 DEF Strays
    <3>2. InUse' = InUse \ {d}
      BY <2>3, <3>1 DEF InUse, Descs, Arenas
    <3>3. d[2] \notin ToSet(pool[d[1]])
      BY <1>3 DEF InUse
    <3> QED
      BY <1>3, <2>3, <3>1, <3>2, <3>3 DEF PoolsOK, DescsTyped
  <2> QED
    BY <1>1, <1>3, <2>2, <2>3 DEF SpanDestroy, PutDescs
<1>6. Pending(t) = PagesOf(d)
  BY <1>0, <1>1 DEF Pending, InsertAts, Returned, Inserts
<1>7. /\ call' = [call EXCEPT ![t] = call'[t]] /\ call'[t].at = "idle"
  BY <1>1, CallFields DEF SpansInv, NoCall
<1>8. /\ op' = [op EXCEPT ![t] = op'[t]] /\ IsOp(op'[t]) /\ op'[t].at = "idle"
  BY <1>1, StartFields
<1>9. Moves(t)
  BY <1>7, <1>8 DEF Moves
<1>10. /\ arenaLock' = [c \in Arenas |-> arenaLock'[c]]
       /\ \A c \in Arenas \ {a} : arenaLock'[c] = arenaLock[c]
  BY <1>1, <1>3, LockSet
<1>11. Frame(t, {d})
  <2>1. Guards(t, a, {d})
    BY <1>3, <1>10 DEF Guards
  <2>2. \A f \in Descs \ {d} : desc'[f] = desc[f] /\ (f \in InUse' <=> f \in InUse)
    BY <1>1, <1>5
  <2> QED
    BY <1>1, <1>8, <1>9, <2>1, <2>2, GuardFrame
<1>12. ~Works(t)' /\ ~Out(t)' /\ ~Passes(t)'
  BY <1>7 DEF Works, WorkAts, Out, Passes, PassAts, At
<1>13. DescsTyped'
  BY <1>1, <1>3, <1>5, <1>10 DEF DescsTyped, PoolsOK, Descs, Arenas
<1>14. \A f \in InUse' : f \in InUse /\ f # d /\ desc'[f] = desc[f] /\ PagesOf(f)' = PagesOf(f)
  BY <1>1, <1>5 DEF PagesOf
<1>15. Tiles'
  <2>1. \A f \in InUse' : PagesOf(f) \cap PagesOf(d) = {}
    BY <1>3, <1>14 DEF Tiles
  <2>2. \A f \in InUse' : desc'[f].len > 0 /\ PagesOf(f)' \subseteq mapped'
    BY <1>1, <1>3, <1>14, <2>1 DEF Tiles
  <2>3. \A f, g \in InUse' : f # g => PagesOf(f)' \cap PagesOf(g)' = {}
    BY <1>3, <1>14 DEF Tiles
  <2>4. ASSUME NEW p \in mapped' PROVE \E f \in InUse' : p \in PagesOf(f)'
    <3>1. PICK f \in InUse : p \in PagesOf(f)
      BY <1>1, <1>3 DEF Tiles
    <3>2. f # d
      BY <1>1, <3>1
    <3> QED
      BY <1>5, <1>14, <3>1, <3>2
  <2>5. mapped' \subseteq FirstPage .. LastPage
    BY <1>1, <1>3 DEF Tiles
  <2> QED
    BY <2>2, <2>3, <2>4, <2>5 DEF Tiles
<1>16. FlagsOK'
  <2>1. \A f \in {d} : f \in InUse' => FlagOK(f)'
    BY <1>5 DEF FlagOK
  <2> QED
    BY <1>0, <1>11, <2>1, FlagsFrame
<1>17. Tokens'
  <2>1. \A f \in {d} : (f \in InUse => ~desc[f].alloc) /\ (f \in InUse' => ~desc'[f].alloc)
    BY <1>3, <1>5
  <2>2. Given' = Given
    BY <1>11, <2>1, GivenFrame
  <2> QED
    BY <1>1, <1>2, <1>9, <1>12, <2>2, NoneOut
<1>18. \A p : Entry(p)' = Entry(p)
  BY <1>1, NodesStill
<1>19. \A p \in PagesOf(d) : Entry(p) = Null
  <2>1. PendingOK(t) /\ op[t].at # "rollback"
    BY <1>1 DEF SpansInv, Returned
  <2> QED
    BY <1>1, <1>6, <2>1 DEF PendingOK, At
<1>20. UnmappedNull'
  BY <1>1, <1>18, <1>19 DEF SpansInv, UnmappedNull, Pages
<1>21. SettledLead'
  <2>1. \A f \in {d} : f \in InUse' =>
           \A p \in PagesOf(f)' : Entry(p) = f \/ \E u \in Threads : p \in Pending(u)'
    BY <1>5
  <2> QED
    BY <1>0, <1>11, <2>1, SettledFrame
<1>22. WorkOK(t)'
  BY <1>7, <1>12 DEF WorkOK, At
<1>23. TaskFits(t)' /\ PendingOK(t)' /\ LookOK(t)'
  BY <1>7, <1>8 DEF TaskFits, InsertAts, LookAts, PendingOK, Pending, LookOK, At
<1> QED
  BY <1>11, <1>13, <1>15, <1>16, <1>17, <1>20, <1>21, <1>22, <1>23, FrameKeeps

(* Short sequences in front of one *)
LEMMA FrontOf ==
    ASSUME NEW S, NEW q \in Seq(S), NEW x \in S, NEW y \in S
    PROVE  /\ (<<x>> \o <<y>>) \o q = <<x>> \o (<<y>> \o q)
           /\ (<<>> \o <<y>>) \o q = <<y>> \o q
           /\ (<<x>> \o <<>>) \o q = <<x>> \o q
           /\ (<<>> \o <<>>) \o q = q
<1>1. (<<x>> \o <<y>>) \o q = <<x>> \o (<<y>> \o q)
  <2>1. <<x>> \in Seq(S) /\ <<y>> \in Seq(S)
    OBVIOUS
  <2> QED
    BY <2>1, ConcatAssociative
<1>2. <<>> \o <<y>> = <<y>> /\ <<x>> \o <<>> = <<x>>
  OBVIOUS
<1>3. <<>> \o <<>> = <<>> /\ <<>> \o q = q
  OBVIOUS
<1> QED
  BY <1>1, <1>2, <1>3

(* The spans in D make up the pages from base to base + len. *)
Joins(D, keep, base, len) ==
    /\ D \subseteq InUse /\ keep \in D
    /\ base = desc[keep].base /\ len \in Nat \ {0}
    /\ \A p : p \in base .. base + len - 1 <=> \E m \in D : p \in PagesOf(m)

(* Two spans, and three, in a row *)
LEMMA JoinPages ==
    ASSUME SpansInv, NEW l \in InUse, NEW d \in InUse, Adjacent(l, d)
    PROVE  /\ l # d
           /\ \A p : p \in desc[l].base .. desc[l].base + (desc[l].len + desc[d].len) - 1 <=>
                     p \in PagesOf(l) \/ p \in PagesOf(d)
           /\ \A r \in InUse : Adjacent(d, r) =>
                 /\ r # l /\ r # d
                 /\ \A p : p \in desc[l].base .. desc[l].base + (desc[l].len + desc[d].len + desc[r].len) - 1 <=>
                           p \in PagesOf(l) \/ p \in PagesOf(d) \/ p \in PagesOf(r)
<1>1. \A e \in InUse : desc[e].base \in Nat /\ desc[e].len \in Nat \ {0}
  BY SpanPages DEF SpansInv
<1>2. PICK bl, nl, bd, nd : bl = desc[l].base /\ nl = desc[l].len /\ bd = desc[d].base /\ nd = desc[d].len
  OBVIOUS
<1>3. bl \in Nat /\ nl \in Nat \ {0} /\ bd \in Nat /\ nd \in Nat \ {0} /\ bl + nl = bd
  BY <1>1, <1>2 DEF Adjacent
<1>4. PagesOf(l) = bl .. bl + nl - 1 /\ PagesOf(d) = bd .. bd + nd - 1
  BY <1>2 DEF PagesOf
<1>5. l # d
  BY <1>2, <1>3
<1>6. \A p : p \in bl .. bl + (nl + nd) - 1 <=> p \in PagesOf(l) \/ p \in PagesOf(d)
  BY <1>3, <1>4
<1>7. ASSUME NEW r \in InUse, Adjacent(d, r)
      PROVE  /\ r # l /\ r # d
             /\ \A p : p \in desc[l].base .. desc[l].base + (desc[l].len + desc[d].len + desc[r].len) - 1 <=>
                       p \in PagesOf(l) \/ p \in PagesOf(d) \/ p \in PagesOf(r)
  <2>1. PICK br, nr : br = desc[r].base /\ nr = desc[r].len
    OBVIOUS
  <2>2. br \in Nat /\ nr \in Nat \ {0} /\ bd + nd = br
    BY <1>1, <1>2, <1>7, <2>1 DEF Adjacent
  <2>3. PagesOf(r) = br .. br + nr - 1
    BY <2>1 DEF PagesOf
  <2>4. r # l /\ r # d
    BY <1>2, <1>3, <2>1, <2>2
  <2>5. \A p : p \in bl .. bl + (nl + nd + nr) - 1 <=> p \in PagesOf(l) \/ p \in PagesOf(d) \/ p \in PagesOf(r)
    BY <1>3, <1>4, <2>2, <2>3
  <2> QED
    BY <1>2, <2>1, <2>4, <2>5
<1> QED
  BY <1>2, <1>5, <1>6, <1>7

(* A neighbour to merge with is in use, in the same arena, and in no hands. *)
LEMMA Neighbour ==
    ASSUME SpansInv, NEW t \in Threads, Works(t), NEW m,
           OfArena(m, call[t].arena), m # Null, m[1] = call[t].span[1]
    PROVE  /\ m \in InUse /\ m \in Descs /\ m[1] = call[t].arena
           /\ m # call[t].span => \A p \in PagesOf(m) : Entry(p) = m
<1>1. call[t].span[1] = call[t].arena
  BY DEF SpansInv, WorkOK
<1>2. m \in Descs /\ m \in InUse
  BY <1>1 DEF OfArena
<1>3. ASSUME NEW u \in Threads, Works(u), call[u].span = m PROVE u = t
  BY <1>1, <1>3, OneWorker DEF SpansInv, WorkOK
<1>4. m # call[t].span => \A p \in PagesOf(m) : Entry(p) = m
  BY <1>2, <1>3, OthersSettled
<1> QED
  BY <1>1, <1>2, <1>4

(* What a merge does, whichever of the two neighbours it takes: the spans   *)
(* in D become one, whose descriptor keep stays, and their pages are        *)
(* entered again.                                                           *)
Merges(t, a, D, keep, base, len) ==
    /\ call[t].at = "right" /\ a = call[t].arena /\ call[t].span \in D
    /\ Joins(D, keep, base, len)
    /\ \A m \in D : m[1] = a /\ ~desc[m].alloc
    /\ \A m \in D : \A p \in PagesOf(m) : Entry(p) = m
    /\ PoolsAre(pool', (InUse \ D) \cup {keep})
    /\ desc' = [e \in Descs |-> [desc[e] EXCEPT !.len = IF e = keep THEN len ELSE @,
                                                !.binned = @ /\ e \notin D]]
    /\ call' = [call EXCEPT ![t].at = "merge", ![t].span = keep, ![t].left = Null]
    /\ StartInsert(t, base, base + len - 1, keep)
    /\ UNCHANGED <<node, nnodes, stranded, mapped, arenaLock, held, leaked>>

(* Such a step keeps the invariant. *)
LEMMA MergeKeeps ==
    ASSUME SpansInv, CallsOK', NEW t \in Threads, NEW a, NEW D, NEW keep, NEW base, NEW len,
           Merges(t, a, D, keep, base, len)
    PROVE  SpansInv'
<1>1. /\ call[t].at = "right" /\ a = call[t].arena /\ call[t].span \in D
      /\ D \subseteq InUse /\ keep \in D
      /\ base = desc[keep].base /\ len \in Nat \ {0}
      /\ \A p : p \in base .. base + len - 1 <=> \E m \in D : p \in PagesOf(m)
      /\ \A m \in D : m[1] = a /\ ~desc[m].alloc
      /\ \A m \in D : \A p \in PagesOf(m) : Entry(p) = m
      /\ UNCHANGED <<node, nnodes, stranded, mapped, arenaLock, held, leaked>>
  BY DEF Merges, Joins
<1>2. Works(t) /\ ~Out(t) /\ Pending(t) = {}
  BY <1>1 DEF Works, WorkAts, InsertAts, Out, Passes, PassAts, At, Pending
<1>3. arenaLock[a] = t /\ DescsTyped /\ Tiles /\ InUse \subseteq Descs
  BY <1>1, <1>2 DEF SpansInv, WorkOK, InUse
<1>4. PoolsOK' /\ InUse' = (InUse \ D) \cup {keep}
  <2>1. (InUse \ D) \cup {keep} \subseteq Descs
    BY <1>1, <1>3
  <2> QED
    BY <2>1, PoolsNow DEF Merges
<1>5. desc \in [Descs -> DescType]
  BY <1>3 DEF DescsTyped, DescType
<1>6. \A e \in Descs : desc'[e] = [base |-> desc[e].base,
                                   len |-> IF e = keep THEN len ELSE desc[e].len,
                                   alloc |-> desc[e].alloc,
                                   binned |-> desc[e].binned /\ e \notin D]
  <2> SUFFICES ASSUME NEW e \in Descs
               PROVE  desc'[e] = [base |-> desc[e].base,
                                  len |-> IF e = keep THEN len ELSE desc[e].len,
                                  alloc |-> desc[e].alloc,
                                  binned |-> desc[e].binned /\ e \notin D]
    OBVIOUS
  <2>1. desc'[e] = [desc[e] EXCEPT !.len = IF e = keep THEN len ELSE @, !.binned = @ /\ e \notin D]
    BY DEF Merges
  <2>2. desc[e] \in DescType
    BY <1>5
  <2> QED
    BY <2>1, <2>2 DEF DescType
<1>7. desc' \in [Descs -> DescType]
  <2>1. desc' = [e \in Descs |-> desc'[e]]
    BY DEF Merges
  <2>2. ASSUME NEW e \in Descs PROVE desc'[e] \in DescType
    <3>1. PICK n, x : n = (IF e = keep THEN len ELSE desc[e].len) /\ x = (desc[e].binned /\ e \notin D)
      OBVIOUS
    <3>2. n \in Nat /\ x \in BOOLEAN /\ desc[e].base \in Nat /\ desc[e].alloc \in BOOLEAN
      BY <1>1, <1>3, <3>1, DescFields
    <3>3. desc'[e] = [base |-> desc[e].base, len |-> n, alloc |-> desc[e].alloc, binned |-> x]
      BY <1>6, <3>1
    <3> QED
      BY <3>2, <3>3 DEF DescType
  <2> QED
    BY <2>1, <2>2
<1>8. \A e \in Descs \ D : desc'[e] = desc[e] /\ (e \in InUse' <=> e \in InUse)
  <2>1. ASSUME NEW e \in Descs \ D PROVE desc'[e] = desc[e]
    <3>1. desc[e] = [base |-> desc[e].base, len |-> desc[e].len,
                     alloc |-> desc[e].alloc, binned |-> desc[e].binned]
          /\ desc[e].binned \in BOOLEAN
      BY <1>3, DescFields
    <3>2. (desc[e].binned /\ e \notin D) = desc[e].binned /\ e # keep
      BY <1>1, <3>1
    <3>3. desc'[e] = [base |-> desc[e].base,
                      len |-> IF e = keep THEN len ELSE desc[e].len,
                      alloc |-> desc[e].alloc,
                      binned |-> desc[e].binned /\ e \notin D]
      BY <1>6
    <3> QED
      BY <3>1, <3>2, <3>3
  <2> QED
    BY <1>1, <1>4, <2>1
<1>9. desc'[keep].base = base /\ desc'[keep].len = len /\ ~desc'[keep].alloc /\ ~desc'[keep].binned
  <2>1. desc'[keep] = [base |-> desc[keep].base, len |-> IF keep = keep THEN len ELSE desc[keep].len,
                       alloc |-> desc[keep].alloc, binned |-> desc[keep].binned /\ keep \notin D]
    BY <1>1, <1>3, <1>6
  <2>2. desc[keep].base = base /\ ~desc[keep].alloc /\ ~(desc[keep].binned /\ keep \notin D)
    BY <1>1
  <2>3. PICK x, y : x = desc[keep].alloc /\ y = (desc[keep].binned /\ keep \notin D)
    OBVIOUS
  <2>4. desc'[keep] = [base |-> base, len |-> len, alloc |-> x, binned |-> y]
    BY <2>1, <2>2, <2>3
  <2>5. desc'[keep].base = base /\ desc'[keep].len = len /\ desc'[keep].alloc = x /\ desc'[keep].binned = y
    BY ONLY <2>4
  <2> QED
    BY <2>2, <2>3, <2>5
<1>10. /\ PagesOf(keep)' = base .. base + len - 1
       /\ \A f \in InUse \ D : PagesOf(f)' = PagesOf(f)
  <2>1. PagesOf(keep)' = base .. base + len - 1
    BY <1>9 DEF PagesOf
  <2>2. \A f \in InUse \ D : PagesOf(f)' = PagesOf(f)
    BY <1>3, <1>8 DEF PagesOf
  <2> QED
    BY <2>1, <2>2
<1>11. /\ call' = [call EXCEPT ![t] = call'[t]] /\ call'[t].at = "merge"
       /\ call'[t].span = keep /\ call'[t].arena = a
  <2>1. call' = [call EXCEPT ![t].at = "merge", ![t].span = keep, ![t].left = Null]
    BY DEF Merges
  <2>2. call'[t] = [call[t] EXCEPT !.at = "merge", !.span = keep, !.left = Null]
    BY <2>1, CallFields DEF SpansInv
  <2> QED
    BY <1>1, <2>1, <2>2, CallFields DEF SpansInv
<1>12. /\ op' = [op EXCEPT ![t] = op'[t]] /\ IsOp(op'[t])
       /\ op'[t].at = "lock" /\ op'[t].page = base /\ op'[t].first = base
       /\ op'[t].last = base + len - 1 /\ op'[t].data = keep
  <2>1. PICK p : p = base + len - 1
    OBVIOUS
  <2>2. StartInsert(t, base, p, keep)
    BY <2>1 DEF Merges
  <2> QED
    BY <2>1, <2>2, StartFields
<1>13. Moves(t)
  BY <1>11, <1>12 DEF Moves
<1>14. Frame(t, D)
  <2>1. Guards(t, a, D)
    BY <1>1, <1>3 DEF Guards
  <2> QED
    BY <1>1, <1>8, <1>12, <1>13, <2>1, GuardFrame
<1>15. Works(t)' /\ ~Out(t)' /\ ~Passes(t)'
  BY <1>11 DEF Works, WorkAts, Out, Passes, PassAts, At
<1>16. DescsTyped'
  BY <1>1, <1>3, <1>4, <1>7 DEF DescsTyped, PoolsOK, DescType, Descs, Arenas
<1>17. Tiles'
  <2>1. mapped' \subseteq FirstPage .. LastPage
    BY <1>1, <1>3 DEF Tiles
  <2>2. PagesOf(keep)' \subseteq mapped /\ \A f \in InUse \ D : PagesOf(f)' \cap PagesOf(keep)' = {}
    <3>1. \A m \in D : PagesOf(m) \subseteq mapped
      BY <1>1, <1>3 DEF Tiles
    <3>2. \A f \in InUse \ D : \A m \in D : PagesOf(f) \cap PagesOf(m) = {}
      BY <1>1, <1>3 DEF Tiles
    <3> QED
      BY <1>1, <1>10, <3>1, <3>2
  <2>3. ASSUME NEW f \in InUse' PROVE desc'[f].len > 0 /\ PagesOf(f)' \subseteq mapped'
    <3>1. CASE f = keep
      <4>1. desc'[keep].len > 0 /\ PagesOf(keep)' \subseteq mapped'
        BY <1>1, <1>9, <2>2
      <4> QED
        BY <3>1, <4>1 DEF PagesOf
    <3>2. CASE f # keep
      <4>1. f \in InUse \ D /\ f \in Descs
        BY <1>3, <1>4, <3>2
      <4>2. desc'[f] = desc[f] /\ PagesOf(f)' = PagesOf(f)
        BY <1>8, <1>10, <4>1
      <4> QED
        BY <1>1, <1>3, <4>1, <4>2 DEF Tiles
    <3> QED
      BY <3>1, <3>2
  <2>4. \A f, g \in InUse' : f # g => PagesOf(f)' \cap PagesOf(g)' = {}
    <3>1. \A f, g \in InUse \ D : f # g => PagesOf(f)' \cap PagesOf(g)' = {}
      BY <1>3, <1>10 DEF Tiles
    <3> SUFFICES ASSUME NEW f \in InUse', NEW g \in InUse', f # g, NEW p,
                        p \in PagesOf(f)', p \in PagesOf(g)'
                 PROVE  FALSE
      OBVIOUS
    <3>2. (f \in InUse \ D \/ f = keep) /\ (g \in InUse \ D \/ g = keep)
      BY <1>4
    <3>3. CASE f \in InUse \ D /\ g \in InUse \ D
      BY <3>1, <3>3
    <3>4. CASE f \in InUse \ D /\ g = keep
      BY <2>2, <3>4 DEF PagesOf
    <3>5. CASE f = keep /\ g \in InUse \ D
      BY <2>2, <3>5 DEF PagesOf
    <3> QED
      BY <3>2, <3>3, <3>4, <3>5
  <2>5. ASSUME NEW p \in mapped' PROVE \E f \in InUse' : p \in PagesOf(f)'
    <3>1. PICK f \in InUse : p \in PagesOf(f)
      BY <1>1, <1>3 DEF Tiles
    <3>2. CASE f \in D
      <4>1. p \in base .. base + len - 1
        BY <1>1, <3>1, <3>2
      <4> QED
        BY <1>4, <1>10, <4>1
    <3>3. CASE f \notin D
      BY <1>4, <1>10, <3>1, <3>3
    <3> QED
      BY <3>2, <3>3
  <2> QED
    BY <2>1, <2>3, <2>4, <2>5 DEF Tiles
<1>18. \A m \in D : m \in InUse' => m = keep
  BY <1>4
<1>19. FlagsOK'
  <2>1. FlagOK(keep)'
    BY <1>9, <1>11, <1>15 DEF FlagOK
  <2>2. \A f \in D : f \in InUse' => FlagOK(f)'
    BY <1>18, <2>1 DEF FlagOK
  <2> QED
    BY <1>1, <1>14, <2>2, FlagsFrame
<1>20. Tokens'
  <2>1. \A f \in D : (f \in InUse => ~desc[f].alloc) /\ (f \in InUse' => ~desc'[f].alloc)
    BY <1>1, <1>9, <1>18
  <2>2. Given' = Given
    BY <1>14, <2>1, GivenFrame
  <2> QED
    BY <1>1, <1>2, <1>13, <1>15, <2>2, NoneOut
<1>21. \A p : Entry(p)' = Entry(p)
  BY <1>1, NodesStill
<1>22. UnmappedNull'
  BY <1>1, <1>21 DEF SpansInv, UnmappedNull, Pages
<1>23. Pending(t)' = PagesOf(keep)'
  BY <1>10, <1>11, <1>12 DEF Pending, InsertAts, Inserts
<1>24. SettledLead'
  <2>1. \A p \in PagesOf(keep)' : p \in Pending(t)'
    BY <1>23
  <2>2. \A f \in D : f \in InUse' =>
           \A p \in PagesOf(f)' : Entry(p) = f \/ \E u \in Threads : p \in Pending(u)'
    BY <1>18, <2>1 DEF PagesOf
  <2> QED
    BY <1>2, <1>14, <2>2, SettledFrame
<1>25. WorkOK(t)'
  BY <1>1, <1>3, <1>4, <1>9, <1>11, <1>15 DEF WorkOK, At, WorkAts, PassAts
<1>26. TaskFits(t)'
  <2>1. base \in Nat
    BY <1>1, <1>3, DescFields
  <2>2. op'[t].page \in desc'[keep].base .. desc'[keep].base + desc'[keep].len - 1
    BY <1>1, <1>9, <1>12, <2>1
  <2>3. op'[t].at \in Inserts /\ op'[t].last = desc'[keep].base + desc'[keep].len - 1
    BY <1>9, <1>12 DEF Inserts
  <2> QED
    BY <1>9, <1>11, <1>12, <2>2, <2>3 DEF TaskFits, InsertAts, LookAts, At, PagesOf
<1>27. PendingOK(t)'
  <2>1. ASSUME NEW p \in Pending(t)' PROVE Entry(p) \in Descs /\ Entry(p)[1] = a
    <3>1. PICK m \in D : p \in PagesOf(m)
      BY <1>1, <1>10, <1>23
    <3> QED
      BY <1>1, <1>3, <3>1
  <2> QED
    BY <1>11, <1>21, <2>1 DEF PendingOK, At, Descs, Arenas
<1>28. LookOK(t)'
  BY <1>11 DEF LookOK, At
<1> QED
  BY <1>14, <1>16, <1>17, <1>19, <1>20, <1>22, <1>24, <1>25, <1>26, <1>27, <1>28, FrameKeeps

(* A span is merged with none, one or both of its neighbours. *)
LEMMA MergeSpans ==
    ASSUME SpansInv, CallsOK', NEW t \in Threads, MergeAdj(t)
    PROVE  SpansInv'
<1>0. PICK d, l, r, a : d = call[t].span /\ l = call[t].left /\ r = op[t].data /\ a = call[t].arena
  OBVIOUS
<1>1. call[t].at = "right" /\ Returned(t)
  BY DEF MergeAdj, At
<1>2. Works(t) /\ Pending(t) = {}
  BY <1>1 DEF Works, WorkAts, Pending, InsertAts
<1>3. /\ d \in InUse /\ d \in Descs /\ d[1] = a /\ ~desc[d].alloc /\ ~desc[d].binned
      /\ a \in Arenas /\ DescsTyped /\ Tiles
  BY <1>0, <1>2 DEF SpansInv, WorkOK, InUse, Descs
<1>4. OfArena(l, a) /\ OfArena(r, a)
  BY <1>0, <1>1 DEF SpansInv, LookOK, At
<1>5. \A p \in PagesOf(d) : Entry(p) = d
  BY <1>0, <1>2, OwnSettled
<1>6. CanMerge(l, d) => /\ l \in InUse /\ l \in Descs /\ l[1] = a /\ ~desc[l].alloc /\ Adjacent(l, d) /\ l # d
                        /\ \A p \in PagesOf(l) : Entry(p) = l
  <2> SUFFICES ASSUME CanMerge(l, d)
               PROVE  /\ l \in InUse /\ l \in Descs /\ l[1] = a /\ ~desc[l].alloc /\ Adjacent(l, d) /\ l # d
                      /\ \A p \in PagesOf(l) : Entry(p) = l
    OBVIOUS
  <2>1. l # Null /\ ~desc[l].alloc /\ l[1] = d[1] /\ Adjacent(l, d)
    BY DEF CanMerge
  <2>2. /\ l \in InUse /\ l \in Descs /\ l[1] = a
        /\ l # d => \A p \in PagesOf(l) : Entry(p) = l
    BY <1>0, <1>2, <1>4, <2>1, Neighbour
  <2>3. l # d
    BY <1>3, <2>1, <2>2, JoinPages
  <2> QED
    BY <2>1, <2>2, <2>3
<1>7. CanMerge(d, r) => /\ r \in InUse /\ r \in Descs /\ r[1] = a /\ ~desc[r].alloc /\ Adjacent(d, r) /\ r # d
                        /\ \A p \in PagesOf(r) : Entry(p) = r
  <2> SUFFICES ASSUME CanMerge(d, r)
               PROVE  /\ r \in InUse /\ r \in Descs /\ r[1] = a /\ ~desc[r].alloc /\ Adjacent(d, r) /\ r # d
                      /\ \A p \in PagesOf(r) : Entry(p) = r
    OBVIOUS
  <2>1. r # Null /\ ~desc[r].alloc /\ r[1] = d[1] /\ Adjacent(d, r)
    BY DEF CanMerge
  <2>2. /\ r \in InUse /\ r \in Descs /\ r[1] = a
        /\ r # d => \A p \in PagesOf(r) : Entry(p) = r
    BY <1>0, <1>2, <1>4, <2>1, Neighbour
  <2>3. r # d
    BY <1>3, <2>1, <2>2, JoinPages
  <2> QED
    BY <2>1, <2>2, <2>3
<1>8. \A e \in InUse : desc[e].base \in Nat /\ desc[e].len \in Nat \ {0}
  BY SpanPages DEF SpansInv
<1>9. PoolsAre(pool, InUse) /\ InUse \subseteq Descs /\ pool[a] \in Seq(1 .. PoolSize)
  BY <1>3, PoolsNow DEF InUse, DescsTyped
<1> DEFINE left   == CanMerge(l, d)
           right  == CanMerge(d, r)
           keep   == IF left THEN l ELSE d
           merged == {d} \cup (IF left THEN {l} ELSE {}) \cup (IF right THEN {r} ELSE {})
           len    == (IF left THEN desc[l].len ELSE 0) + desc[d].len
                     + (IF right THEN desc[r].len ELSE 0)
           base   == desc[keep].base
           back   == (IF right THEN <<r[2]>> ELSE <<>>) \o (IF left THEN <<d[2]>> ELSE <<>>)
<1>10. /\ desc' = [e \in Descs |-> [desc[e] EXCEPT !.len = IF e = keep THEN len ELSE @,
                                                   !.binned = @ /\ e \notin merged]]
       /\ pool' = [pool EXCEPT ![a] = back \o @]
       /\ call' = [call EXCEPT ![t].at = "merge", ![t].span = keep, ![t].left = Null]
       /\ StartInsert(t, base, base + len - 1, keep)
       /\ UNCHANGED <<node, nnodes, stranded, mapped, arenaLock, held, leaked>>
  BY <1>0, <1>3 DEF MergeAdj, PutDescs, TrieCall
<1>11. /\ \A m \in merged : m \in InUse /\ m \in Descs /\ m[1] = a /\ ~desc[m].alloc
       /\ \A m \in merged : \A p \in PagesOf(m) : Entry(p) = m
       /\ keep \in merged
  BY <1>3, <1>5, <1>6, <1>7
<1>12. len \in Nat \ {0} /\ \A p : p \in base .. base + len - 1 <=> \E m \in merged : p \in PagesOf(m)
  <2>1. CASE left /\ right
    <3>1. keep = l /\ merged = {d, l, r} /\ len = desc[l].len + desc[d].len + desc[r].len
      BY <2>1
    <3>2. \A p : p \in desc[l].base .. desc[l].base + (desc[l].len + desc[d].len + desc[r].len) - 1 <=>
                 p \in PagesOf(l) \/ p \in PagesOf(d) \/ p \in PagesOf(r)
      BY <1>3, <1>6, <1>7, <2>1, JoinPages
    <3>3. desc[l].len + desc[d].len + desc[r].len \in Nat \ {0}
      BY <1>3, <1>6, <1>7, <1>8, <2>1
    <3> HIDE DEF left, right, merged, len, keep
    <3> QED
      BY <3>1, <3>2, <3>3
  <2>2. CASE left /\ ~right
    <3>1. keep = l /\ merged = {d, l} /\ len = desc[l].len + desc[d].len
      BY <1>3, <1>6, <1>8, <2>2
    <3>2. \A p : p \in desc[l].base .. desc[l].base + (desc[l].len + desc[d].len) - 1 <=>
                 p \in PagesOf(l) \/ p \in PagesOf(d)
      BY <1>3, <1>6, <2>2, JoinPages
    <3>3. desc[l].len + desc[d].len \in Nat \ {0}
      BY <1>3, <1>6, <1>8, <2>2
    <3> HIDE DEF left, right, merged, len, keep
    <3> QED
      BY <3>1, <3>2, <3>3
  <2>3. CASE ~left /\ right
    <3>1. keep = d /\ merged = {d, r} /\ len = desc[d].len + desc[r].len
      BY <1>3, <1>7, <1>8, <2>3
    <3>2. \A p : p \in desc[d].base .. desc[d].base + (desc[d].len + desc[r].len) - 1 <=>
                 p \in PagesOf(d) \/ p \in PagesOf(r)
      BY <1>3, <1>7, <2>3, JoinPages
    <3>3. desc[d].len + desc[r].len \in Nat \ {0}
      BY <1>3, <1>7, <1>8, <2>3
    <3> HIDE DEF left, right, merged, len, keep
    <3> QED
      BY <3>1, <3>2, <3>3
  <2>4. CASE ~left /\ ~right
    <3>1. keep = d /\ merged = {d} /\ len = desc[d].len
      BY <1>3, <1>8, <2>4
    <3>2. desc[d].len \in Nat \ {0}
      BY <1>3, <1>8
    <3> HIDE DEF left, right, merged, len, keep
    <3> QED
      BY <3>1, <3>2 DEF PagesOf
  <2> QED
    BY <2>1, <2>2, <2>3, <2>4
<1>13. PoolsAre(pool', (InUse \ merged) \cup {keep})
  <2>1. PICK one : one = [pool EXCEPT ![a] = <<d[2]>> \o @]
    OBVIOUS
  <2>2. pool \in [Arenas -> Seq(1 .. PoolSize)] /\ pool[a] \in Seq(1 .. PoolSize)
         /\ \A e \in Descs : e[2] \in 1 .. PoolSize
    BY <1>3, <1>9 DEF PoolsAre, Descs
  <2>3. CASE left /\ right
    <3>1. PoolsAre(one, InUse \ {d})
      BY <1>3, <1>9, <2>1, PoolGiven
    <3>2. pool' = [one EXCEPT ![a] = <<r[2]>> \o @]
      <4>1. r[2] \in 1 .. PoolSize /\ d[2] \in 1 .. PoolSize
        BY <1>3, <1>7, <2>2, <2>3
      <4>2. (<<r[2]>> \o <<d[2]>>) \o pool[a] = <<r[2]>> \o (<<d[2]>> \o pool[a])
        BY <2>2, <4>1, FrontOf
      <4>3. pool' = [pool EXCEPT ![a] = (<<r[2]>> \o <<d[2]>>) \o pool[a]]
        BY <1>10, <2>3
      <4> QED
        BY <1>3, <2>1, <2>2, <4>2, <4>3
    <3>3. PoolsAre(pool', (InUse \ {d}) \ {r})
      <4>1. r \in Descs /\ r \in InUse \ {d} /\ r[1] = a
        BY <1>7, <2>3
      <4> QED
        BY <1>3, <3>1, <3>2, <4>1, PoolGiven
    <3>4. l \in InUse /\ l # d /\ l # r
      BY <1>3, <1>6, <1>7, <2>3, JoinPages
    <3>5. (InUse \ {d}) \ {r} = (InUse \ merged) \cup {keep}
      BY <2>3, <3>4
    <3> QED
      BY <3>3, <3>5
  <2>4. CASE left /\ ~right
    <3>1. PoolsAre(one, InUse \ {d})
      BY <1>3, <1>9, <2>1, PoolGiven
    <3>2. pool' = one
      <4>1. (<<>> \o <<d[2]>>) \o pool[a] = <<d[2]>> \o pool[a]
        BY <1>3, <2>2, FrontOf
      <4> QED
        BY <1>10, <2>1, <2>4, <4>1
    <3>3. InUse \ {d} = (InUse \ merged) \cup {keep}
      BY <1>6, <2>4
    <3> QED
      BY <3>1, <3>2, <3>3
  <2>5. CASE ~left /\ right
    <3>1. r[2] \in 1 .. PoolSize /\ r \in Descs /\ r \in InUse /\ r[1] = a
      BY <1>7, <2>2, <2>5
    <3>2. pool' = [pool EXCEPT ![a] = <<r[2]>> \o @]
      <4>1. (<<r[2]>> \o <<>>) \o pool[a] = <<r[2]>> \o pool[a]
        BY <2>2, <3>1, FrontOf
      <4> QED
        BY <1>10, <2>5, <4>1
    <3>3. PoolsAre(pool', InUse \ {r})
      BY <1>3, <1>9, <3>1, <3>2, PoolGiven
    <3>4. InUse \ {r} = (InUse \ merged) \cup {keep}
      BY <1>3, <1>7, <2>5
    <3> QED
      BY <3>3, <3>4
  <2>6. CASE ~left /\ ~right
    <3>1. pool' = pool
      <4>1. (<<>> \o <<>>) \o pool[a] = pool[a]
        BY <1>3, <2>2, FrontOf
      <4> QED
        BY <1>10, <2>2, <2>6, <4>1
    <3>2. InUse = (InUse \ merged) \cup {keep}
      BY <1>3, <2>6
    <3> QED
      BY <1>9, <3>1, <3>2
  <2> QED
    BY <2>3, <2>4, <2>5, <2>6
<1>14. d \in merged
  OBVIOUS
<1> HIDE DEF left, right, keep, merged, len, base, back
<1>15. Joins(merged, keep, base, len)
  BY <1>11, <1>12 DEF Joins, base
<1>16. Merges(t, a, merged, keep, base, len)
  BY <1>0, <1>1, <1>10, <1>11, <1>13, <1>14, <1>15 DEF Merges
<1>17. PICK D, k, b, n : D = merged /\ k = keep /\ b = base /\ n = len
  OBVIOUS
<1>18. Merges(t, a, D, k, b, n)
  BY <1>16, <1>17
<1> QED
  BY <1>18, MergeKeeps

-----------------------------------------------------------------------------
(* Steps of the tree *)

(* Nothing but the nodes, and the operation of t *)
TreeOnly(t) == UNCHANGED <<memVars, arenaLock, call, alloc, held, leaked>> /\ TrieInv' /\ Only(t)

(* What is left to show of such a step: it changes entries of the pages it  *)
(* has still to store only, and those it is done with lead to its span.     *)
LEMMA TreeKeeps ==
    ASSUME SpansInv, NEW t \in Threads, TreeOnly(t),
           \A q \in Pages : q \notin Pending(t) => Entry(q)' = Entry(q),
           \A p \in Pending(t) : p \in Pending(t)' \/ Entry(p)' = call[t].span,
           TaskFits(t)', PendingOK(t)', LookOK(t)'
    PROVE  SpansInv'
<1>1. /\ UNCHANGED <<desc, pool, stranded, mapped, arenaLock, call, alloc, held, leaked>>
      /\ TrieInv' /\ op' = [op EXCEPT ![t] = op'[t]]
  BY DEF TreeOnly, memVars, Only
<1>2. /\ InUse' = InUse /\ \A d : PagesOf(d)' = PagesOf(d) /\ SpanRec(d)' = SpanRec(d)
      /\ \A u : /\ Works(u)' = Works(u) /\ Passes(u)' = Passes(u) /\ Out(u)' = Out(u)
                /\ CallSpan(u)' = CallSpan(u) /\ \A at : At(u, at)' = At(u, at)
  BY <1>1 DEF InUse, Strays, PagesOf, SpanRec, Works, Passes, Out, CallSpan, At
<1>3. CallsOK'
  BY <1>1 DEF SpansInv, CallsOK, IsCall
<1>4. DescsTyped'
  BY <1>1 DEF SpansInv, DescsTyped, Strays, Descs, Arenas
<1>5. Tiles'
  BY <1>1, <1>2, TilesSame DEF SpansInv
<1>6. FlagsOK'
  BY <1>1, <1>2 DEF SpansInv, FlagsOK, FlagOK
<1>7. Tokens'
  <2>1. Given' = Given
    BY <1>1, GivenSame
  <2> QED
    BY <1>1, <1>2, <2>1 DEF SpansInv, Tokens
<1>8. UnmappedNull'
  <2> SUFFICES ASSUME NEW p \in Pages, p \notin mapped' PROVE Entry(p)' = Null
    BY DEF UnmappedNull, Pages
  <2>1. p \notin Pending(t)
    BY <1>1, PendingPages
  <2> QED
    BY <1>1, <2>1 DEF SpansInv, UnmappedNull
<1>9. ASSUME NEW u \in Threads, u # t
      PROVE  /\ op'[u] = op[u] /\ Pending(u)' = Pending(u)
             /\ \A p \in Pending(u) : p \notin Pending(t) /\ Entry(p)' = Entry(p)
  <2>1. op'[u] = op[u]
    BY <1>1, <1>9 DEF SpansInv, TrieInv, OpsTyped
  <2>2. Pending(u)' = Pending(u)
    BY <1>1, <1>2, <2>1 DEF Pending
  <2>3. ASSUME NEW p \in Pending(u) PROVE p \notin Pending(t) /\ Entry(p)' = Entry(p)
    <3>1. Works(u) /\ p \in PagesOf(call[u].span) /\ call[u].span \in InUse /\ p \in Pages
      BY <2>3, PendingPages
    <3>2. ASSUME p \in Pending(t) PROVE FALSE
      <4>1. Works(t) /\ p \in PagesOf(call[t].span) /\ call[t].span \in InUse
        BY <3>2, PendingPages
      <4>2. call[u].span = call[t].span
        BY <3>1, <4>1, SpanOfPage DEF SpansInv
      <4>3. call[u].arena = call[t].arena
        BY <3>1, <4>1, <4>2 DEF SpansInv, WorkOK
      <4> QED
        BY <1>9, <3>1, <4>1, <4>3, OneWorker
    <3> QED
      BY <3>1, <3>2
  <2> QED
    BY <2>1, <2>2, <2>3
<1>10. SettledLead'
  <2> SUFFICES ASSUME NEW d \in InUse, NEW p \in PagesOf(d)
               PROVE  Entry(p)' = d \/ \E u \in Threads : p \in Pending(u)'
    BY <1>2 DEF SettledLead
  <2>1. p \in Pages
    BY SpanPages DEF SpansInv
  <2>2. CASE p \in Pending(t)
    <3>1. p \in PagesOf(call[t].span) /\ call[t].span \in InUse
      BY <2>2, PendingPages
    <3>2. call[t].span = d
      BY <3>1, SpanOfPage DEF SpansInv
    <3> QED
      BY <2>2, <3>2
  <2>3. CASE p \notin Pending(t)
    <3>1. Entry(p)' = Entry(p)
      BY <2>1, <2>3
    <3>2. Entry(p) = d \/ \E u \in Threads : p \in Pending(u)
      BY DEF SpansInv, SettledLead
    <3>3. \A u \in Threads : p \in Pending(u) => p \in Pending(u)'
      BY <1>9, <2>3
    <3> QED
      BY <3>1, <3>2, <3>3
  <2> QED
    BY <2>2, <2>3
<1>11. ASSUME NEW u \in Threads PROVE WorkOK(u)' /\ TaskFits(u)' /\ PendingOK(u)' /\ LookOK(u)'
  <2>1. WorkOK(u) /\ TaskFits(u) /\ PendingOK(u) /\ LookOK(u)
    BY DEF SpansInv
  <2>2. WorkOK(u)'
    BY <1>1, <1>2, <2>1 DEF WorkOK, Arenas
  <2>3. CASE u = t
    BY <2>2, <2>3
  <2>4. CASE u # t
    <3>1. op'[u] = op[u]
      BY <1>9, <2>4
    <3>2. TaskFits(u)'
      BY <1>1, <1>2, <2>1, <3>1 DEF TaskFits, Returned, LookPage
    <3>3. PendingOK(u)'
      BY <1>1, <1>2, <1>9, <2>1, <2>4, <3>1 DEF PendingOK, Descs, Arenas
    <3>4. LookOK(u)'
      BY <1>1, <1>2, <2>1, <3>1 DEF LookOK, Returned, OfArena, Descs, Arenas
    <3> QED
      BY <2>2, <3>2, <3>3, <3>4
  <2> QED
    BY <2>3, <2>4
<1> QED
  BY <1>1, <1>3, <1>4, <1>5, <1>6, <1>7, <1>8, <1>10, <1>11 DEF SpansInv

(* The span a thread inserts *)
LEMMA InsertSpan ==
    ASSUME SpansInv, NEW t \in Threads, op[t].at \in Inserts \cup {"rollback"}
    PROVE  /\ call[t].at \in InsertAts /\ Works(t)
           /\ op[t].at = "rollback" => call[t].at = "mint"
           /\ call[t].span \in InUse /\ call[t].span \in Data /\ call[t].span # Null
           /\ call[t].span[1] = call[t].arena
           /\ PagesOf(call[t].span) \subseteq Pages
           /\ desc[call[t].span].base \in Nat \ {0} /\ desc[call[t].span].len \in Nat \ {0}
<1>1. call[t].at \in InsertAts
  BY DEF SpansInv, TaskFits, Inserts, Loads, Returned, InsertAts, LookAts
<1>2. Works(t)
  BY <1>1 DEF Works, WorkAts, InsertAts
<1>3. op[t].at = "rollback" => call[t].at = "mint"
  BY <1>1 DEF SpansInv, TaskFits, Inserts, Returned, At
<1>4. call[t].span \in InUse /\ call[t].span[1] = call[t].arena /\ call[t].span \in Descs
  BY <1>2 DEF SpansInv, WorkOK, InUse
<1>5. call[t].span # Null /\ call[t].span \in Data
  BY <1>4, GlobSpansAssumption, PageTrieAssumption
<1>6. /\ PagesOf(call[t].span) \subseteq Pages
      /\ desc[call[t].span].base \in Nat \ {0} /\ desc[call[t].span].len \in Nat \ {0}
  BY <1>4, SpanPages DEF SpansInv
<1> QED
  BY <1>1, <1>2, <1>3, <1>4, <1>5, <1>6

(* An insert on its way: its pages are those from the next to the last. *)
LEMMA Inserting ==
    ASSUME SpansInv, NEW t \in Threads, op[t].at \in Inserts
    PROVE  /\ op[t].data = call[t].span /\ op[t].first = desc[call[t].span].base
           /\ op[t].last = desc[call[t].span].base + desc[call[t].span].len - 1
           /\ op[t].page \in PagesOf(call[t].span)
           /\ Pending(t) = op[t].page .. op[t].last
<1>1. call[t].at \in InsertAts
  BY InsertSpan
<1> QED
  BY <1>1 DEF SpansInv, TaskFits, Pending, Inserts, Returned

(* A rollback on its way *)
LEMMA RollingBack ==
    ASSUME SpansInv, NEW t \in Threads, op[t].at = "rollback"
    PROVE  /\ op[t].first = desc[call[t].span].base
           /\ op[t].last \in desc[call[t].span].base - 1 .. desc[call[t].span].base + desc[call[t].span].len - 2
           /\ op[t].page \in desc[call[t].span].base .. op[t].last + 1
           /\ Pending(t) = PagesOf(call[t].span)
           /\ \A p \in Pending(t) : Entry(p) = IF p \in op[t].page .. op[t].last
                                               THEN call[t].span ELSE Null
<1>1. call[t].at = "mint" /\ call[t].at \in InsertAts
  BY InsertSpan
<1>2. Pending(t) = PagesOf(call[t].span)
  BY <1>1 DEF Pending, Inserts
<1>3. PendingOK(t) /\ TaskFits(t)
  BY DEF SpansInv
<1>4. \A p \in Pending(t) : Entry(p) = IF p \in op[t].page .. op[t].last
                                      THEN call[t].span ELSE Null
  BY <1>1, <1>3 DEF PendingOK, At
<1> QED
  BY <1>1, <1>2, <1>3, <1>4 DEF TaskFits, Inserts, Returned

(* The page a thread looks up *)
LEMMA Looking ==
    ASSUME SpansInv, NEW t \in Threads, op[t].at \in Loads
    PROVE  call[t].at \in LookAts /\ op[t].page = LookPage(t) /\ op[t].page \in Pages
<1>1. call[t].at \in LookAts
  BY DEF SpansInv, TaskFits, Inserts, Loads, Returned, InsertAts, LookAts
<1>2. op[t].page = LookPage(t)
  BY <1>1 DEF SpansInv, TaskFits, Loads, Returned
<1>3. CASE call[t].at \in {"left", "right"}
  <2>1. call[t].span \in InUse
    BY <1>3 DEF SpansInv, WorkOK, Works, WorkAts
  <2>2. desc[call[t].span].base - 1 \in Pages /\ desc[call[t].span].base + desc[call[t].span].len \in Pages
    BY <2>1, SpanPages DEF SpansInv
  <2> QED
    BY <1>1, <1>2, <1>3, <2>2 DEF LookPage, At
<1>4. CASE call[t].at = "find"
  <2>1. PICK d \in InUse : CallSpan(t) = SpanRec(d)
    BY <1>4 DEF SpansInv, Tokens, Out, At, Given
  <2>2. desc[d].base \in PagesOf(d) /\ PagesOf(d) \subseteq mapped /\ mapped \subseteq Pages
    BY SpanPages DEF SpansInv
  <2>3. call[t].addr = desc[d].base
    BY <2>1 DEF CallSpan, SpanRec
  <2> QED
    BY <1>1, <1>2, <1>4, <2>2, <2>3 DEF LookPage, At
<1> QED
  BY <1>1, <1>2, <1>3, <1>4 DEF LookAts

(* What the callers give the tree to do is in order. *)
LEMMA TasksOK == ASSUME SpansInv, NEW t \in Threads PROVE TaskOK(t)
<1>1. op[t].at \in Inserts => op[t].page \in Pages /\ op[t].data \in Data
  BY InsertSpan, Inserting
<1>2. op[t].at \in Loads => op[t].page \in Pages
  BY Looking
<1>3. ASSUME op[t].at = "rollback"
      PROVE  /\ op[t].page \in Int /\ op[t].last \in Int
             /\ op[t].page <= op[t].last => op[t].page \in Pages /\ Entry(op[t].page) # Null
  <2>1. PICK d, b, n : d = call[t].span /\ b = desc[d].base /\ n = desc[d].len
    OBVIOUS
  <2>2. b \in Nat \ {0} /\ n \in Nat \ {0} /\ PagesOf(d) \subseteq Pages /\ d # Null
    BY <1>3, <2>1, InsertSpan
  <2>3. /\ op[t].last \in b - 1 .. b + n - 2 /\ op[t].page \in b .. op[t].last + 1
        /\ Pending(t) = PagesOf(d)
        /\ \A p \in Pending(t) : Entry(p) = IF p \in op[t].page .. op[t].last THEN d ELSE Null
    BY <1>3, <2>1, RollingBack
  <2>4. op[t].page \in Int /\ op[t].last \in Int
    BY <2>2, <2>3
  <2>5. ASSUME op[t].page <= op[t].last
        PROVE  op[t].page \in Pages /\ Entry(op[t].page) # Null
    <3>1. PICK p : p = op[t].page
      OBVIOUS
    <3>2. p \in b .. b + n - 1 /\ p \in op[t].page .. op[t].last
      BY <2>2, <2>3, <2>4, <2>5, <3>1
    <3>3. p \in PagesOf(d)
      BY <2>1, <3>2 DEF PagesOf
    <3> QED
      BY <2>2, <2>3, <3>1, <3>2, <3>3
  <2> QED
    BY <2>4, <2>5
<1> QED
  BY <1>1, <1>2, <1>3 DEF TaskOK

(* The tree is walked for an insert. *)
LEMMA AdvanceSpans ==
    ASSUME SpansInv, NEW t \in Threads, TreeOnly(t), Advances(t)
    PROVE  SpansInv'
<1>1. /\ op[t].at \in Inserts /\ op'[t].at \in Inserts /\ op'[t].page = op[t].page
      /\ op'[t].first = op[t].first /\ op'[t].last = op[t].last
      /\ op'[t].data = op[t].data /\ op'[t].ok = op[t].ok
      /\ \A p \in Pages : Entry(p)' = Entry(p)
  BY DEF Advances, SameTask, EntriesStay
<1>2. call' = call /\ desc' = desc
  BY DEF TreeOnly, memVars
<1>3. call[t].at \in InsertAts
  BY <1>1, InsertSpan
<1>4. Pending(t)' = Pending(t)
  BY <1>1, <1>2, <1>3 DEF Pending
<1>5. TaskFits(t)'
  BY <1>1, <1>2, <1>3 DEF SpansInv, TaskFits, Inserts, Loads, Returned, InsertAts, LookAts, PagesOf, At
<1>6. PendingOK(t)'
  <2>1. \A p \in Pending(t) : Entry(p)' = Entry(p)
    BY <1>1, PendingPages
  <2>2. op[t].at # "rollback" /\ op'[t].at # "rollback"
    BY <1>1 DEF Inserts
  <2>3. PendingOK(t)
    BY DEF SpansInv
  <2> QED
    BY <1>2, <1>4, <2>1, <2>2, <2>3 DEF PendingOK, At, Descs, Arenas
<1>7. LookOK(t)'
  BY <1>2, <1>3 DEF LookOK, InsertAts, At
<1> QED
  BY <1>1, <1>4, <1>5, <1>6, <1>7, TreeKeeps

(* A page is stored. *)
LEMMA StoreSpans ==
    ASSUME SpansInv, NEW t \in Threads, TreeOnly(t), StoresPage(t)
    PROVE  SpansInv'
<1>0. PICK d, b, n : d = call[t].span /\ b = desc[d].base /\ n = desc[d].len
  OBVIOUS
<1>1. PICK p \in Pages : p = op[t].page /\ EntrySet(p, op[t].data)
  BY DEF StoresPage
<1>2. op[t].at \in Inserts
  BY DEF StoresPage
<1>3. /\ call[t].at \in InsertAts /\ b \in Nat \ {0} /\ n \in Nat \ {0}
      /\ op[t].data = d /\ op[t].last = b + n - 1 /\ op[t].first = b
      /\ p \in b .. b + n - 1 /\ Pending(t) = p .. b + n - 1
  BY <1>0, <1>1, <1>2, InsertSpan, Inserting DEF PagesOf
<1>4. call' = call /\ desc' = desc
  BY DEF TreeOnly, memVars
<1>5. Entry(p)' = d /\ \A q \in Pages \ {p} : Entry(q)' = Entry(q)
  BY <1>1, <1>3 DEF EntrySet
<1>6. \/ p = b + n - 1 /\ op'[t].at = "returned" /\ op'[t].ok
      \/ /\ p # b + n - 1 /\ op'[t].at \in Inserts /\ op'[t].page = p + 1
         /\ op'[t].first = b /\ op'[t].last = b + n - 1 /\ op'[t].data = d
  BY <1>1, <1>3 DEF StoresPage, SameTask
<1>7. Pending(t)' = p + 1 .. b + n - 1
  <2>1. CASE p = b + n - 1 /\ op'[t].at = "returned" /\ op'[t].ok
    <3>1. Pending(t)' = {}
      BY <1>3, <1>4, <2>1 DEF Pending, Inserts
    <3>2. p + 1 .. b + n - 1 = {}
      BY <1>3, <2>1
    <3> QED
      BY <3>1, <3>2
  <2>2. CASE /\ op'[t].at \in Inserts /\ op'[t].page = p + 1 /\ op'[t].last = b + n - 1
    BY <1>3, <1>4, <2>2 DEF Pending
  <2> QED
    BY <1>6, <2>1, <2>2
<1>8. p \in Pending(t) /\ Pending(t)' = Pending(t) \ {p}
  BY <1>3, <1>7
<1>9. TaskFits(t)'
  <2>1. CASE op'[t].at = "returned" /\ op'[t].ok
    BY <1>3, <1>4, <2>1 DEF TaskFits, InsertAts, LookAts, Returned
  <2>2. CASE /\ p # b + n - 1 /\ op'[t].at \in Inserts /\ op'[t].page = p + 1
             /\ op'[t].first = b /\ op'[t].last = b + n - 1 /\ op'[t].data = d
    <3>1. p + 1 \in b .. b + n - 1
      BY <1>3, <2>2
    <3> QED
      BY <1>0, <1>3, <1>4, <2>2, <3>1 DEF TaskFits, InsertAts, LookAts, PagesOf
  <2> QED
    BY <1>6, <2>1, <2>2
<1>10. PendingOK(t)'
  <2>1. \A q \in Pending(t)' : q \in Pending(t) /\ Entry(q)' = Entry(q)
    BY <1>5, <1>8, PendingPages
  <2>2. op[t].at # "rollback" /\ op'[t].at # "rollback"
    BY <1>2, <1>6 DEF Inserts
  <2>3. PendingOK(t)
    BY DEF SpansInv
  <2> QED
    BY <1>4, <2>1, <2>2, <2>3 DEF PendingOK, At, Descs, Arenas
<1>11. LookOK(t)'
  BY <1>3, <1>4 DEF LookOK, InsertAts, At
<1>12. \A q \in Pages : q \notin Pending(t) => Entry(q)' = Entry(q)
  BY <1>5, <1>8
<1>13. \A q \in Pending(t) : q \in Pending(t)' \/ Entry(q)' = call[t].span
  BY <1>0, <1>5, <1>8
<1> QED
  BY <1>9, <1>10, <1>11, <1>12, <1>13, TreeKeeps

(* An insert gives up: only that of a fresh span can, and what it stored    *)
(* is what is to be taken back.                                             *)
LEMMA GivesUpSpans ==
    ASSUME SpansInv, NEW t \in Threads, TreeOnly(t), GivesUp(t)
    PROVE  SpansInv'
<1>0. PICK d, b, n, p : /\ d = call[t].span /\ b = desc[d].base /\ n = desc[d].len
                        /\ p = op[t].page
  OBVIOUS
<1>1. /\ op[t].at \in Inserts /\ Entry(p) = Null /\ \A q \in Pages : Entry(q)' = Entry(q)
      /\ op'[t].at = "rollback" /\ op'[t].page = op[t].first /\ op'[t].last = p - 1
      /\ op'[t].first = op[t].first
  BY <1>0 DEF GivesUp, EntriesStay
<1>2. /\ call[t].at \in InsertAts /\ Works(t) /\ b \in Nat \ {0} /\ n \in Nat \ {0}
      /\ op[t].first = b /\ p \in b .. b + n - 1 /\ Pending(t) = p .. b + n - 1
      /\ PagesOf(d) = b .. b + n - 1 /\ PagesOf(d) \subseteq Pages
  BY <1>0, <1>1, InsertSpan, Inserting DEF PagesOf
<1>3. PendingOK(t) /\ p \in Pending(t) /\ op[t].at # "rollback" /\ Null \notin Descs
  BY <1>1, <1>2, GlobSpansAssumption, PageTrieAssumption DEF SpansInv, Inserts
<1>4. call[t].at = "mint"
  BY <1>1, <1>3 DEF PendingOK, At
<1>5. call' = call /\ desc' = desc
  BY DEF TreeOnly, memVars
<1>6. Pending(t)' = PagesOf(d)
  BY <1>0, <1>1, <1>2, <1>5 DEF Pending, Inserts, PagesOf
<1>7. TaskFits(t)'
  <2>1. /\ p - 1 \in b - 1 .. b + n - 2 /\ b \in b .. p - 1 + 1
    BY <1>2
  <2>2. /\ op'[t].at = "rollback" /\ op'[t].first = b /\ op'[t].page = b /\ op'[t].last = p - 1
    BY <1>1, <1>2
  <2> QED
    BY <1>0, <1>4, <1>5, <2>1, <2>2 DEF TaskFits, InsertAts, LookAts, At
<1>8. \A q \in PagesOf(d) : Entry(q)' = IF q \in b .. p - 1 THEN d ELSE Null
  <2> SUFFICES ASSUME NEW q \in PagesOf(d) PROVE Entry(q)' = IF q \in b .. p - 1 THEN d ELSE Null
    OBVIOUS
  <2>1. Entry(q)' = Entry(q) /\ q \in b .. b + n - 1
    BY <1>1, <1>2
  <2>2. CASE q \in Pending(t)
    <3>1. Entry(q) = Null
      BY <1>3, <1>4, <2>2 DEF PendingOK, At
    <3>2. q \notin b .. p - 1
      BY <1>2, <2>2
    <3> QED
      BY <2>1, <3>1, <3>2
  <2>3. CASE q \notin Pending(t)
    <3>1. Entry(q) = d
      BY <1>0, <1>2, <2>3, OwnSettled
    <3>2. q \in b .. p - 1
      BY <1>2, <2>1, <2>3
    <3> QED
      BY <2>1, <3>1, <3>2
  <2> QED
    BY <2>2, <2>3
<1>9. PendingOK(t)'
  <2>1. At(t, "mint")' /\ op'[t].at = "rollback" /\ op'[t].page = b /\ op'[t].last = p - 1
    BY <1>1, <1>2, <1>4, <1>5 DEF At
  <2>2. call'[t].span = d
    BY <1>0, <1>5
  <2> QED
    BY <1>6, <1>8, <2>1, <2>2 DEF PendingOK
<1>10. LookOK(t)'
  BY <1>4, <1>5 DEF LookOK, At
<1>11. \A q \in Pending(t) : q \in Pending(t)'
  BY <1>2, <1>6
<1> QED
  BY <1>1, <1>7, <1>9, <1>10, <1>11, TreeKeeps

(* A page is taken back. *)
LEMMA TakesBackSpans ==
    ASSUME SpansInv, NEW t \in Threads, TreeOnly(t), TakesBack(t)
    PROVE  SpansInv'
<1>0. PICK d, b, n, p, m : /\ d = call[t].span /\ b = desc[d].base /\ n = desc[d].len
                           /\ p = op[t].page /\ m = op[t].last
  OBVIOUS
<1>1. op[t].at = "rollback"
  BY DEF TakesBack
<1>2. /\ call[t].at = "mint" /\ b \in Nat \ {0} /\ n \in Nat \ {0} /\ op[t].first = b
      /\ m \in b - 1 .. b + n - 2 /\ p \in b .. m + 1
      /\ Pending(t) = PagesOf(d) /\ PagesOf(d) = b .. b + n - 1 /\ PagesOf(d) \subseteq Pages
  BY <1>0, <1>1, InsertSpan, RollingBack DEF PagesOf
<1>3. \A q \in PagesOf(d) : Entry(q) = IF q \in p .. m THEN d ELSE Null
  BY <1>0, <1>1, <1>2, RollingBack
<1>4. call' = call /\ desc' = desc
  BY DEF TreeOnly, memVars
<1>5. op'[t].at \in {"rollback", "returned"} /\ (op'[t].at = "returned" => ~op'[t].ok)
  BY DEF TakesBack
<1>6. Pending(t)' = PagesOf(d)
  <2>1. op'[t].at \notin Inserts
    BY <1>5 DEF Inserts
  <2> QED
    BY <1>0, <1>2, <1>4, <1>5, <2>1 DEF Pending, InsertAts, PagesOf
<1>7. LookOK(t)'
  BY <1>2, <1>4 DEF LookOK, At
<1>8. At(t, "mint")' /\ call'[t].span = d
  BY <1>0, <1>2, <1>4 DEF At
<1>9. CASE p > m /\ EntriesStay /\ op'[t].at = "returned" /\ ~op'[t].ok
  <2>1. \A q \in Pages : Entry(q)' = Entry(q)
    BY <1>9 DEF EntriesStay
  <2>2. TaskFits(t)'
    BY <1>2, <1>4, <1>9 DEF TaskFits, InsertAts, LookAts, Returned, At
  <2>3. \A q \in PagesOf(d) : Entry(q)' = Null
    <3>1. p .. m = {}
      BY <1>2, <1>9
    <3> QED
      BY <1>2, <1>3, <2>1, <3>1
  <2>4. PendingOK(t)'
    BY <1>6, <1>8, <1>9, <2>3 DEF PendingOK
  <2> QED
    BY <1>2, <1>6, <1>7, <2>1, <2>2, <2>4, TreeKeeps
<1>10. CASE /\ p <= m /\ EntrySet(p, Null) /\ p \in Pages
            /\ op'[t].at = "rollback" /\ op'[t].page = p + 1 /\ SameTask(t)
  <2>1. Entry(p)' = Null /\ \A q \in Pages \ {p} : Entry(q)' = Entry(q)
    BY <1>10 DEF EntrySet
  <2>2. /\ op'[t].at = "rollback" /\ op'[t].page = p + 1 /\ op'[t].last = m /\ op'[t].first = b
    BY <1>0, <1>2, <1>10 DEF SameTask
  <2>3. p \in b .. b + n - 1 /\ p + 1 \in b .. m + 1
    BY <1>2, <1>10
  <2>4. TaskFits(t)'
    BY <1>0, <1>2, <1>4, <2>2, <2>3 DEF TaskFits, InsertAts, LookAts, At
  <2>5. \A q \in PagesOf(d) : Entry(q)' = IF q \in p + 1 .. m THEN d ELSE Null
    <3> SUFFICES ASSUME NEW q \in PagesOf(d)
                 PROVE  Entry(q)' = IF q \in p + 1 .. m THEN d ELSE Null
      OBVIOUS
    <3>1. q \in Pages /\ q \in Nat /\ p \in Nat /\ m \in Int
      BY <1>2, <2>3
    <3>2. CASE q = p
      <4>1. q \notin p + 1 .. m
        BY <3>1, <3>2
      <4> QED
        BY <2>1, <3>2, <4>1
    <3>3. CASE q # p
      <4>1. q \in p + 1 .. m <=> q \in p .. m
        BY <3>1, <3>3
      <4> QED
        BY <1>3, <2>1, <3>1, <3>3, <4>1
    <3> QED
      BY <3>2, <3>3
  <2>6. PendingOK(t)'
    BY <1>6, <1>8, <2>2, <2>5 DEF PendingOK
  <2>7. \A q \in Pages : q \notin Pending(t) => Entry(q)' = Entry(q)
    BY <1>2, <2>1, <2>3
  <2> QED
    BY <1>2, <1>6, <1>7, <2>4, <2>6, <2>7, TreeKeeps
<1> QED
  BY <1>0, <1>1, <1>9, <1>10 DEF TakesBack

(* A thread looks up a neighbour under the lock of its arena: the page      *)
(* leads nowhere, or to a span of another arena, or to one in use.          *)
LEMMA NeighbourFound ==
    ASSUME SpansInv, NEW t \in Threads, Works(t), Pending(t) = {}, NEW q \in Pages
    PROVE  OfArena(Entry(q), call[t].arena)
<1>1. CASE q \notin mapped
  BY <1>1 DEF SpansInv, UnmappedNull, OfArena
<1>2. CASE q \in mapped
  <2>1. PICK d \in InUse : q \in PagesOf(d)
    BY <1>2 DEF SpansInv, Tiles
  <2>2. d \in Descs
    BY DEF InUse
  <2>3. CASE Entry(q) = d
    BY <2>2, <2>3 DEF OfArena
  <2>4. CASE Entry(q) # d
    <3>1. PICK u \in Threads : q \in Pending(u)
      BY <2>1, <2>4 DEF SpansInv, SettledLead
    <3>2. Works(u) /\ u # t
      BY <3>1, PendingPages
    <3>3. call[u].arena # call[t].arena
      BY <3>2, OneWorker
    <3>4. call[u].span = d
      <4>1. q \in PagesOf(call[u].span) /\ call[u].span \in InUse
        BY <3>1, PendingPages
      <4> QED
        BY <2>1, <4>1, SpanOfPage DEF SpansInv
    <3>5. d[1] = call[u].arena
      BY <3>2, <3>4 DEF SpansInv, WorkOK
    <3>6. PendingOK(u)
      BY DEF SpansInv
    <3>7. CASE At(u, "mint")
      BY <2>2, <3>1, <3>3, <3>4, <3>5, <3>6, <3>7 DEF PendingOK, OfArena
    <3>8. CASE ~At(u, "mint")
      BY <3>1, <3>3, <3>6, <3>8 DEF PendingOK, OfArena
    <3> QED
      BY <3>7, <3>8
  <2> QED
    BY <2>3, <2>4
<1> QED
  BY <1>1, <1>2

(* A free looks up the first page of its span, which nobody works on. *)
LEMMA SpanFound ==
    ASSUME SpansInv, NEW t \in Threads, At(t, "find")
    PROVE  /\ Entry(call[t].addr) \in InUse /\ desc[Entry(call[t].addr)].alloc
           /\ SpanRec(Entry(call[t].addr)) = CallSpan(t)
<1>1. PICK d \in InUse : desc[d].alloc /\ CallSpan(t) = SpanRec(d)
  BY DEF SpansInv, Tokens, Out, Given
<1>2. desc[d].base \in PagesOf(d)
  BY SpanPages DEF SpansInv
<1>3. call[t].addr = desc[d].base
  BY <1>1 DEF CallSpan, SpanRec
<1>4. \A u \in Threads : ~(Works(u) /\ call[u].span = d)
  BY <1>1 DEF SpansInv, WorkOK
<1>5. Entry(desc[d].base) = d
  BY <1>2, <1>4, OthersSettled
<1> QED
  BY <1>1, <1>3, <1>5

(* A lookup goes on, or is done. *)
LEMMA LooksUpSpans ==
    ASSUME SpansInv, NEW t \in Threads, TreeOnly(t), LooksUp(t)
    PROVE  SpansInv'
<1>0. PICK q : q = op[t].page
  OBVIOUS
<1>1. /\ op[t].at \in Loads /\ \A p \in Pages : Entry(p)' = Entry(p)
      /\ \/ op'[t].at \in Loads /\ op'[t].page = q
         \/ op'[t].at = "returned" /\ op'[t].data = Entry(q) /\ op'[t].ok
  BY <1>0 DEF LooksUp, EntriesStay
<1>2. call[t].at \in LookAts /\ q = LookPage(t) /\ q \in Pages
  BY <1>0, <1>1, Looking
<1>3. call' = call /\ desc' = desc /\ pool' = pool /\ stranded' = stranded
  BY DEF TreeOnly, memVars
<1>4. call[t].at \notin InsertAts /\ Pending(t) = {} /\ Pending(t)' = {}
  BY <1>2, <1>3 DEF Pending, InsertAts, LookAts
<1>5. TaskFits(t)'
  <2>1. LookPage(t)' = LookPage(t)
    BY <1>3 DEF LookPage, At
  <2> QED
    BY <1>1, <1>2, <1>3, <1>4, <2>1 DEF TaskFits, Returned
<1>6. PendingOK(t)'
  BY <1>4 DEF PendingOK
<1>7. InUse' = InUse /\ \A e : SpanRec(e)' = SpanRec(e)
  BY <1>3 DEF InUse, Strays, SpanRec, Descs, Arenas
<1>8. LookOK(t)'
  <2>1. Returned(t)' => op'[t].data = Entry(q)
    BY <1>1 DEF Returned, Loads
  <2>2. call[t].at \in {"left", "right"} => OfArena(Entry(q), call[t].arena)
    BY <1>2, <1>4, NeighbourFound DEF Works, WorkAts
  <2>3. At(t, "right") => OfArena(call[t].left, call[t].arena)
    BY DEF SpansInv, LookOK
  <2>4. At(t, "find") => /\ Entry(q) \in InUse /\ desc[Entry(q)].alloc
                         /\ SpanRec(Entry(q)) = CallSpan(t)
    <3>1. At(t, "find") => q = call[t].addr
      BY <1>2 DEF LookPage, At
    <3> QED
      BY <3>1, SpanFound
  <2>5. PICK e : e = Entry(q)
    OBVIOUS
  <2>6. CallSpan(t)' = CallSpan(t)
    BY <1>3 DEF CallSpan
  <2> QED
    BY <1>3, <1>7, <2>1, <2>2, <2>3, <2>4, <2>5, <2>6 DEF LookOK, At, OfArena, Descs, Arenas
<1> QED
  BY <1>1, <1>4, <1>5, <1>6, <1>8, TreeKeeps

(* Every step of the tree *)
LEMMA TrieSpans ==
    ASSUME SpansInv, NEW t \in Threads, Trie(t)
    PROVE  SpansInv'
<1>1. TrieInv /\ TaskOK(t) /\ TrieStep(t)
  BY TasksOK DEF SpansInv, Trie
<1>2. TrieInv' /\ Only(t) /\ Does(t)
  BY <1>1, TrieDoes
<1>3. TreeOnly(t)
  BY <1>2 DEF Trie, TreeOnly, epochVars
<1> QED
  BY <1>2, <1>3, AdvanceSpans, StoreSpans, GivesUpSpans, TakesBackSpans, LooksUpSpans DEF Does

-----------------------------------------------------------------------------
(* The whole *)

(* At first the tree is its root, and no operation is on its way. *)
LEMMA TrieInitInv == TrieInit => TrieInv /\ \A p \in Pages : Entry(p) = Null
<1> SUFFICES ASSUME TrieInit PROVE TrieInv /\ \A p \in Pages : Entry(p) = Null
  OBVIOUS
<1>1. /\ node = [n \in 0 .. MaxNodes - 1 |-> EmptyNode] /\ nnodes = 1
      /\ op = [t \in Threads |-> NoOp]
  BY DEF TrieInit
<1>2. MaxNodes \in Nat \ {0}
  BY PageTrieAssumption
<1>3. \A i \in Slots : Kid(i) = Null
  BY <1>1, <1>2 DEF Kid, EmptyNode, Root
<1>4. \A i, j \in Slots : LeafAt(i, j) = Null
  BY <1>3 DEF LeafAt
<1>5. \A i, j, k \in Slots : Slot(i, j, k) = Null
  BY <1>4 DEF Slot
<1>6. TrieTree
  BY <1>1, <1>2, <1>3, <1>4 DEF TrieTree, NodesTyped, FreshEmpty, KidsApart, LeavesApart, EmptyNode
<1>7. OpsTyped /\ \A t \in Threads : OpPath(t)
  BY <1>1 DEF OpsTyped, IsOp, NoOp, OpPath
<1>8. \A p \in Pages : Entry(p) = Null
  BY <1>5, PageIdx DEF Entry
<1> QED
  BY <1>6, <1>7, <1>8 DEF TrieInv

(* Nothing is mapped, and every descriptor is in its pool. *)
LEMMA SpansInit == Init => SpansInv
<1> SUFFICES ASSUME Init PROVE SpansInv
  OBVIOUS
<1>1. TrieInv /\ \A p \in Pages : Entry(p) = Null
  BY TrieInitInv DEF Init
<1>2. /\ desc = [d \in Descs |-> [base |-> 0, len |-> 0, alloc |-> FALSE, binned |-> FALSE]]
      /\ pool = [a \in Arenas |-> [i \in 1 .. PoolSize |-> i]] /\ mapped = {} /\ stranded = {}
      /\ arenaLock = [a \in Arenas |-> Null] /\ call = [t \in Threads |-> NoCall]
      /\ held = {} /\ leaked = {} /\ op = [t \in Threads |-> NoOp]
  BY DEF Init, TrieInit
<1>3. CallsOK
  BY EpochInit DEF EpochInv
<1>4. PoolSize \in Nat
  BY GlobSpansAssumption
<1>5. \A a \in Arenas : /\ pool[a] \in Seq(1 .. PoolSize) /\ Distinct(pool[a])
                        /\ ToSet(pool[a]) = 1 .. PoolSize
  <2> SUFFICES ASSUME NEW q, q = [i \in 1 .. PoolSize |-> i]
               PROVE  q \in Seq(1 .. PoolSize) /\ Distinct(q) /\ ToSet(q) = 1 .. PoolSize
    BY <1>2
  <2>1. q \in [1 .. PoolSize -> 1 .. PoolSize]
    OBVIOUS
  <2>2. q \in Seq(1 .. PoolSize) /\ Len(q) = PoolSize
    BY <1>4, <2>1
  <2>3. Distinct(q)
    BY <1>4, <2>2 DEF Distinct
  <2>4. ToSet(q) = 1 .. PoolSize
    BY <1>4, <2>2 DEF ToSet
  <2> QED
    BY <2>2, <2>3, <2>4
<1>6. InUse = {}
  BY <1>5 DEF InUse, Strays, Descs
<1>7. DescsTyped
  <2>1. desc \in [Descs -> [base : Nat, len : Nat, alloc : BOOLEAN, binned : BOOLEAN]]
    BY <1>2
  <2>2. pool \in [Arenas -> Seq(1 .. PoolSize)]
    BY <1>2, <1>5
  <2> QED
    BY <1>2, <1>5, <2>1, <2>2 DEF DescsTyped, Strays
<1>8. Tiles /\ FlagsOK /\ UnmappedNull /\ SettledLead
  BY <1>1, <1>2, <1>6 DEF Tiles, FlagsOK, UnmappedNull, SettledLead
<1>9. \A t \in Threads : call[t].at = "idle" /\ op[t].at = "idle"
  BY <1>2 DEF NoCall, NoOp
<1>10. Tokens
  BY <1>2, <1>6, <1>9 DEF Tokens, Given, Out, Passes, PassAts, At
<1>11. \A t \in Threads : WorkOK(t) /\ TaskFits(t) /\ PendingOK(t) /\ LookOK(t)
  BY <1>9 DEF WorkOK, TaskFits, PendingOK, LookOK, Pending, Works, Passes, WorkAts, PassAts,
              InsertAts, LookAts, At
<1> QED
  BY <1>1, <1>3, <1>7, <1>8, <1>10, <1>11 DEF SpansInv

(* Where nothing changes *)
LEMMA StutterSpans == ASSUME SpansInv, UNCHANGED vars PROVE SpansInv'
<1>1. /\ UNCHANGED <<node, nnodes, op, desc, pool, stranded, mapped, arenaLock, call, held, leaked, alloc>>
  BY DEF vars, trieVars
<1>2. /\ CallsOK' = CallsOK /\ TrieInv' = TrieInv /\ DescsTyped' = DescsTyped /\ InUse' = InUse
      /\ \A p : Entry(p)' = Entry(p)
  BY <1>1 DEF CallsOK, IsCall, TrieInv, TrieTree, NodesTyped, FreshEmpty, KidsApart, LeavesApart,
              OpsTyped, IsOp, OpPath, Kid, LeafAt, Entry, Slot, Idx1, Idx2, Idx3, Slots, Pages,
              EmptyNode, DescsTyped, InUse, Strays, Descs, Arenas, Distinct
<1>3. /\ \A d : PagesOf(d)' = PagesOf(d) /\ SpanRec(d)' = SpanRec(d)
      /\ \A u : /\ Works(u)' = Works(u) /\ Passes(u)' = Passes(u) /\ Out(u)' = Out(u)
                /\ CallSpan(u)' = CallSpan(u) /\ Pending(u)' = Pending(u)
                /\ \A at : At(u, at)' = At(u, at)
  BY <1>1 DEF PagesOf, SpanRec, Works, Passes, Out, CallSpan, Pending, At
<1>4. Given' = Given
  BY <1>1, GivenSame
<1>5. Tiles' /\ FlagsOK' /\ Tokens' /\ UnmappedNull' /\ SettledLead'
  <2>1. Tiles'
    BY <1>1, <1>2, TilesSame DEF SpansInv
  <2>2. FlagsOK'
    BY <1>1, <1>2, <1>3 DEF SpansInv, FlagsOK, FlagOK
  <2>3. Tokens'
    BY <1>1, <1>3, <1>4 DEF SpansInv, Tokens
  <2>4. UnmappedNull'
    BY <1>1, <1>2 DEF SpansInv, UnmappedNull, Pages
  <2>5. SettledLead'
    BY <1>2, <1>3 DEF SpansInv, SettledLead
  <2> QED
    BY <2>1, <2>2, <2>3, <2>4, <2>5
<1>6. ASSUME NEW t \in Threads PROVE WorkOK(t)' /\ TaskFits(t)' /\ PendingOK(t)' /\ LookOK(t)'
  <2>1. WorkOK(t) /\ TaskFits(t) /\ PendingOK(t) /\ LookOK(t)
    BY DEF SpansInv
  <2>2. WorkOK(t)'
    BY <1>1, <1>2, <1>3, <2>1, SMTT(20) DEF WorkOK, Arenas
  <2>3. TaskFits(t)'
    BY <1>1, <1>2, <1>3, <2>1 DEF TaskFits, Returned, LookPage
  <2>4. PendingOK(t)' /\ LookOK(t)'
    BY <1>1, <1>2, <1>3, <2>1 DEF PendingOK, LookOK, Returned, OfArena, Descs, Arenas
  <2> QED
    BY <2>2, <2>3, <2>4
<1> QED
  BY <1>2, <1>5, <1>6 DEF SpansInv

(* A step of any thread keeps the invariant. *)
LEMMA SpansStep == EpochInv /\ ClaimsInv /\ SpansInv /\ [Next]_vars => SpansInv'
<1> SUFFICES ASSUME EpochInv, ClaimsInv, SpansInv, [Next]_vars PROVE SpansInv'
  OBVIOUS
<1>1. CallsOK' /\ arena_idx \in Arenas
  BY EpochStep DEF EpochInv, ClaimsInv
<1>2. ASSUME NEW t \in Threads, \E n \in Requests : Malloc(t, n) PROVE SpansInv'
  BY <1>1, <1>2, MallocSpans
<1>3. ASSUME NEW t \in Threads, \E h \in held : Free(t, h) PROVE SpansInv'
  BY <1>1, <1>3, FreeSpans
<1>4. ASSUME NEW t \in Threads, Continue(t) PROVE SpansInv'
  <2>1. CASE ClaimArena(t) \/ PopBin(t) \/ Mint(t) \/ Give(t)
    BY <1>1, <2>1, ClaimSpans, PopSpans, MintSpans, GiveSpans
  <2>2. CASE Minted(t)
    BY <1>1, <2>2, MintedSpans, UnmapSpans
  <2>3. CASE CutOut(t)
    BY <1>1, <2>3, CutSpans, CutFailsSpans
  <2>4. CASE EpochCheck(t) \/ EpochLoad(t) \/ EpochStore(t) \/ Decay(t) \/ EpochReset(t)
    BY <1>1, <2>4, EpochSpans, DeliverSpans, DecaySpans
  <2>5. CASE PutSpan(t) \/ GetRight(t) \/ MergeAdj(t) \/ PutDone(t)
    BY <1>1, <2>5, PutSpans, GetRightSpans, MergeSpans, PutDoneSpans
  <2>6. CASE Trie(t)
    BY <2>6, TrieSpans
  <2> QED
    BY <1>4, <2>1, <2>2, <2>3, <2>4, <2>5, <2>6 DEF Continue
<1>5. CASE UNCHANGED vars
  BY <1>5, StutterSpans
<1> QED
  BY <1>2, <1>3, <1>4, <1>5 DEF Next, Terminated

(* What a rollback could not unmap is never counted as mapped again. *)
StraysApart == \A s \in stranded : SpanRange(s) \cap mapped = {}

(* The steps that map and unmap nothing *)
LEMMA NoneStranded ==
    ASSUME NEW t \in Threads,
           \/ \E n \in Requests : Malloc(t, n)
           \/ \E h \in held : Free(t, h)
           \/ ClaimArena(t) \/ PopBin(t) \/ CutOut(t) \/ Give(t)
           \/ EpochCheck(t) \/ EpochLoad(t) \/ EpochStore(t) \/ Decay(t) \/ EpochReset(t)
           \/ PutSpan(t) \/ GetRight(t) \/ MergeAdj(t) \/ PutDone(t)
           \/ Trie(t)
    PROVE  UNCHANGED <<stranded, mapped>>
<1> USE DEF memVars
<1>1. CASE \/ \E n \in Requests : Malloc(t, n)
           \/ \E h \in held : Free(t, h)
  BY <1>1 DEF Malloc, Free
<1>2. CASE ClaimArena(t) \/ PopBin(t) \/ CutOut(t) \/ Give(t)
  BY <1>2 DEF ClaimArena, PopBin, CutOut, Give
<1>3. CASE EpochCheck(t) \/ EpochLoad(t) \/ EpochStore(t) \/ Decay(t) \/ EpochReset(t)
  BY <1>3 DEF EpochCheck, EpochLoad, EpochStore, Decay, EpochReset
<1>4. CASE PutSpan(t) \/ GetRight(t)
  BY <1>4 DEF PutSpan, GetRight
<1>5. CASE MergeAdj(t) \/ PutDone(t)
  BY <1>5 DEF MergeAdj, PutDone
<1>6. CASE Trie(t)
  BY <1>6 DEF Trie
<1> QED
  BY <1>1, <1>2, <1>3, <1>4, <1>5, <1>6

(* New pages are taken where nothing is mapped, stranded or not. *)
LEMMA MintApart ==
    ASSUME StraysApart, NEW t \in Threads, Mint(t)
    PROVE  StraysApart'
<1>0. PICK a, k : /\ a = call[t].arena
                  /\ k = (IF DefaultPages > call[t].want THEN DefaultPages ELSE call[t].want)
  OBVIOUS
<1>1. CASE Rooms(k) = {} \/ pool[a] = <<>>
  <2>1. stranded' = stranded /\ mapped' = mapped
    BY <1>0, <1>1 DEF Mint, memVars
  <2> QED
    BY <2>1 DEF StraysApart, SpanRange
<1>2. CASE ~(Rooms(k) = {} \/ pool[a] = <<>>)
  <2>0. PICK b : b = Min(Rooms(k))
    OBVIOUS
  <2>1. stranded' = stranded /\ mapped' = mapped \cup (b .. b + k - 1)
    BY <1>0, <1>2, <2>0 DEF Mint
  <2>2. b \in Rooms(k)
    <3>1. Rooms(k) \subseteq Nat /\ Rooms(k) # {}
      BY <1>2, GlobSpansAssumption DEF Rooms
    <3> QED
      BY <2>0, <3>1, LeastOf
  <2>3. \A s \in stranded : (b .. b + k - 1) \cap SpanRange(s) = {}
    BY <2>2 DEF Rooms
  <2> HIDE DEF Rooms
  <2> QED
    BY <2>1, <2>3 DEF StraysApart, SpanRange
<1> QED
  BY <1>1, <1>2

(* A rollback gives the pages up, whether or not it can unmap them. *)
LEMMA MintedApart ==
    ASSUME StraysApart, NEW t \in Threads, Minted(t)
    PROVE  StraysApart'
<1>1. PICK d : d = call[t].span
  OBVIOUS
<1>2. CASE op[t].ok
  <2>1. stranded' = stranded /\ mapped' = mapped
    BY <1>2 DEF Minted, memVars
  <2> QED
    BY <2>1 DEF StraysApart, SpanRange
<1>3. CASE ~op[t].ok
  <2> DEFINE s == [addr |-> desc[d].base, len |-> desc[d].len, span |-> d]
  <2>1. mapped' = mapped \ PagesOf(d) /\ stranded' \subseteq stranded \cup {s}
    BY <1>1, <1>3 DEF Minted, SpanDestroy
  <2>2. SpanRange(s) = PagesOf(d)
    BY DEF SpanRange, PagesOf
  <2> HIDE DEF s
  <2>3. \A r \in stranded' : SpanRange(r) \cap mapped' = {}
    BY <2>1, <2>2 DEF StraysApart
  <2> QED
    BY <2>3 DEF StraysApart, SpanRange
<1> QED
  BY <1>2, <1>3

(* A step of any thread keeps what is stranded apart. *)
LEMMA StraysStep == StraysApart /\ [Next]_vars => StraysApart'
<1> SUFFICES ASSUME StraysApart, [Next]_vars PROVE StraysApart'
  OBVIOUS
<1>1. CASE UNCHANGED <<stranded, mapped>>
  BY <1>1 DEF StraysApart, SpanRange
<1>2. CASE \E t \in Threads : Mint(t) \/ Minted(t)
  BY <1>2, MintApart, MintedApart
<1>3. CASE UNCHANGED vars
  BY <1>1, <1>3 DEF vars
<1> QED
  BY <1>1, <1>2, <1>3, NoneStranded DEF Next, Continue, Terminated

(* The three invariants together: the pages need the calls of the epoch and *)
(* the index of the claims, and those need nothing of the pages.            *)
LEMMA SpansAlways == Spec => []SpansInv
<1> DEFINE Inv == EpochInv /\ ClaimsInv /\ SpansInv
<1>1. Init => Inv
  BY EpochInit, ClaimsInit, SpansInit
<1>2. Inv /\ [Next]_vars => Inv'
  BY EpochStep, ClaimsStep, SpansStep
<1>3. Inv => SpansInv
  OBVIOUS
<1> QED
  BY <1>1, <1>2, <1>3, PTL DEF Spec

(* In every behaviour, for any number of threads, arenas, descriptors and   *)
(* pages and whichever nodes cannot be had: the three unlocked loads of a   *)
(* free end at the descriptor of exactly the span that is freed, whatever   *)
(* other threads split, merge, map or roll back meanwhile (pagetrie.c:270). *)
THEOREM HoldersFindSpans == Spec => []HolderFindsSpan
  BY Finds, SpansAlways, PTL

(* In every behaviour each mapped page is in exactly one place: a bin, a    *)
(* span the program holds, the hands of one call, or lost by a decay that   *)
(* failed; and a page that is not mapped, or that a rollback could not      *)
(* unmap, is in none (scache.c:241, scache.c:261).                          *)
THEOREM PagesAreAccounted == Spec => []PagesAccounted
<1>1. Init => StraysApart
  BY DEF Init, StraysApart
<1>2. SpansInv /\ StraysApart => PagesAccounted
  BY Accounted DEF PagesAccounted, StraysApart
<1> QED
  BY <1>1, <1>2, StraysStep, SpansAlways, PTL DEF Spec

(* The insert of a span that was cut or merged is never taken back.         *)
KnownPagesStored ==
    \A t \in Threads : call[t].at \in {"cutting", "merge"} =>
        op[t].at # "rollback" /\ (Returned(t) => op[t].ok)

(* In every behaviour, however many threads insert and whatever nodes the   *)
(* pool cannot give: the inserts whose results the code throws away, saying *)
(* that they cannot fail (scache.c:339, scache.c:387), do not fail.         *)
THEOREM ReinsertsSucceed == Spec => []KnownPagesStored
<1>1. SpansInv => KnownPagesStored
  <2> SUFFICES ASSUME SpansInv, NEW t \in Threads, call[t].at \in {"cutting", "merge"}
               PROVE  op[t].at # "rollback" /\ (Returned(t) => op[t].ok)
    BY DEF KnownPagesStored
  <2> QED
    BY DEF SpansInv, TaskFits, InsertAts, At, Returned, Inserts
<1> QED
  BY <1>1, SpansAlways, PTL

(* In every behaviour the nodes of the pagetrie are a tree in which no two  *)
(* pages share a slot, whatever inserts gave up and took back               *)
(* (pagetrie.c:171).                                                        *)
THEOREM TrieStaysTree == Spec => []TrieTree
<1>1. SpansInv => TrieTree
  BY DEF SpansInv, TrieInv
<1> QED
  BY <1>1, SpansAlways, PTL

(* Each access of the pagetrie is a step of a map from pages to             *)
(* descriptors: it changes nothing, stores one page, or clears one; an      *)
(* insert gives up only where nothing is stored yet, and a lookup without   *)
(* the lock returns what the map holds at its last load (pagetrie.c:299).   *)
THEOREM TrieImplementsMap == Spec => [][\A t \in Threads : TrieStep(t) => Does(t)]_vars
<1>1. SpansInv => \A t \in Threads : TrieStep(t) => Does(t)
  <2> SUFFICES ASSUME SpansInv, NEW t \in Threads, TrieStep(t) PROVE Does(t)
    OBVIOUS
  <2> QED
    BY TasksOK, TrieDoes DEF SpansInv
<1> QED
  BY <1>1, SpansAlways, PTL
=============================================================================
