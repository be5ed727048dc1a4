----------------------------- MODULE PailProofs -----------------------------
(***************************************************************************)
(* Proofs about Pail for any number of spans, of blocks in a slab and of   *)
(* threads, and for batches of any size: registry, slab count and bitmaps  *)
(* agree after every step, no block is in two places, and the slab that a  *)
(* thread found without the lock is still a slab when it has the lock.     *)
(***************************************************************************)
EXTENDS Pail, DistinctSeqs, FiniteSetTheorems

PailState == [free : [Spans -> {Null} \cup SUBSET Index], slabs : Seq(Spans), nslabs : Nat]

SlabsOf(p) == {s \in Spans : p.free[s] # Null}

(* What registry, counter and bitmaps of a pail say of one another when    *)
(* the blocks `away' are those that no bitmap has.                         *)
Consistent(p, away) ==
    /\ p \in PailState
    /\ Distinct(p.slabs)
    /\ ToSet(p.slabs) \cap SlabsOf(p) = {s \in SlabsOf(p) : p.free[s] # {}}
    /\ p.nslabs = Cardinality(SlabsOf(p) \cup ToSet(p.slabs))
    /\ away \subseteq Block
    /\ \A b \in away : b[1] \in SlabsOf(p)
    /\ \A s \in SlabsOf(p), i \in Index : i \in p.free[s] <=> <<s, i>> \notin away

Away == out \cup Putting \cup Taking

(* The places outside the slabs do not overlap. *)
Apart == /\ batch \in [left : Nat, got : Seq(Block), failed : BOOLEAN]
         /\ Distinct(batch.got)
         /\ putting \in [Threads -> {Null} \cup Block]
         /\ \A t, u \in Threads : t # u /\ putting[t] = putting[u] => putting[t] = Null
         /\ out \cap Putting = {} /\ Taking \cap (out \cup Putting) = {}
         /\ freed \in BOOLEAN

Inv == Consistent(Now, Away) /\ Apart

-----------------------------------------------------------------------------
(* A slab with a free block has a lowest one. *)
LEMMA MinOf == ASSUME NEW S \in SUBSET Nat, S # {} PROVE Min(S) \in S
<1> DEFINE R == OpToRel(<, Nat)
<1>1. IsWellFoundedOn(R, Nat)
  BY NatLessThanWellFounded
<1>2. \A x, y \in Nat : <<x, y>> \in R <=> x < y
  BY DEF OpToRel
<1> HIDE DEF R
<1>3. PICK m \in S : \A y \in S : ~(<<y, m>> \in R)
  BY <1>1, WFMin
<1>4. \A y \in S : m <= y
  <2> SUFFICES ASSUME NEW y \in S PROVE m <= y
    OBVIOUS
  <2>1. y \in Nat /\ m \in Nat /\ ~(<<y, m>> \in R)
    BY <1>3
  <2>2. ~(y < m)
    BY <1>2, <2>1
  <2> QED
    BY <2>1, <2>2
<1> QED
  BY <1>4 DEF Min

-----------------------------------------------------------------------------
(* The functions of pail.h *)

(* Sizes, and what is not a set of bits *)
LEMMA SpansFinite ==
    ASSUME NEW p \in PailState, NEW S \in SUBSET Spans
    PROVE  /\ IsFiniteSet(S) /\ Cardinality(S) \in Nat
           /\ Null # {} /\ Null # Index /\ Index # {}
           /\ \A bits \in SUBSET Index : bits # Null
<1>1. IsFiniteSet(S) /\ Cardinality(S) \in Nat
  BY PailAssumption, FS_Subset, FS_CardinalityType
<1>2. Index # {} /\ {} \in SUBSET Index /\ Index \in SUBSET Index
  <2>1. 0 \in Index
    BY PailAssumption DEF Index
  <2> QED
    BY <2>1
<1> QED
  BY <1>1, <1>2, PailAssumption

(* The first slab of an empty registry is counted and registered. *)
LEMMA MintedConsistent ==
    ASSUME NEW p, NEW away, Consistent(p, away), p.slabs = <<>>,
           NEW s \in Spans, p.free[s] = Null
    PROVE  LET q == Minted(p, s)
           IN  /\ Consistent(q, away)
               /\ q.slabs # <<>> /\ Head(q.slabs) = s /\ q.free[s] = Index
               /\ \A u \in Spans : u # s => q.free[u] = p.free[u]
<1> DEFINE q == Minted(p, s)
<1>1. /\ p \in PailState /\ Distinct(p.slabs) /\ p.slabs \in Seq(Spans) /\ p.nslabs \in Nat
      /\ p.free \in [Spans -> {Null} \cup SUBSET Index]
  BY DEF Consistent, PailState
<1>2. /\ q.free = [p.free EXCEPT ![s] = Index] /\ q.slabs = <<s>> \o p.slabs
      /\ q.nslabs = p.nslabs + 1 /\ q \in PailState
  <2> DEFINE slabs2 == <<s>> \o p.slabs
  <2>1. slabs2 \in Seq(Spans)
    BY <1>1
  <2>2. q = [p EXCEPT !.free[s] = Index, !.slabs = slabs2, !.nslabs = @ + 1]
    BY DEF Minted
  <2> HIDE DEF slabs2, q
  <2>3. /\ q.free = [p.free EXCEPT ![s] = Index] /\ q.slabs = slabs2
        /\ q.nslabs = p.nslabs + 1
    BY <1>1, <2>2 DEF PailState
  <2>4. q \in PailState
    <3>1. /\ p.nslabs + 1 \in Nat
          /\ [p.free EXCEPT ![s] = Index] \in [Spans -> {Null} \cup SUBSET Index]
      BY <1>1
    <3> QED
      BY <1>1, <2>1, <2>2, <3>1 DEF PailState
  <2> QED
    BY <2>3, <2>4 DEF slabs2
<1> HIDE DEF q
<1>3. ToSet(p.slabs) = {}
  BY DEF ToSet
<1>4. /\ Distinct(q.slabs) /\ ToSet(q.slabs) = {s} /\ q.slabs # <<>> /\ Head(q.slabs) = s
  <2>1. s \notin ToSet(p.slabs)
    BY <1>3
  <2> DEFINE r == <<s>> \o p.slabs
  <2>2. Distinct(r) /\ ToSet(r) = ToSet(p.slabs) \cup {s} /\ r # <<>> /\ Head(r) = s
    <3>1. PICK w : w = p.slabs
      OBVIOUS
    <3>2. w \in Seq(Spans) /\ Distinct(w) /\ s \in Spans /\ s \notin ToSet(w)
      BY <1>1, <2>1, <3>1
    <3>3. /\ Distinct(<<s>> \o w) /\ ToSet(<<s>> \o w) = ToSet(w) \cup {s}
          /\ <<s>> \o w # <<>> /\ Head(<<s>> \o w) = s
      BY ONLY <3>2, ConsSeq
    <3> QED
      BY <3>1, <3>3
  <2>3. q.slabs = r
    BY <1>2
  <2> HIDE DEF r
  <2> QED
    BY <1>3, <2>2, <2>3
<1>5. /\ q.free[s] = Index /\ \A u \in Spans : u # s => q.free[u] = p.free[u]
  BY <1>1, <1>2
<1>6. Index # Null /\ Index # {}
  BY <1>1, SpansFinite
<1>7. SlabsOf(q) = SlabsOf(p) \cup {s} /\ s \notin SlabsOf(p)
  BY <1>5, <1>6 DEF SlabsOf
<1>8. q.nslabs = Cardinality(SlabsOf(q) \cup ToSet(q.slabs))
  <2>1. SlabsOf(p) \in SUBSET Spans
    BY DEF SlabsOf
  <2>2. IsFiniteSet(SlabsOf(p)) /\ p.nslabs = Cardinality(SlabsOf(p) \cup {})
    BY <1>1, <1>3, <2>1, SpansFinite DEF Consistent
  <2>3. Cardinality(SlabsOf(p) \cup {s}) = Cardinality(SlabsOf(p)) + 1
    BY <1>7, <2>2, FS_AddElement
  <2>4. SlabsOf(q) \cup ToSet(q.slabs) = SlabsOf(p) \cup {s}
    BY <1>4, <1>7
  <2>5. SlabsOf(p) \cup {} = SlabsOf(p)
    OBVIOUS
  <2> QED
    BY <1>2, <2>2, <2>3, <2>4, <2>5
<1>9. ToSet(q.slabs) \cap SlabsOf(q) = {u \in SlabsOf(q) : q.free[u] # {}}
  <2>1. \A u \in SlabsOf(p) : p.free[u] = {}
    BY <1>3 DEF Consistent
  <2> QED
    BY <1>4, <1>5, <1>6, <1>7, <2>1 DEF SlabsOf
<1>10. \A u \in SlabsOf(q), i \in Index : i \in q.free[u] <=> <<u, i>> \notin away
  <2>1. \A i \in Index : <<s, i>> \notin away
    <3>1. \A i \in Index : <<s, i>>[1] = s
      OBVIOUS
    <3> QED
      BY <3>1, <1>7 DEF Consistent
  <2> QED
    BY <1>5, <1>7, <2>1 DEF Consistent, SlabsOf
<1> QED
  BY <1>2, <1>4, <1>5, <1>7, <1>8, <1>9, <1>10 DEF Consistent, q

(* The lowest block of the slab at the head goes out, and the slab leaves  *)
(* the registry with its last free block.                                  *)
LEMMA TakenConsistent ==
    ASSUME NEW p, NEW away, Consistent(p, away), p.slabs # <<>>,
           p.free[Head(p.slabs)] # Null
    PROVE  LET s == Head(p.slabs)
           IN  /\ NextBlock(p) \in Block \ away
               /\ Consistent(Taken(p), away \cup {NextBlock(p)})
               /\ Taken(p).nslabs = p.nslabs
               /\ Taken(p).free[s] # Index /\ Taken(p).free[s] # Null /\ s \in Spans
               /\ \A u \in Spans : u # s => Taken(p).free[u] = p.free[u]
<1> DEFINE s == Head(p.slabs)
           i == Min(p.free[s])
           q == Taken(p)
           slabs2 == IF p.free[s] = {i} THEN Tail(p.slabs) ELSE p.slabs
<1>1. /\ p \in PailState /\ Distinct(p.slabs) /\ p.slabs \in Seq(Spans) /\ p.nslabs \in Nat
      /\ p.free \in [Spans -> {Null} \cup SUBSET Index]
  BY DEF Consistent, PailState
<1>2. /\ s \in ToSet(p.slabs) /\ s \in Spans
      /\ Tail(p.slabs) \in Seq(Spans) /\ Distinct(Tail(p.slabs))
      /\ ToSet(Tail(p.slabs)) = ToSet(p.slabs) \ {s}
  BY <1>1, TailSeq, ToSetSeq
<1> HIDE DEF s
<1>3. s \in SlabsOf(p) /\ p.free[s] # {} /\ p.free[s] \in SUBSET Index
  BY <1>1, <1>2 DEF Consistent, SlabsOf, s
<1>4. i \in p.free[s] /\ i \in Index
  <2>1. p.free[s] \in SUBSET Nat
    BY <1>3 DEF Index
  <2> QED
    BY <1>3, <2>1, MinOf
<1>5. NextBlock(p) = <<s, i>>
  BY DEF NextBlock, s
<1> HIDE DEF i
<1>6. /\ q.free = [p.free EXCEPT ![s] = @ \ {i}] /\ q.slabs = slabs2
      /\ q.nslabs = p.nslabs /\ q \in PailState
  <2>1. q = [p EXCEPT !.free[s] = @ \ {i}, !.slabs = slabs2]
    BY DEF Taken, s, i
  <2>2. slabs2 \in Seq(Spans)
    BY <1>1, <1>2
  <2> HIDE DEF slabs2, q
  <2> QED
    BY <1>1, <1>2, <1>3, <2>1, <2>2 DEF PailState
<1> HIDE DEF q
<1>7. /\ q.free[s] = p.free[s] \ {i} /\ q.free[s] \in SUBSET Index
      /\ \A u \in Spans : u # s => q.free[u] = p.free[u]
  BY <1>1, <1>2, <1>3, <1>6
<1>8. q.free[s] # Null /\ q.free[s] # Index
  BY <1>1, <1>4, <1>7, SpansFinite
<1>9. SlabsOf(q) = SlabsOf(p)
  BY <1>2, <1>3, <1>7, <1>8 DEF SlabsOf
<1>10. Distinct(q.slabs) /\ ToSet(q.slabs) = IF q.free[s] = {} THEN ToSet(p.slabs) \ {s}
                                             ELSE ToSet(p.slabs)
  <2>1. q.free[s] = {} <=> p.free[s] = {i}
    BY <1>4, <1>7
  <2> QED
    BY <1>1, <1>2, <1>6, <2>1
<1>11. ToSet(q.slabs) \cap SlabsOf(q) = {u \in SlabsOf(q) : q.free[u] # {}}
  BY <1>2, <1>7, <1>9, <1>10 DEF Consistent, SlabsOf
<1>12. SlabsOf(q) \cup ToSet(q.slabs) = SlabsOf(p) \cup ToSet(p.slabs)
  BY <1>3, <1>9, <1>10
<1>13. <<s, i>> \in Block \ away /\ <<s, i>>[1] = s
  BY <1>2, <1>3, <1>4 DEF Consistent, Block
<1>14. \A u \in SlabsOf(q), j \in Index : j \in q.free[u] <=> <<u, j>> \notin away \cup {<<s, i>>}
  <2> SUFFICES ASSUME NEW u \in SlabsOf(q), NEW j \in Index
               PROVE  j \in q.free[u] <=> <<u, j>> \notin away \cup {<<s, i>>}
    OBVIOUS
  <2>1. j \in p.free[u] <=> <<u, j>> \notin away
    BY <1>9 DEF Consistent
  <2>2. <<u, j>> = <<s, i>> <=> u = s /\ j = i
    OBVIOUS
  <2> QED
    BY <1>4, <1>7, <2>1, <2>2 DEF SlabsOf
<1>15. Consistent(q, away \cup {<<s, i>>})
  BY <1>3, <1>6, <1>9, <1>10, <1>11, <1>12, <1>13, <1>14 DEF Consistent
<1> QED
  BY <1>2, <1>5, <1>6, <1>7, <1>8, <1>13, <1>15 DEF q, s

(* A block comes back to its slab, which is registered if it had none. *)
LEMMA PutBackConsistent ==
    ASSUME NEW p, NEW away, Consistent(p, away), NEW b \in away
    PROVE  LET q == PutBack(p, b)
           IN  /\ Consistent(q, away \ {b})
               /\ q.nslabs = p.nslabs /\ b[1] \in ToSet(q.slabs) /\ b[1] \in SlabsOf(q)
               /\ \A u \in Spans : u # b[1] => q.free[u] = p.free[u]
<1> DEFINE s == b[1]
           i == b[2]
           q == PutBack(p, b)
           slabs2 == IF p.free[s] = {} THEN <<s>> \o p.slabs ELSE p.slabs
<1>1. /\ p \in PailState /\ Distinct(p.slabs) /\ p.slabs \in Seq(Spans) /\ p.nslabs \in Nat
      /\ p.free \in [Spans -> {Null} \cup SUBSET Index]
  BY DEF Consistent, PailState
<1>2. b = <<s, i>> /\ s \in SlabsOf(p) /\ s \in Spans /\ i \in Index
  BY DEF Consistent, Block, SlabsOf
<1>3. q = [p EXCEPT !.free[s] = @ \cup {i}, !.slabs = slabs2]
  BY DEF PutBack
<1> HIDE DEF s, i, q
<1>4. p.free[s] \in SUBSET Index /\ i \notin p.free[s]
  BY <1>1, <1>2 DEF Consistent, SlabsOf
<1>5. s \in ToSet(p.slabs) <=> p.free[s] # {}
  BY <1>2 DEF Consistent
<1>6. slabs2 \in Seq(Spans) /\ Distinct(slabs2) /\ ToSet(slabs2) = ToSet(p.slabs) \cup {s}
  BY <1>1, <1>2, <1>5, ConsSeq
<1> HIDE DEF slabs2
<1>7. /\ q.free = [p.free EXCEPT ![s] = @ \cup {i}] /\ q.slabs = slabs2
      /\ q.nslabs = p.nslabs /\ q \in PailState
  BY <1>1, <1>2, <1>3, <1>4, <1>6 DEF PailState
<1>8. /\ q.free[s] = p.free[s] \cup {i} /\ q.free[s] \in SUBSET Index
      /\ \A u \in Spans : u # s => q.free[u] = p.free[u]
  BY <1>1, <1>2, <1>4, <1>7
<1>9. q.free[s] # Null /\ q.free[s] # {}
  BY <1>1, <1>8, SpansFinite
<1>10. SlabsOf(q) = SlabsOf(p)
  BY <1>2, <1>8, <1>9 DEF SlabsOf
<1>11. ToSet(q.slabs) \cap SlabsOf(q) = {u \in SlabsOf(q) : q.free[u] # {}}
  BY <1>2, <1>6, <1>7, <1>8, <1>9, <1>10 DEF Consistent, SlabsOf
<1>12. SlabsOf(q) \cup ToSet(q.slabs) = SlabsOf(p) \cup ToSet(p.slabs)
  BY <1>2, <1>6, <1>7, <1>10
<1>13. \A u \in SlabsOf(q), j \in Index : j \in q.free[u] <=> <<u, j>> \notin away \ {b}
  <2> SUFFICES ASSUME NEW u \in SlabsOf(q), NEW j \in Index
               PROVE  j \in q.free[u] <=> <<u, j>> \notin away \ {b}
    OBVIOUS
  <2>1. j \in p.free[u] <=> <<u, j>> \notin away
    BY <1>10 DEF Consistent
  <2>2. <<u, j>> = b <=> u = s /\ j = i
    BY <1>2
  <2> QED
    BY <1>8, <2>1, <2>2 DEF SlabsOf
<1>14. Consistent(q, away \ {b})
  BY <1>6, <1>7, <1>10, <1>11, <1>12, <1>13 DEF Consistent
<1> QED
  BY <1>2, <1>6, <1>7, <1>8, <1>10, <1>14 DEF q, s
(* An idle slab leaves the pail, or, when it cannot be unmapped, stays     *)
(* registered and counted without being a slab.                            *)
LEMMA FlushConsistent ==
    ASSUME NEW p, NEW away, Consistent(p, away), NEW s \in ToSet(p.slabs), p.free[s] = Index
    PROVE  /\ Consistent(Flushed(p, s), away) /\ Flushed(p, s).nslabs = p.nslabs - 1
           /\ Consistent(FlushFailed(p, s), away) /\ FlushFailed(p, s).nslabs = p.nslabs
           /\ \A q \in {Flushed(p, s), FlushFailed(p, s)} :
                 SlabsOf(q) = SlabsOf(p) \ {s} /\ \A u \in Spans \ {s} : q.free[u] = p.free[u]
<1> DEFINE rest == Removed(p.slabs, s)
           again == <<s>> \o rest
           f2 == [p.free EXCEPT ![s] = Null]
           q1 == Flushed(p, s)
           q2 == FlushFailed(p, s)
           all == SlabsOf(p) \cup ToSet(p.slabs)
<1>1. /\ p \in PailState /\ Distinct(p.slabs) /\ p.slabs \in Seq(Spans) /\ p.nslabs \in Nat
      /\ p.free \in [Spans -> {Null} \cup SUBSET Index]
  BY DEF Consistent, PailState
<1>2. /\ rest \in Seq(Spans) /\ Distinct(rest) /\ ToSet(rest) = ToSet(p.slabs) \ {s} /\ s \in Spans
  BY <1>1, WithoutSeq, ToSetSeq DEF Removed, Without
<1>3. /\ again \in Seq(Spans) /\ Distinct(again) /\ ToSet(again) = ToSet(p.slabs)
  <2> HIDE DEF rest
  <2>1. s \notin ToSet(rest)
    BY <1>2
  <2>2. /\ again \in Seq(Spans) /\ Distinct(again) /\ ToSet(again) = ToSet(rest) \cup {s}
    BY <1>2, <2>1, ConsSeq
  <2> QED
    BY <1>2, <2>2
<1>4. /\ f2 \in [Spans -> {Null} \cup SUBSET Index] /\ f2[s] = Null
      /\ \A u \in Spans \ {s} : f2[u] = p.free[u]
  BY <1>1, <1>2
<1>5. IsFiniteSet(all) /\ p.nslabs = Cardinality(all) /\ s \in all
  <2>1. all \in SUBSET Spans
    BY <1>1, ToSetSeq DEF SlabsOf
  <2>2. IsFiniteSet(all)
    BY <1>1, <2>1, SpansFinite
  <2> QED
    BY <2>2 DEF Consistent
<1>6. Cardinality(all \ {s}) = p.nslabs - 1 /\ p.nslabs - 1 \in Nat
  <2> HIDE DEF all
  <2>1. Cardinality(all \ {s}) = Cardinality(all) - 1 /\ IsFiniteSet(all \ {s})
    BY <1>5, FS_RemoveElement
  <2>2. Cardinality(all \ {s}) \in Nat
    BY <2>1, FS_CardinalityType
  <2> QED
    BY <1>5, <2>1, <2>2
<1>7. /\ q1.free = f2 /\ q1.slabs = rest /\ q1.nslabs = p.nslabs - 1 /\ q1 \in PailState
  <2>1. q1 = [p EXCEPT !.free = f2, !.nslabs = p.nslabs - 1, !.slabs = rest]
    BY DEF Flushed
  <2> DEFINE n == p.nslabs - 1
  <2> HIDE DEF rest, f2, q1, n
  <2> QED
    BY <1>1, <1>2, <1>4, <1>6, <2>1 DEF PailState, n
<1>8. /\ q2.free = f2 /\ q2.slabs = again /\ q2.nslabs = p.nslabs /\ q2 \in PailState
  <2>1. q2 = [p EXCEPT !.free = f2, !.slabs = again]
    BY DEF FlushFailed
  <2> HIDE DEF again, f2, q2
  <2> QED
    BY <1>1, <1>3, <1>4, <2>1 DEF PailState
<1> HIDE DEF q1, q2, rest, again, f2
<1>9. \A q \in {q1, q2} :
         SlabsOf(q) = SlabsOf(p) \ {s} /\ \A u \in Spans \ {s} : q.free[u] = p.free[u]
  BY <1>2, <1>4, <1>7, <1>8 DEF SlabsOf
<1>10. \A b \in away : b[1] # s
  <2> SUFFICES ASSUME NEW b \in away, b[1] = s PROVE FALSE
    OBVIOUS
  <2>1. b = <<s, b[2]>> /\ b[2] \in Index /\ s \in SlabsOf(p)
    BY DEF Consistent, Block
  <2> QED
    BY <2>1 DEF Consistent
<1>11. ASSUME NEW q \in {q1, q2}, Distinct(q.slabs),
              ToSet(q.slabs) \ {s} = ToSet(p.slabs) \ {s},
              q.nslabs = Cardinality(SlabsOf(q) \cup ToSet(q.slabs))
       PROVE  Consistent(q, away)
  <2>1. q \in PailState
    BY <1>7, <1>8
  <2>2. ToSet(q.slabs) \cap SlabsOf(q) = {u \in SlabsOf(q) : q.free[u] # {}}
    BY <1>9, <1>11 DEF Consistent, SlabsOf
  <2>3. \A b \in away : b[1] \in SlabsOf(q)
    BY <1>9, <1>10 DEF Consistent
  <2>4. \A u \in SlabsOf(q), j \in Index : j \in q.free[u] <=> <<u, j>> \notin away
    BY <1>9 DEF Consistent, SlabsOf
  <2> QED
    BY <1>11, <2>1, <2>2, <2>3, <2>4 DEF Consistent
<1>12. Consistent(q1, away)
  <2>1. SlabsOf(q1) \cup ToSet(q1.slabs) = all \ {s}
    BY <1>2, <1>7, <1>9
  <2> HIDE DEF all
  <2> QED
    BY <1>2, <1>6, <1>7, <1>11, <2>1
<1>13. Consistent(q2, away)
  <2>1. SlabsOf(q2) \cup ToSet(q2.slabs) = all
    BY <1>3, <1>8, <1>9
  <2> HIDE DEF all
  <2> QED
    BY <1>3, <1>5, <1>8, <1>11, <2>1
<1> QED
  BY <1>7, <1>8, <1>9, <1>12, <1>13 DEF q1, q2

-----------------------------------------------------------------------------
(* Steps *)

SurplusOf(p) == {s \in SlabsOf(p) : p.free[s] = Index /\ p.nslabs > 1}

(* The next pail is the one the step names. *)
LEMMA BecomeNow ==
    ASSUME NEW p \in PailState, Become(p)
    PROVE  Now' = p /\ Surplus' = SurplusOf(p)
<1>1. Now' = p
  BY DEF Become, Now, PailState
<1> QED
  BY <1>1 DEF Surplus, SurplusOf, Live, SlabsOf, Become

(* What the invariant says of the variables by themselves *)
LEMMA InvFacts ==
    ASSUME Inv
    PROVE  /\ Now \in PailState /\ Surplus = SurplusOf(Now)
           /\ Away \subseteq Block /\ batch.got \in Seq(Block) /\ Distinct(batch.got)
           /\ Now.slabs = slabs /\ Now.free = free
  BY DEF Inv, Consistent, Apart, Surplus, SurplusOf, Live, SlabsOf, Now

(* A thread starts a batch, fails to mint, or uses a slab that is none. *)
LEMMA GetBatchKeeps ==
    ASSUME Inv, (\E n \in BatchSizes : GetBatch(n)) \/ GetBlockFails \/ GetBlockFreed
    PROVE  Inv' /\ Surplus' = Surplus
<1>1. UNCHANGED <<free, slabs, nslabs, out, putting>> /\ freed' \in BOOLEAN
  BY DEF GetBatch, GetBlockFails, GetBlockFreed, Inv, Apart
<1>2. /\ batch' \in [left : Nat, got : Seq(Block), failed : BOOLEAN]
      /\ batch'.got = batch.got
  <2>1. CASE \E n \in BatchSizes : GetBatch(n)
    <3>1. PICK n \in BatchSizes : batch = NoBatch /\ batch' = [NoBatch EXCEPT !.left = n]
      BY <2>1 DEF GetBatch, Unlocked
    <3>2. batch' = [left |-> n, got |-> <<>>, failed |-> FALSE] /\ n \in Nat
      BY <3>1, PailAssumption DEF NoBatch
    <3>3. <<>> \in Seq(Block) /\ batch.got = <<>> /\ batch'.got = <<>>
      BY <3>1, <3>2 DEF NoBatch
    <3> QED
      BY <3>2, <3>3
  <2>2. CASE GetBlockFails \/ GetBlockFreed
    BY <2>2 DEF GetBlockFails, GetBlockFreed, Inv, Apart
  <2> QED
    BY <2>1, <2>2
<1>3. Now' = Now /\ Away' = Away /\ Surplus' = Surplus
  BY <1>1, <1>2 DEF Now, Away, Putting, Taking, Surplus, Live
<1>4. Apart'
  BY <1>1, <1>2 DEF Inv, Apart, Putting, Taking
<1> QED
  BY <1>3, <1>4 DEF Inv

(* A batch takes a block. *)
LEMMA GetBlockKeeps ==
    ASSUME Inv, GetBlock
    PROVE  Inv' /\ Surplus' \subseteq Surplus
<1>1. PICK p \in IF slabs = <<>> THEN {Minted(Now, s) : s \in Unused}
                 ELSE {Now : s \in {Head(slabs)} \ Dead} :
         /\ Become(Taken(p))
         /\ batch' = [batch EXCEPT !.left = @ - 1, !.got = Append(@, NextBlock(p))]
  BY DEF GetBlock
<1>2. UNCHANGED <<out, putting, freed>> /\ batch.left > 0
  BY DEF GetBlock
<1>3. /\ Now \in PailState /\ Surplus = SurplusOf(Now) /\ Consistent(Now, Away)
      /\ batch.got \in Seq(Block) /\ Distinct(batch.got) /\ Now.slabs = slabs /\ Now.free = free
  BY InvFacts DEF Inv
<1>4. /\ Consistent(p, Away) /\ p.slabs # <<>> /\ p.free[Head(p.slabs)] # Null
      /\ \A u \in SlabsOf(p) \ {Head(p.slabs)} :
            p.free[u] = Index => u \in SlabsOf(Now) /\ Now.free[u] = Index /\ p.nslabs = Now.nslabs
  <2>1. CASE slabs = <<>>
    <3>1. PICK s \in Unused : p = Minted(Now, s)
      BY <1>1, <2>1
    <3>2. s \in Spans /\ Now.free[s] = Null
      BY <1>3 DEF Unused
    <3>3. /\ Consistent(p, Away) /\ p.slabs # <<>> /\ Head(p.slabs) = s /\ p.free[s] = Index
          /\ \A u \in Spans : u # s => p.free[u] = Now.free[u]
      BY <1>3, <2>1, <3>1, <3>2, MintedConsistent
    <3>4. \A u \in SlabsOf(Now) : Now.free[u] = {}
      BY <1>3, <2>1 DEF Consistent, ToSet
    <3>5. Index # {} /\ Index # Null
      BY <1>3, SpansFinite
    <3> QED
      BY <3>3, <3>4, <3>5 DEF SlabsOf
  <2>2. CASE slabs # <<>>
    <3>1. p = Now /\ Head(slabs) \notin Dead
      BY <1>1, <2>2
    <3>2. Head(slabs) \in ToSet(slabs)
      BY <1>3, <2>2, TailSeq DEF Consistent, PailState
    <3> QED
      BY <1>3, <2>2, <3>1, <3>2 DEF Dead
  <2> QED
    BY <2>1, <2>2
<1> DEFINE b == NextBlock(p)
           q == Taken(p)
           h == Head(p.slabs)
<1>5. /\ b \in Block \ Away /\ Consistent(q, Away \cup {b}) /\ q.nslabs = p.nslabs
      /\ q.free[h] # Index /\ q.free[h] # Null /\ h \in Spans
      /\ \A u \in Spans : u # h => q.free[u] = p.free[u]
  BY <1>4, TakenConsistent
<1>6. Become(q) /\ batch' = [batch EXCEPT !.left = @ - 1, !.got = Append(@, b)]
  BY <1>1
<1> HIDE DEF b, q, h
<1>7. Now' = q /\ Surplus' = SurplusOf(q)
  BY <1>5, <1>6, BecomeNow DEF Consistent
<1>8. SurplusOf(q) \subseteq SurplusOf(Now)
  BY <1>4, <1>5 DEF SurplusOf, SlabsOf, h
<1>9. /\ Append(batch.got, b) \in Seq(Block) /\ Distinct(Append(batch.got, b))
      /\ ToSet(Append(batch.got, b)) = ToSet(batch.got) \cup {b}
  <2>1. b \notin ToSet(batch.got)
    BY <1>5 DEF Away, Taking
  <2> QED
    BY <1>3, <1>5, <2>1, AppendSeq
<1>10. /\ batch' \in [left : Nat, got : Seq(Block), failed : BOOLEAN]
       /\ batch'.got = Append(batch.got, b)
  <2> DEFINE got2 == Append(batch.got, b)
             left2 == batch.left - 1
  <2>1. left2 \in Nat /\ batch \in [left : Nat, got : Seq(Block), failed : BOOLEAN]
    BY <1>2 DEF Inv, Apart
  <2>2. batch' = [batch EXCEPT !.left = left2, !.got = got2]
    BY <1>6
  <2>3. got2 \in Seq(Block)
    BY <1>9
  <2> HIDE DEF got2, left2
  <2>4. /\ batch' \in [left : Nat, got : Seq(Block), failed : BOOLEAN]
        /\ batch'.got = got2
    BY <2>1, <2>2, <2>3
  <2> QED
    BY <2>4 DEF got2
<1>11. Taking' = Taking \cup {b} /\ Putting' = Putting /\ Away' = Away \cup {b}
  BY <1>2, <1>9, <1>10 DEF Taking, Putting, Away
<1>12. Apart'
  BY <1>2, <1>5, <1>9, <1>10, <1>11 DEF Inv, Apart, Away
<1> QED
  BY <1>3, <1>5, <1>7, <1>8, <1>11, <1>12 DEF Inv
(* A batch that failed gives a block back. *)
LEMMA RollBackKeeps ==
    ASSUME Inv, RollBack
    PROVE  Inv'
<1> DEFINE b == Head(batch.got)
           q == PutBack(Now, b)
<1>1. /\ Now \in PailState /\ Consistent(Now, Away)
      /\ batch.got \in Seq(Block) /\ Distinct(batch.got)
  BY InvFacts DEF Inv
<1>2. /\ batch.got # <<>> /\ Become(q) /\ batch' = [batch EXCEPT !.got = Tail(@)]
      /\ UNCHANGED <<out, putting, freed>>
  BY DEF RollBack
<1>3. /\ b \in Taking /\ Tail(batch.got) \in Seq(Block) /\ Distinct(Tail(batch.got))
      /\ ToSet(Tail(batch.got)) = Taking \ {b}
  BY <1>1, <1>2, TailSeq DEF Taking
<1> HIDE DEF b
<1>4. b \in Away /\ b \notin out \cup Putting
  BY <1>3 DEF Inv, Apart, Away
<1>5. Consistent(q, Away \ {b})
  BY <1>1, <1>4, PutBackConsistent
<1> HIDE DEF q
<1>6. Now' = q
  BY <1>2, <1>5, BecomeNow DEF Consistent
<1>7. /\ batch' \in [left : Nat, got : Seq(Block), failed : BOOLEAN]
      /\ batch'.got = Tail(batch.got)
  BY <1>2, <1>3 DEF Inv, Apart
<1>8. Taking' = Taking \ {b} /\ Putting' = Putting /\ Away' = Away \ {b}
  BY <1>2, <1>3, <1>4, <1>7 DEF Taking, Putting, Away
<1>9. Apart'
  BY <1>2, <1>3, <1>7, <1>8 DEF Inv, Apart
<1> QED
  BY <1>5, <1>6, <1>8, <1>9 DEF Inv

(* A batch ends, or a thread looks up the slab of its block. *)
LEMMA HandOverKeeps ==
    ASSUME Inv, EndBatch \/ \E t \in Threads, b \in out : LookUpSlab(t, b)
    PROVE  Inv' /\ Surplus' = Surplus
<1>1. UNCHANGED <<free, slabs, nslabs, freed>>
  BY DEF EndBatch, LookUpSlab
<1>2. Now' = Now /\ Surplus' = Surplus
  BY <1>1 DEF Now, Surplus, Live
<1>3. CASE EndBatch
  <2>1. batch' = NoBatch /\ out' = out \cup Taking /\ putting' = putting
    BY <1>3 DEF EndBatch, Taking
  <2>2. batch' \in [left : Nat, got : Seq(Block), failed : BOOLEAN] /\ batch'.got = <<>>
    BY <2>1 DEF NoBatch
  <2>3. Taking' = {} /\ Putting' = Putting /\ Distinct(batch'.got)
    BY <2>1, <2>2 DEF Taking, Putting, ToSet, Distinct
  <2>4. Away' = Away
    BY <2>1, <2>3 DEF Away
  <2>5. Apart'
    BY <1>1, <2>1, <2>2, <2>3 DEF Inv, Apart
  <2> QED
    BY <1>2, <2>4, <2>5 DEF Inv
<1>4. CASE \E t \in Threads, b \in out : LookUpSlab(t, b)
  <2>1. PICK t \in Threads, b \in out : LookUpSlab(t, b)
    BY <1>4
  <2>2. /\ putting[t] = Null /\ putting' = [putting EXCEPT ![t] = b]
        /\ out' = out \ {b} /\ batch' = batch
    BY <2>1 DEF LookUpSlab
  <2>3. b \in Block /\ b # Null
    BY PailAssumption DEF Inv, Consistent, Away
  <2>4. Putting' = Putting \cup {b} /\ Taking' = Taking
    BY <2>2, <2>3 DEF Putting, Taking, Inv, Apart
  <2>5. Away' = Away
    BY <2>2, <2>4 DEF Away
  <2>6. putting' \in [Threads -> {Null} \cup Block]
    BY <2>2, <2>3 DEF Inv, Apart
  <2>7. \A u, v \in Threads : u # v /\ putting'[u] = putting'[v] => putting'[u] = Null
    <3>1. \A u \in Threads : putting[u] # b
      BY <2>3 DEF Inv, Apart, Putting
    <3> QED
      BY <2>2, <3>1 DEF Inv, Apart
  <2>8. out' \cap Putting' = {} /\ Taking' \cap (out' \cup Putting') = {}
    BY <2>2, <2>4 DEF Inv, Apart
  <2>9. Apart'
    BY <1>1, <2>2, <2>6, <2>7, <2>8 DEF Inv, Apart
  <2> QED
    BY <1>2, <2>5, <2>9 DEF Inv
<1> QED
  BY <1>3, <1>4

(* A thread puts a block back, which may flush the slab. *)
LEMMA PutBlockKeeps ==
    ASSUME Inv, NEW t \in Threads, NEW b \in {putting[t]} \ {Null},
           PutBlock(t, b) \/ PutBlockFails(t, b)
    PROVE  Inv' /\ Surplus' \subseteq Surplus
<1> DEFINE s == b[1]
           p == PutBack(Now, b)
           flushed == p.free[s] = Index /\ p.nslabs > 1
<1>1. /\ Now \in PailState /\ Consistent(Now, Away) /\ Surplus = SurplusOf(Now)
      /\ b \in Putting /\ b \in Away
  BY InvFacts DEF Inv, Putting, Away
<1>2. /\ Consistent(p, Away \ {b}) /\ p.nslabs = Now.nslabs
      /\ s \in ToSet(p.slabs) /\ s \in SlabsOf(p)
      /\ \A u \in Spans : u # s => p.free[u] = Now.free[u]
  BY <1>1, PutBackConsistent
<1>3. putting' = [putting EXCEPT ![t] = Null] /\ UNCHANGED <<batch, out, freed>>
  BY DEF PutBlock, PutBlockFails
<1>4. \/ flushed /\ Become(Flushed(p, s))
      \/ flushed /\ Become(FlushFailed(p, s))
      \/ ~flushed /\ Become(p)
  BY DEF PutBlock, PutBlockFails, Flushes
<1> HIDE DEF p, s
<1>5. PICK q : /\ Become(q) /\ Consistent(q, Away \ {b}) /\ SurplusOf(q) \subseteq SurplusOf(Now)
  <2>1. CASE flushed /\ (Become(Flushed(p, s)) \/ Become(FlushFailed(p, s)))
    <3>1. PICK q \in {Flushed(p, s), FlushFailed(p, s)} : Become(q)
      BY <2>1
    <3>2. /\ Consistent(q, Away \ {b}) /\ SlabsOf(q) = SlabsOf(p) \ {s}
          /\ \A u \in Spans \ {s} : q.free[u] = p.free[u]
      BY <1>2, <2>1, FlushConsistent
    <3>3. SurplusOf(q) \subseteq SurplusOf(Now)
      BY <1>2, <2>1, <3>2 DEF SurplusOf, SlabsOf
    <3> QED
      BY <3>1, <3>2, <3>3
  <2>2. CASE ~flushed /\ Become(p)
    <3>1. SurplusOf(p) \subseteq SurplusOf(Now)
      BY <1>2, <2>2 DEF SurplusOf, SlabsOf
    <3> QED
      BY <1>2, <2>2, <3>1
  <2> QED
    BY <1>4, <2>1, <2>2
<1>6. Now' = q /\ Surplus' = SurplusOf(q)
  BY <1>5, BecomeNow DEF Consistent
<1>7. /\ \A u \in Threads : u # t => putting[u] # b
      /\ putting[t] = b /\ b # Null /\ b \notin out \cup Taking
  BY <1>1 DEF Inv, Apart
<1>8. Putting' = Putting \ {b} /\ Taking' = Taking
  BY <1>3, <1>7 DEF Putting, Taking, Inv, Apart
<1>9. Away' = Away \ {b}
  BY <1>3, <1>7, <1>8 DEF Away
<1>10. Apart'
  BY <1>3, <1>8 DEF Inv, Apart
<1> QED
  BY <1>1, <1>5, <1>6, <1>9, <1>10 DEF Inv

-----------------------------------------------------------------------------
(* There is no slab at first. *)
LEMMA InvInit == Init => Inv
<1> SUFFICES ASSUME Init PROVE Inv
  OBVIOUS
<1>1. /\ Now = [free |-> [s \in Spans |-> Null], slabs |-> <<>>, nslabs |-> 0]
      /\ batch = [left |-> 0, got |-> <<>>, failed |-> FALSE]
      /\ out = {} /\ putting = [t \in Threads |-> Null] /\ freed = FALSE
  BY DEF Init, Now, NoBatch
<1>2. Now \in PailState /\ SlabsOf(Now) = {} /\ ToSet(Now.slabs) = {} /\ Distinct(Now.slabs)
  BY <1>1 DEF PailState, SlabsOf, ToSet, Distinct
<1>3. Putting = {} /\ Taking = {} /\ Away = {} /\ Distinct(batch.got)
  BY <1>1 DEF Putting, Taking, Away, ToSet, Distinct
<1>4. Now.nslabs = Cardinality(SlabsOf(Now) \cup ToSet(Now.slabs))
  BY <1>1, <1>2, FS_EmptySet
<1>5. Consistent(Now, Away)
  BY <1>2, <1>3, <1>4 DEF Consistent
<1>6. Apart
  <2>1. <<>> \in Seq(Block)
    OBVIOUS
  <2>2. batch \in [left : Nat, got : Seq(Block), failed : BOOLEAN]
    BY <1>1, <2>1
  <2> QED
    BY <1>1, <1>3, <2>2 DEF Apart
<1> QED
  BY <1>5, <1>6 DEF Inv

(* A step keeps the invariant and, but for a rollback, leaves no idle slab *)
(* behind.                                                                 *)
LEMMA InvStep == Inv /\ [Next]_vars => Inv' /\ (Surplus' \subseteq Surplus \/ RollBack \/ UNCHANGED vars)
<1> SUFFICES ASSUME Inv, [Next]_vars
             PROVE  Inv' /\ (Surplus' \subseteq Surplus \/ RollBack \/ UNCHANGED vars)
  OBVIOUS
<1>1. CASE UNCHANGED vars
  <2>1. Now' = Now /\ Away' = Away
    BY <1>1 DEF vars, Now, Away, Putting, Taking
  <2>2. Apart'
    BY <1>1 DEF vars, Inv, Apart, Putting, Taking
  <2> QED
    BY <1>1, <2>1, <2>2 DEF Inv
<1>2. CASE Next
  BY <1>2, GetBatchKeeps, GetBlockKeeps, RollBackKeeps, HandOverKeeps, PutBlockKeeps DEF Next
<1> QED
  BY <1>1, <1>2

(* What the invariant says of the variables of the pail *)
LEMMA InvProperties == Inv => TypeOK /\ RegistryExact /\ CountExact /\ BlocksOnce /\ SlabStays
<1> SUFFICES ASSUME Inv
             PROVE  TypeOK /\ RegistryExact /\ CountExact /\ BlocksOnce /\ SlabStays
  OBVIOUS
<1>1. Now.free = free /\ Now.slabs = slabs /\ Now.nslabs = nslabs /\ SlabsOf(Now) = Live
  BY DEF Now, SlabsOf, Live
<1>2. Consistent(Now, Away) /\ Apart
  BY DEF Inv
<1>3. /\ free \in [Spans -> {Null} \cup SUBSET Index] /\ slabs \in Seq(Spans) /\ nslabs \in Nat
  BY <1>1, <1>2 DEF Consistent, PailState
<1>4. nslabs \in 0 .. Cardinality(Spans) /\ CountExact
  <2> DEFINE all == Live \cup ToSet(slabs)
  <2>1. nslabs = Cardinality(all)
    BY <1>1, <1>2 DEF Consistent
  <2>2. all \in SUBSET Spans
    BY <1>3, ToSetSeq DEF Live
  <2> HIDE DEF all
  <2>3. Cardinality(all) <= Cardinality(Spans) /\ Cardinality(Spans) \in Nat
    BY <2>2, PailAssumption, FS_Subset, FS_CardinalityType
  <2> QED
    BY <1>3, <2>1, <2>3 DEF CountExact, all
<1>5. TypeOK
  BY <1>2, <1>3, <1>4 DEF TypeOK, Consistent, Apart, Away
<1>6. RegistryExact
  <2>1. IsInjective(slabs)
    BY <1>1, <1>2, <1>3 DEF Consistent, Distinct, IsInjective
  <2> QED
    BY <1>1, <1>2, <2>1 DEF RegistryExact, Consistent
<1>7. BlocksOnce
  <2>1. IsInjective(batch.got)
    BY <1>2 DEF Apart, Distinct, IsInjective
  <2> QED
    BY <1>1, <1>2, <2>1 DEF BlocksOnce, Consistent, Apart, Away
<1>8. SlabStays
  BY <1>1, <1>2 DEF SlabStays, Consistent, Away
<1> QED
  BY <1>4, <1>5, <1>6, <1>7, <1>8

(* The variables of a pail keep their types; above all nslabs never falls  *)
(* below zero nor counts more slabs than there are spans.                  *)
THEOREM TypeCorrect == Spec => []TypeOK
  BY InvInit, InvStep, InvProperties, PTL DEF Spec

(* After every step of every batch and every put, mints, rollbacks and     *)
(* flushes that fail included, the registry lists the slabs with a free    *)
(* block, each once (pail.h:118, pail.h:168, pail.h:187).                  *)
THEOREM RegistryIsExact == Spec => []RegistryExact
  BY InvInit, InvStep, InvProperties, PTL DEF Spec

(* nslabs is the number of slabs, so that the test of pail.h:166 keeps the *)
(* last one and no other.                                                  *)
THEOREM CountIsExact == Spec => []CountExact
  BY InvInit, InvStep, InvProperties, PTL DEF Spec

(* However batches and puts of any number of threads interleave, each      *)
(* block of each slab is in one place.                                     *)
THEOREM BlocksAreOnce == Spec => []BlocksOnce
  BY InvInit, InvStep, InvProperties, PTL DEF Spec

(* The slab found by a lookup without the lock is a slab when its block is *)
(* put back (glob.h:70, pail.h:160).                                       *)
THEOREM SlabsStay == Spec => []SlabStays
  BY InvInit, InvStep, InvProperties, PTL DEF Spec

(* Only the rollback of a batch leaves an idle slab that is not the last.  *)
THEOREM IdleByRollback == Spec => IdleOnlyByRollback
<1>1. Inv /\ [Next]_vars => [Surplus' \subseteq Surplus \/ RollBack]_vars
  BY InvStep
<1> QED
  BY <1>1, InvInit, InvStep, PTL DEF Spec, IdleOnlyByRollback
=============================================================================
