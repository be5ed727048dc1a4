-------------------------- MODULE SpanCacheProofs ---------------------------
(***************************************************************************)
(* Proofs about SpanCache, for any sets of arenas, size classes, requests  *)
(* and failures.  The functions of the model map worlds to worlds, so most *)
(* lemmas are about one function and any world, and each action is the     *)
(* composition of the lemmas of the functions it calls.                    *)
(***************************************************************************)
EXTENDS SpanCache, DistinctSeqs, FiniteSetTheorems, WellFoundedInduction, NaturalsInduction

-----------------------------------------------------------------------------
(* Size classes *)

(* A set of natural numbers that is not empty has a least element. *)
LEMMA LeastNat ==
    ASSUME NEW S \in SUBSET Nat, S # {}
    PROVE  \E m \in S : \A y \in S : m <= y
<1> DEFINE R == OpToRel(<, Nat)
<1>1. IsWellFoundedOn(R, Nat)
  BY NatLessThanWellFounded
<1>2. \A x, y \in Nat : <<x, y>> \in R <=> x < y
  BY DEF OpToRel
<1> HIDE DEF R
<1>3. PICK m \in S : \A y \in S : ~(<<y, m>> \in R)
  BY <1>1, WFMin
<1>4. \A y \in S : m <= y
  <2> SUFFICES ASSUME NEW y \in S PROVE m <= y
    OBVIOUS
  <2>1. y \in Nat /\ m \in Nat /\ ~(<<y, m>> \in R)
    BY <1>3
  <2>2. ~(y < m)
    BY <1>2, <2>1
  <2> QED
    BY <2>1, <2>2
<1> QED
  BY <1>4

LEMMA MinNat ==
    ASSUME NEW S \in SUBSET Nat, S # {}
    PROVE  Min(S) \in S /\ \A y \in S : Min(S) <= y
  BY LeastNat DEF Min

(* Classes are numbers, and larger ones are larger. *)
LEMMA ClassFacts ==
    /\ Class \subseteq Nat
    /\ \A k \in Class : ClassPages[k] \in Nat \ {0} /\ 0 .. k \subseteq Class
    /\ \A j, k \in Class : ClassPages[j] < ClassPages[k] <=> j < k
    /\ \A j, k \in Class : ClassPages[j] <= ClassPages[k] <=> j <= k
<1>1. Class \subseteq Nat /\ \A k \in Class : ClassPages[k] \in Nat \ {0} /\ 0 .. k \subseteq Class
  BY SpanCacheAssumption
<1>2. \A j, k \in Class : j < k => ClassPages[j] < ClassPages[k]
  BY SpanCacheAssumption
<1>3. ASSUME NEW j \in Class, NEW k \in Class
      PROVE  /\ ClassPages[j] < ClassPages[k] <=> j < k
             /\ ClassPages[j] <= ClassPages[k] <=> j <= k
  <2>1. PICK x, y : x = ClassPages[j] /\ y = ClassPages[k]
    OBVIOUS
  <2>2. j \in Nat /\ k \in Nat /\ x \in Nat /\ y \in Nat
    BY <1>1, <2>1
  <2>3. (j < k => x < y) /\ (k < j => y < x) /\ (j = k => x = y)
    BY <1>2, <2>1
  <2> QED
    BY <2>1, <2>2, <2>3
<1> QED
  BY <1>1, <1>3

(* tsconfig_get_span_szclass: the least class that holds the size *)
LEMMA SpanClassFits ==
    ASSUME NEW n \in 1 .. NPages
    PROVE  /\ SpanClass(n) \in Class /\ n <= ClassPages[SpanClass(n)]
           /\ \A k \in Class : n <= ClassPages[k] <=> SpanClass(n) <= k
<1> DEFINE S == {k \in Class : ClassPages[k] >= n}
<1>1. S \in SUBSET Nat /\ S # {} /\ n \in Nat
  BY ClassFacts, SpanCacheAssumption
<1>2. SpanClass(n) = Min(S)
  BY DEF SpanClass
<1>3. SpanClass(n) \in S /\ \A k \in S : SpanClass(n) <= k
  <2> HIDE DEF S
  <2> QED
    BY <1>1, <1>2, MinNat
<1>4. ASSUME NEW k \in Class, SpanClass(n) <= k PROVE n <= ClassPages[k]
  <2>1. ClassPages[SpanClass(n)] <= ClassPages[k] /\ ClassPages[SpanClass(n)] >= n
    BY <1>3, <1>4, ClassFacts
  <2> QED
    BY <1>1, <1>3, <2>1, ClassFacts
<1> QED
  BY <1>3, <1>4

(* The class of the size of a class is that class. *)
LEMMA ClassOfClass ==
    ASSUME NEW k \in Class, ClassPages[k] <= NPages
    PROVE  SpanClass(ClassPages[k]) = k
<1>1. ClassPages[k] \in 1 .. NPages
  BY ClassFacts, SpanCacheAssumption
<1>2. PICK j : j = SpanClass(ClassPages[k])
  OBVIOUS
<1>3. j \in Class /\ ClassPages[k] <= ClassPages[j] /\ j <= k
  BY <1>1, <1>2, SpanClassFits, ClassFacts
<1> QED
  BY <1>2, <1>3, ClassFacts

(* A span of a higher class is larger than the class asked for. *)
LEMMA HigherIsLarger ==
    ASSUME NEW n \in 1 .. NPages, NEW k \in Class, SpanClass(n) > k
    PROVE  n > ClassPages[k]
<1>1. k \in Nat /\ ClassPages[k] \in Nat /\ n \in Nat
  BY ClassFacts, SpanCacheAssumption
<1>2. ~(n <= ClassPages[k])
  <2>1. SpanClass(n) \in Class /\ (n <= ClassPages[k] => SpanClass(n) <= k)
    BY SpanClassFits
  <2>2. PICK j : j = SpanClass(n)
    OBVIOUS
  <2>3. j \in Nat /\ j > k
    BY <2>1, <2>2, ClassFacts
  <2> QED
    BY <1>1, <2>1, <2>2, <2>3
<1> QED
  BY <1>1, <1>2

-----------------------------------------------------------------------------
(* Worlds *)

Bins == Arenas \X Class

World == [span : [Page -> SpanRecord \cup {Null}],
          pagetrie : [Page -> Page \cup {Null}],
          bucket : [Bins -> [States -> SUBSET Page]],
          nspans : [Bins -> 0 .. CountMod - 1],
          epoch_min : [Bins -> 0 .. CountMod - 1],
          bitmap : [Arenas -> SUBSET Class],
          epoch : [Arenas -> 0 .. AgeMod - 1],
          origins : [Arenas -> Seq(Page)],
          mappings : SUBSET [arena : Arenas, addr : Page, npages : 1 .. NPages],
          crashed : BOOLEAN]

SpansOf(w) == {a \in Page : w.span[a] # Null}

(* All but the state of a span *)
SameBut(d, e) ==
    /\ e.age = d.age /\ e.szclass = d.szclass /\ e.arena = d.arena
    /\ e.is_slab = d.is_slab /\ e.is_alloc = d.is_alloc
    /\ e.nbytes = d.nbytes /\ e.record = d.record

(* What calls of the bins leave alone *)
SameShape(w, v) ==
    /\ SpansOf(v) = SpansOf(w)
    /\ \A a \in SpansOf(w) : SameBut(w.span[a], v.span[a])
    /\ v.pagetrie = w.pagetrie /\ v.epoch = w.epoch /\ v.origins = w.origins
    /\ v.mappings = w.mappings /\ v.crashed = w.crashed

LEMMA Sizes == /\ NPages \in Nat \ {0} /\ AgeMod \in Nat \ {0} /\ CountMod \in Nat \ {0}
               /\ Page \subseteq Nat /\ Null \notin Page /\ Null \notin SpanRecord
  BY SpanCacheAssumption, NullAssumption DEF Page

LEMMA RecordFields ==
    ASSUME NEW d \in SpanRecord
    PROVE  /\ d.state \in States /\ d.arena \in Arenas /\ d.szclass \in Class
           /\ d.nbytes \in 1 .. NPages /\ d.nbytes \in Nat \ {0} /\ d.record \in Nat
           /\ d.age \in 0 .. AgeMod - 1 /\ d.is_alloc \in BOOLEAN /\ d.is_slab \in BOOLEAN
           /\ d # Null
<1>1. d.nbytes \in 1 .. NPages
  BY DEF SpanRecord
<1>2. d.nbytes \in Nat \ {0}
  BY <1>1, Sizes
<1> QED
  BY <1>1, <1>2, Sizes DEF SpanRecord

LEMMA WorldFields ==
    ASSUME NEW w \in World
    PROVE  /\ w.span \in [Page -> SpanRecord \cup {Null}]
           /\ w.pagetrie \in [Page -> Page \cup {Null}]
           /\ w.bucket \in [Bins -> [States -> SUBSET Page]]
           /\ w.nspans \in [Bins -> 0 .. CountMod - 1]
           /\ w.epoch_min \in [Bins -> 0 .. CountMod - 1]
           /\ w.bitmap \in [Arenas -> SUBSET Class]
           /\ w.epoch \in [Arenas -> 0 .. AgeMod - 1]
           /\ w.origins \in [Arenas -> Seq(Page)]
           /\ w.mappings \in SUBSET [arena : Arenas, addr : Page, npages : 1 .. NPages]
           /\ w.crashed \in BOOLEAN
  BY DEF World

LEMMA SpanFields ==
    ASSUME NEW w \in World, NEW a \in SpansOf(w)
    PROVE  /\ a \in Page /\ a \in Nat /\ w.span[a] \in SpanRecord
           /\ BinOf(w, a) \in Bins /\ BinOf(w, a) = <<w.span[a].arena, w.span[a].szclass>>
           /\ w.span \in [Page -> SpanRecord \cup {Null}]
<1>1. a \in Page /\ a \in Nat /\ w.span[a] \in SpanRecord
      /\ w.span \in [Page -> SpanRecord \cup {Null}]
  BY Sizes DEF World, SpansOf
<1> QED
  BY <1>1, RecordFields DEF BinOf, Bins

(* Functions of two arguments *)
LEMMA Update2 ==
    ASSUME NEW B, NEW S, NEW T, NEW F \in [B -> [S -> T]], NEW b \in B, NEW s \in S,
           NEW t \in T, NEW f, f = [F EXCEPT ![b][s] = t]
    PROVE  /\ f \in [B -> [S -> T]]
           /\ \A x \in B, y \in S : f[x][y] = IF x = b /\ y = s THEN t ELSE F[x][y]
  OBVIOUS

PutState(s) == IF s = "RETAINED" THEN "RETAINED" ELSE "DIRTY"

(* v is w with a put into its bin b, by the fields *)
PutDone(w, v, a, b, s) ==
    /\ v.span = [w.span EXCEPT ![a] = [w.span[a] EXCEPT !.state = s]]
    /\ v.bucket = [w.bucket EXCEPT ![b][s] = w.bucket[b][s] \cup {a}]
    /\ v.nspans = [w.nspans EXCEPT ![b] = (w.nspans[b] + 1) % CountMod]
    /\ v.bitmap = [w.bitmap EXCEPT ![b[1]] = w.bitmap[b[1]] \cup {b[2]}]
    /\ v.pagetrie = w.pagetrie /\ v.epoch_min = w.epoch_min /\ v.epoch = w.epoch
    /\ v.origins = w.origins /\ v.mappings = w.mappings /\ v.crashed = w.crashed
    /\ v = [w EXCEPT !.span = v.span, !.bucket = v.bucket, !.nspans = v.nspans,
                     !.bitmap = v.bitmap]

LEMMA BinPutFields ==
    ASSUME NEW w \in World, NEW a \in SpansOf(w), NEW v, v = BinPut(w, a),
           NEW b, b = BinOf(w, a), NEW s, s = PutState(w.span[a].state)
    PROVE  PutDone(w, v, a, b, s)
<1>1. v = [w EXCEPT !.span[a].state = s, !.bucket[b][s] = @ \cup {a},
                    !.nspans[b] = (@ + 1) % CountMod,
                    !.bitmap[b[1]] = @ \cup {b[2]}]
  <2>1. v = PutInto(w, a, b, s)
    BY Zenon DEF BinPut, PutState
  <2> QED
    BY <2>1, Zenon DEF PutInto
<1>2. v.span = [w.span EXCEPT ![a] = [w.span[a] EXCEPT !.state = s]]
  BY <1>1 DEF World
<1>3. v.bucket = [w.bucket EXCEPT ![b][s] = w.bucket[b][s] \cup {a}]
  BY <1>1 DEF World
<1>4. /\ v.nspans = [w.nspans EXCEPT ![b] = (w.nspans[b] + 1) % CountMod]
      /\ v.bitmap = [w.bitmap EXCEPT ![b[1]] = w.bitmap[b[1]] \cup {b[2]}]
  BY <1>1 DEF World
<1>5. /\ v.pagetrie = w.pagetrie /\ v.epoch_min = w.epoch_min /\ v.epoch = w.epoch
      /\ v.origins = w.origins /\ v.mappings = w.mappings /\ v.crashed = w.crashed
  BY <1>1 DEF World
<1>6. v = [w EXCEPT !.span = v.span, !.bucket = v.bucket, !.nspans = v.nspans,
                            !.bitmap = v.bitmap]
  BY <1>1 DEF World
<1> QED
  BY <1>2, <1>3, <1>4, <1>5, <1>6 DEF PutDone

(* A world with some fields replaced *)
LEMMA WorldUpdate ==
    ASSUME NEW w \in World, NEW v,
           v = [w EXCEPT !.span = v.span, !.bucket = v.bucket, !.nspans = v.nspans,
                         !.epoch_min = v.epoch_min, !.bitmap = v.bitmap],
           v.span \in [Page -> SpanRecord \cup {Null}],
           v.bucket \in [Bins -> [States -> SUBSET Page]],
           v.nspans \in [Bins -> 0 .. CountMod - 1],
           v.epoch_min \in [Bins -> 0 .. CountMod - 1],
           v.bitmap \in [Arenas -> SUBSET Class]
    PROVE  v \in World
  BY DEF World

(* What lies in a heap is a free span of the state and bin of the heap. *)
Binned(w) ==
    \A b \in Bins, s \in States : \A a \in w.bucket[b][s] :
        /\ a \in SpansOf(w) /\ ~w.span[a].is_alloc
        /\ w.span[a].state = s /\ BinOf(w, a) = b

(* The free spans in no heap: in the hands of a call, or lost *)
Loose(w) == {a \in SpansOf(w) : /\ ~w.span[a].is_alloc
                                /\ a \notin w.bucket[BinOf(w, a)][w.span[a].state]}

LEMMA ModBelow == ASSUME NEW x \in Int PROVE x % CountMod \in 0 .. CountMod - 1
  BY Sizes

LEMMA CountFields ==
    ASSUME NEW w \in World, NEW b \in Bins
    PROVE  w.nspans[b] \in 0 .. CountMod - 1 /\ w.nspans[b] \in Nat
           /\ w.epoch_min[b] \in 0 .. CountMod - 1 /\ w.epoch_min[b] \in Nat
  BY Sizes DEF World

(* One span changes its state. *)
StateSet(w, f, a, s) ==
           /\ f \in [Page -> SpanRecord \cup {Null}]
           /\ f[a].state = s /\ SameBut(w.span[a], f[a]) /\ f[a] # Null
           /\ \A c \in Page \ {a} : f[c] = w.span[c]
           /\ \A c \in SpansOf(w) : SameBut(w.span[c], f[c])

LEMMA StateUpdate ==
    ASSUME NEW w \in World, NEW a \in SpansOf(w), NEW s \in States, NEW f,
           f = [w.span EXCEPT ![a] = [w.span[a] EXCEPT !.state = s]]
    PROVE  StateSet(w, f, a, s)
<1>1. PICK d \in SpanRecord : d = w.span[a]
  BY SpanFields
<1>2. PICK e : e = [d EXCEPT !.state = s]
  OBVIOUS
<1>3. e \in SpanRecord /\ e.state = s /\ SameBut(d, e)
  BY <1>1, <1>2 DEF SpanRecord, SameBut
<1>4. f = [w.span EXCEPT ![a] = e]
  BY <1>1, <1>2
<1>5. w.span \in [Page -> SpanRecord \cup {Null}] /\ a \in Page
  BY SpanFields
<1>6. f \in [Page -> SpanRecord \cup {Null}] /\ f[a] = e /\ \A c \in Page \ {a} : f[c] = w.span[c]
  BY <1>3, <1>4, <1>5
<1>7. \A c \in SpansOf(w) : SameBut(w.span[c], f[c])
  BY <1>1, <1>3, <1>6 DEF SameBut, SpansOf
<1> QED
  BY <1>1, <1>3, <1>6, <1>7, Sizes DEF StateSet

LEMMA BinPutKeeps ==
    ASSUME NEW w \in World, Binned(w), NEW a \in Loose(w), NEW v, v = BinPut(w, a)
    PROVE  v \in World /\ SameShape(w, v) /\ Binned(v) /\ Loose(v) = Loose(w) \ {a}
<1>1. a \in SpansOf(w) /\ ~w.span[a].is_alloc /\ \A b \in Bins, s \in States : a \notin w.bucket[b][s]
  BY DEF Loose, Binned
<1>2. PICK b \in Bins : b = BinOf(w, a)
  BY <1>1, SpanFields
<1>3. PICK s \in States : s = PutState(w.span[a].state)
  BY DEF PutState, States
<1>4. PutDone(w, v, a, b, s)
  BY <1>1, <1>2, <1>3, BinPutFields
<1>5. /\ v.span \in [Page -> SpanRecord \cup {Null}]
      /\ v.span[a].state = s /\ SameBut(w.span[a], v.span[a]) /\ v.span[a] # Null
      /\ \A c \in Page \ {a} : v.span[c] = w.span[c]
      /\ \A c \in SpansOf(w) : SameBut(w.span[c], v.span[c])
  <2>1. StateSet(w, v.span, a, s)
    BY <1>1, <1>4, StateUpdate DEF PutDone
  <2> QED
    BY <2>1 DEF StateSet
<1>6. /\ v.bucket \in [Bins -> [States -> SUBSET Page]]
      /\ \A x \in Bins, y \in States : v.bucket[x][y] = IF x = b /\ y = s THEN w.bucket[b][s] \cup {a}
                                                                         ELSE w.bucket[x][y]
  <2>1. w.bucket \in [Bins -> [States -> SUBSET Page]] /\ w.bucket[b][s] \cup {a} \in SUBSET Page
    BY <1>1, SpanFields, WorldFields
  <2> QED
    BY <1>4, <2>1, Update2 DEF PutDone
<1>7. v \in World
  <2>1. v.nspans \in [Bins -> 0 .. CountMod - 1]
    <3>1. v.nspans = [w.nspans EXCEPT ![b] = (w.nspans[b] + 1) % CountMod]
      BY <1>4 DEF PutDone
    <3>2. (w.nspans[b] + 1) % CountMod \in 0 .. CountMod - 1
      BY CountFields, ModBelow
    <3> QED
      BY <3>1, <3>2, WorldFields
  <2>2. v.bitmap \in [Arenas -> SUBSET Class]
    <3>1. b[1] \in Arenas /\ b[2] \in Class
      BY DEF Bins
    <3> QED
      BY <1>4, <3>1, WorldFields DEF PutDone
  <2>3. v = [w EXCEPT !.span = v.span, !.bucket = v.bucket, !.nspans = v.nspans,
                      !.epoch_min = v.epoch_min, !.bitmap = v.bitmap]
    BY <1>4 DEF World, PutDone
  <2>4. v.epoch_min \in [Bins -> 0 .. CountMod - 1]
    BY <1>4, WorldFields DEF PutDone
  <2> QED
    BY <1>5, <1>6, <2>1, <2>2, <2>3, <2>4, WorldUpdate
<1>8. SpansOf(v) = SpansOf(w)
  BY <1>1, <1>5 DEF SpansOf
<1>9. SameShape(w, v)
  BY <1>4, <1>5, <1>8 DEF SameShape, PutDone
<1>10. \A c \in SpansOf(w) : BinOf(v, c) = BinOf(w, c) /\ v.span[c].is_alloc = w.span[c].is_alloc
  BY <1>5 DEF BinOf, SameBut
<1>11. Binned(v)
  <2> SUFFICES ASSUME NEW x \in Bins, NEW y \in States, NEW c \in v.bucket[x][y]
               PROVE  /\ c \in SpansOf(v) /\ ~v.span[c].is_alloc
                      /\ v.span[c].state = y /\ BinOf(v, c) = x
    BY DEF Binned
  <2>1. CASE c = a
    <3>1. x = b /\ y = s
      BY <1>1, <1>6, <2>1
    <3> QED
      BY <1>1, <1>2, <1>5, <1>8, <1>10, <2>1, <3>1
  <2>2. CASE c # a
    <3>1. c \in w.bucket[x][y]
      BY <1>6, <2>2
    <3>2. c \in SpansOf(w) /\ ~w.span[c].is_alloc /\ w.span[c].state = y /\ BinOf(w, c) = x
      BY <3>1 DEF Binned
    <3>3. v.span[c] = w.span[c]
      BY <1>5, <2>2, <3>2 DEF SpansOf
    <3> QED
      BY <1>8, <1>10, <3>2, <3>3
  <2> QED
    BY <2>1, <2>2
<1>12. Loose(v) = Loose(w) \ {a}
  <2>1. a \notin Loose(v)
    BY <1>1, <1>2, <1>5, <1>6, <1>10 DEF Loose
  <2>2. ASSUME NEW c \in SpansOf(w), c # a PROVE c \in Loose(v) <=> c \in Loose(w)
    <3>1. v.span[c] = w.span[c] /\ BinOf(v, c) = BinOf(w, c) /\ BinOf(w, c) \in Bins
          /\ w.span[c].state \in States
      BY <1>5, <1>10, <2>2, SpanFields, RecordFields DEF SpansOf
    <3>2. c \in v.bucket[BinOf(w, c)][w.span[c].state] <=> c \in w.bucket[BinOf(w, c)][w.span[c].state]
      BY <1>6, <2>2, <3>1
    <3> QED
      BY <1>8, <3>1, <3>2 DEF Loose
  <2> QED
    BY <1>8, <2>1, <2>2 DEF Loose
<1> QED
  BY <1>7, <1>9, <1>11, <1>12

TakeState(s) == IF s = "RETAINED" THEN "DIRTY" ELSE s

(* v is w with a taken out of heap s of bin b, by the fields *)
TakeDone(w, v, a, b, s) ==
    /\ v.span = [w.span EXCEPT ![a] = [w.span[a] EXCEPT !.state = TakeState(w.span[a].state)]]
    /\ v.bucket = [w.bucket EXCEPT ![b][s] = w.bucket[b][s] \ {a}]
    /\ v.nspans = [w.nspans EXCEPT ![b] = (w.nspans[b] - 1) % CountMod]
    /\ v.epoch_min = [w.epoch_min EXCEPT ![b] = v.epoch_min[b]]
    /\ v.epoch_min[b] \in {w.epoch_min[b], v.nspans[b]}
    /\ v.bitmap = IF BinEmpty(v, b) THEN [w.bitmap EXCEPT ![b[1]] = w.bitmap[b[1]] \ {b[2]}]
                  ELSE w.bitmap
    /\ v.pagetrie = w.pagetrie /\ v.epoch = w.epoch
    /\ v.origins = w.origins /\ v.mappings = w.mappings /\ v.crashed = w.crashed
    /\ v = [w EXCEPT !.span = v.span, !.bucket = v.bucket, !.nspans = v.nspans,
                     !.epoch_min = v.epoch_min, !.bitmap = v.bitmap]

TakenFrom(w, a, b, s, m) ==
    [w EXCEPT !.bucket[b][s] = @ \ {a}, !.nspans[b] = (@ - 1) % CountMod, !.epoch_min[b] = m]

(* The tail that bin_remove_span and bin_get_span share *)
LEMMA SyncFields ==
    ASSUME NEW w \in World, NEW a \in SpansOf(w), NEW b \in Bins, NEW s \in States,
           NEW m \in 0 .. CountMod - 1, NEW u, NEW v,
           m \in {w.epoch_min[b], (w.nspans[b] - 1) % CountMod},
           u = TakenFrom(w, a, b, s, m),
           v = SyncBitmap(Unretained(u, a), b)
    PROVE  TakeDone(w, v, a, b, s)
<1> PICK x : x = Unretained(u, a)
  OBVIOUS
<1>1. x = [u EXCEPT !.span[a].state = IF @ = "RETAINED" THEN "DIRTY" ELSE @]
  BY DEF Unretained
<1>0. u = [w EXCEPT !.bucket[b][s] = @ \ {a}, !.nspans[b] = (@ - 1) % CountMod,
                    !.epoch_min[b] = m]
  BY DEF TakenFrom
<1>2. x.span = [w.span EXCEPT ![a] = [w.span[a] EXCEPT !.state = TakeState(w.span[a].state)]]
  <2>1. PICK t : t = TakeState(w.span[a].state)
    OBVIOUS
  <2>2. u.span = w.span /\ w.span \in [Page -> SpanRecord \cup {Null}] /\ a \in Page
    BY <1>0, SpanFields DEF World
  <2>3. x = [u EXCEPT !.span[a].state = t]
    BY <1>1, <2>1, <2>2 DEF TakeState
  <2>4. x = [u EXCEPT !.span = [u.span EXCEPT ![a] = [u.span[a] EXCEPT !.state = t]]]
    BY <2>3
  <2>5. x.span = [u.span EXCEPT ![a] = [u.span[a] EXCEPT !.state = t]]
    BY <1>0, <2>4 DEF World
  <2> QED
    BY <2>1, <2>2, <2>5
<1>10. u \in World
  <2>1. u.span = w.span /\ u.bitmap = w.bitmap
    BY <1>0 DEF World
  <2>2. u.bucket = [w.bucket EXCEPT ![b][s] = w.bucket[b][s] \ {a}]
    BY <1>0 DEF World
  <2>3. /\ u.nspans = [w.nspans EXCEPT ![b] = (w.nspans[b] - 1) % CountMod]
        /\ u.epoch_min = [w.epoch_min EXCEPT ![b] = m]
    BY <1>0 DEF World
  <2>4. u = [w EXCEPT !.span = u.span, !.bucket = u.bucket, !.nspans = u.nspans,
                      !.epoch_min = u.epoch_min, !.bitmap = u.bitmap]
    BY <1>0 DEF World
  <2>5. u.bucket \in [Bins -> [States -> SUBSET Page]]
    <3>1. w.bucket \in [Bins -> [States -> SUBSET Page]]
      BY WorldFields
    <3>2. w.bucket[b] \in [States -> SUBSET Page] /\ w.bucket[b][s] \in SUBSET Page
      BY <3>1
    <3>3. [w.bucket[b] EXCEPT ![s] = w.bucket[b][s] \ {a}] \in [States -> SUBSET Page]
      BY <3>2
    <3> QED
      BY <2>2, <3>1, <3>3
  <2>6. u.nspans \in [Bins -> 0 .. CountMod - 1] /\ u.epoch_min \in [Bins -> 0 .. CountMod - 1]
    <3>1. (w.nspans[b] - 1) % CountMod \in 0 .. CountMod - 1
      BY CountFields, ModBelow
    <3> QED
      BY <2>3, <3>1, WorldFields
  <2>7. u.span \in [Page -> SpanRecord \cup {Null}] /\ u.bitmap \in [Arenas -> SUBSET Class]
    BY <2>1, WorldFields
  <2> QED
    BY <2>4, <2>5, <2>6, <2>7, WorldUpdate
<1>11. /\ x.bucket = u.bucket /\ x.nspans = u.nspans /\ x.epoch_min = u.epoch_min
       /\ x.pagetrie = u.pagetrie /\ x.epoch = u.epoch /\ x.bitmap = u.bitmap
       /\ x.origins = u.origins /\ x.mappings = u.mappings /\ x.crashed = u.crashed
  BY <1>1, <1>10 DEF World
<1>3. x.bucket = [w.bucket EXCEPT ![b][s] = w.bucket[b][s] \ {a}]
  <2>1. u.bucket = [w.bucket EXCEPT ![b][s] = w.bucket[b][s] \ {a}]
    BY <1>0 DEF World
  <2> QED
    BY <1>11, <2>1
<1>4. /\ x.nspans = [w.nspans EXCEPT ![b] = (w.nspans[b] - 1) % CountMod]
      /\ x.epoch_min = [w.epoch_min EXCEPT ![b] = m]
  <2>1. /\ u.nspans = [w.nspans EXCEPT ![b] = (w.nspans[b] - 1) % CountMod]
        /\ u.epoch_min = [w.epoch_min EXCEPT ![b] = m]
    BY <1>0 DEF World
  <2> QED
    BY <1>11, <2>1
<1>5. /\ x.pagetrie = w.pagetrie /\ x.epoch = w.epoch /\ x.bitmap = w.bitmap
      /\ x.origins = w.origins /\ x.mappings = w.mappings /\ x.crashed = w.crashed
  <2>1. /\ u.pagetrie = w.pagetrie /\ u.epoch = w.epoch /\ u.bitmap = w.bitmap
        /\ u.origins = w.origins /\ u.mappings = w.mappings /\ u.crashed = w.crashed
    BY <1>0 DEF World
  <2> QED
    BY <1>11, <2>1
<1>6. x = [w EXCEPT !.span = x.span, !.bucket = x.bucket, !.nspans = x.nspans,
                    !.epoch_min = x.epoch_min]
  BY <1>0, <1>1 DEF World
<1>7. x.nspans[b] = (w.nspans[b] - 1) % CountMod /\ x.epoch_min[b] = m
      /\ x.epoch_min = [w.epoch_min EXCEPT ![b] = x.epoch_min[b]]
  <2>1. w.nspans \in [Bins -> 0 .. CountMod - 1] /\ w.epoch_min \in [Bins -> 0 .. CountMod - 1]
    BY WorldFields
  <2> QED
    BY <1>4, <2>1
<1>12. x \in World
  <2>1. PICK t \in States : t = TakeState(w.span[a].state)
    <3>1. w.span[a].state \in States
      BY SpanFields, RecordFields
    <3>2. TakeState(w.span[a].state) \in States
      BY <3>1 DEF TakeState, States
    <3> QED
      BY <3>2
  <2>2. StateSet(w, x.span, a, t)
    BY <1>2, <2>1, StateUpdate
  <2>3. x.span \in [Page -> SpanRecord \cup {Null}]
    BY <2>2 DEF StateSet
  <2>4. x = [u EXCEPT !.span = x.span]
    BY <1>1, <1>10 DEF World
  <2> QED
    BY <1>10, <2>3, <2>4 DEF World
<1>8. CASE BinEmpty(x, b)
  <2>1. v = [x EXCEPT !.bitmap[b[1]] = @ \ {b[2]}]
    BY <1>8 DEF SyncBitmap
  <2>2. v.bitmap = [w.bitmap EXCEPT ![b[1]] = w.bitmap[b[1]] \ {b[2]}]
        /\ v.span = x.span /\ v.bucket = x.bucket /\ v.nspans = x.nspans
        /\ v.epoch_min = x.epoch_min /\ v.pagetrie = x.pagetrie /\ v.epoch = x.epoch
        /\ v.origins = x.origins /\ v.mappings = x.mappings /\ v.crashed = x.crashed
    <3>2. /\ v.bitmap = [x.bitmap EXCEPT ![b[1]] = x.bitmap[b[1]] \ {b[2]}]
          /\ v.span = x.span /\ v.bucket = x.bucket /\ v.nspans = x.nspans
          /\ v.epoch_min = x.epoch_min /\ v.pagetrie = x.pagetrie /\ v.epoch = x.epoch
          /\ v.origins = x.origins /\ v.mappings = x.mappings /\ v.crashed = x.crashed
      BY <1>12, <2>1 DEF World
    <3> QED
      BY <1>5, <3>2
  <2>3. v = [w EXCEPT !.span = v.span, !.bucket = v.bucket, !.nspans = v.nspans,
                      !.epoch_min = v.epoch_min, !.bitmap = v.bitmap]
    BY <2>1, <2>2, <1>6 DEF World
  <2>4. BinEmpty(v, b)
    BY <1>8, <2>2 DEF BinEmpty
  <2> QED
    <3>1. v.bitmap = IF BinEmpty(v, b) THEN [w.bitmap EXCEPT ![b[1]] = w.bitmap[b[1]] \ {b[2]}]
                     ELSE w.bitmap
      BY <2>2, <2>4
    <3>2. /\ v.span = [w.span EXCEPT ![a] = [w.span[a] EXCEPT !.state = TakeState(w.span[a].state)]]
          /\ v.bucket = [w.bucket EXCEPT ![b][s] = w.bucket[b][s] \ {a}]
      BY <1>2, <1>3, <2>2
    <3>3. /\ v.nspans = [w.nspans EXCEPT ![b] = (w.nspans[b] - 1) % CountMod]
          /\ v.epoch_min = [w.epoch_min EXCEPT ![b] = v.epoch_min[b]]
          /\ v.epoch_min[b] \in {w.epoch_min[b], v.nspans[b]}
      BY <1>4, <1>7, <2>2
    <3>4. /\ v.pagetrie = w.pagetrie /\ v.epoch = w.epoch
          /\ v.origins = w.origins /\ v.mappings = w.mappings /\ v.crashed = w.crashed
      BY <1>5, <2>2
    <3> QED
      BY <2>3, <3>1, <3>2, <3>3, <3>4 DEF TakeDone
<1>9. CASE ~BinEmpty(x, b)
  <2>1. v = x
    BY <1>9 DEF SyncBitmap
  <2>2. v = [w EXCEPT !.span = v.span, !.bucket = v.bucket, !.nspans = v.nspans,
                      !.epoch_min = v.epoch_min, !.bitmap = v.bitmap]
    <3>1. v = [x EXCEPT !.bitmap = x.bitmap]
      BY <1>12, <2>1 DEF World
    <3> QED
      BY <1>5, <1>6, <2>1, <3>1 DEF World
  <2> QED
    <3>1. v.bitmap = IF BinEmpty(v, b) THEN [w.bitmap EXCEPT ![b[1]] = w.bitmap[b[1]] \ {b[2]}]
                     ELSE w.bitmap
      BY <1>5, <1>9, <2>1
    <3>2. /\ v.span = [w.span EXCEPT ![a] = [w.span[a] EXCEPT !.state = TakeState(w.span[a].state)]]
          /\ v.bucket = [w.bucket EXCEPT ![b][s] = w.bucket[b][s] \ {a}]
      BY <1>2, <1>3, <2>1
    <3>3. /\ v.nspans = [w.nspans EXCEPT ![b] = (w.nspans[b] - 1) % CountMod]
          /\ v.epoch_min = [w.epoch_min EXCEPT ![b] = v.epoch_min[b]]
          /\ v.epoch_min[b] \in {w.epoch_min[b], v.nspans[b]}
      BY <1>4, <1>7, <2>1
    <3>4. /\ v.pagetrie = w.pagetrie /\ v.epoch = w.epoch
          /\ v.origins = w.origins /\ v.mappings = w.mappings /\ v.crashed = w.crashed
      BY <1>5, <2>1
    <3> QED
      BY <2>2, <3>1, <3>2, <3>3, <3>4 DEF TakeDone
<1> QED
  BY <1>8, <1>9

LEMMA BinRemoveFields ==
    ASSUME NEW w \in World, NEW a \in SpansOf(w), NEW v, v = BinRemove(w, a)
    PROVE  TakeDone(w, v, a, BinOf(w, a), w.span[a].state)
<1>1. PICK b \in Bins, s \in States : b = BinOf(w, a) /\ s = w.span[a].state
  BY SpanFields, RecordFields
<1>2. PICK m : m = w.epoch_min[b]
  OBVIOUS
<1>3. PICK u : u = [w EXCEPT !.bucket[b][s] = @ \ {a}, !.nspans[b] = (@ - 1) % CountMod]
  OBVIOUS
<1>4. u = TakenFrom(w, a, b, s, m)
  BY <1>2, <1>3 DEF World, TakenFrom
<1>5. v = SyncBitmap(Unretained(u, a), b)
  BY <1>1, <1>3 DEF BinRemove
<1>6. m \in 0 .. CountMod - 1 /\ m \in {w.epoch_min[b], (w.nspans[b] - 1) % CountMod}
  BY <1>2, CountFields
<1> QED
  BY <1>1, <1>2, <1>4, <1>5, <1>6, SyncFields

(* The heaps order their spans, so the oldest of some is one of them. *)
LEMMA OldestIn ==
    ASSUME NEW w \in World, NEW S \in SUBSET SpansOf(w), S # {}
    PROVE  /\ Oldest(w, S) \in S
           /\ \A b \in S \ {Oldest(w, S)} :
                 \/ w.span[Oldest(w, S)].age < w.span[b].age
                 \/ w.span[Oldest(w, S)].age = w.span[b].age /\ Oldest(w, S) < b
<1>1. \A c \in S : w.span[c].age \in Nat /\ c \in Nat
  BY SpanFields, RecordFields, Sizes
<1> DEFINE A == {w.span[c].age : c \in S}
<1>2. PICK g \in A : \A y \in A : g <= y
  <2>1. A \in SUBSET Nat /\ A # {}
    BY <1>1
  <2> HIDE DEF A
  <2> QED
    BY <2>1, LeastNat
<1> DEFINE M == {c \in S : w.span[c].age = g}
<1>3. PICK a \in M : \A y \in M : a <= y
  <2>1. M \in SUBSET Nat /\ M # {}
    BY <1>1, <1>2
  <2> HIDE DEF M
  <2> QED
    BY <2>1, LeastNat
<1>4. a \in S /\ w.span[a].age = g
  OBVIOUS
<1>5. \A b \in S \ {a} : \/ w.span[a].age < w.span[b].age
                         \/ w.span[a].age = w.span[b].age /\ a < b
  <2> SUFFICES ASSUME NEW b \in S \ {a}
               PROVE \/ w.span[a].age < w.span[b].age
                     \/ w.span[a].age = w.span[b].age /\ a < b
    OBVIOUS
  <2>1. w.span[b].age \in A /\ g <= w.span[b].age /\ g \in Nat /\ w.span[b].age \in Nat
    BY <1>1, <1>2, <1>4
  <2>2. w.span[b].age = g => a <= b /\ a # b /\ a \in Nat /\ b \in Nat
    BY <1>1, <1>3
  <2> QED
    BY <1>4, <2>1, <2>2
<1> QED
  BY <1>4, <1>5 DEF Oldest

LEMMA BinPopFields ==
    ASSUME NEW w \in World, Binned(w), NEW b \in Bins, ~BinEmpty(w, b), NEW v, v = BinPop(w, b),
           NEW a, a = NextOut(w, b), NEW s, s = FirstBucket(w, b)
    PROVE  /\ s \in States /\ a \in w.bucket[b][s] /\ a \in SpansOf(w) /\ w.span[a].state = s
           /\ BinOf(w, a) = b /\ ~w.span[a].is_alloc
           /\ TakeDone(w, v, a, b, s)
<1>1. s \in States /\ w.bucket[b][s] # {}
  BY DEF FirstBucket, BinEmpty, States
<1>2. w.bucket[b][s] \in SUBSET SpansOf(w)
  BY <1>1 DEF Binned
<1>3. a \in w.bucket[b][s]
  BY <1>1, <1>2, OldestIn DEF NextOut
<1>4. a \in SpansOf(w) /\ w.span[a].state = s /\ BinOf(w, a) = b /\ ~w.span[a].is_alloc
  BY <1>1, <1>3 DEF Binned
<1>5. PICK n : n = (w.nspans[b] - 1) % CountMod
  OBVIOUS
<1>6. PICK m : m = IF w.epoch_min[b] > n THEN n ELSE w.epoch_min[b]
  OBVIOUS
<1>7. PICK u : u = TakenFrom(w, a, b, s, m)
  OBVIOUS
<1>8. v = SyncBitmap(Unretained(u, a), b)
  <2>1. u = [w EXCEPT !.bucket[b][s] = @ \ {a}, !.nspans[b] = n,
                      !.epoch_min[b] = IF @ > n THEN n ELSE @]
    BY <1>5, <1>6, <1>7 DEF World, TakenFrom
  <2> QED
    BY <2>1, <1>5 DEF BinPop
<1>9. m \in 0 .. CountMod - 1 /\ m \in {w.epoch_min[b], (w.nspans[b] - 1) % CountMod}
  BY <1>5, <1>6, CountFields, ModBelow
<1> QED
  BY <1>1, <1>3, <1>4, <1>7, <1>8, <1>9, SyncFields

LEMMA TakeKeeps ==
    ASSUME NEW w \in World, Binned(w), NEW a \in SpansOf(w), ~w.span[a].is_alloc,
           NEW v, TakeDone(w, v, a, BinOf(w, a), w.span[a].state)
    PROVE  v \in World /\ SameShape(w, v) /\ Binned(v) /\ Loose(v) = Loose(w) \cup {a}
<1>1. PICK b \in Bins, s \in States : b = BinOf(w, a) /\ s = w.span[a].state
  BY SpanFields, RecordFields
<1>2. PICK t \in States : t = TakeState(s)
  BY DEF TakeState, States
<1>3. TakeDone(w, v, a, b, s)
  BY <1>1
<1>4. /\ v.span \in [Page -> SpanRecord \cup {Null}]
      /\ v.span[a].state = t /\ SameBut(w.span[a], v.span[a]) /\ v.span[a] # Null
      /\ \A c \in Page \ {a} : v.span[c] = w.span[c]
      /\ \A c \in SpansOf(w) : SameBut(w.span[c], v.span[c])
  <2>1. StateSet(w, v.span, a, t)
    BY <1>1, <1>2, <1>3, StateUpdate DEF TakeDone
  <2> QED
    BY <2>1 DEF StateSet
<1>5. /\ v.bucket \in [Bins -> [States -> SUBSET Page]]
      /\ \A x \in Bins, y \in States : v.bucket[x][y] = IF x = b /\ y = s THEN w.bucket[b][s] \ {a}
                                                                         ELSE w.bucket[x][y]
  <2>1. w.bucket \in [Bins -> [States -> SUBSET Page]] /\ w.bucket[b][s] \ {a} \in SUBSET Page
    BY WorldFields
  <2>2. v.bucket = [w.bucket EXCEPT ![b][s] = w.bucket[b][s] \ {a}]
    BY <1>3 DEF TakeDone
  <2> QED
    BY <2>1, <2>2, Update2
<1>6. v \in World
  <2>1. v.nspans \in [Bins -> 0 .. CountMod - 1]
    <3>1. v.nspans = [w.nspans EXCEPT ![b] = (w.nspans[b] - 1) % CountMod]
      BY <1>3 DEF TakeDone
    <3>2. (w.nspans[b] - 1) % CountMod \in 0 .. CountMod - 1
      BY CountFields, ModBelow
    <3> QED
      BY <3>1, <3>2, WorldFields
  <2>2. v.epoch_min \in [Bins -> 0 .. CountMod - 1]
    <3>1. v.epoch_min = [w.epoch_min EXCEPT ![b] = v.epoch_min[b]]
          /\ v.epoch_min[b] \in {w.epoch_min[b], v.nspans[b]}
      BY <1>3 DEF TakeDone
    <3>2. v.epoch_min[b] \in 0 .. CountMod - 1
      BY <2>1, <3>1, CountFields
    <3>3. w.epoch_min \in [Bins -> 0 .. CountMod - 1]
      BY WorldFields
    <3> QED
      BY <3>1, <3>2, <3>3
  <2>3. v.bitmap \in [Arenas -> SUBSET Class]
    <3>1. b[1] \in Arenas /\ b[2] \in Class
      BY DEF Bins
    <3>2. w.bitmap \in [Arenas -> SUBSET Class]
          /\ v.bitmap \in {[w.bitmap EXCEPT ![b[1]] = w.bitmap[b[1]] \ {b[2]}], w.bitmap}
      <4>1. w.bitmap \in [Arenas -> SUBSET Class]
        BY WorldFields
      <4>2. v.bitmap = IF BinEmpty(v, b) THEN [w.bitmap EXCEPT ![b[1]] = w.bitmap[b[1]] \ {b[2]}]
                       ELSE w.bitmap
        BY <1>3 DEF TakeDone
      <4> QED
        BY <4>1, <4>2, Zenon
    <3>3. PICK c \in SUBSET Class : c = w.bitmap[b[1]] \ {b[2]}
      BY <3>1, <3>2
    <3>4. [w.bitmap EXCEPT ![b[1]] = c] \in [Arenas -> SUBSET Class]
      BY <3>1, <3>2
    <3> QED
      BY <3>2, <3>3, <3>4
  <2>4. v = [w EXCEPT !.span = v.span, !.bucket = v.bucket, !.nspans = v.nspans,
                      !.epoch_min = v.epoch_min, !.bitmap = v.bitmap]
    BY <1>3 DEF TakeDone
  <2> QED
    BY <1>4, <1>5, <2>1, <2>2, <2>3, <2>4, WorldUpdate
<1>7. SpansOf(v) = SpansOf(w)
  BY <1>4 DEF SpansOf
<1>8. SameShape(w, v)
  BY <1>3, <1>4, <1>7 DEF SameShape, TakeDone
<1>9. \A c \in SpansOf(w) : BinOf(v, c) = BinOf(w, c) /\ v.span[c].is_alloc = w.span[c].is_alloc
  BY <1>4 DEF BinOf, SameBut
<1>10. \A x \in Bins, y \in States : a \notin v.bucket[x][y]
  BY <1>1, <1>5 DEF Binned
<1>11. Binned(v)
  <2> SUFFICES ASSUME NEW x \in Bins, NEW y \in States, NEW c \in v.bucket[x][y]
               PROVE  /\ c \in SpansOf(v) /\ ~v.span[c].is_alloc
                      /\ v.span[c].state = y /\ BinOf(v, c) = x
    BY DEF Binned
  <2>1. c # a /\ c \in w.bucket[x][y]
    BY <1>5, <1>10
  <2>2. c \in SpansOf(w) /\ ~w.span[c].is_alloc /\ w.span[c].state = y /\ BinOf(w, c) = x
    BY <2>1 DEF Binned
  <2>3. v.span[c] = w.span[c]
    BY <1>4, <2>1, <2>2 DEF SpansOf
  <2> QED
    BY <1>7, <1>9, <2>2, <2>3
<1>12. Loose(v) = Loose(w) \cup {a}
  <2>1. a \in Loose(v)
    BY <1>1, <1>2, <1>4, <1>7, <1>9, <1>10 DEF Loose
  <2>2. ASSUME NEW c \in SpansOf(w), c # a PROVE c \in Loose(v) <=> c \in Loose(w)
    <3>1. v.span[c] = w.span[c] /\ BinOf(v, c) = BinOf(w, c) /\ BinOf(w, c) \in Bins
          /\ w.span[c].state \in States
      BY <1>4, <1>9, <2>2, SpanFields, RecordFields DEF SpansOf
    <3>2. c \in v.bucket[BinOf(w, c)][w.span[c].state] <=> c \in w.bucket[BinOf(w, c)][w.span[c].state]
      BY <1>5, <2>2, <3>1
    <3> QED
      BY <1>7, <3>1, <3>2 DEF Loose
  <2> QED
    BY <1>7, <2>1, <2>2 DEF Loose
<1> QED
  BY <1>6, <1>8, <1>11, <1>12

LEMMA BinRemoveKeeps ==
    ASSUME NEW w \in World, Binned(w), NEW a \in SpansOf(w), ~w.span[a].is_alloc,
           NEW v, v = BinRemove(w, a)
    PROVE  v \in World /\ SameShape(w, v) /\ Binned(v) /\ Loose(v) = Loose(w) \cup {a}
  BY BinRemoveFields, TakeKeeps

LEMMA BinPopKeeps ==
    ASSUME NEW w \in World, Binned(w), NEW b \in Bins, ~BinEmpty(w, b), NEW v, v = BinPop(w, b),
           NEW a, a = NextOut(w, b)
    PROVE  /\ a \in SpansOf(w) /\ ~w.span[a].is_alloc /\ BinOf(w, a) = b
           /\ v \in World /\ SameShape(w, v) /\ Binned(v) /\ Loose(v) = Loose(w) \cup {a}
<1>1. /\ a \in SpansOf(w) /\ w.span[a].state = FirstBucket(w, b)
      /\ BinOf(w, a) = b /\ ~w.span[a].is_alloc
      /\ TakeDone(w, v, a, b, FirstBucket(w, b))
  BY BinPopFields
<1>2. TakeDone(w, v, a, BinOf(w, a), w.span[a].state)
  BY <1>1
<1> QED
  BY <1>1, <1>2, TakeKeeps

SameBins(w, v) == v.bucket = w.bucket /\ v.nspans = w.nspans
                  /\ v.epoch_min = w.epoch_min /\ v.bitmap = w.bitmap

InBin(w, b) == UNION {w.bucket[b][s] : s \in States}

(* The counters and bitmaps agree with the heaps, if a count cannot wrap. *)
Counted(w) ==
    NPages < CountMod =>
        \A b \in Bins : /\ w.nspans[b] = Cardinality(InBin(w, b))
                        /\ b[2] \in w.bitmap[b[1]] <=> InBin(w, b) # {}

LEMMA InBinFacts ==
    ASSUME NEW w \in World, NEW b \in Bins
    PROVE  /\ InBin(w, b) \subseteq Page /\ IsFiniteSet(InBin(w, b))
           /\ Cardinality(InBin(w, b)) \in Nat /\ Cardinality(InBin(w, b)) <= NPages
           /\ InBin(w, b) = {} <=> BinEmpty(w, b)
<1>1. InBin(w, b) \subseteq Page
  BY WorldFields DEF InBin
<1>2. IsFiniteSet(Page) /\ Cardinality(Page) = NPages
  <2>1. PICK n \in Nat \ {0} : n = NPages
    BY Sizes
  <2>2. Page = 0 .. n - 1
    BY <2>1 DEF Page
  <2>3. IsFiniteSet(0 .. n - 1)
        /\ Cardinality(0 .. n - 1) = IF 0 > n - 1 THEN 0 ELSE (n - 1) - 0 + 1
    BY <2>1, FS_Interval
  <2> QED
    BY <2>1, <2>2, <2>3
<1>3. IsFiniteSet(InBin(w, b)) /\ Cardinality(InBin(w, b)) <= NPages
  BY <1>1, <1>2, FS_Subset
<1>4. Cardinality(InBin(w, b)) \in Nat
  BY <1>3, FS_CardinalityType
<1>5. InBin(w, b) = {} <=> BinEmpty(w, b)
  BY DEF InBin, BinEmpty
<1> QED
  BY <1>1, <1>3, <1>4, <1>5

(* A span with no heap goes into one: one more in its bin. *)
LEMMA BinPutCounts ==
    ASSUME NEW w \in World, Binned(w), Counted(w), NEW a \in Loose(w), NEW v, v = BinPut(w, a)
    PROVE  Counted(v)
<1> SUFFICES ASSUME NPages < CountMod, NEW x \in Bins
             PROVE  /\ v.nspans[x] = Cardinality(InBin(v, x))
                    /\ x[2] \in v.bitmap[x[1]] <=> InBin(v, x) # {}
  BY DEF Counted
<1>1. a \in SpansOf(w) /\ \A b \in Bins, s \in States : a \notin w.bucket[b][s]
  BY DEF Loose, Binned
<1>2. PICK b \in Bins, s \in States : b = BinOf(w, a) /\ s = PutState(w.span[a].state)
  BY <1>1, SpanFields DEF PutState, States
<1>3. v \in World
  BY BinPutKeeps
<1>4. PutDone(w, v, a, b, s)
  BY <1>1, <1>2, BinPutFields
<1>5. /\ v.bucket = [w.bucket EXCEPT ![b][s] = w.bucket[b][s] \cup {a}]
      /\ v.nspans = [w.nspans EXCEPT ![b] = (w.nspans[b] + 1) % CountMod]
      /\ v.bitmap = [w.bitmap EXCEPT ![b[1]] = w.bitmap[b[1]] \cup {b[2]}]
  BY <1>4 DEF PutDone
<1>6. \A y \in Bins, t \in States : v.bucket[y][t] = IF y = b /\ t = s THEN w.bucket[b][s] \cup {a}
                                                                        ELSE w.bucket[y][t]
  <2>1. w.bucket \in [Bins -> [States -> SUBSET Page]] /\ w.bucket[b][s] \cup {a} \in SUBSET Page
    BY <1>1, SpanFields, WorldFields
  <2> QED
    BY <1>5, <2>1, Update2
<1>7. InBin(v, b) = InBin(w, b) \cup {a} /\ a \notin InBin(w, b)
  BY <1>1, <1>6 DEF InBin
<1>8. \A y \in Bins \ {b} : InBin(v, y) = InBin(w, y)
  BY <1>6 DEF InBin
<1>9. w.nspans[b] = Cardinality(InBin(w, b)) /\ w.nspans[x] = Cardinality(InBin(w, x))
      /\ (x[2] \in w.bitmap[x[1]] <=> InBin(w, x) # {})
  BY DEF Counted
<1>10. w.nspans \in [Bins -> 0 .. CountMod - 1] /\ w.bitmap \in [Arenas -> SUBSET Class]
  BY WorldFields
<1>11. b[1] \in Arenas /\ b[2] \in Class /\ b = <<b[1], b[2]>>
       /\ x[1] \in Arenas /\ x[2] \in Class /\ x = <<x[1], x[2]>>
  BY DEF Bins
<1>12. CASE x = b
  <2>1. Cardinality(InBin(v, b)) = Cardinality(InBin(w, b)) + 1
    <3>1. PICK S : S = InBin(w, b)
      OBVIOUS
    <3>2. IsFiniteSet(S) /\ a \notin S /\ InBin(v, b) = S \cup {a}
      BY <1>7, <3>1, InBinFacts
    <3>3. Cardinality(S \cup {a}) = Cardinality(S) + 1
      BY <3>2, FS_AddElement
    <3> QED
      BY <3>1, <3>2, <3>3
  <2>2. PICK n \in Nat : n = Cardinality(InBin(w, b))
    BY InBinFacts
  <2>3. n + 1 \in Nat /\ n + 1 < CountMod
    BY <1>3, <2>1, <2>2, InBinFacts, Sizes
  <2>4. (n + 1) % CountMod = n + 1
    BY <2>2, <2>3, Sizes
  <2>5. v.nspans[b] = (w.nspans[b] + 1) % CountMod
    BY <1>5, <1>10
  <2>6. b[2] \in v.bitmap[b[1]]
    BY <1>5, <1>10, <1>11
  <2> QED
    BY <1>7, <1>9, <1>12, <2>1, <2>2, <2>4, <2>5, <2>6
<1>13. CASE x # b
  <2>1. v.nspans[x] = w.nspans[x]
    BY <1>5, <1>10, <1>13
  <2>2. x[2] \in v.bitmap[x[1]] <=> x[2] \in w.bitmap[x[1]]
    BY <1>5, <1>10, <1>11, <1>13
  <2> QED
    BY <1>8, <1>9, <1>13, <2>1, <2>2
<1> QED
  BY <1>12, <1>13

(* A span leaves its heap: one less in its bin. *)
LEMMA TakeCounts ==
    ASSUME NEW w \in World, Binned(w), Counted(w), NEW a \in SpansOf(w), ~w.span[a].is_alloc,
           a \notin Loose(w),
           NEW v, TakeDone(w, v, a, BinOf(w, a), w.span[a].state)
    PROVE  Counted(v)
<1> SUFFICES ASSUME NPages < CountMod, NEW x \in Bins
             PROVE  /\ v.nspans[x] = Cardinality(InBin(v, x))
                    /\ x[2] \in v.bitmap[x[1]] <=> InBin(v, x) # {}
  BY DEF Counted
<1>1. PICK b \in Bins, s \in States : b = BinOf(w, a) /\ s = w.span[a].state
  BY SpanFields, RecordFields
<1>2. a \in w.bucket[b][s] /\ \A y \in Bins, t \in States : a \in w.bucket[y][t] => y = b /\ t = s
  BY <1>1 DEF Loose, Binned
<1>3. v \in World
  BY TakeKeeps
<1>4. TakeDone(w, v, a, b, s)
  BY <1>1
<1>5. /\ v.bucket = [w.bucket EXCEPT ![b][s] = w.bucket[b][s] \ {a}]
      /\ v.nspans = [w.nspans EXCEPT ![b] = (w.nspans[b] - 1) % CountMod]
      /\ v.bitmap = IF BinEmpty(v, b) THEN [w.bitmap EXCEPT ![b[1]] = w.bitmap[b[1]] \ {b[2]}]
                    ELSE w.bitmap
  BY <1>4 DEF TakeDone
<1>6. \A y \in Bins, t \in States : v.bucket[y][t] = IF y = b /\ t = s THEN w.bucket[b][s] \ {a}
                                                                        ELSE w.bucket[y][t]
  <2>1. w.bucket \in [Bins -> [States -> SUBSET Page]] /\ w.bucket[b][s] \ {a} \in SUBSET Page
    BY WorldFields
  <2> QED
    BY <1>5, <2>1, Update2
<1>7. InBin(v, b) = InBin(w, b) \ {a} /\ a \in InBin(w, b)
  BY <1>2, <1>6 DEF InBin
<1>8. \A y \in Bins \ {b} : InBin(v, y) = InBin(w, y)
  BY <1>6 DEF InBin
<1>9. w.nspans[b] = Cardinality(InBin(w, b)) /\ w.nspans[x] = Cardinality(InBin(w, x))
      /\ (x[2] \in w.bitmap[x[1]] <=> InBin(w, x) # {})
      /\ (b[2] \in w.bitmap[b[1]] <=> InBin(w, b) # {})
  BY DEF Counted
<1>10. w.nspans \in [Bins -> 0 .. CountMod - 1] /\ w.bitmap \in [Arenas -> SUBSET Class]
  BY WorldFields
<1>11. b[1] \in Arenas /\ b[2] \in Class /\ b = <<b[1], b[2]>>
       /\ x[1] \in Arenas /\ x[2] \in Class /\ x = <<x[1], x[2]>>
  BY DEF Bins
<1>12. CASE x = b
  <2>1. Cardinality(InBin(v, b)) = Cardinality(InBin(w, b)) - 1
    <3>1. PICK S : S = InBin(w, b)
      OBVIOUS
    <3>2. IsFiniteSet(S) /\ a \in S
      BY <1>7, <3>1, InBinFacts
    <3>3. Cardinality(S \ {a}) = Cardinality(S) - 1
      BY <3>2, FS_RemoveElement
    <3> QED
      BY <1>7, <3>1, <3>3
  <2>2. PICK n \in Nat : n = Cardinality(InBin(w, b))
    BY InBinFacts
  <2>3. n - 1 \in Nat /\ n - 1 < CountMod
    BY <1>3, <2>1, <2>2, InBinFacts, Sizes
  <2>4. (n - 1) % CountMod = n - 1
    BY <2>2, <2>3, Sizes
  <2>5. v.nspans[b] = (w.nspans[b] - 1) % CountMod
    BY <1>5, <1>10
  <2>6. b[2] \in v.bitmap[b[1]] <=> InBin(v, b) # {}
    <3>1. CASE BinEmpty(v, b)
      BY <1>3, <1>5, <1>10, <1>11, <3>1, InBinFacts
    <3>2. CASE ~BinEmpty(v, b)
      BY <1>3, <1>5, <1>7, <1>9, <3>2, InBinFacts
    <3> QED
      BY <3>1, <3>2
  <2> QED
    BY <1>9, <1>12, <2>1, <2>2, <2>4, <2>5, <2>6
<1>13. CASE x # b
  <2>1. v.nspans[x] = w.nspans[x]
    BY <1>5, <1>10, <1>13
  <2>2. x[2] \in v.bitmap[x[1]] <=> x[2] \in w.bitmap[x[1]]
    BY <1>5, <1>10, <1>11, <1>13
  <2> QED
    BY <1>8, <1>9, <1>13, <2>1, <2>2
<1> QED
  BY <1>12, <1>13

LEMMA SameBinsCounts ==
    ASSUME NEW w, NEW v, SameBins(w, v)
    PROVE  Counted(v) <=> Counted(w)
  BY DEF SameBins, Counted, InBin

(* The bitmaps agree with the heaps, whatever the counters say. *)
Marked(w) == \A b \in Bins : b[2] \in w.bitmap[b[1]] <=> ~BinEmpty(w, b)

LEMMA SameBinsMarked ==
    ASSUME NEW w, NEW v, SameBins(w, v)
    PROVE  Marked(v) <=> Marked(w)
  BY DEF SameBins, Marked, BinEmpty

LEMMA BinPutMarked ==
    ASSUME NEW w \in World, Marked(w), NEW a \in SpansOf(w), NEW v, v = BinPut(w, a)
    PROVE  Marked(v)
<1>1. PICK b \in Bins, s \in States : b = BinOf(w, a) /\ s = PutState(w.span[a].state)
  BY SpanFields DEF PutState, States
<1>2. PutDone(w, v, a, b, s)
  BY <1>1, BinPutFields
<1>3. /\ v.bucket = [w.bucket EXCEPT ![b][s] = w.bucket[b][s] \cup {a}]
      /\ v.bitmap = [w.bitmap EXCEPT ![b[1]] = w.bitmap[b[1]] \cup {b[2]}]
  BY <1>2 DEF PutDone
<1>4. \A y \in Bins, t \in States : v.bucket[y][t] = IF y = b /\ t = s THEN w.bucket[b][s] \cup {a}
                                                                        ELSE w.bucket[y][t]
  <2>1. w.bucket \in [Bins -> [States -> SUBSET Page]] /\ w.bucket[b][s] \cup {a} \in SUBSET Page
    BY SpanFields, WorldFields
  <2> QED
    BY <1>3, <2>1, Update2
<1>5. w.bitmap \in [Arenas -> SUBSET Class]
  BY WorldFields
<1>6. \A x \in Bins : x[1] \in Arenas /\ x[2] \in Class /\ x = <<x[1], x[2]>>
  BY DEF Bins
<1>7. ASSUME NEW x \in Bins PROVE x[2] \in v.bitmap[x[1]] <=> ~BinEmpty(v, x)
  <2>1. CASE x = b
    BY <1>3, <1>4, <1>5, <1>6, <2>1 DEF BinEmpty
  <2>2. CASE x # b
    <3>1. x[2] \in v.bitmap[x[1]] <=> x[2] \in w.bitmap[x[1]]
      BY <1>3, <1>5, <1>6, <2>2
    <3>2. BinEmpty(v, x) <=> BinEmpty(w, x)
      BY <1>4, <2>2 DEF BinEmpty
    <3> QED
      BY <3>1, <3>2 DEF Marked
  <2> QED
    BY <2>1, <2>2
<1> QED
  BY <1>7 DEF Marked

(* The bit of a bin goes with its last span, whether or not the span that  *)
(* leaves was in a heap.                                                   *)
LEMMA TakeMarked ==
    ASSUME NEW w \in World, Marked(w), NEW v, NEW a, NEW b \in Bins, NEW s \in States,
           TakeDone(w, v, a, b, s)
    PROVE  Marked(v)
<1>1. /\ v.bucket = [w.bucket EXCEPT ![b][s] = w.bucket[b][s] \ {a}]
      /\ v.bitmap = IF BinEmpty(v, b) THEN [w.bitmap EXCEPT ![b[1]] = w.bitmap[b[1]] \ {b[2]}]
                    ELSE w.bitmap
  BY DEF TakeDone
<1>2. \A y \in Bins, t \in States : v.bucket[y][t] = IF y = b /\ t = s THEN w.bucket[b][s] \ {a}
                                                                        ELSE w.bucket[y][t]
  <2>1. w.bucket \in [Bins -> [States -> SUBSET Page]] /\ w.bucket[b][s] \ {a} \in SUBSET Page
    BY WorldFields
  <2> QED
    BY <1>1, <2>1, Update2
<1>3. w.bitmap \in [Arenas -> SUBSET Class]
  BY WorldFields
<1>4. \A x \in Bins : x[1] \in Arenas /\ x[2] \in Class /\ x = <<x[1], x[2]>>
  BY DEF Bins
<1>5. ASSUME NEW x \in Bins PROVE x[2] \in v.bitmap[x[1]] <=> ~BinEmpty(v, x)
  <2>1. CASE x = b /\ BinEmpty(v, b)
    BY <1>1, <1>3, <1>4, <2>1
  <2>2. CASE x = b /\ ~BinEmpty(v, b)
    <3>1. ~BinEmpty(w, b)
      BY <1>2, <2>2 DEF BinEmpty
    <3> QED
      BY <1>1, <2>2, <3>1 DEF Marked
  <2>3. CASE x # b
    <3>1. x[2] \in v.bitmap[x[1]] <=> x[2] \in w.bitmap[x[1]]
      BY <1>1, <1>3, <1>4, <2>3
    <3>2. BinEmpty(v, x) <=> BinEmpty(w, x)
      BY <1>2, <2>3 DEF BinEmpty
    <3> QED
      BY <3>1, <3>2 DEF Marked
  <2> QED
    BY <2>1, <2>2, <2>3
<1> QED
  BY <1>5 DEF Marked

-----------------------------------------------------------------------------
(* Spans, mappings and the pagetrie *)

Mapped(w) == MappedPages(w.mappings)

(* The spans of a world partition the mapped pages. *)
Tiled(w) ==
    /\ Mapped(w) \subseteq Page
    /\ \A a \in SpansOf(w) : Extent(w, a) \subseteq Mapped(w)
    /\ \A p \in Mapped(w) : \E a \in SpansOf(w) : p \in Extent(w, a)
    /\ \A a, b \in SpansOf(w) : a # b => Extent(w, a) \cap Extent(w, b) = {}

Classed(w) == \A a \in SpansOf(w) : w.span[a].szclass = SpanClass(w.span[a].nbytes)

Indexed(w) ==
    \A p \in Page : IF p \in Mapped(w)
                    THEN w.pagetrie[p] \in SpansOf(w) /\ p \in Extent(w, w.pagetrie[p])
                    ELSE w.pagetrie[p] = Null

(* What no call of the cache disturbs *)
Sound(w) == w \in World /\ Tiled(w) /\ Classed(w) /\ Indexed(w) /\ Binned(w)

LEMMA ExtentFacts ==
    ASSUME NEW w \in World, NEW a \in SpansOf(w)
    PROVE  /\ a \in Nat /\ w.span[a].nbytes \in Nat \ {0}
           /\ \A p \in Extent(w, a) : p \in Nat /\ a <= p /\ p < a + w.span[a].nbytes
           /\ \A p \in Int : a <= p /\ p < a + w.span[a].nbytes => p \in Extent(w, a)
           /\ a \in Extent(w, a)
<1>1. PICK n : n = w.span[a].nbytes
  OBVIOUS
<1>2. a \in Nat /\ n \in Nat \ {0}
  BY <1>1, SpanFields, RecordFields
<1>3. Extent(w, a) = a .. (a + n - 1)
  BY <1>1 DEF Extent
<1> QED
  BY ONLY <1>1, <1>2, <1>3

LEMMA ExtentRange ==
    ASSUME NEW w \in World, NEW a \in SpansOf(w), NEW n, w.span[a].nbytes = n
    PROVE  /\ \A p \in Nat : p \in Extent(w, a) <=> a <= p /\ p < a + n
           /\ n \in Nat \ {0}
<1>1. n \in Nat \ {0} /\ a \in Nat
  BY ExtentFacts
<1>2. Extent(w, a) = a .. (a + n - 1)
  BY DEF Extent
<1> QED
  BY ONLY <1>1, <1>2

LEMMA SameExtent ==
    ASSUME NEW w, NEW v, NEW a, SameBut(w.span[a], v.span[a])
    PROVE  Extent(v, a) = Extent(w, a)
  BY DEF SameBut, Extent

(* Two spans that share a page are one. *)
LEMMA OneSpan ==
    ASSUME NEW w \in World, Tiled(w), NEW a \in SpansOf(w), NEW b \in SpansOf(w),
           NEW p \in Extent(w, a), p \in Extent(w, b)
    PROVE  a = b
  BY DEF Tiled

(* The spans D make way for the spans E, on the same pages and on newly   *)
(* mapped ones,                                                            *)
Resized(w, v, D, E) ==
    /\ D \subseteq SpansOf(w) /\ E \subseteq SpansOf(v)
    /\ SpansOf(v) = (SpansOf(w) \ D) \cup E
    /\ \A b \in SpansOf(w) \ D : SameBut(w.span[b], v.span[b])
    /\ \A e \in E : v.span[e].szclass = SpanClass(v.span[e].nbytes)
    /\ Mapped(w) \subseteq Mapped(v) /\ Mapped(v) \subseteq Page
    /\ \A p \in Nat : (p \in Mapped(v) \ Mapped(w) \/ \E d \in D : p \in Extent(w, d))
                      <=> \E e \in E : p \in Extent(v, e)
    /\ \A e, f \in E : e # f => Extent(v, e) \cap Extent(v, f) = {}

(* and the pagetrie is brought up to date.                                 *)
Reshaped(w, v, D, E) ==
    /\ Resized(w, v, D, E)
    /\ \A p \in Page : IF \E e \in E : p \in Extent(v, e)
                       THEN v.pagetrie[p] \in E /\ p \in Extent(v, v.pagetrie[p])
                       ELSE v.pagetrie[p] = w.pagetrie[p]

LEMMA ResizedKeeps ==
    ASSUME NEW w \in World, NEW v \in World, Tiled(w), Classed(w),
           NEW D, NEW E, Resized(w, v, D, E)
    PROVE  Tiled(v) /\ Classed(v)
<1> DEFINE K == SpansOf(w) \ D
<1>1. \A b \in K : Extent(v, b) = Extent(w, b) /\ b \in SpansOf(v) /\ b \in SpansOf(w) /\ b \notin D
  BY SameExtent DEF Resized
<1>2. \A a \in SpansOf(v) : a \in K \/ a \in E
  BY DEF Resized
<1>3. \A b \in K, e \in E : Extent(v, b) \cap Extent(v, e) = {}
  <2> SUFFICES ASSUME NEW b \in K, NEW e \in E, NEW p \in Extent(v, b), p \in Extent(v, e)
               PROVE  FALSE
    OBVIOUS
  <2>1. p \in Extent(w, b) /\ p \in Nat /\ p \in Mapped(w)
    BY <1>1, ExtentFacts DEF Tiled
  <2>2. PICK d \in D : p \in Extent(w, d)
    BY <2>1 DEF Resized
  <2>3. d \in SpansOf(w)
    BY DEF Resized
  <2> QED
    BY <1>1, <2>1, <2>2, <2>3, OneSpan
<1>4. \A b \in K : b \notin E
  BY <1>1, <1>3, ExtentFacts
<1>5. Tiled(v)
  <2>1. Mapped(v) \subseteq Page
    BY DEF Resized
  <2>2. ASSUME NEW a \in SpansOf(v), NEW p \in Extent(v, a) PROVE p \in Mapped(v)
    <3>1. CASE a \in K
      BY <1>1, <3>1 DEF Tiled, Resized
    <3>2. CASE a \in E
      <4>1. p \in Nat
        BY ExtentFacts
      <4>2. p \in Mapped(v) \/ \E d \in D : p \in Extent(w, d)
        BY <3>2, <4>1 DEF Resized
      <4> QED
        BY <4>2 DEF Tiled, Resized
    <3> QED
      BY <1>2, <3>1, <3>2
  <2>3. ASSUME NEW p \in Mapped(v) PROVE \E a \in SpansOf(v) : p \in Extent(v, a)
    <3>1. p \in Nat
      BY <2>1, Sizes
    <3>2. CASE \E e \in E : p \in Extent(v, e)
      BY <3>2 DEF Resized
    <3>3. CASE ~\E e \in E : p \in Extent(v, e)
      <4>1. p \in Mapped(w) /\ ~\E d \in D : p \in Extent(w, d)
        BY <3>1, <3>3 DEF Resized
      <4>2. PICK a \in SpansOf(w) : p \in Extent(w, a)
        BY <4>1 DEF Tiled
      <4>3. a \in K
        BY <4>1, <4>2
      <4> QED
        BY <1>1, <4>2, <4>3
    <3> QED
      BY <3>2, <3>3
  <2>4. ASSUME NEW a \in SpansOf(v), NEW b \in SpansOf(v), a # b
        PROVE  Extent(v, a) \cap Extent(v, b) = {}
    <3>1. CASE a \in K /\ b \in K
      BY <1>1, <2>4, <3>1 DEF Tiled
    <3>2. CASE a \in E /\ b \in E
      BY <2>4, <3>2 DEF Resized
    <3> QED
      BY <1>2, <1>3, <3>1, <3>2
  <2> QED
    BY <2>1, <2>2, <2>3, <2>4 DEF Tiled
<1>6. Classed(v)
  <2> SUFFICES ASSUME NEW a \in SpansOf(v)
               PROVE  v.span[a].szclass = SpanClass(v.span[a].nbytes)
    BY DEF Classed
  <2>1. CASE a \in K
    BY <1>1, <2>1 DEF Classed, Resized, SameBut
  <2>2. CASE a \in E
    BY <2>2 DEF Resized
  <2> QED
    BY <1>2, <2>1, <2>2
<1> QED
  BY <1>5, <1>6

LEMMA ReshapedKeeps ==
    ASSUME NEW w \in World, NEW v \in World, Tiled(w), Classed(w), Indexed(w),
           NEW D, NEW E, Reshaped(w, v, D, E)
    PROVE  Tiled(v) /\ Classed(v) /\ Indexed(v)
<1>1. Resized(w, v, D, E)
  BY DEF Reshaped
<1>2. Tiled(v) /\ Classed(v)
  BY <1>1, ResizedKeeps
<1> DEFINE K == SpansOf(w) \ D
<1>3. \A b \in K : Extent(v, b) = Extent(w, b) /\ b \in SpansOf(v)
  BY <1>1, SameExtent DEF Resized
<1>4. Indexed(v)
  <2> SUFFICES ASSUME NEW p \in Page
               PROVE  IF p \in Mapped(v)
                      THEN v.pagetrie[p] \in SpansOf(v) /\ p \in Extent(v, v.pagetrie[p])
                      ELSE v.pagetrie[p] = Null
    BY DEF Indexed
  <2>1. CASE \E e \in E : p \in Extent(v, e)
    <3>1. p \in Mapped(v)
      BY <1>2, <2>1 DEF Tiled, Reshaped, Resized
    <3> QED
      BY <2>1, <3>1 DEF Reshaped, Resized
  <2>2. CASE ~\E e \in E : p \in Extent(v, e)
    <3>1. v.pagetrie[p] = w.pagetrie[p]
      BY <2>2 DEF Reshaped, Resized
    <3>2. p \in Mapped(v) <=> p \in Mapped(w)
      BY <2>2, Sizes DEF Reshaped, Resized
    <3>3. CASE p \in Mapped(w)
      <4>1. w.pagetrie[p] \in SpansOf(w) /\ p \in Extent(w, w.pagetrie[p])
        BY <3>3 DEF Indexed
      <4>2. w.pagetrie[p] \in K
        BY <2>2, <4>1, Sizes DEF Reshaped, Resized
      <4> QED
        BY <1>3, <3>1, <3>2, <3>3, <4>1, <4>2
    <3>4. CASE p \notin Mapped(w)
      BY <3>1, <3>2, <3>4 DEF Indexed
    <3> QED
      BY <3>3, <3>4
  <2> QED
    BY <2>1, <2>2
<1> QED
  BY <1>2, <1>4

(* Calls of the bins do not disturb spans, mappings and pagetrie. *)
LEMMA SameShapeKeeps ==
    ASSUME NEW w \in World, NEW v \in World, SameShape(w, v), Tiled(w), Classed(w), Indexed(w)
    PROVE  Tiled(v) /\ Classed(v) /\ Indexed(v)
<1>1. \A a \in SpansOf(w) : Extent(v, a) = Extent(w, a)
  BY SameExtent DEF SameShape
<1>2. SpansOf(v) = SpansOf(w) /\ Mapped(v) = Mapped(w) /\ v.pagetrie = w.pagetrie
  BY DEF SameShape, Mapped
<1>3. Tiled(v)
  BY <1>1, <1>2 DEF Tiled
<1>4. Classed(v)
  BY <1>2 DEF Classed, SameShape, SameBut
<1>5. Indexed(v)
  BY <1>1, <1>2 DEF Indexed
<1> QED
  BY <1>3, <1>4, <1>5

(* Every mapped page has its span, and the pagetrie knows it. *)
LEMMA PagetrieFinds ==
    ASSUME NEW w, Sound(w), NEW a \in SpansOf(w), NEW p \in Extent(w, a)
    PROVE  p \in Page /\ p \in Mapped(w) /\ w.pagetrie[p] = a /\ PagetrieLookup(w, p) = a
<1>1. w \in World /\ Tiled(w) /\ Indexed(w)
  BY DEF Sound
<1>2. p \in Mapped(w) /\ p \in Page
  BY <1>1 DEF Tiled
<1>3. w.pagetrie[p] \in SpansOf(w) /\ p \in Extent(w, w.pagetrie[p])
  BY <1>1, <1>2 DEF Indexed
<1>4. w.pagetrie[p] = a
  BY <1>1, <1>3, OneSpan
<1> QED
  BY <1>2, <1>4 DEF PagetrieLookup

-----------------------------------------------------------------------------
(* Functions that leave the bins alone *)

LEMMA WorldUpdate2 ==
    ASSUME NEW w \in World, NEW v,
           v = [w EXCEPT !.span = v.span, !.pagetrie = v.pagetrie, !.epoch = v.epoch,
                         !.origins = v.origins, !.mappings = v.mappings, !.crashed = v.crashed],
           v.span \in [Page -> SpanRecord \cup {Null}],
           v.pagetrie \in [Page -> Page \cup {Null}],
           v.epoch \in [Arenas -> 0 .. AgeMod - 1],
           v.origins \in [Arenas -> Seq(Page)],
           v.mappings \in SUBSET [arena : Arenas, addr : Page, npages : 1 .. NPages],
           v.crashed \in BOOLEAN
    PROVE  v \in World /\ v.bucket = w.bucket /\ v.nspans = w.nspans
           /\ v.epoch_min = w.epoch_min /\ v.bitmap = w.bitmap
  BY DEF World

(* Spans that are in no heap may change as they like. *)
LEMMA Respan ==
    ASSUME NEW w \in World, Binned(w), NEW v \in World, v.bucket = w.bucket, NEW T,
           \A a \in Page \ T : v.span[a] = w.span[a],
           \A a \in T : a \in SpansOf(w) => a \in Loose(w) \/ w.span[a].is_alloc
    PROVE  /\ Binned(v)
           /\ Loose(v) = (Loose(w) \ T) \cup {a \in SpansOf(v) : a \in T /\ ~v.span[a].is_alloc}
<1>1. \A b \in Bins, s \in States : \A a \in w.bucket[b][s] : a \notin T
  BY DEF Binned, Loose
<1>2. \A a \in Page \ T : a \in SpansOf(v) <=> a \in SpansOf(w)
  BY DEF SpansOf
<1>3. \A a \in SpansOf(v) \ T : v.span[a] = w.span[a] /\ BinOf(v, a) = BinOf(w, a)
  BY DEF SpansOf, BinOf
<1>4. Binned(v)
  <2> SUFFICES ASSUME NEW b \in Bins, NEW s \in States, NEW a \in v.bucket[b][s]
               PROVE  /\ a \in SpansOf(v) /\ ~v.span[a].is_alloc
                      /\ v.span[a].state = s /\ BinOf(v, a) = b
    BY DEF Binned
  <2>1. a \notin T /\ a \in SpansOf(w) /\ ~w.span[a].is_alloc /\ w.span[a].state = s
        /\ BinOf(w, a) = b
    BY <1>1 DEF Binned
  <2>2. a \in SpansOf(v)
    BY <1>2, <2>1 DEF SpansOf
  <2> QED
    BY <1>3, <2>1, <2>2
<1>5. ASSUME NEW a \in SpansOf(v), a \notin T PROVE a \in Loose(v) <=> a \in Loose(w)
  BY <1>2, <1>3, <1>5 DEF Loose, SpansOf
<1>6. ASSUME NEW a \in SpansOf(v), a \in T PROVE a \in Loose(v) <=> ~v.span[a].is_alloc
  <2>1. BinOf(v, a) \in Bins /\ v.span[a].state \in States
    BY SpanFields, RecordFields
  <2> QED
    BY <1>1, <1>6, <2>1 DEF Loose
<1>7. \A a \in Loose(w) \ T : a \in SpansOf(v)
  BY <1>2 DEF Loose, SpansOf
<1> QED
  BY <1>4, <1>5, <1>6, <1>7 DEF Loose

LEMMA PagetrieInsertFields ==
    ASSUME NEW w \in World, NEW a \in Page, NEW v, v = PagetrieInsert(w, a)
    PROVE  /\ v \in World /\ v.span = w.span /\ SameBins(w, v)
           /\ v.epoch = w.epoch /\ v.origins = w.origins
           /\ v.mappings = w.mappings /\ v.crashed = w.crashed
           /\ \A p \in Page : v.pagetrie[p] = IF p \in Extent(w, a) THEN a ELSE w.pagetrie[p]
<1>1. v = [w EXCEPT !.pagetrie = [p \in Page |-> IF p \in Extent(w, a) THEN a ELSE w.pagetrie[p]]]
  BY DEF PagetrieInsert
<1>2. /\ v.span = w.span /\ v.epoch = w.epoch /\ v.origins = w.origins
      /\ v.mappings = w.mappings /\ v.crashed = w.crashed /\ SameBins(w, v)
      /\ v.pagetrie = [p \in Page |-> IF p \in Extent(w, a) THEN a ELSE w.pagetrie[p]]
  BY <1>1 DEF World, SameBins
<1>3. v.pagetrie \in [Page -> Page \cup {Null}]
  BY <1>2, WorldFields
<1>4. v = [w EXCEPT !.span = v.span, !.pagetrie = v.pagetrie, !.epoch = v.epoch,
                    !.origins = v.origins, !.mappings = v.mappings, !.crashed = v.crashed]
  BY <1>1, <1>2 DEF World
<1>5. v \in World
  BY <1>2, <1>3, <1>4, WorldFields, WorldUpdate2
<1> QED
  BY <1>2, <1>5

LEMMA SameSpansKeeps ==
    ASSUME NEW w, NEW v, v.span = w.span, SameBins(w, v)
    PROVE  SpansOf(v) = SpansOf(w) /\ (Binned(v) <=> Binned(w)) /\ Loose(v) = Loose(w)
           /\ \A a : Extent(v, a) = Extent(w, a) /\ BinOf(v, a) = BinOf(w, a)
  BY DEF SpansOf, Binned, Loose, BinOf, SameBins, Extent

-----------------------------------------------------------------------------
(* Cutting *)

(* e has the coordinates and flags of d. *)
Kin(d, e) == e \in SpanRecord /\ e.age = d.age /\ e.arena = d.arena /\ e.is_alloc = d.is_alloc

LEMMA PieceFields ==
    ASSUME NEW w \in World, NEW a \in SpansOf(w), NEW n \in 1 .. NPages, NEW k \in Class,
           NEW e, e = Piece(w, a, n, k)
    PROVE  Kin(w.span[a], e) /\ e.nbytes = n /\ e.szclass = k /\ e.record = 0
<1>1. PICK d \in SpanRecord : d = w.span[a]
  BY SpanFields
<1>2. e = [d EXCEPT !.szclass = k, !.nbytes = n, !.record = 0]
  BY <1>1 DEF Piece
<1> QED
  <2>1. e \in SpanRecord
    BY ONLY <1>1, <1>2, n \in 1 .. NPages, k \in Class DEF SpanRecord
  <2>2. e.age = d.age /\ e.arena = d.arena /\ e.is_alloc = d.is_alloc
        /\ e.nbytes = n /\ e.szclass = k /\ e.record = 0
    BY ONLY <1>1, <1>2 DEF SpanRecord
  <2> QED
    BY <1>1, <2>1, <2>2 DEF Kin

(* The spans and the rest of v, when the right end c of span a of w was cut *)
CutDone(w, v, a, c, k) ==
    /\ c \in Page /\ c \notin SpansOf(w) /\ SpansOf(v) = SpansOf(w) \cup {c}
    /\ \A b \in SpansOf(w) \ {a} : SameBut(w.span[b], v.span[b])
    /\ Kin(w.span[a], v.span[c]) /\ v.span[c].nbytes = ClassPages[k]
    /\ v.span[c].szclass = k /\ v.span[c].record = 0
    /\ Kin(w.span[a], v.span[a]) /\ v.span[a].nbytes = w.span[a].nbytes - ClassPages[k]
    /\ v.span[a].szclass = SpanClass(v.span[a].nbytes)
    /\ v.span[a].record = w.span[a].record
    /\ c = a + v.span[a].nbytes
    /\ v.epoch = w.epoch /\ v.origins = w.origins
    /\ v.mappings = w.mappings /\ v.crashed = w.crashed

(* The pages of the two ends of a cut *)
LEMMA CutArith ==
    ASSUME NEW a \in Nat, NEW m \in 1 .. NPages, NEW n \in Nat \ {0}, n < m, a + m <= NPages
    PROVE  /\ m - n \in 1 .. NPages /\ n \in 1 .. NPages
           /\ a + m - n \in Page /\ a + m - n \in a .. (a + m - 1) /\ a + m - n # a
           /\ a + m - n = a + (m - n)
  BY Sizes DEF Page

LEMMA ExtentBound ==
    ASSUME NEW w \in World, Tiled(w), NEW a \in SpansOf(w)
    PROVE  a + w.span[a].nbytes <= NPages
<1>1. PICK n \in Nat \ {0} : n = w.span[a].nbytes
  BY ExtentFacts
<1>2. a \in Nat /\ a + n - 1 \in Extent(w, a)
  <2>1. a \in Nat /\ a + n - 1 \in Int /\ a <= a + n - 1 /\ a + n - 1 < a + n
    BY <1>1, ExtentFacts
  <2> QED
    BY <1>1, <2>1, ExtentFacts
<1>3. a + n - 1 \in Page
  BY <1>2 DEF Tiled
<1>4. a + n - 1 <= NPages - 1
  BY <1>3 DEF Page
<1> QED
  BY ONLY <1>1, <1>2, <1>4, Sizes

LEMMA CutoutKeeps ==
    ASSUME NEW w, Sound(w), NEW a \in Loose(w), NEW k \in Class,
           ClassPages[k] < w.span[a].nbytes,
           NEW v, v = CutoutSpan(w, a, k), NEW c, c = CutAddr(w, a, k)
    PROVE  /\ Sound(v) /\ CutDone(w, v, a, c, k) /\ Loose(v) = (Loose(w) \ {a}) \cup {c}
           /\ Counted(w) => Counted(v)
           /\ Marked(w) => Marked(v)
<1>1. /\ w \in World /\ Tiled(w) /\ Classed(w) /\ Indexed(w) /\ Binned(w)
      /\ a \in SpansOf(w) /\ ~w.span[a].is_alloc
  BY DEF Sound, Loose
<1>2. PICK d \in SpanRecord : d = w.span[a]
  BY <1>1, SpanFields
<1>3. PICK m \in 1 .. NPages : m = d.nbytes
  BY <1>2, RecordFields
<1>4. PICK n \in Nat \ {0} : n = ClassPages[k]
  BY ClassFacts
<1>5. a \in Nat /\ a \in Page /\ a + m <= NPages /\ n < m
  BY <1>1, <1>2, <1>3, <1>4, ExtentBound, SpanFields
<1>6. c = a + m - n
  BY <1>2, <1>3, <1>4 DEF CutAddr
<1>7. PICK q \in 1 .. NPages : q = m - n
  BY <1>5, CutArith
<1>8. n \in 1 .. NPages /\ c \in Page /\ c # a /\ c = a + q
  BY <1>5, <1>6, <1>7, CutArith
<1>9. c \notin SpansOf(w)
  <2>1. c \in Nat /\ a <= c /\ c < a + w.span[a].nbytes
    BY <1>2, <1>3, <1>4, <1>5, <1>6, <1>8, Sizes
  <2>2. c \in Extent(w, a)
    BY <1>1, <2>1, ExtentFacts
  <2> QED
    BY <1>1, <1>8, <2>2, ExtentFacts, OneSpan
<1>10. PICK e : e = Piece(w, a, n, k)
  OBVIOUS
<1>11. Kin(d, e) /\ e.nbytes = n /\ e.szclass = k /\ e.record = 0
  BY <1>1, <1>2, <1>8, <1>10, PieceFields
<1>12. PICK j \in Class : j = SpanClass(q)
  BY SpanClassFits
<1>13. PICK f : f = [d EXCEPT !.nbytes = q, !.szclass = j]
  OBVIOUS
<1>14. Kin(d, f) /\ f.nbytes = q /\ f.szclass = j /\ f.record = d.record
  BY <1>13 DEF SpanRecord, Kin
<1>15. PICK w1 : w1 = [w EXCEPT !.span[c] = Piece(w, a, n, k), !.span[a].nbytes = q,
                                !.span[a].szclass = SpanClass(q)]
  OBVIOUS
<1>16. w.span \in [Page -> SpanRecord \cup {Null}]
  BY <1>1, WorldFields
<1>17. /\ w1.span = [w.span EXCEPT ![c] = e, ![a] = f]
       /\ w1.pagetrie = w.pagetrie /\ w1.epoch = w.epoch /\ w1.origins = w.origins
       /\ w1.mappings = w.mappings /\ w1.crashed = w.crashed /\ SameBins(w, w1)
       /\ w1 = [w EXCEPT !.span = w1.span]
  <2>1. w1 = [w EXCEPT !.span = [[w.span EXCEPT ![c] = e] EXCEPT ![a] = f]]
    <3>1. w1 = [w EXCEPT !.span[c] = e, !.span[a].nbytes = q, !.span[a].szclass = j]
      BY <1>10, <1>12, <1>15
    <3>2. PICK g : g = [w.span EXCEPT ![c] = e]
      OBVIOUS
    <3>3. g[a] = d
      BY <1>2, <1>5, <1>8, <1>16, <3>2
    <3>4. [g EXCEPT ![a].nbytes = q, ![a].szclass = j] = [g EXCEPT ![a] = f]
      BY <1>5, <1>8, <1>13, <1>16, <3>2, <3>3
    <3>5. w1 = [w EXCEPT !.span = [g EXCEPT ![a].nbytes = q, ![a].szclass = j]]
      <4>1. PICK u : u = [w EXCEPT !.span = g]
        OBVIOUS
      <4>2. w1 = [u EXCEPT !.span[a].nbytes = q, !.span[a].szclass = j]
        BY <1>1, <3>1, <3>2, <4>1 DEF World
      <4>3. u.span = g
        BY <1>1, <4>1 DEF World
      <4>4. w1 = [u EXCEPT !.span = [g EXCEPT ![a].nbytes = q, ![a].szclass = j]]
        BY <4>2, <4>3
      <4> QED
        BY <1>1, <4>1, <4>4 DEF World
    <3> QED
      BY <3>2, <3>4, <3>5
  <2> QED
    BY <1>1, <2>1 DEF World, SameBins
<1>18. /\ w1.span \in [Page -> SpanRecord \cup {Null}]
       /\ w1.span[c] = e /\ w1.span[a] = f /\ \A b \in Page \ {a, c} : w1.span[b] = w.span[b]
  BY <1>5, <1>8, <1>11, <1>14, <1>16, <1>17 DEF Kin
<1>19. w1 \in World
  <2>1. w1 = [w EXCEPT !.span = w1.span, !.pagetrie = w1.pagetrie, !.epoch = w1.epoch,
                    !.origins = w1.origins, !.mappings = w1.mappings, !.crashed = w1.crashed]
    BY <1>1, <1>17 DEF World
  <2> QED
    BY <1>1, <1>17, <1>18, <2>1, WorldFields, WorldUpdate2
<1>20. SpansOf(w1) = SpansOf(w) \cup {c}
  BY <1>1, <1>8, <1>11, <1>14, <1>18, RecordFields DEF SpansOf, Kin
<1>21. Binned(w1) /\ Loose(w1) = Loose(w) \cup {c} /\ a \in Loose(w1)
  <2>1. \A b \in {a, c} : b \in SpansOf(w) => b \in Loose(w) \/ w.span[b].is_alloc
    BY <1>9
  <2>2. /\ Binned(w1)
        /\ Loose(w1) = (Loose(w) \ {a, c}) \cup {b \in SpansOf(w1) : b \in {a, c} /\ ~w1.span[b].is_alloc}
    <3>1. PICK T : T = {a, c}
      OBVIOUS
    <3>2. w1.bucket = w.bucket /\ (\A b \in Page \ T : w1.span[b] = w.span[b])
          /\ \A b \in T : b \in SpansOf(w) => b \in Loose(w) \/ w.span[b].is_alloc
      BY <1>17, <1>18, <2>1, <3>1 DEF SameBins
    <3>3. /\ Binned(w1)
          /\ Loose(w1) = (Loose(w) \ T) \cup {b \in SpansOf(w1) : b \in T /\ ~w1.span[b].is_alloc}
      BY <1>1, <1>19, <3>2, Respan
    <3> QED
      BY <3>1, <3>3
  <2> QED
    BY <1>1, <1>2, <1>9, <1>11, <1>14, <1>18, <1>20, <2>2 DEF Kin, Loose
<1>22. PICK w2 : w2 = BinPut(w1, a)
  OBVIOUS
<1>23. w2 \in World /\ SameShape(w1, w2) /\ Binned(w2) /\ Loose(w2) = Loose(w1) \ {a}
  BY <1>19, <1>21, <1>22, BinPutKeeps
<1>24. v = PagetrieInsert(w2, c)
  <2>1. q # 0 /\ q = w.span[a].nbytes - ClassPages[k] /\ c = CutAddr(w, a, k)
    BY <1>2, <1>3, <1>4, <1>7, Sizes
  <2>2. w1 = [w EXCEPT !.span[c] = Piece(w, a, ClassPages[k], k),
                       !.span[a].nbytes = w.span[a].nbytes - ClassPages[k],
                       !.span[a].szclass = SpanClass(w.span[a].nbytes - ClassPages[k])]
    BY <1>4, <1>15, <2>1
  <2> QED
    BY <1>22, <2>1, <2>2 DEF CutoutSpan
<1>25. /\ v \in World /\ v.span = w2.span /\ SameBins(w2, v)
       /\ v.epoch = w2.epoch /\ v.origins = w2.origins
       /\ v.mappings = w2.mappings /\ v.crashed = w2.crashed
       /\ \A p \in Page : v.pagetrie[p] = IF p \in Extent(w2, c) THEN c ELSE w2.pagetrie[p]
  BY <1>8, <1>23, <1>24, PagetrieInsertFields
<1>26. Binned(v) /\ Loose(v) = (Loose(w) \ {a}) \cup {c} /\ SpansOf(v) = SpansOf(w) \cup {c}
  BY <1>8, <1>20, <1>21, <1>23, <1>25, SameSpansKeeps DEF SameShape
<1>27. /\ \A b \in SpansOf(w) \ {a} : SameBut(w.span[b], v.span[b])
       /\ SameBut(e, v.span[c]) /\ SameBut(f, v.span[a])
       /\ v.span[c] \in SpanRecord /\ v.span[a] \in SpanRecord
       /\ v.pagetrie \in [Page -> Page \cup {Null}]
  <2>1. \A b \in SpansOf(w1) : SameBut(w1.span[b], v.span[b]) /\ v.span[b] \in SpanRecord
    BY <1>23, <1>25, <1>26, <1>20, SpanFields DEF SameShape
  <2>2. \A b \in SpansOf(w) \ {a} : b # c /\ b \in Page /\ w1.span[b] = w.span[b]
    BY <1>9, <1>18 DEF SpansOf
  <2> QED
    BY <1>1, <1>18, <1>20, <1>25, <2>1, <2>2, WorldFields
<1>28. CutDone(w, v, a, c, k)
  <2>1. Kin(w.span[a], v.span[c]) /\ v.span[c].nbytes = n /\ v.span[c].szclass = k /\ v.span[c].record = 0
    BY <1>2, <1>11, <1>27 DEF Kin, SameBut
  <2>2. Kin(w.span[a], v.span[a]) /\ v.span[a].nbytes = q /\ v.span[a].szclass = j
        /\ v.span[a].record = w.span[a].record
    BY <1>2, <1>14, <1>27 DEF Kin, SameBut
  <2>3. v.epoch = w.epoch /\ v.origins = w.origins /\ v.mappings = w.mappings /\ v.crashed = w.crashed
    BY <1>17, <1>23, <1>25 DEF SameShape
  <2> QED
    BY <1>2, <1>3, <1>4, <1>7, <1>8, <1>9, <1>12, <1>26, <1>27, <2>1, <2>2, <2>3 DEF CutDone
<1>29. /\ \A p \in Int : p \in Extent(v, c) <=> c <= p /\ p < a + m
       /\ \A p \in Int : p \in Extent(v, a) <=> a <= p /\ p < c
       /\ \A p \in Int : p \in Extent(w, a) <=> a <= p /\ p < a + m
       /\ Extent(w2, c) = Extent(v, c)
  <2>1. v.span[c].nbytes = n /\ v.span[a].nbytes = q /\ w.span[a].nbytes = m
    BY <1>2, <1>3, <1>4, <1>7, <1>28 DEF CutDone
  <2>2. c + n = a + m /\ c = a + q
    BY <1>5, <1>6, <1>8, Sizes
  <2> QED
    BY <1>1, <1>25, <1>26, <2>1, <2>2, ExtentFacts, SameSpansKeeps
<1>30. Reshaped(w, v, {a}, {a, c})
  <2>1. Mapped(v) = Mapped(w) /\ Mapped(v) \subseteq Page
    BY <1>1, <1>28 DEF CutDone, Mapped, Tiled
  <2>2. /\ \A p \in Int : p \in Extent(w, a) <=> p \in Extent(v, a) \/ p \in Extent(v, c)
        /\ \A p \in Int : ~(p \in Extent(v, a) /\ p \in Extent(v, c))
    <3>1. a <= c /\ c <= a + m /\ c \in Nat /\ a + m \in Nat /\ a \in Nat
      BY <1>5, <1>6, <1>8, Sizes
    <3> QED
      BY ONLY <1>29, <3>1
  <2>3. \A p \in Nat : (p \in Mapped(v) \ Mapped(w) \/ \E x \in {a} : p \in Extent(w, x))
                       <=> \E x \in {a, c} : p \in Extent(v, x)
    BY <2>1, <2>2
  <2>4. \A x, y \in {a, c} : x # y => Extent(v, x) \cap Extent(v, y) = {}
    <3>1. Extent(v, a) \subseteq Int
      BY <1>1, <1>25, <1>26, ExtentFacts
    <3> QED
      BY <2>2, <3>1
  <2>5. \A x \in {a, c} : v.span[x].szclass = SpanClass(v.span[x].nbytes)
    BY <1>4, <1>8, <1>28, Sizes, ClassOfClass DEF CutDone
  <2>6. ASSUME NEW p \in Page
        PROVE  IF \E x \in {a, c} : p \in Extent(v, x)
               THEN v.pagetrie[p] \in {a, c} /\ p \in Extent(v, v.pagetrie[p])
               ELSE v.pagetrie[p] = w.pagetrie[p]
    <3>1. p \in Int /\ v.pagetrie[p] = IF p \in Extent(v, c) THEN c ELSE w.pagetrie[p]
      BY <1>17, <1>23, <1>25, <1>29, Sizes DEF SameShape
    <3>2. p \in Extent(v, a) => w.pagetrie[p] = a
      BY <1>1, <2>2, <3>1, PagetrieFinds
    <3> QED
      BY <2>2, <3>1, <3>2
  <2> QED
    BY <1>1, <1>26, <1>27, <2>1, <2>3, <2>4, <2>5, <2>6 DEF Reshaped, Resized
<1>31. Tiled(v) /\ Classed(v) /\ Indexed(v)
  BY <1>1, <1>25, <1>30, ReshapedKeeps
<1>32. Counted(w) => Counted(v)
  BY <1>17, <1>19, <1>21, <1>22, <1>25, BinPutCounts, SameBinsCounts
<1>33. Marked(w) => Marked(v)
  BY <1>17, <1>19, <1>21, <1>22, <1>25, BinPutMarked, SameBinsMarked DEF Loose
<1> QED
  BY <1>25, <1>26, <1>28, <1>31, <1>32, <1>33 DEF Sound

-----------------------------------------------------------------------------
(* Records *)

InSeq(s, a) == \E i \in DOMAIN s : s[i] = a

(* v is w but for the list of one arena and a crash. *)
OnlyList(w, v, ar) ==
    /\ v \in World /\ SameBins(w, v)
    /\ v.span = w.span /\ v.pagetrie = w.pagetrie /\ v.epoch = w.epoch
    /\ v.mappings = w.mappings
    /\ \A x \in Arenas \ {ar} : v.origins[x] = w.origins[x]

Relisted(w, ar, s, c) == [w EXCEPT !.origins[ar] = s, !.crashed = c]

LEMMA ListUpdate ==
    ASSUME NEW w \in World, NEW ar \in Arenas, NEW s \in Seq(Page), NEW c \in BOOLEAN,
           NEW v, v = Relisted(w, ar, s, c)
    PROVE  OnlyList(w, v, ar) /\ v.origins[ar] = s /\ v.crashed = c
<1>1. /\ v.span = w.span /\ v.pagetrie = w.pagetrie /\ v.epoch = w.epoch
      /\ v.mappings = w.mappings /\ SameBins(w, v)
      /\ v.origins = [w.origins EXCEPT ![ar] = s] /\ v.crashed = c
  BY DEF World, SameBins, Relisted
<1>2. w.origins \in [Arenas -> Seq(Page)]
  BY WorldFields
<1>3. v.origins \in [Arenas -> Seq(Page)] /\ v.origins[ar] = s
      /\ \A x \in Arenas \ {ar} : v.origins[x] = w.origins[x]
  BY <1>1, <1>2
<1>4. v = [w EXCEPT !.span = v.span, !.pagetrie = v.pagetrie, !.epoch = v.epoch,
                    !.origins = v.origins, !.mappings = v.mappings, !.crashed = v.crashed]
  BY <1>1 DEF World, Relisted
<1>5. v \in World
  <2>1. /\ v.span \in [Page -> SpanRecord \cup {Null}] /\ v.pagetrie \in [Page -> Page \cup {Null}]
        /\ v.epoch \in [Arenas -> 0 .. AgeMod - 1] /\ v.crashed \in BOOLEAN
        /\ v.mappings \in SUBSET [arena : Arenas, addr : Page, npages : 1 .. NPages]
    BY <1>1, WorldFields, Zenon
  <2> QED
    BY <1>3, <1>4, <2>1, WorldUpdate2
<1> QED
  BY <1>1, <1>3, <1>5 DEF OnlyList

LEMMA RecordsPushFields ==
    ASSUME NEW w \in World, NEW ar \in Arenas, NEW a \in Page, NEW v, v = RecordsPush(w, ar, a)
    PROVE  /\ OnlyList(w, v, ar) /\ v.origins[ar] = <<a>> \o w.origins[ar]
           /\ v.crashed = (w.crashed \/ (w.origins[ar] # <<>> /\ ~Linked(w, w.origins[ar][1])))
<1>1. PICK c \in BOOLEAN : c = (w.crashed \/ (w.origins[ar] # <<>> /\ ~Linked(w, w.origins[ar][1])))
  OBVIOUS
<1>2. w.origins[ar] \in Seq(Page)
  BY WorldFields
<1>3. PICK s \in Seq(Page) : s = <<a>> \o w.origins[ar]
  <2>1. <<a>> \in Seq(Page)
    OBVIOUS
  <2>2. PICK l \in Seq(Page) : l = w.origins[ar]
    BY <1>2
  <2>3. <<a>> \o l \in Seq(Page)
    BY ONLY <2>1, <2>2
  <2> QED
    BY <2>2, <2>3
<1>4. v = Relisted(w, ar, s, c)
  BY <1>1, <1>3 DEF RecordsPush, World, Relisted
<1>5. OnlyList(w, v, ar) /\ v.origins[ar] = s /\ v.crashed = c
  BY <1>4, ListUpdate
<1> QED
  BY <1>1, <1>3, <1>5

(* A sequence without its element i *)
Sans(s, i) == SubSeq(s, 1, i - 1) \o SubSeq(s, i + 1, Len(s))

LEMMA WithoutFacts ==
    ASSUME NEW T, NEW s \in Seq(T), NEW i \in DOMAIN s
    PROVE  /\ Sans(s, i) \in Seq(T) /\ Len(Sans(s, i)) = Len(s) - 1
           /\ \A j \in 1 .. Len(s) - 1 : Sans(s, i)[j] = IF j < i THEN s[j] ELSE s[j + 1]
<1>1. PICK n \in Nat : n = Len(s) /\ i \in 1 .. n /\ DOMAIN s = 1 .. n
  OBVIOUS
<1>2. PICK l : l = SubSeq(s, 1, i - 1)
  OBVIOUS
<1>3. PICK r : r = SubSeq(s, i + 1, n)
  OBVIOUS
<1>4. l \in Seq(T) /\ Len(l) = i - 1 /\ \A j \in 1 .. i - 1 : l[j] = s[j]
  BY <1>1, <1>2
<1>5. r \in Seq(T) /\ Len(r) = n - i /\ \A j \in 1 .. n - i : r[j] = s[i + j]
  BY <1>1, <1>3
<1>6. PICK t : t = l \o r
  OBVIOUS
<1>7. t \in Seq(T) /\ Len(t) = n - 1
  BY <1>1, <1>4, <1>5, <1>6
<1>8. \A j \in 1 .. n - 1 : t[j] = IF j < i THEN s[j] ELSE s[j + 1]
  <2> SUFFICES ASSUME NEW j \in 1 .. n - 1 PROVE t[j] = IF j < i THEN s[j] ELSE s[j + 1]
    OBVIOUS
  <2>1. t[j] = IF j <= Len(l) THEN l[j] ELSE r[j - Len(l)]
    <3>1. j \in 1 .. Len(l) + Len(r)
      BY <1>1, <1>4, <1>5
    <3>2. l \in Seq(T) /\ r \in Seq(T)
      BY <1>4, <1>5
    <3> QED
      BY ONLY <1>6, <3>1, <3>2
  <2>2. CASE j < i
    <3>1. j \in 1 .. i - 1 /\ j <= i - 1
      BY <1>1, <2>2
    <3> QED
      BY <1>4, <2>1, <2>2, <3>1
  <2>3. CASE ~(j < i)
    <3>1. ~(j <= i - 1) /\ j - (i - 1) \in 1 .. n - i /\ i + (j - (i - 1)) = j + 1
      BY <1>1, <2>3
    <3> QED
      BY <1>4, <1>5, <2>1, <2>3, <3>1
  <2> QED
    BY <2>2, <2>3
<1>9. t = Sans(s, i)
  BY <1>1, <1>2, <1>3, <1>6 DEF Sans
<1> QED
  BY <1>1, <1>7, <1>8, <1>9

(* What is removed is one element, and no other value leaves the sequence. *)
LEMMA WithoutMembers ==
    ASSUME NEW T, NEW s \in Seq(T), NEW i \in DOMAIN s
    PROVE  /\ \A a : InSeq(s, a) /\ a # s[i] => InSeq(Sans(s, i), a)
           /\ \A a : InSeq(Sans(s, i), a) => InSeq(s, a)
<1>1. PICK n \in Nat : n = Len(s) /\ i \in 1 .. n /\ DOMAIN s = 1 .. n
  OBVIOUS
<1>2. PICK t : t = Sans(s, i)
  OBVIOUS
<1>3. t \in Seq(T) /\ Len(t) = n - 1 /\ \A j \in 1 .. n - 1 : t[j] = IF j < i THEN s[j] ELSE s[j + 1]
  BY <1>1, <1>2, WithoutFacts
<1>4. DOMAIN t = 1 .. n - 1
  BY <1>1, <1>3
<1>5. ASSUME NEW a, InSeq(s, a), a # s[i] PROVE InSeq(t, a)
  <2>1. PICK j \in 1 .. n : s[j] = a /\ j # i
    BY <1>1, <1>5 DEF InSeq
  <2>2. CASE j < i
    <3>1. j \in 1 .. n - 1
      BY <1>1, <2>1, <2>2
    <3> QED
      BY <1>3, <1>4, <2>1, <2>2, <3>1 DEF InSeq
  <2>3. CASE ~(j < i)
    <3>1. j - 1 \in 1 .. n - 1 /\ ~(j - 1 < i) /\ (j - 1) + 1 = j
      BY <1>1, <2>1, <2>3
    <3>2. t[j - 1] = s[j]
      BY <1>3, <3>1
    <3> QED
      BY <1>4, <2>1, <3>1, <3>2 DEF InSeq
  <2> QED
    BY <2>2, <2>3
<1>6. ASSUME NEW a, InSeq(t, a) PROVE InSeq(s, a)
  <2>1. PICK j \in 1 .. n - 1 : t[j] = a
    BY <1>4, <1>6 DEF InSeq
  <2>2. j \in 1 .. n /\ j + 1 \in 1 .. n
    BY <1>1, <2>1
  <2> QED
    BY <1>1, <1>3, <2>1, <2>2 DEF InSeq
<1> QED
  BY <1>2, <1>5, <1>6

LEMMA RecordsRemoveFields ==
    ASSUME NEW w \in World, NEW ar \in Arenas, NEW a, InSeq(w.origins[ar], a),
           NEW v, v = RecordsRemove(w, ar, a)
    PROVE  /\ OnlyList(w, v, ar)
           /\ \E i \in DOMAIN w.origins[ar] :
                /\ w.origins[ar][i] = a
                /\ v.origins[ar] = Sans(w.origins[ar], i)
                /\ v.crashed = (w.crashed \/ \E j \in {i - 1, i + 1} \cap DOMAIN w.origins[ar] :
                                                ~Linked(w, w.origins[ar][j]))
<1>1. PICK list \in Seq(Page) : list = w.origins[ar]
  BY WorldFields
<1>2. PICK i : i = CHOOSE j \in DOMAIN list : list[j] = a
  OBVIOUS
<1>3. i \in DOMAIN list /\ list[i] = a
  BY <1>1, <1>2 DEF InSeq
<1>4. PICK c \in BOOLEAN : c = (w.crashed \/ \E j \in {i - 1, i + 1} \cap DOMAIN list : ~Linked(w, list[j]))
  OBVIOUS
<1>5. PICK s \in Seq(Page) : s = Sans(list, i)
  BY <1>3, WithoutFacts
<1>6. v = [w EXCEPT !.origins[ar] = SubSeq(list, 1, i - 1) \o SubSeq(list, i + 1, Len(list)),
                    !.crashed = @ \/ \E j \in {i - 1, i + 1} \cap DOMAIN list : ~Linked(w, list[j])]
  BY <1>1, <1>2 DEF RecordsRemove
<1>7. v = Relisted(w, ar, s, c)
  BY <1>4, <1>5, <1>6 DEF World, Sans, Relisted
<1>8. OnlyList(w, v, ar) /\ v.origins[ar] = s /\ v.crashed = c
  BY <1>7, ListUpdate
<1> QED
  BY <1>1, <1>3, <1>4, <1>5, <1>8

-----------------------------------------------------------------------------
(* Minting *)

MintRecord(w, ar, k) ==
    [age |-> w.epoch[ar], szclass |-> k, arena |-> ar, state |-> "CLEAN", is_slab |-> FALSE,
     is_alloc |-> FALSE, nbytes |-> ClassPages[k],
     record |-> IF UnmapOnTermination THEN ClassPages[k] ELSE 0]

NewMapping(ar, k, base) == [arena |-> ar, addr |-> base, npages |-> ClassPages[k]]

(* The spans and the rest of v, when w minted a span of class k at base *)
MintDone(w, v, ar, k, base) ==
    /\ base \in Page /\ base \notin SpansOf(w) /\ SpansOf(v) = SpansOf(w) \cup {base}
    /\ \A b \in SpansOf(w) : v.span[b] = w.span[b]
    /\ v.span[base] = MintRecord(w, ar, k) /\ v.span[base] \in SpanRecord
    /\ v.epoch = [w.epoch EXCEPT ![ar] = (w.epoch[ar] + 1) % AgeMod]
    /\ v.mappings = w.mappings \cup {NewMapping(ar, k, base)}
    /\ \A x \in Arenas \ {ar} : v.origins[x] = w.origins[x]
    /\ IF UnmapOnTermination
       THEN /\ v.origins[ar] = <<base>> \o w.origins[ar]
            /\ v.crashed = (w.crashed \/ (w.origins[ar] # <<>> /\ ~Linked(v, w.origins[ar][1])))
       ELSE v.origins[ar] = w.origins[ar] /\ v.crashed = w.crashed

LEMMA EpochUpdate ==
    ASSUME NEW w \in World, NEW ar \in Arenas
    PROVE  [w.epoch EXCEPT ![ar] = (w.epoch[ar] + 1) % AgeMod] \in [Arenas -> 0 .. AgeMod - 1]
<1>1. w.epoch \in [Arenas -> 0 .. AgeMod - 1]
  BY WorldFields
<1>2. PICK g \in Nat : g = w.epoch[ar]
  BY <1>1, Sizes
<1>3. (g + 1) % AgeMod \in 0 .. AgeMod - 1
  BY Sizes
<1> QED
  BY <1>1, <1>2, <1>3

(* The mapped pages with one mapping more *)
LEMMA MappedMore ==
    ASSUME NEW M, NEW m
    PROVE  MappedPages(M \cup {m}) = MappedPages(M) \cup (m.addr .. (m.addr + m.npages - 1))
  BY DEF MappedPages

LEMMA MintKeeps ==
    ASSUME NEW w, Sound(w), NEW ar \in Arenas, NEW k \in Class, NEW base \in Page,
           base .. (base + ClassPages[k] - 1) \subseteq Page \ Mapped(w),
           NEW v, v = MintSpan(w, ar, k, base)
    PROVE  /\ Sound(v) /\ MintDone(w, v, ar, k, base) /\ Loose(v) = Loose(w) \cup {base}
           /\ Counted(w) => Counted(v)
           /\ Marked(w) => Marked(v)
<1>1. w \in World /\ Tiled(w) /\ Classed(w) /\ Indexed(w) /\ Binned(w)
  BY DEF Sound
<1>2. PICK n \in Nat \ {0} : n = ClassPages[k]
  BY ClassFacts
<1>3. base \in Nat /\ n \in 1 .. NPages
  <2>1. base + n - 1 \in base .. (base + n - 1) /\ base \in Nat
    BY <1>2, Sizes
  <2>2. base + n - 1 \in Page
    BY <1>2, <2>1
  <2> QED
    BY <1>2, <2>1, <2>2, Sizes DEF Page
<1>4. base \notin SpansOf(w)
  <2>1. base \in base .. (base + n - 1)
    BY <1>2, <1>3
  <2>2. base \notin Mapped(w)
    BY <1>2, <2>1
  <2> QED
    BY <1>1, <2>2, ExtentFacts DEF Tiled
<1>5. PICK d : d = MintRecord(w, ar, k)
  OBVIOUS
<1>6. d \in SpanRecord /\ ~d.is_alloc /\ d.nbytes = n /\ d.szclass = k
  <2>1. w.epoch[ar] \in 0 .. AgeMod - 1
    BY <1>1, WorldFields
  <2>2. PICK r \in Nat : r = IF UnmapOnTermination THEN ClassPages[k] ELSE 0
    BY <1>2
  <2>3. d = [age |-> w.epoch[ar], szclass |-> k, arena |-> ar, state |-> "CLEAN",
             is_slab |-> FALSE, is_alloc |-> FALSE, nbytes |-> n, record |-> r]
    BY <1>2, <1>5, <2>2 DEF MintRecord
  <2> QED
    BY <1>3, <2>1, <2>3 DEF SpanRecord, States
<1>7. PICK w1 : w1 = [w EXCEPT !.span[base] = d, !.epoch[ar] = (@ + 1) % AgeMod,
                               !.mappings = @ \cup {NewMapping(ar, k, base)}]
  OBVIOUS
<1>8. /\ w1.span = [w.span EXCEPT ![base] = d]
      /\ w1.epoch = [w.epoch EXCEPT ![ar] = (w.epoch[ar] + 1) % AgeMod]
      /\ w1.mappings = w.mappings \cup {NewMapping(ar, k, base)}
      /\ w1.pagetrie = w.pagetrie /\ w1.origins = w.origins /\ w1.crashed = w.crashed
      /\ SameBins(w, w1)
      /\ w1 = [w EXCEPT !.span = w1.span, !.pagetrie = w1.pagetrie, !.epoch = w1.epoch,
                    !.origins = w1.origins, !.mappings = w1.mappings, !.crashed = w1.crashed]
  BY <1>1, <1>7 DEF World, SameBins
<1>9. w1 \in World
  <2>1. w1.span \in [Page -> SpanRecord \cup {Null}]
    BY <1>1, <1>6, <1>8, WorldFields
  <2>2. w1.epoch \in [Arenas -> 0 .. AgeMod - 1]
    BY <1>1, <1>8, EpochUpdate
  <2>3. w1.mappings \in SUBSET [arena : Arenas, addr : Page, npages : 1 .. NPages]
    <3>1. NewMapping(ar, k, base) \in [arena : Arenas, addr : Page, npages : 1 .. NPages]
      BY <1>2, <1>3 DEF NewMapping
    <3> QED
      BY <1>1, <1>8, <3>1, WorldFields
  <2> QED
    BY <1>1, <1>8, <2>1, <2>2, <2>3, WorldFields, WorldUpdate2
<1>10. /\ w1.span[base] = d /\ \A b \in Page \ {base} : w1.span[b] = w.span[b]
       /\ SpansOf(w1) = SpansOf(w) \cup {base}
  <2>1. w1.span[base] = d /\ \A b \in Page \ {base} : w1.span[b] = w.span[b]
    BY <1>1, <1>8, WorldFields
  <2> QED
    BY <1>6, <2>1, RecordFields DEF SpansOf
<1>11. Binned(w1) /\ Loose(w1) = Loose(w) \cup {base}
  <2>1. PICK T : T = {base}
    OBVIOUS
  <2>2. w1.bucket = w.bucket /\ (\A b \in Page \ T : w1.span[b] = w.span[b])
        /\ \A b \in T : b \in SpansOf(w) => b \in Loose(w) \/ w.span[b].is_alloc
    BY <1>4, <1>8, <1>10, <2>1 DEF SameBins
  <2>3. /\ Binned(w1)
        /\ Loose(w1) = (Loose(w) \ T) \cup {b \in SpansOf(w1) : b \in T /\ ~w1.span[b].is_alloc}
    BY <1>1, <1>9, <2>2, Respan
  <2> QED
    BY <1>4, <1>6, <1>10, <2>1, <2>3 DEF Loose
<1>12. PICK w2 : w2 = PagetrieInsert(w1, base)
  OBVIOUS
<1>13. /\ w2 \in World /\ w2.span = w1.span /\ SameBins(w1, w2)
       /\ w2.epoch = w1.epoch /\ w2.origins = w1.origins
       /\ w2.mappings = w1.mappings /\ w2.crashed = w1.crashed
       /\ \A p \in Page : w2.pagetrie[p] = IF p \in Extent(w1, base) THEN base ELSE w1.pagetrie[p]
  BY <1>9, <1>12, PagetrieInsertFields
<1>14. v = IF UnmapOnTermination THEN RecordsPush(w2, ar, base) ELSE w2
  <2>1. w1 = [w EXCEPT
                 !.span[base] = [age |-> w.epoch[ar], szclass |-> k, arena |-> ar,
                                 state |-> "CLEAN", is_slab |-> FALSE,
                                 is_alloc |-> FALSE, nbytes |-> ClassPages[k],
                                 record |-> IF UnmapOnTermination THEN ClassPages[k] ELSE 0],
                 !.epoch[ar] = (@ + 1) % AgeMod,
                 !.mappings = @ \cup {[arena |-> ar, addr |-> base, npages |-> ClassPages[k]]}]
    BY <1>5, <1>7 DEF MintRecord, NewMapping
  <2> QED
    BY <1>12, <2>1 DEF MintSpan
<1>15. /\ v \in World /\ v.span = w2.span /\ SameBins(w2, v) /\ v.epoch = w2.epoch
       /\ v.mappings = w2.mappings /\ v.pagetrie = w2.pagetrie
       /\ \A x \in Arenas \ {ar} : v.origins[x] = w2.origins[x]
       /\ IF UnmapOnTermination
          THEN /\ v.origins[ar] = <<base>> \o w2.origins[ar]
               /\ v.crashed = (w2.crashed \/ (w2.origins[ar] # <<>> /\ ~Linked(w2, w2.origins[ar][1])))
          ELSE v.origins[ar] = w2.origins[ar] /\ v.crashed = w2.crashed
  <2>1. CASE UnmapOnTermination
    <3>1. v = RecordsPush(w2, ar, base)
      BY <1>14, <2>1
    <3>2. /\ OnlyList(w2, v, ar) /\ v.origins[ar] = <<base>> \o w2.origins[ar]
          /\ v.crashed = (w2.crashed \/ (w2.origins[ar] # <<>> /\ ~Linked(w2, w2.origins[ar][1])))
      <4>1. w2 \in World /\ base \in Page
        BY <1>9, <1>13
      <4> QED
        BY <3>1, <4>1, RecordsPushFields
    <3> QED
      BY <2>1, <3>2 DEF OnlyList
  <2>2. CASE ~UnmapOnTermination
    BY <1>13, <1>14, <2>2 DEF SameBins
  <2> QED
    BY <2>1, <2>2
<1>16. SpansOf(v) = SpansOf(w) \cup {base} /\ Binned(v) /\ Loose(v) = Loose(w) \cup {base}
       /\ \A b : Extent(v, b) = Extent(w1, b)
  BY <1>10, <1>11, <1>13, <1>15, SameSpansKeeps
<1>17. v.span[base] = d /\ \A b \in SpansOf(w) : v.span[b] = w.span[b]
  BY <1>4, <1>10, <1>13, <1>15 DEF SpansOf
<1>18. MintDone(w, v, ar, k, base)
  <2>1. \A x : Linked(v, x) <=> Linked(w2, x)
    BY <1>15 DEF Linked
  <2>2. w2.origins = w.origins /\ w2.crashed = w.crashed
    BY <1>8, <1>13
  <2> QED
    BY <1>4, <1>5, <1>6, <1>8, <1>13, <1>15, <1>16, <1>17, <2>1, <2>2 DEF MintDone
<1>19. \A p \in Int : p \in Extent(v, base) <=> p \in base .. (base + n - 1)
  <2>1. v \in World /\ base \in SpansOf(v)
    BY <1>15, <1>16
  <2>2. v.span[base].nbytes = n
    BY <1>2, <1>6, <1>17
  <2>3. base \in Nat /\ n \in Nat
    BY <1>3, <2>1, <2>2, ExtentFacts
  <2>4. \A p \in Extent(v, base) : p \in Nat /\ base <= p /\ p < base + n
    BY <2>1, <2>2, ExtentFacts
  <2>5. \A p \in Int : base <= p /\ p < base + n => p \in Extent(v, base)
    BY <2>1, <2>2, ExtentFacts
  <2> QED
    BY <2>3, <2>4, <2>5
<1>20. Mapped(v) = Mapped(w) \cup (base .. (base + n - 1))
  <2>1. v.mappings = w.mappings \cup {NewMapping(ar, k, base)}
    BY <1>8, <1>13, <1>15
  <2>2. NewMapping(ar, k, base).addr = base /\ NewMapping(ar, k, base).npages = n
    BY <1>2 DEF NewMapping
  <2> QED
    BY <2>1, <2>2, MappedMore DEF Mapped
<1>21. Reshaped(w, v, {}, {base})
  <2>1. \A b \in SpansOf(w) : SameBut(w.span[b], v.span[b])
    BY <1>17 DEF SameBut
  <2>2. v.span[base].szclass = SpanClass(v.span[base].nbytes)
    BY <1>2, <1>3, <1>6, <1>17, ClassOfClass, Sizes
  <2>3. Mapped(w) \subseteq Mapped(v) /\ Mapped(v) \subseteq Page
    BY <1>1, <1>2, <1>20 DEF Tiled
  <2>4. \A p \in Nat : p \in Mapped(v) \ Mapped(w) <=> p \in Extent(v, base)
    BY <1>2, <1>19, <1>20
  <2>5. \A p \in Page : v.pagetrie[p] = IF p \in Extent(v, base) THEN base ELSE w.pagetrie[p]
    BY <1>8, <1>13, <1>15, <1>16
  <2> QED
    BY <1>16, <2>1, <2>2, <2>3, <2>4, <2>5 DEF Reshaped, Resized
<1>22. Tiled(v) /\ Classed(v) /\ Indexed(v)
  BY <1>1, <1>15, <1>21, ReshapedKeeps
<1>23. Counted(w) => Counted(v)
  BY <1>8, <1>13, <1>15, SameBinsCounts
<1>24. Marked(w) => Marked(v)
  BY <1>8, <1>13, <1>15, SameBinsMarked
<1> QED
  BY <1>15, <1>16, <1>18, <1>22, <1>23, <1>24 DEF Sound

-----------------------------------------------------------------------------
(* Coalescing *)

(* A record is in the list of its arena. *)
Listed(w) == \A a \in SpansOf(w) :
                w.span[a].record # 0 => InSeq(w.origins[w.span[a].arena], a)

(* A record whose span is gone or lost it is in the list. *)
Stray(w, ar) == \E x : InSeq(w.origins[ar], x) /\ ~Linked(w, x)

(* The list of the arena of l, when the record of r moved to l *)
Moved(w, v, l, r, ar, pre) ==
    /\ \A x \in Arenas \ {ar} : v.origins[x] = w.origins[x]
    /\ \E i \in DOMAIN pre : pre[i] = r /\ v.origins[ar] = Sans(pre, i)
    /\ v.crashed => w.crashed \/ Stray(w, ar)

MovedRecord(w, v, l, r) ==
    LET ar == w.span[l].arena
    IN  Moved(w, v, l, r, ar,
              IF w.span[l].record = 0 THEN <<l>> \o w.origins[ar] ELSE w.origins[ar])

(* The spans and the rest of v, when span r of w was merged into span l *)
CoalesceDone(w, v, l, r) ==
    /\ SpansOf(v) = SpansOf(w) \ {r} /\ v.span[r] = Null
    /\ \A b \in SpansOf(w) \ {l, r} : v.span[b] = w.span[b]
    /\ v.span[l] \in SpanRecord /\ v.span[l].arena = w.span[l].arena
    /\ v.span[l].is_alloc = w.span[l].is_alloc
    /\ v.span[l].age = IF w.span[l].age < w.span[r].age THEN w.span[l].age ELSE w.span[r].age
    /\ v.span[l].nbytes = w.span[l].nbytes + w.span[r].nbytes
    /\ v.span[l].szclass = SpanClass(v.span[l].nbytes)
    /\ v.span[l].record = w.span[l].record + w.span[r].record
    /\ v.pagetrie = w.pagetrie /\ v.epoch = w.epoch /\ v.mappings = w.mappings
    /\ IF w.span[r].record = 0 THEN v.origins = w.origins /\ v.crashed = w.crashed
       ELSE MovedRecord(w, v, l, r)

(* The world and the bins of a function that leaves the rest alone *)
RecordsDone(w, v, l, r) ==
    /\ v \in World /\ SameBins(w, v)
    /\ v.pagetrie = w.pagetrie /\ v.epoch = w.epoch /\ v.mappings = w.mappings
    /\ v.span = [w.span EXCEPT ![l] = [w.span[l] EXCEPT !.record = w.span[l].record + w.span[r].record]]
    /\ IF w.span[r].record = 0 THEN v.origins = w.origins /\ v.crashed = w.crashed
       ELSE MovedRecord(w, v, l, r)

LEMMA CoalesceRecordsFields ==
    ASSUME NEW w \in World, NEW l \in SpansOf(w), NEW r \in SpansOf(w),
           w.span[l].arena = w.span[r].arena,
           w.span[r].record # 0 => InSeq(w.origins[w.span[r].arena], r),
           NEW v, v = CoalesceRecords(w, l, r)
    PROVE  RecordsDone(w, v, l, r)
<1>1. PICK d \in SpanRecord, e \in SpanRecord : d = w.span[l] /\ e = w.span[r]
  BY SpanFields
<1>2. PICK ar \in Arenas, n \in Nat, m \in Nat : ar = d.arena /\ n = e.record /\ m = d.record
  BY <1>1, RecordFields
<1>3. l \in Page /\ w.span \in [Page -> SpanRecord \cup {Null}]
  BY SpanFields
<1>4. CASE n = 0
  <2>1. v = w
    BY <1>1, <1>2, <1>4 DEF CoalesceRecords
  <2>2. m + n = d.record
    BY <1>2, <1>4
  <2>3. [d EXCEPT !.record = d.record] = d
    BY DEF SpanRecord
  <2>4. w.span = [w.span EXCEPT ![l] = d]
    BY <1>1, <1>3
  <2> QED
    BY <1>1, <1>2, <1>4, <2>1, <2>2, <2>3, <2>4 DEF RecordsDone, SameBins
<1>5. CASE n # 0
  <2>1. PICK q \in Nat : q = m + n
    OBVIOUS
  <2>2. PICK w1 : w1 = [w EXCEPT !.span[l].record = q]
    OBVIOUS
  <2>3. /\ w1.span = [w.span EXCEPT ![l] = [d EXCEPT !.record = q]]
        /\ w1.pagetrie = w.pagetrie /\ w1.epoch = w.epoch /\ w1.mappings = w.mappings
        /\ w1.origins = w.origins /\ w1.crashed = w.crashed /\ SameBins(w, w1)
        /\ w1 = [w EXCEPT !.span = w1.span, !.pagetrie = w1.pagetrie, !.epoch = w1.epoch,
                    !.origins = w1.origins, !.mappings = w1.mappings, !.crashed = w1.crashed]
    BY <1>1, <2>2 DEF World, SameBins
  <2>4. w1 \in World
    <3>1. [d EXCEPT !.record = q] \in SpanRecord
      BY DEF SpanRecord
    <3>2. w1.span \in [Page -> SpanRecord \cup {Null}]
      BY <1>3, <2>3, <3>1
    <3> QED
      BY <2>3, <3>2, WorldFields, WorldUpdate2
  <2>5. PICK w2 : w2 = IF m = 0 THEN RecordsPush(w1, ar, l) ELSE w1
    OBVIOUS
  <2>6. PICK pre : pre = IF m = 0 THEN <<l>> \o w.origins[ar] ELSE w.origins[ar]
    OBVIOUS
  <2>7. /\ w2 \in World /\ SameBins(w1, w2) /\ w2.span = w1.span
        /\ w2.pagetrie = w1.pagetrie /\ w2.epoch = w1.epoch /\ w2.mappings = w1.mappings
        /\ \A x \in Arenas \ {ar} : w2.origins[x] = w1.origins[x]
        /\ w2.origins[ar] = pre
        /\ w2.crashed => w1.crashed \/ \E x : InSeq(w.origins[ar], x) /\ ~Linked(w1, x)
    <3>1. CASE m = 0
      <4>1. w2 = RecordsPush(w1, ar, l)
        BY <2>5, <3>1
      <4>2. /\ OnlyList(w1, w2, ar) /\ w2.origins[ar] = <<l>> \o w1.origins[ar]
            /\ w2.crashed = (w1.crashed \/ (w1.origins[ar] # <<>> /\ ~Linked(w1, w1.origins[ar][1])))
        BY <1>3, <2>4, <4>1, RecordsPushFields
      <4>3. w1.origins[ar] # <<>> => InSeq(w.origins[ar], w1.origins[ar][1])
        <5>1. PICK s \in Seq(Page) : s = w.origins[ar]
          BY WorldFields
        <5>2. s # <<>> => 1 \in DOMAIN s
          BY ONLY <5>1
        <5> QED
          BY <2>3, <5>1, <5>2 DEF InSeq
      <4> QED
        BY <2>3, <2>6, <3>1, <4>2, <4>3 DEF OnlyList
    <3>2. CASE m # 0
      <4>1. w2 = w1
        BY <2>5, <3>2
      <4> QED
        BY <2>3, <2>4, <2>6, <3>2, <4>1 DEF SameBins
    <3> QED
      BY <3>1, <3>2
  <2>8. v = RecordsRemove(w2, ar, r)
    <3>1. w1 = [w EXCEPT !.span[l].record = @ + n]
      BY <1>1, <1>2, <2>1, <2>2 DEF World
    <3> QED
      BY <1>1, <1>2, <1>5, <2>5, <3>1 DEF CoalesceRecords
  <2>9. InSeq(pre, r)
    <3>1. PICK s \in Seq(Page) : s = w.origins[ar]
      BY WorldFields
    <3>2. InSeq(s, r)
      BY <1>1, <1>2, <1>5, <3>1
    <3>3. CASE m = 0
      <4>1. PICK i \in DOMAIN s : s[i] = r
        BY <3>2 DEF InSeq
      <4>2. pre = <<l>> \o s
        BY <2>6, <3>1, <3>3
      <4>3. <<l>> \in Seq(Page) /\ Len(<<l>>) = 1 /\ i \in 1 .. Len(s)
        BY <1>3, <4>1
      <4>4. i + 1 \in DOMAIN pre /\ pre[i + 1] = s[i]
        BY <4>2, <4>3
      <4> QED
        BY <4>1, <4>4 DEF InSeq
    <3>4. CASE m # 0
      BY <2>6, <3>1, <3>2, <3>4
    <3> QED
      BY <3>3, <3>4
  <2>10. /\ OnlyList(w2, v, ar)
         /\ \E i \in DOMAIN pre : pre[i] = r /\ v.origins[ar] = Sans(pre, i)
         /\ v.crashed => w2.crashed \/ \E j \in DOMAIN pre : ~Linked(w2, pre[j])
    <3>1. PICK list : list = w2.origins[ar]
      OBVIOUS
    <3>2. list = pre /\ InSeq(w2.origins[ar], r) /\ w2 \in World
      BY <2>7, <2>9, <3>1
    <3>3. /\ OnlyList(w2, v, ar)
          /\ \E i \in DOMAIN w2.origins[ar] :
                /\ w2.origins[ar][i] = r
                /\ v.origins[ar] = Sans(w2.origins[ar], i)
                /\ v.crashed = (w2.crashed \/ \E j \in {i - 1, i + 1} \cap DOMAIN w2.origins[ar] :
                                                ~Linked(w2, w2.origins[ar][j]))
      BY <2>8, <3>2, RecordsRemoveFields
    <3>4. PICK i \in DOMAIN list :
                /\ list[i] = r
                /\ v.origins[ar] = Sans(list, i)
                /\ v.crashed = (w2.crashed \/ \E j \in {i - 1, i + 1} \cap DOMAIN list :
                                                ~Linked(w2, list[j]))
      BY <3>1, <3>3
    <3>5. v.crashed => w2.crashed \/ \E j \in DOMAIN list : ~Linked(w2, list[j])
      BY <3>4
    <3> QED
      BY <3>2, <3>3, <3>4, <3>5
  <2>13. \A x : Linked(w, x) \/ x = l => Linked(w1, x) /\ Linked(w2, x)
    <3>1. w1.span[l] = [d EXCEPT !.record = q] /\ \A x \in Page \ {l} : w1.span[x] = w.span[x]
      BY <1>3, <2>3
    <3>2. [d EXCEPT !.record = q] \in SpanRecord /\ [d EXCEPT !.record = q].record = q
      BY DEF SpanRecord
    <3>3. q # 0
      BY <1>5, <2>1
    <3>4. Linked(w1, l)
      BY <3>1, <3>2, <3>3, Sizes, NullAssumption DEF Linked
    <3>5. \A x : x # l => w1.span[x] = w.span[x]
      BY <1>3, <2>3
    <3> QED
      BY <2>7, <3>4, <3>5 DEF Linked
  <2>14. \A j \in DOMAIN pre : pre[j] = l \/ InSeq(w.origins[ar], pre[j])
    <3>1. PICK s \in Seq(Page) : s = w.origins[ar]
      BY WorldFields
    <3>3. CASE m = 0
      <4>1. pre = <<l>> \o s
        BY <2>6, <3>1, <3>3
      <4>2. <<l>> \in Seq(Page) /\ Len(<<l>>) = 1 /\ <<l>>[1] = l
        BY <1>3
      <4>3. \A j \in DOMAIN pre : pre[j] = l \/ (j - 1 \in DOMAIN s /\ pre[j] = s[j - 1])
        BY ONLY <3>1, <4>1, <4>2
      <4> QED
        BY <3>1, <4>3 DEF InSeq
    <3>4. CASE m # 0
      BY <2>6, <3>1, <3>4 DEF InSeq
    <3> QED
      BY <3>3, <3>4
  <2>15. v.crashed => w.crashed \/ Stray(w, ar)
    BY <2>3, <2>7, <2>10, <2>13, <2>14 DEF Stray
  <2>11. MovedRecord(w, v, l, r)
    <3>1. w.span[l].arena = ar /\ pre = IF w.span[l].record = 0 THEN <<l>> \o w.origins[ar]
                                                             ELSE w.origins[ar]
      BY <1>1, <1>2, <2>6
    <3>2. \A x \in Arenas \ {ar} : v.origins[x] = w.origins[x]
      BY <2>3, <2>7, <2>10 DEF OnlyList
    <3>3. \E i \in DOMAIN pre : pre[i] = r /\ v.origins[ar] = Sans(pre, i)
      BY <2>10
    <3>4. Moved(w, v, l, r, ar, pre)
      BY <2>15, <3>2, <3>3 DEF Moved
    <3> QED
      BY <3>1, <3>4 DEF MovedRecord
  <2>12. v \in World /\ SameBins(w, v) /\ v.span = w1.span
         /\ v.pagetrie = w.pagetrie /\ v.epoch = w.epoch /\ v.mappings = w.mappings
    BY <2>3, <2>7, <2>10 DEF OnlyList, SameBins
  <2> QED
    BY <1>1, <1>2, <1>5, <2>1, <2>3, <2>11, <2>12 DEF RecordsDone
<1> QED
  BY <1>4, <1>5

MergedState(s, t) == IF "RETAINED" \in {s, t} THEN "RETAINED"
                     ELSE IF "DIRTY" \in {s, t} THEN "DIRTY" ELSE "CLEAN"

Merged(w, l, r, g, j, s, n) ==
    [w EXCEPT !.span[l] = [@ EXCEPT !.age = g, !.szclass = j, !.state = s, !.nbytes = n],
              !.span[r] = Null]

(* The body of the function, its parts named *)
LEMMA CoalesceExpanded ==
    ASSUME NEW w, NEW l, NEW r, NEW w1, w1 = CoalesceRecords(w, l, r),
           NEW g, g = IF w.span[l].age < w.span[r].age THEN w.span[l].age ELSE w.span[r].age,
           NEW s, s = IF "RETAINED" \in {w.span[l].state, w.span[r].state} THEN "RETAINED"
                      ELSE IF "DIRTY" \in {w.span[l].state, w.span[r].state} THEN "DIRTY"
                      ELSE "CLEAN",
           NEW n, n = w.span[l].nbytes + w.span[r].nbytes, NEW j, j = SpanClass(n)
    PROVE  SpanCoalesce(w, l, r) = Merged(w1, l, r, g, j, s, n)
  BY DEF SpanCoalesce, Merged

LEMMA CoalesceKeeps ==
    ASSUME NEW w \in World, Binned(w), Listed(w),
           NEW l \in Loose(w), NEW r \in Loose(w), l # r,
           w.span[l].arena = w.span[r].arena,
           w.span[l].nbytes + w.span[r].nbytes \in 1 .. NPages,
           NEW v, v = SpanCoalesce(w, l, r)
    PROVE  /\ v \in World /\ SameBins(w, v) /\ CoalesceDone(w, v, l, r) /\ Binned(v)
           /\ Loose(v) = Loose(w) \ {r}
<1>1. l \in SpansOf(w) /\ r \in SpansOf(w) /\ ~w.span[l].is_alloc
  BY DEF Loose
<1>2. PICK d \in SpanRecord, e \in SpanRecord : d = w.span[l] /\ e = w.span[r]
  BY <1>1, SpanFields
<1>3. l \in Page /\ r \in Page /\ w.span \in [Page -> SpanRecord \cup {Null}]
  BY <1>1, SpanFields
<1>4. PICK w1 : w1 = CoalesceRecords(w, l, r)
  OBVIOUS
<1>5. RecordsDone(w, w1, l, r)
  BY <1>1, <1>4, CoalesceRecordsFields DEF Listed
<1>6. PICK n \in 1 .. NPages : n = d.nbytes + e.nbytes
  BY <1>2
<1>7. PICK j \in Class : j = SpanClass(n)
  BY SpanClassFits
<1>8. PICK g \in 0 .. AgeMod - 1 : g = IF d.age < e.age THEN d.age ELSE e.age
  BY RecordFields
<1>9. PICK s \in States : s = MergedState(d.state, e.state)
  BY DEF MergedState, States
<1>10. PICK rc \in Nat : rc = d.record + e.record
  BY RecordFields
<1>11. PICK d1 : d1 = [d EXCEPT !.record = rc]
  OBVIOUS
<1>12. PICK d2 : d2 = [d1 EXCEPT !.age = g, !.szclass = j, !.state = s, !.nbytes = n]
  OBVIOUS
<1>13. d1 \in SpanRecord
  BY <1>11 DEF SpanRecord
<1>14. /\ d2 \in SpanRecord /\ d2.arena = d.arena /\ d2.is_alloc = d.is_alloc
       /\ d2.age = g /\ d2.nbytes = n /\ d2.szclass = j /\ d2.record = rc /\ d2.state = s
  BY <1>11, <1>12 DEF SpanRecord
<1>15. /\ w1 \in World /\ SameBins(w, w1) /\ w1.span = [w.span EXCEPT ![l] = d1]
       /\ w1.pagetrie = w.pagetrie /\ w1.epoch = w.epoch /\ w1.mappings = w.mappings
  BY <1>2, <1>5, <1>10, <1>11 DEF RecordsDone
<1>16. PICK f : f = [[w.span EXCEPT ![l] = d2] EXCEPT ![r] = Null]
  OBVIOUS
<1>17. v = [w1 EXCEPT !.span = f]
  <2>1. v = [w1 EXCEPT !.span[l] = [@ EXCEPT !.age = g, !.szclass = j, !.state = s, !.nbytes = n],
                       !.span[r] = Null]
    <3>1. s = IF "RETAINED" \in {w.span[l].state, w.span[r].state} THEN "RETAINED"
              ELSE IF "DIRTY" \in {w.span[l].state, w.span[r].state} THEN "DIRTY" ELSE "CLEAN"
      BY <1>2, <1>9 DEF MergedState
    <3>2. n = w.span[l].nbytes + w.span[r].nbytes
      BY <1>2, <1>6
    <3>3. g = IF w.span[l].age < w.span[r].age THEN w.span[l].age ELSE w.span[r].age
      BY <1>2, <1>8
    <3>4. v = Merged(w1, l, r, g, j, s, n)
      BY <1>4, <1>7, <3>1, <3>2, <3>3, CoalesceExpanded
    <3> QED
      BY <3>4 DEF Merged
  <2>2. PICK h : h = w1.span
    OBVIOUS
  <2>3. h = [w.span EXCEPT ![l] = d1] /\ h[l] = d1
    BY <1>3, <1>15, <2>2
  <2>4. v = [w1 EXCEPT !.span[l] = d2, !.span[r] = Null]
    BY <1>12, <2>1, <2>2, <2>3
  <2>5. v = [w1 EXCEPT !.span = [h EXCEPT ![l] = d2, ![r] = Null]]
    BY <1>15, <2>2, <2>4 DEF World
  <2>6. [h EXCEPT ![l] = d2, ![r] = Null] = [[w.span EXCEPT ![l] = d2] EXCEPT ![r] = Null]
    BY <1>3, <2>3
  <2> QED
    BY <1>16, <2>5, <2>6
<1>18. /\ v.span = f /\ v.pagetrie = w.pagetrie /\ v.epoch = w.epoch /\ v.mappings = w.mappings
       /\ SameBins(w, v) /\ v.origins = w1.origins /\ v.crashed = w1.crashed
       /\ v = [w1 EXCEPT !.span = v.span, !.pagetrie = v.pagetrie, !.epoch = v.epoch,
                    !.origins = v.origins, !.mappings = v.mappings, !.crashed = v.crashed]
  BY <1>15, <1>17 DEF World, SameBins
<1>19. f \in [Page -> SpanRecord \cup {Null}] /\ f[l] = d2 /\ f[r] = Null
       /\ \A b \in Page \ {l, r} : f[b] = w.span[b]
  BY <1>3, <1>14, <1>16
<1>20. v \in World
  BY <1>15, <1>18, <1>19, WorldFields, WorldUpdate2
<1>21. SpansOf(v) = SpansOf(w) \ {r}
  BY <1>1, <1>3, <1>14, <1>18, <1>19, RecordFields DEF SpansOf
<1>22. Binned(v) /\ Loose(v) = Loose(w) \ {r}
  <2>1. PICK T : T = {l, r}
    OBVIOUS
  <2>2. v.bucket = w.bucket /\ (\A b \in Page \ T : v.span[b] = w.span[b])
        /\ \A b \in T : b \in SpansOf(w) => b \in Loose(w) \/ w.span[b].is_alloc
    BY <1>18, <1>19, <2>1 DEF SameBins
  <2>3. /\ Binned(v)
        /\ Loose(v) = (Loose(w) \ T) \cup {b \in SpansOf(v) : b \in T /\ ~v.span[b].is_alloc}
    BY <1>20, <2>2, Respan
  <2> QED
    <3>1. l \in SpansOf(v) /\ r \notin SpansOf(v) /\ l \in Loose(w)
      BY <1>1, <1>21
    <3>2. ~v.span[l].is_alloc
      BY <1>1, <1>2, <1>14, <1>18, <1>19
    <3> QED
      BY <2>1, <2>3, <3>1, <3>2
<1>23. CoalesceDone(w, v, l, r)
  <2>1. IF w.span[r].record = 0 THEN v.origins = w.origins /\ v.crashed = w.crashed
        ELSE MovedRecord(w, v, l, r)
    <3>1. IF w.span[r].record = 0 THEN w1.origins = w.origins /\ w1.crashed = w.crashed
          ELSE MovedRecord(w, w1, l, r)
      BY <1>5 DEF RecordsDone
    <3>2. v.origins = w1.origins /\ v.crashed = w1.crashed
      BY <1>18
    <3>3. MovedRecord(w, w1, l, r) => MovedRecord(w, v, l, r)
      BY <3>2, Zenon DEF MovedRecord, Moved
    <3> QED
      BY <3>1, <3>2, <3>3
  <2>2. \A b \in SpansOf(w) \ {l, r} : v.span[b] = w.span[b]
    BY <1>18, <1>19 DEF SpansOf
  <2> QED
    BY <1>2, <1>6, <1>7, <1>8, <1>10, <1>14, <1>18, <1>19, <1>21, <2>1, <2>2 DEF CoalesceDone
<1> QED
  BY <1>18, <1>20, <1>22, <1>23

(* The records follow the spans they are moved to. *)
LEMMA CoalesceListed ==
    ASSUME NEW w \in World, Listed(w), NEW l \in SpansOf(w), NEW r \in SpansOf(w), l # r,
           NEW v \in World, CoalesceDone(w, v, l, r)
    PROVE  Listed(v)
<1>1. PICK ar \in Arenas : ar = w.span[l].arena /\ v.span[l].arena = ar
  BY SpanFields, RecordFields DEF CoalesceDone
<1>2. l \in Page
  BY SpanFields
<1>3. CASE w.span[r].record = 0
  <2>1. v.origins = w.origins /\ v.span[l].record = w.span[l].record
    BY <1>3, SpanFields, RecordFields DEF CoalesceDone
  <2> QED
    BY <1>1, <1>3, <2>1 DEF CoalesceDone, Listed
<1>4. CASE w.span[r].record # 0
  <2>1. PICK s \in Seq(Page) : s = w.origins[ar]
    BY WorldFields
  <2>2. PICK pre \in Seq(Page) : pre = IF w.span[l].record = 0 THEN <<l>> \o s ELSE s
    <3>1. <<l>> \in Seq(Page)
      BY <1>2
    <3>2. <<l>> \o s \in Seq(Page)
      BY ONLY <2>1, <3>1
    <3> QED
      BY <2>1, <3>2
  <2>3. \A b : InSeq(s, b) => InSeq(pre, b)
    <3>1. CASE w.span[l].record = 0
      <4>1. \A i \in DOMAIN s : i + 1 \in DOMAIN pre /\ pre[i + 1] = s[i]
        <5>1. <<l>> \in Seq(Page) /\ Len(<<l>>) = 1 /\ <<l>> \o s = pre
          BY <1>2, <2>2, <3>1
        <5>2. ASSUME NEW i \in DOMAIN s PROVE i + 1 \in DOMAIN pre /\ pre[i + 1] = s[i]
          <6>1. i \in 1 .. Len(s)
            BY <2>1
          <6> QED
            BY ONLY <2>1, <2>2, <5>1, <6>1
        <5> QED
          BY <5>2
      <4> QED
        BY <4>1 DEF InSeq
    <3>2. CASE w.span[l].record # 0
      BY <2>2, <3>2
    <3> QED
      BY <3>1, <3>2
  <2>4. InSeq(pre, l)
    <3>1. CASE w.span[l].record = 0
      <4>1. <<l>> \in Seq(Page) /\ Len(<<l>>) = 1 /\ <<l>>[1] = l /\ <<l>> \o s = pre
        BY <1>2, <2>2, <3>1
      <4>2. 1 \in DOMAIN pre /\ pre[1] = l
        BY ONLY <2>1, <2>2, <4>1
      <4> QED
        BY <4>2 DEF InSeq
    <3>2. CASE w.span[l].record # 0
      BY <1>1, <2>1, <2>3, <3>2 DEF Listed
    <3> QED
      BY <3>1, <3>2
  <2>5. MovedRecord(w, v, l, r)
    BY <1>4 DEF CoalesceDone
  <2>6. PICK i \in DOMAIN pre : pre[i] = r /\ v.origins[ar] = Sans(pre, i)
    BY <1>1, <2>1, <2>2, <2>5 DEF MovedRecord, Moved
  <2>7. \A x \in Arenas \ {ar} : v.origins[x] = w.origins[x]
    BY <1>1, <2>5 DEF MovedRecord, Moved
  <2>8. \A b : InSeq(pre, b) /\ b # r => InSeq(v.origins[ar], b)
    BY <2>6, WithoutMembers
  <2>9. ASSUME NEW b \in SpansOf(v), v.span[b].record # 0
        PROVE  InSeq(v.origins[v.span[b].arena], b)
    <3>1. b \in SpansOf(w) /\ b # r
      BY DEF CoalesceDone
    <3>2. CASE b = l
      BY <1>1, <2>4, <2>8, <3>1, <3>2
    <3>3. CASE b # l
      <4>1. v.span[b] = w.span[b]
        BY <3>1, <3>3 DEF CoalesceDone
      <4>2. InSeq(w.origins[w.span[b].arena], b) /\ w.span[b].arena \in Arenas
        BY <2>9, <3>1, <4>1, SpanFields, RecordFields DEF Listed
      <4> QED
        BY <2>1, <2>3, <2>7, <2>8, <3>1, <4>1, <4>2
    <3> QED
      BY <3>2, <3>3
  <2> QED
    BY <2>9 DEF Listed
<1> QED
  BY <1>3, <1>4

LEMMA SameShapeListed ==
    ASSUME NEW w, NEW v, SameShape(w, v), Listed(w)
    PROVE  Listed(v)
  BY DEF SameShape, Listed, SameBut

-----------------------------------------------------------------------------
(* Merging *)

(* The pagetrie is right but on the pages of span m. *)
IndexedBut(w, m) ==
    \A p \in Page : IF p \in Mapped(w)
                    THEN \/ p \in Extent(w, m)
                         \/ w.pagetrie[p] \in SpansOf(w) /\ p \in Extent(w, w.pagetrie[p])
                    ELSE w.pagetrie[p] = Null

(* A call merges the neighbours of m, which is in its hands. *)
Merging(w, m) == /\ w \in World /\ Tiled(w) /\ Classed(w) /\ Binned(w) /\ Listed(w)
                 /\ m \in Loose(w) /\ IndexedBut(w, m)

LEMMA JoinArith ==
    ASSUME NEW l \in Nat, NEW n \in Nat \ {0}, NEW q \in Nat \ {0}, l + n + q <= NPages
    PROVE  n + q \in 1 .. NPages
  BY Sizes

LEMMA CoalesceMerging ==
    ASSUME NEW w, NEW m, Merging(w, m), NEW l \in Loose(w), NEW r \in Loose(w), m \in {l, r},
           l + w.span[l].nbytes = r, w.span[l].arena = w.span[r].arena,
           NEW v, v = SpanCoalesce(w, l, r)
    PROVE  /\ Merging(v, l) /\ SameBins(w, v) /\ CoalesceDone(w, v, l, r)
           /\ Loose(v) = Loose(w) \ {r} /\ l # r
<1>1. w \in World /\ Tiled(w) /\ Classed(w) /\ Binned(w) /\ Listed(w) /\ IndexedBut(w, m)
      /\ l \in SpansOf(w) /\ r \in SpansOf(w)
  BY DEF Merging, Loose
<1>2. PICK n \in Nat \ {0}, q \in Nat \ {0} : n = w.span[l].nbytes /\ q = w.span[r].nbytes
  BY <1>1, ExtentFacts
<1>3. l \in Nat /\ r = l + n /\ l + n + q <= NPages /\ l # r
  <2>1. l \in Nat /\ r = l + n /\ r + q <= NPages
    BY <1>1, <1>2, ExtentBound, SpanFields
  <2> QED
    BY <1>2, <2>1
<1>4. w.span[l].nbytes + w.span[r].nbytes \in 1 .. NPages
  BY <1>2, <1>3, JoinArith
<1>5. v \in World /\ SameBins(w, v) /\ CoalesceDone(w, v, l, r) /\ Binned(v)
      /\ Loose(v) = Loose(w) \ {r}
  BY <1>1, <1>3, <1>4, CoalesceKeeps
<1>6. Listed(v)
  BY <1>1, <1>3, <1>5, CoalesceListed
<1>7. l \in SpansOf(v) /\ SpansOf(v) = SpansOf(w) \ {r} /\ Mapped(v) = Mapped(w)
      /\ v.pagetrie = w.pagetrie /\ v.span[l].nbytes = n + q
  BY <1>1, <1>2, <1>3, <1>5 DEF CoalesceDone, Mapped
<1>8. \A p \in Int : /\ p \in Extent(v, l) <=> l <= p /\ p < l + n + q
                     /\ p \in Extent(w, l) <=> l <= p /\ p < l + n
                     /\ p \in Extent(w, r) <=> l + n <= p /\ p < l + n + q
  <2>1. l + (n + q) = l + n + q /\ r + q = l + n + q
    BY <1>2, <1>3
  <2> QED
    BY <1>1, <1>2, <1>3, <1>5, <1>7, <2>1, ExtentFacts
<1>9. \A p \in Int : p \in Extent(v, l) <=> p \in Extent(w, l) \/ p \in Extent(w, r)
  <2>1. l \in Nat /\ l + n \in Nat /\ l <= l + n /\ l + n + q \in Nat /\ l + n <= l + n + q
    BY <1>2, <1>3
  <2> QED
    BY ONLY <1>8, <2>1
<1>10. \A b \in SpansOf(w) \ {l, r} : v.span[b] = w.span[b] /\ Extent(v, b) = Extent(w, b)
  BY <1>5 DEF CoalesceDone, Extent
<1>11. Resized(w, v, {l, r}, {l})
  <2>1. \A b \in SpansOf(w) \ {l, r} : SameBut(w.span[b], v.span[b])
    BY <1>10 DEF SameBut
  <2>2. \A p \in Nat : (p \in Mapped(v) \ Mapped(w) \/ \E d \in {l, r} : p \in Extent(w, d))
                       <=> \E e \in {l} : p \in Extent(v, e)
    BY <1>7, <1>9
  <2>3. v.span[l].szclass = SpanClass(v.span[l].nbytes)
    BY <1>5 DEF CoalesceDone
  <2>4. Mapped(v) \subseteq Page
    BY <1>1, <1>7 DEF Tiled
  <2> QED
    BY <1>1, <1>7, <2>1, <2>2, <2>3, <2>4 DEF Resized
<1>12. Tiled(v) /\ Classed(v)
  BY <1>1, <1>5, <1>11, ResizedKeeps
<1>13. IndexedBut(v, l)
  <2> SUFFICES ASSUME NEW p \in Page
               PROVE  IF p \in Mapped(v)
                      THEN \/ p \in Extent(v, l)
                           \/ v.pagetrie[p] \in SpansOf(v) /\ p \in Extent(v, v.pagetrie[p])
                      ELSE v.pagetrie[p] = Null
    BY DEF IndexedBut
  <2>1. p \in Int
    BY Sizes
  <2>2. CASE p \in Mapped(w) /\ p \notin Extent(v, l)
    <3>1. p \notin Extent(w, l) /\ p \notin Extent(w, r)
      BY <1>9, <2>1, <2>2
    <3>2. w.pagetrie[p] \in SpansOf(w) /\ p \in Extent(w, w.pagetrie[p])
      BY <1>1, <2>2, <3>1 DEF IndexedBut
    <3>3. w.pagetrie[p] \in SpansOf(w) \ {l, r}
      BY <3>1, <3>2
    <3> QED
      BY <1>7, <1>10, <2>2, <3>2, <3>3
  <2>3. CASE p \notin Mapped(w)
    BY <1>1, <1>7, <2>3 DEF IndexedBut
  <2> QED
    BY <1>7, <2>2, <2>3
<1>14. l \in Loose(v)
  BY <1>3, <1>5
<1> QED
  BY <1>3, <1>5, <1>6, <1>12, <1>13, <1>14 DEF Merging

(* The pagetrie_insert at the end makes it right again. *)
LEMMA InsertIndexes ==
    ASSUME NEW w, NEW m, Merging(w, m), NEW v, v = PagetrieInsert(w, m)
    PROVE  /\ Sound(v) /\ Listed(v) /\ SameBins(w, v) /\ Loose(v) = Loose(w)
           /\ v.span = w.span /\ v.epoch = w.epoch /\ v.origins = w.origins
           /\ v.mappings = w.mappings /\ v.crashed = w.crashed
<1>1. /\ w \in World /\ Tiled(w) /\ Classed(w) /\ Binned(w) /\ Listed(w) /\ IndexedBut(w, m)
      /\ m \in SpansOf(w) /\ m \in Page
  BY SpanFields DEF Merging, Loose
<1>2. /\ v \in World /\ v.span = w.span /\ SameBins(w, v)
      /\ v.epoch = w.epoch /\ v.origins = w.origins
      /\ v.mappings = w.mappings /\ v.crashed = w.crashed
      /\ \A p \in Page : v.pagetrie[p] = IF p \in Extent(w, m) THEN m ELSE w.pagetrie[p]
  BY <1>1, PagetrieInsertFields
<1>3. /\ SpansOf(v) = SpansOf(w) /\ Binned(v) /\ Loose(v) = Loose(w)
      /\ Mapped(v) = Mapped(w) /\ \A a : Extent(v, a) = Extent(w, a)
  BY <1>1, <1>2, SameSpansKeeps DEF Mapped
<1>4. Tiled(v) /\ Classed(v) /\ Listed(v)
  BY <1>1, <1>2, <1>3 DEF Tiled, Classed, Listed
<1>5. Indexed(v)
  <2>1. \A p \in Extent(w, m) : p \in Mapped(w)
    BY <1>1 DEF Tiled
  <2> QED
    BY <1>1, <1>2, <1>3, <2>1 DEF Indexed, IndexedBut
<1> QED
  BY <1>2, <1>3, <1>4, <1>5 DEF Sound

LEMMA LookupSpan ==
    ASSUME NEW w, Sound(w), NEW p, PagetrieLookup(w, p) # Null
    PROVE  PagetrieLookup(w, p) \in SpansOf(w) /\ p \in Page
           /\ p \in Extent(w, PagetrieLookup(w, p))
  BY DEF Sound, Indexed, PagetrieLookup

LEMMA RemovedMerging ==
    ASSUME NEW w, NEW m, Merging(w, m), NEW a \in SpansOf(w), ~w.span[a].is_alloc,
           NEW v, v = BinRemove(w, a)
    PROVE  Merging(v, m) /\ SameShape(w, v) /\ Loose(v) = Loose(w) \cup {a}
<1>1. v \in World /\ SameShape(w, v) /\ Binned(v) /\ Loose(v) = Loose(w) \cup {a}
      /\ m \in SpansOf(w)
  BY BinRemoveKeeps DEF Merging, Loose
<1>2. Tiled(v) /\ Classed(v)
  <2>1. \A b \in SpansOf(w) : Extent(v, b) = Extent(w, b)
    BY <1>1, SameExtent DEF SameShape
  <2>2. SpansOf(v) = SpansOf(w) /\ Mapped(v) = Mapped(w)
    BY <1>1 DEF SameShape, Mapped
  <2>3. Tiled(v)
    BY <2>1, <2>2 DEF Tiled, Merging
  <2>4. Classed(v)
    BY <1>1, <2>2 DEF Classed, SameShape, SameBut, Merging
  <2> QED
    BY <2>3, <2>4
<1>3. Listed(v)
  BY <1>1, SameShapeListed DEF Merging
<1>4. IndexedBut(v, m)
  <2>1. \A b \in SpansOf(w) : Extent(v, b) = Extent(w, b)
    BY <1>1, SameExtent DEF SameShape
  <2>2. SpansOf(v) = SpansOf(w) /\ Mapped(v) = Mapped(w) /\ v.pagetrie = w.pagetrie
    BY <1>1 DEF SameShape, Mapped
  <2> QED
    BY <1>1, <2>1, <2>2 DEF IndexedBut, Merging
<1> QED
  BY <1>1, <1>2, <1>3, <1>4 DEF Merging

LEMMA BinRemoveCounts ==
    ASSUME NEW w \in World, Binned(w), Counted(w), NEW a \in SpansOf(w), ~w.span[a].is_alloc,
           a \notin Loose(w), NEW v, v = BinRemove(w, a)
    PROVE  Counted(v)
  BY BinRemoveFields, TakeCounts

LEMMA BinRemoveMarked ==
    ASSUME NEW w \in World, Marked(w), NEW a \in SpansOf(w), NEW v, v = BinRemove(w, a)
    PROVE  Marked(v)
<1>1. PICK b \in Bins, s \in States : b = BinOf(w, a) /\ s = w.span[a].state
  BY SpanFields, RecordFields
<1> QED
  BY <1>1, BinRemoveFields, TakeMarked

(* What CanMerge says of two spans *)
LEMMA CanMergeFacts ==
    ASSUME NEW w, Sound(w), NEW l, NEW r, CanMerge(w, l, r)
    PROVE  /\ l # Null /\ r # Null /\ ~w.span[l].is_alloc /\ ~w.span[r].is_alloc
           /\ w.span[l].arena = w.span[r].arena /\ l + w.span[l].nbytes = r
           /\ AllowCrossOrigin \/ w.span[l].age = w.span[r].age
  BY DEF CanMerge

(* The neighbours that scache_merge_adj merges are spans, left and right. *)
LEMMA NeighboursAreSpans ==
    ASSUME NEW w, Sound(w), NEW a \in SpansOf(w),
           NEW l, l = LeftOf(w, a), NEW r, r = RightOf(w, a)
    PROVE  /\ CanMerge(w, l, a) => l \in SpansOf(w) /\ l # a
           /\ CanMerge(w, a, r) => r \in SpansOf(w) /\ r # a
           /\ CanMerge(w, l, a) /\ CanMerge(w, a, r) => l # r
<1>1. w \in World
  BY DEF Sound
<1>2. CanMerge(w, l, a) => l \in SpansOf(w) /\ l + w.span[l].nbytes = a
  BY LookupSpan, CanMergeFacts DEF LeftOf
<1>3. CanMerge(w, a, r) => r \in SpansOf(w) /\ a + w.span[a].nbytes = r
  BY LookupSpan, CanMergeFacts DEF RightOf
<1>4. a \in Nat /\ w.span[a].nbytes \in Nat \ {0}
      /\ (l \in SpansOf(w) => l \in Nat /\ w.span[l].nbytes \in Nat \ {0})
  BY <1>1, ExtentFacts
<1>5. CanMerge(w, l, a) => l \in SpansOf(w) /\ l < a
  BY <1>2, <1>4
<1>6. CanMerge(w, a, r) => r \in SpansOf(w) /\ a < r
  BY <1>3, <1>4
<1> QED
  BY <1>1, <1>4, <1>5, <1>6, SpanFields

(* Two spans of w that may be merged *)
Adjoining(w, l, r) ==
    /\ Tiled(w) /\ l \in SpansOf(w) /\ r \in SpansOf(w) /\ l # r
    /\ l + w.span[l].nbytes = r /\ w.span[l].arena = w.span[r].arena
    /\ AllowCrossOrigin \/ w.span[l].age = w.span[r].age

(* v is w with the free neighbours l and r of a merged into one span m, in *)
(* the steps that the code makes.                                          *)
MergedBy(w, v, a, l, r, m, x, y, z) ==
    /\ x \in World /\ y \in World /\ z \in World
    /\ SameShape(w, x)
    /\ IF CanMerge(w, l, a) THEN /\ m = l /\ l \in SpansOf(x) /\ l # a /\ CoalesceDone(x, y, l, a)
                                 /\ Adjoining(x, l, a)
       ELSE m = a /\ y = x
    /\ IF CanMerge(w, a, r) THEN /\ r \in SpansOf(y) /\ m # r /\ CoalesceDone(y, z, m, r)
                                 /\ Adjoining(y, m, r)
       ELSE z = y
    /\ v.span = z.span /\ v.epoch = z.epoch /\ v.origins = z.origins
    /\ v.mappings = z.mappings /\ v.crashed = z.crashed

LEMMA MergeAdjSteps ==
    ASSUME NEW w, Sound(w), Listed(w), NEW a \in Loose(w), NEW v, v = MergeAdj(w, a),
           NEW l, l = LeftOf(w, a), NEW r, r = RightOf(w, a), NEW m, m = MergedAddr(w, a)
    PROVE  /\ Sound(v) /\ Listed(v) /\ m \in Loose(v)
           /\ Loose(w) = {a} => Loose(v) = {m} /\ (Counted(w) => Counted(v))
           /\ Marked(w) => Marked(v)
           /\ \E x, y, z : MergedBy(w, v, a, l, r, m, x, y, z)
<1>1. /\ w \in World /\ Tiled(w) /\ Classed(w) /\ Indexed(w) /\ Binned(w)
      /\ a \in SpansOf(w) /\ ~w.span[a].is_alloc
  BY DEF Sound, Loose
<1>2. /\ CanMerge(w, l, a) => l \in SpansOf(w) /\ l # a
      /\ CanMerge(w, a, r) => r \in SpansOf(w) /\ r # a
      /\ CanMerge(w, l, a) /\ CanMerge(w, a, r) => l # r
  BY <1>1, NeighboursAreSpans
<1>3. Merging(w, a)
  BY <1>1 DEF Merging, Indexed, IndexedBut
<1>4. PICK w1 : w1 = IF CanMerge(w, l, a) THEN BinRemove(w, l) ELSE w
  OBVIOUS
<1>5. PICK w2 : w2 = IF CanMerge(w, a, r) THEN BinRemove(w1, r) ELSE w1
  OBVIOUS
<1>6. PICK w3 : w3 = IF CanMerge(w, l, a) THEN SpanCoalesce(w2, l, a) ELSE w2
  OBVIOUS
<1>7. m = IF CanMerge(w, l, a) THEN l ELSE a
  BY DEF MergedAddr
<1>8. PICK w4 : w4 = IF CanMerge(w, a, r) THEN SpanCoalesce(w3, m, r) ELSE w3
  OBVIOUS
<1>9. v = PagetrieInsert(w4, m)
  BY <1>4, <1>5, <1>6, <1>7, <1>8 DEF MergeAdj
<1>10. /\ Merging(w1, a) /\ SameShape(w, w1) /\ (CanMerge(w, l, a) => l \in Loose(w1))
       /\ Loose(w) = {a} => /\ Loose(w1) = IF CanMerge(w, l, a) THEN {a, l} ELSE {a}
                            /\ Counted(w) => Counted(w1)
  <2>1. CASE CanMerge(w, l, a)
    <3>1. w1 = BinRemove(w, l) /\ l \in SpansOf(w) /\ ~w.span[l].is_alloc
      BY <1>2, <1>4, <2>1, CanMergeFacts
    <3>2. Merging(w1, a) /\ SameShape(w, w1) /\ Loose(w1) = Loose(w) \cup {l}
      BY <1>3, <3>1, RemovedMerging
    <3>3. Loose(w) = {a} /\ Counted(w) => Counted(w1)
      BY <1>1, <1>2, <2>1, <3>1, BinRemoveCounts
    <3> QED
      BY <2>1, <3>2, <3>3
  <2>2. CASE ~CanMerge(w, l, a)
    BY <1>3, <1>4, <2>2 DEF SameShape, SameBut
  <2> QED
    BY <2>1, <2>2
<1>11. /\ Merging(w2, a) /\ SameShape(w, w2) /\ (CanMerge(w, l, a) => l \in Loose(w2))
       /\ (CanMerge(w, a, r) => r \in Loose(w2))
       /\ Loose(w) = {a} => /\ Loose(w2) = {a} \cup (IF CanMerge(w, l, a) THEN {l} ELSE {})
                                               \cup (IF CanMerge(w, a, r) THEN {r} ELSE {})
                            /\ Counted(w) => Counted(w2)
  <2>1. CASE CanMerge(w, a, r)
    <3>1. w2 = BinRemove(w1, r) /\ r \in SpansOf(w) /\ ~w.span[r].is_alloc
      BY <1>2, <1>5, <2>1, CanMergeFacts
    <3>2. r \in SpansOf(w1) /\ ~w1.span[r].is_alloc
      BY <1>10, <3>1 DEF SameShape, SameBut
    <3>3. Merging(w2, a) /\ SameShape(w1, w2) /\ Loose(w2) = Loose(w1) \cup {r}
      BY <1>10, <3>1, <3>2, RemovedMerging
    <3>4. SameShape(w, w2)
      BY <1>10, <3>3 DEF SameShape, SameBut
    <3>5. Loose(w) = {a} /\ Counted(w) => Counted(w2)
      <4> SUFFICES ASSUME Loose(w) = {a}, Counted(w) PROVE Counted(w2)
        OBVIOUS
      <4>1. r \notin Loose(w1) /\ Counted(w1)
        BY <1>2, <1>10, <2>1
      <4>2. w1 \in World /\ Binned(w1)
        BY <1>10 DEF Merging
      <4> QED
        BY <3>1, <3>2, <4>1, <4>2, BinRemoveCounts
    <3> QED
      BY <1>10, <2>1, <3>3, <3>4, <3>5
  <2>2. CASE ~CanMerge(w, a, r)
    BY <1>5, <1>10, <2>2
  <2> QED
    BY <2>1, <2>2
<1>12. /\ SpansOf(w2) = SpansOf(w)
       /\ \A b \in SpansOf(w) : SameBut(w.span[b], w2.span[b])
  BY <1>11 DEF SameShape
<1>13. /\ Merging(w3, m) /\ SameBins(w2, w3)
       /\ (CanMerge(w, l, a) => /\ CoalesceDone(w2, w3, l, a) /\ Loose(w3) = Loose(w2) \ {a}
                                /\ Adjoining(w2, l, a))
       /\ (~CanMerge(w, l, a) => w3 = w2)
  <2>1. CASE CanMerge(w, l, a)
    <3>1. l \in SpansOf(w) /\ l + w.span[l].nbytes = a /\ w.span[l].arena = w.span[a].arena
      BY <1>2, <2>1, CanMergeFacts
    <3>2. l + w2.span[l].nbytes = a /\ w2.span[l].arena = w2.span[a].arena
      BY <1>1, <1>12, <3>1 DEF SameBut
    <3>3. w3 = SpanCoalesce(w2, l, a) /\ m = l /\ l \in Loose(w2) /\ a \in Loose(w2)
      BY <1>6, <1>7, <1>11, <2>1 DEF Merging
    <3>4. Merging(w2, a)
      BY <1>11
    <3>5. AllowCrossOrigin \/ w2.span[l].age = w2.span[a].age
      BY <1>1, <1>2, <1>12, <2>1, CanMergeFacts DEF SameBut
    <3>6. Adjoining(w2, l, a)
      BY <1>1, <1>2, <1>12, <2>1, <3>2, <3>4, <3>5 DEF Adjoining, Merging
    <3>7. /\ Merging(w3, l) /\ SameBins(w2, w3) /\ CoalesceDone(w2, w3, l, a)
          /\ Loose(w3) = Loose(w2) \ {a}
      BY <3>2, <3>3, <3>4, CoalesceMerging
    <3> QED
      BY <2>1, <3>3, <3>6, <3>7
  <2>2. CASE ~CanMerge(w, l, a)
    BY <1>6, <1>7, <1>11, <2>2 DEF SameBins
  <2> QED
    BY <2>1, <2>2
<1>14. CanMerge(w, a, r) => /\ r \in SpansOf(w3) /\ r \in Loose(w3) /\ m # r
                            /\ m + w3.span[m].nbytes = r /\ w3.span[m].arena = w3.span[r].arena
                            /\ AllowCrossOrigin \/ w3.span[m].age = w3.span[r].age
  <2> SUFFICES ASSUME CanMerge(w, a, r)
               PROVE  /\ r \in SpansOf(w3) /\ r \in Loose(w3) /\ m # r
                      /\ m + w3.span[m].nbytes = r /\ w3.span[m].arena = w3.span[r].arena
                      /\ AllowCrossOrigin \/ w3.span[m].age = w3.span[r].age
    OBVIOUS
  <2>1. r \in SpansOf(w) /\ a + w.span[a].nbytes = r /\ w.span[a].arena = w.span[r].arena
        /\ (AllowCrossOrigin \/ w.span[a].age = w.span[r].age)
    BY <1>2, CanMergeFacts
  <2>2. a + w2.span[a].nbytes = r /\ w2.span[a].arena = w2.span[r].arena /\ r \in SpansOf(w2)
        /\ (AllowCrossOrigin \/ w2.span[a].age = w2.span[r].age)
    BY <1>1, <1>12, <2>1 DEF SameBut
  <2>3. CASE CanMerge(w, l, a)
    <3>1. l \in SpansOf(w) /\ l + w.span[l].nbytes = a /\ w.span[l].arena = w.span[a].arena
      BY <1>2, <2>3, CanMergeFacts
    <3>6. AllowCrossOrigin \/ w2.span[l].age = w2.span[a].age
      BY <1>13, <2>3 DEF Adjoining
    <3>7. AllowCrossOrigin \/ w3.span[l].age = w2.span[a].age
      BY <1>13, <2>3, <3>6 DEF CoalesceDone
    <3>2. l + w2.span[l].nbytes = a /\ w2.span[l].arena = w2.span[a].arena
      BY <1>1, <1>12, <3>1 DEF SameBut
    <3>3. /\ w3.span[l].nbytes = w2.span[l].nbytes + w2.span[a].nbytes
          /\ w3.span[l].arena = w2.span[l].arena /\ w3.span[r] = w2.span[r]
          /\ SpansOf(w3) = SpansOf(w2) \ {a} /\ Loose(w3) = Loose(w2) \ {a}
      BY <1>2, <1>13, <2>2, <2>3 DEF CoalesceDone
    <3>4. PICK p \in Nat, q \in Nat : p = w2.span[l].nbytes /\ q = w2.span[a].nbytes
      BY <1>1, <1>11, <1>12, <3>1, ExtentFacts DEF Merging
    <3>5. l \in Nat /\ l + (p + q) = (l + p) + q
      BY <1>1, <3>1, <3>4, SpanFields
    <3> QED
      BY <1>2, <1>7, <1>11, <2>2, <2>3, <3>2, <3>3, <3>4, <3>5, <3>7
  <2>4. CASE ~CanMerge(w, l, a)
    BY <1>2, <1>7, <1>11, <1>13, <2>2, <2>4
  <2> QED
    BY <2>3, <2>4
<1>15. /\ Merging(w4, m) /\ SameBins(w3, w4)
       /\ (CanMerge(w, a, r) => /\ CoalesceDone(w3, w4, m, r) /\ Loose(w4) = Loose(w3) \ {r}
                                /\ Adjoining(w3, m, r))
       /\ (~CanMerge(w, a, r) => w4 = w3)
  <2>1. CASE CanMerge(w, a, r)
    <3>1. w4 = SpanCoalesce(w3, m, r) /\ m \in Loose(w3) /\ r \in Loose(w3)
          /\ m + w3.span[m].nbytes = r /\ w3.span[m].arena = w3.span[r].arena
      BY <1>8, <1>13, <1>14, <2>1 DEF Merging
    <3>2. Merging(w3, m)
      BY <1>13
    <3>3. Adjoining(w3, m, r)
      BY <1>14, <2>1, <3>1, <3>2 DEF Adjoining, Merging, Loose
    <3>4. /\ Merging(w4, m) /\ SameBins(w3, w4) /\ CoalesceDone(w3, w4, m, r)
          /\ Loose(w4) = Loose(w3) \ {r}
      BY <3>1, <3>2, CoalesceMerging
    <3> QED
      BY <2>1, <3>3, <3>4
  <2>2. CASE ~CanMerge(w, a, r)
    BY <1>8, <1>13, <2>2 DEF SameBins
  <2> QED
    BY <2>1, <2>2
<1>16. /\ Sound(v) /\ Listed(v) /\ SameBins(w4, v) /\ Loose(v) = Loose(w4)
       /\ v.span = w4.span /\ v.epoch = w4.epoch /\ v.origins = w4.origins
       /\ v.mappings = w4.mappings /\ v.crashed = w4.crashed
  BY <1>9, <1>15, InsertIndexes
<1>17. Loose(w) = {a} => Loose(v) = {m}
  BY <1>2, <1>7, <1>11, <1>13, <1>15, <1>16
<1>18. Loose(w) = {a} /\ Counted(w) => Counted(v)
  BY <1>11, <1>13, <1>15, <1>16, SameBinsCounts
<1>19. MergedBy(w, v, a, l, r, m, w2, w3, w4)
  <2>1. w2 \in World /\ w3 \in World /\ w4 \in World
    BY <1>11, <1>13, <1>15 DEF Merging
  <2> QED
    BY <1>2, <1>7, <1>11, <1>12, <1>13, <1>14, <1>15, <1>16, <2>1 DEF MergedBy
<1>20. m \in Loose(v)
  BY <1>15, <1>16 DEF Merging
<1>21. Marked(w) => Marked(w1)
  BY <1>1, <1>2, <1>4, BinRemoveMarked
<1>22. Marked(w1) => Marked(w2)
  <2>1. CanMerge(w, a, r) => r \in SpansOf(w1)
    BY <1>2, <1>10 DEF SameShape
  <2> QED
    BY <1>5, <1>10, <2>1, BinRemoveMarked DEF Merging
<1>23. Marked(w) => Marked(v)
  BY <1>13, <1>15, <1>16, <1>21, <1>22, SameBinsMarked
<1> QED
  BY <1>16, <1>17, <1>18, <1>19, <1>20, <1>23

-----------------------------------------------------------------------------
(* Splitting at an alignment *)

LEMMA AlignUpFacts ==
    ASSUME NEW a \in Nat, NEW m \in Nat \ {0}, NEW s, s = AlignUp(a, m)
    PROVE  s \in Nat /\ a <= s /\ s < a + m /\ s % m = 0
<1>1. PICK x \in Nat : x = a + m - 1
  OBVIOUS
<1>2. PICK q : q = x \div m
  OBVIOUS
<1>3. q \in Nat /\ q * m <= x /\ x < q * m + m
  BY <1>2
<1>4. s = q * m
  BY <1>1, <1>2 DEF AlignUp
<1>5. s \in Nat /\ s % m = 0
  BY <1>3, <1>4
<1> QED
  BY ONLY <1>1, <1>3, <1>4, <1>5, a \in Nat, m \in Nat \ {0}

(* The spans and the rest of v, when the middle s of span a of w was cut   *)
(* out: r is what is right of it, and a what is left of it, if anything.   *)
SplitDone(w, v, a, s, r, k) ==
    /\ s \in Page /\ r \in Page /\ SpansOf(v) = SpansOf(w) \cup {s, r}
    /\ r \notin SpansOf(w) /\ s # r /\ a # r /\ (s # a => s \notin SpansOf(w) /\ a < s)
    /\ \A b \in SpansOf(w) \ {a} : SameBut(w.span[b], v.span[b])
    /\ \A b \in {a, s, r} : Kin(w.span[a], v.span[b]) /\ v.span[b].record = 0
                            /\ v.span[b].szclass = SpanClass(v.span[b].nbytes)
    /\ v.span[s].nbytes = ClassPages[k]
    /\ (s # a => a + v.span[a].nbytes = s)
    /\ s + v.span[s].nbytes = r /\ r + v.span[r].nbytes = a + w.span[a].nbytes
    /\ v.epoch = w.epoch /\ v.origins = w.origins
    /\ v.mappings = w.mappings /\ v.crashed = w.crashed

SplitParts(a, m, n, s) ==
    /\ n \in 1 .. NPages /\ m - (s - a) - n \in 1 .. NPages
    /\ s \in Page /\ s + n \in Page /\ s + n \in Nat /\ s + n # s /\ s + n # a
    /\ (s # a => s - a \in 1 .. NPages /\ a < s)
    /\ s < a + m /\ a < s + n /\ s + n < a + m
    /\ s + n + (m - (s - a) - n) = a + m /\ a + (s - a) = s

LEMMA SplitArith ==
    ASSUME NEW a \in Nat, NEW m \in 1 .. NPages, NEW n \in Nat \ {0}, NEW g \in Nat \ {0},
           a + m <= NPages, m >= g + n, NEW s \in Nat, a <= s, s < a + g
    PROVE  SplitParts(a, m, n, s)
  BY Sizes DEF Page, SplitParts

LEMMA SplitKeeps ==
    ASSUME NEW w, Sound(w), NEW a \in Loose(w), NEW align \in Nat \ {0}, NEW k \in Class,
           w.span[a].nbytes >= align + ClassPages[k],
           NEW v, v = SplitAligned(w, a, align, k), NEW s, s = AlignUp(a, align),
           NEW r, r = s + ClassPages[k]
    PROVE  /\ Sound(v) /\ SplitDone(w, v, a, s, r, k) /\ s % align = 0
           /\ Loose(v) = (Loose(w) \ {a}) \cup {s} /\ (Counted(w) => Counted(v))
           /\ Marked(w) => Marked(v)
<1>1. /\ w \in World /\ Tiled(w) /\ Classed(w) /\ Indexed(w) /\ Binned(w)
      /\ a \in SpansOf(w) /\ ~w.span[a].is_alloc
  BY DEF Sound, Loose
<1>2. PICK d \in SpanRecord : d = w.span[a]
  BY <1>1, SpanFields
<1>3. PICK m \in 1 .. NPages : m = d.nbytes
  BY <1>2, RecordFields
<1>4. PICK n \in Nat \ {0} : n = ClassPages[k]
  BY ClassFacts
<1>5. a \in Nat /\ a \in Page /\ a + m <= NPages /\ m >= align + n
  BY <1>1, <1>2, <1>3, <1>4, ExtentBound, SpanFields
<1>6. s \in Nat /\ a <= s /\ s < a + align /\ s % align = 0
  BY <1>5, AlignUpFacts
<1>7. SplitParts(a, m, n, s)
  BY ONLY <1>5, <1>6, m \in 1 .. NPages, n \in Nat \ {0}, align \in Nat \ {0}, SplitArith
<1>7b. PICK nr \in 1 .. NPages : nr = m - (s - a) - n
  BY <1>7 DEF SplitParts
<1>8. /\ n \in 1 .. NPages /\ r = s + n /\ r + nr = a + m
      /\ s \in Page /\ r \in Page /\ r \in Nat /\ r # s /\ r # a
      /\ (s # a => s - a \in 1 .. NPages /\ a < s) /\ a + (s - a) = s
      /\ s < a + m /\ a < r /\ r < a + m
  <2>1. r = s + n
    BY <1>4
  <2> QED
    BY <1>7, <1>7b, <2>1 DEF SplitParts
<1>9. \A p \in Nat : a <= p /\ p < a + m => p \in Extent(w, a)
  BY <1>1, <1>2, <1>3, ExtentFacts
<1>10. r \notin SpansOf(w) /\ (s # a => s \notin SpansOf(w))
  <2>1. s \in Extent(w, a) /\ r \in Extent(w, a)
    BY <1>5, <1>6, <1>8, <1>9
  <2>2. \A c \in SpansOf(w) : c \in Extent(w, c)
    BY <1>1, ExtentFacts
  <2> QED
    BY <1>1, <1>8, <2>1, <2>2, OneSpan
<1>11. PICK ec : ec = Piece(w, a, n, k)
  OBVIOUS
<1>12. PICK er : er = Piece(w, a, nr, SpanClass(nr))
  OBVIOUS
<1>13. /\ Kin(d, ec) /\ ec.nbytes = n /\ ec.szclass = k /\ ec.record = 0
       /\ Kin(d, er) /\ er.nbytes = nr /\ er.szclass = SpanClass(nr) /\ er.record = 0
  <2>1. SpanClass(nr) \in Class
    BY SpanClassFits
  <2> QED
    BY <1>1, <1>2, <1>8, <1>11, <1>12, <2>1, PieceFields
<1>14. PICK w1 : w1 = [w EXCEPT !.span[r] = er, !.span[s] = ec]
  OBVIOUS
<1>15. w.span \in [Page -> SpanRecord \cup {Null}]
  BY <1>1, WorldFields
<1>16. /\ w1.span = [w.span EXCEPT ![r] = er, ![s] = ec]
       /\ w1.pagetrie = w.pagetrie /\ w1.epoch = w.epoch /\ w1.origins = w.origins
       /\ w1.mappings = w.mappings /\ w1.crashed = w.crashed /\ SameBins(w, w1)
       /\ w1 = [w EXCEPT !.span = w1.span, !.pagetrie = w1.pagetrie, !.epoch = w1.epoch,
                    !.origins = w1.origins, !.mappings = w1.mappings, !.crashed = w1.crashed]
  BY <1>1, <1>14 DEF World, SameBins
<1>17. /\ w1.span \in [Page -> SpanRecord \cup {Null}]
       /\ w1.span[r] = er /\ w1.span[s] = ec /\ \A b \in Page \ {s, r} : w1.span[b] = w.span[b]
  BY <1>8, <1>13, <1>15, <1>16 DEF Kin
<1>18. w1 \in World
  BY <1>1, <1>16, <1>17, WorldFields, WorldUpdate2
<1>19. SpansOf(w1) = SpansOf(w) \cup {s, r}
  BY <1>8, <1>13, <1>17, RecordFields DEF SpansOf, Kin
<1>20. ~ec.is_alloc /\ ~er.is_alloc
  BY <1>1, <1>2, <1>13 DEF Kin
<1>21. Binned(w1) /\ Loose(w1) = Loose(w) \cup {s, r}
  <2>1. PICK T : T = {s, r}
    OBVIOUS
  <2>2. w1.bucket = w.bucket /\ (\A b \in Page \ T : w1.span[b] = w.span[b])
        /\ \A b \in T : b \in SpansOf(w) => b \in Loose(w) \/ w.span[b].is_alloc
    BY <1>10, <1>16, <1>17, <2>1 DEF SameBins
  <2>3. /\ Binned(w1)
        /\ Loose(w1) = (Loose(w) \ T) \cup {b \in SpansOf(w1) : b \in T /\ ~w1.span[b].is_alloc}
    BY <1>1, <1>18, <2>2, Respan
  <2> QED
    BY <1>17, <1>19, <1>20, <2>1, <2>3
<1>22. PICK u : u = PagetrieInsert(w1, s)
  OBVIOUS
<1>23. /\ u \in World /\ u.span = w1.span /\ SameBins(w1, u)
       /\ u.epoch = w1.epoch /\ u.origins = w1.origins
       /\ u.mappings = w1.mappings /\ u.crashed = w1.crashed
       /\ \A p \in Page : u.pagetrie[p] = IF p \in Extent(w1, s) THEN s ELSE w1.pagetrie[p]
  <2>1. s \in Page
    BY <1>8
  <2> QED
    BY <1>18, <1>22, <2>1, PagetrieInsertFields
<1>24. PICK x : x = PagetrieInsert(u, r)
  OBVIOUS
<1>25. /\ x \in World /\ x.span = u.span /\ SameBins(u, x)
       /\ x.epoch = u.epoch /\ x.origins = u.origins
       /\ x.mappings = u.mappings /\ x.crashed = u.crashed
       /\ \A p \in Page : x.pagetrie[p] = IF p \in Extent(u, r) THEN r ELSE u.pagetrie[p]
  <2>1. r \in Page
    BY <1>8
  <2> QED
    BY <1>23, <1>24, <2>1, PagetrieInsertFields
<1>26. Binned(x) /\ Loose(x) = Loose(w) \cup {s, r} /\ SpansOf(x) = SpansOf(w) \cup {s, r}
       /\ (Counted(w) => Counted(x)) /\ (Marked(w) => Marked(x))
  <2>1. SameBins(w, x) /\ x.span = w1.span /\ SameBins(w1, x)
    BY <1>16, <1>23, <1>25 DEF SameBins
  <2>2. (Counted(w) => Counted(x)) /\ (Marked(w) => Marked(x))
    BY <2>1, SameBinsCounts, SameBinsMarked
  <2> QED
    BY <1>19, <1>21, <2>1, <2>2, SameSpansKeeps
<1>27. PICK y : y = BinPut(x, r)
  OBVIOUS
<1>28. /\ y \in World /\ SameShape(x, y) /\ Binned(y) /\ Loose(y) = Loose(x) \ {r}
       /\ (Counted(w) => Counted(y)) /\ (Marked(w) => Marked(y))
  <2>1. x \in World /\ Binned(x) /\ r \in Loose(x) /\ r \in SpansOf(x)
    BY <1>25, <1>26
  <2>2. y \in World /\ SameShape(x, y) /\ Binned(y) /\ Loose(y) = Loose(x) \ {r}
    BY <1>27, <2>1, BinPutKeeps
  <2>3. Counted(x) => Counted(y)
    BY <1>27, <2>1, BinPutCounts
  <2>4. Marked(x) => Marked(y)
    BY <1>27, <2>1, BinPutMarked
  <2> QED
    BY <1>26, <2>2, <2>3, <2>4
<1>29. SpansOf(y) = SpansOf(w) \cup {s, r}
  BY <1>26, <1>28 DEF SameShape
<1>30. \A b \in SpansOf(x) : SameBut(x.span[b], y.span[b])
  BY <1>28 DEF SameShape
<1>31. SameBut(ec, y.span[s]) /\ SameBut(er, y.span[r])
  <2>1. x.span[s] = ec /\ x.span[r] = er
    BY <1>17, <1>23, <1>25
  <2> QED
    BY <1>26, <1>30, <2>1
<1>32. \A b \in SpansOf(w) : b # s => SameBut(w.span[b], y.span[b])
  <2>1. \A b \in SpansOf(w) : b # s => x.span[b] = w.span[b] /\ b \in SpansOf(x)
    BY <1>10, <1>17, <1>23, <1>25, <1>26 DEF SpansOf
  <2> QED
    BY <1>30, <2>1
<1>33. /\ y.pagetrie = x.pagetrie /\ y.epoch = w.epoch /\ y.origins = w.origins
       /\ y.mappings = w.mappings /\ y.crashed = w.crashed
  BY <1>16, <1>23, <1>25, <1>28 DEF SameShape
<1>34. a \in Loose(y) /\ Loose(y) = (Loose(w) \cup {s}) \ {r}
  BY <1>8, <1>26, <1>28
<1>35. r \notin Loose(w)
  BY <1>10 DEF Loose
<1>36. \A p \in Nat : /\ p \in Extent(w1, s) <=> s <= p /\ p < r
                      /\ p \in Extent(u, r) <=> r <= p /\ p < a + m
  <2>1. s \in SpansOf(w1) /\ r \in SpansOf(u) /\ w1.span[s].nbytes = n /\ u.span[r].nbytes = nr
    BY <1>13, <1>17, <1>19, <1>23 DEF SpansOf
  <2>2. \A p \in Nat : p \in Extent(w1, s) <=> s <= p /\ p < s + n
    BY <1>18, <2>1, ExtentRange
  <2>3. \A p \in Nat : p \in Extent(u, r) <=> r <= p /\ p < r + nr
    <3>1. u \in World
      BY <1>23
    <3> QED
      BY <2>1, <3>1, ExtentRange
  <2>4. s + n = r /\ r + nr = a + m
    BY <1>8
  <2> QED
    BY <2>2, <2>3, <2>4
<1>37. \A p \in Page : y.pagetrie[p] = IF r <= p /\ p < a + m THEN r
                                       ELSE IF s <= p /\ p < r THEN s ELSE w.pagetrie[p]
  <2>1. \A p \in Page : p \in Nat
    BY Sizes
  <2>2. \A p \in Page : x.pagetrie[p] = IF r <= p /\ p < a + m THEN r
                                        ELSE IF s <= p /\ p < r THEN s ELSE w1.pagetrie[p]
    BY <1>23, <1>25, <1>36, <2>1
  <2> QED
    BY <1>16, <1>33, <2>2
<1>38. v = IF s = a THEN y
           ELSE BinPut(PagetrieInsert([y EXCEPT !.span[a] =
                                         Piece(w, a, s - a, SpanClass(s - a))], a), a)
  BY <1>2, <1>3, <1>4, <1>7b, <1>11, <1>12, <1>14, <1>22, <1>24, <1>27 DEF SplitAligned
<1>39. /\ v \in World /\ SpansOf(v) = SpansOf(w) \cup {s, r}
       /\ SameBut(ec, v.span[s]) /\ SameBut(er, v.span[r])
       /\ \A b \in SpansOf(w) \ {a} : SameBut(w.span[b], v.span[b])
       /\ s # a => /\ Kin(d, v.span[a]) /\ v.span[a].nbytes = s - a
                   /\ v.span[a].szclass = SpanClass(s - a) /\ v.span[a].record = 0
       /\ v.epoch = w.epoch /\ v.origins = w.origins /\ v.mappings = w.mappings
       /\ v.crashed = w.crashed
       /\ Binned(v) /\ Loose(v) = (Loose(w) \ {a}) \cup {s} /\ (Counted(w) => Counted(v))
       /\ (Marked(w) => Marked(v))
       /\ \A p \in Page : v.pagetrie[p] = IF a <= p /\ p < s THEN a
                                          ELSE IF r <= p /\ p < a + m THEN r
                                          ELSE IF s <= p /\ p < r THEN s ELSE w.pagetrie[p]
  <2>1. CASE s = a
    <3>1. v = y
      BY <1>38, <2>1
    <3>2. \A p \in Page : ~(a <= p /\ p < s)
      BY <1>5, <2>1, Sizes
    <3>3. Loose(v) = (Loose(w) \ {a}) \cup {s}
      BY <1>8, <1>34, <1>35, <2>1, <3>1
    <3>4. \A b \in SpansOf(w) \ {a} : SameBut(w.span[b], v.span[b])
      BY <1>32, <2>1, <3>1
    <3> QED
      BY <1>28, <1>29, <1>31, <1>33, <1>37, <2>1, <3>1, <3>2, <3>3, <3>4
  <2>2. CASE s # a
    <3>1. PICK q \in 1 .. NPages : q = s - a
      BY <1>8, <2>2
    <3>2. PICK e : e = Piece(w, a, q, SpanClass(q))
      OBVIOUS
    <3>3. Kin(d, e) /\ e.nbytes = q /\ e.szclass = SpanClass(q) /\ e.record = 0
      <4>1. SpanClass(q) \in Class
        BY SpanClassFits
      <4> QED
        BY <1>1, <1>2, <3>2, <4>1, PieceFields
    <3>4. PICK g : g = [y EXCEPT !.span[a] = e]
      OBVIOUS
    <3>5. PICK z : z = PagetrieInsert(g, a)
      OBVIOUS
    <3>6. v = BinPut(z, a)
      BY <1>38, <2>2, <3>1, <3>2, <3>4, <3>5
    <3>7. y.span \in [Page -> SpanRecord \cup {Null}]
      BY <1>28, WorldFields
    <3>8. /\ g.span = [y.span EXCEPT ![a] = e]
          /\ g.pagetrie = y.pagetrie /\ g.epoch = y.epoch /\ g.origins = y.origins
          /\ g.mappings = y.mappings /\ g.crashed = y.crashed /\ SameBins(y, g)
          /\ g = [y EXCEPT !.span = g.span, !.pagetrie = g.pagetrie, !.epoch = g.epoch,
                     !.origins = g.origins, !.mappings = g.mappings, !.crashed = g.crashed]
      BY <1>28, <3>4 DEF World, SameBins
    <3>9. /\ g.span \in [Page -> SpanRecord \cup {Null}]
          /\ g.span[a] = e /\ \A b \in Page \ {a} : g.span[b] = y.span[b]
      BY <1>5, <3>3, <3>7, <3>8 DEF Kin
    <3>10. g \in World
      BY <1>28, <3>8, <3>9, WorldFields, WorldUpdate2
    <3>11. a \in SpansOf(y) /\ SpansOf(g) = SpansOf(y)
      <4>1. e # Null
        BY <3>3, RecordFields DEF Kin
      <4> QED
        BY <1>1, <1>5, <1>29, <3>9, <4>1 DEF SpansOf
    <3>12. ~e.is_alloc
      BY <1>1, <1>2, <3>3 DEF Kin
    <3>13. Binned(g) /\ Loose(g) = Loose(y)
      <4>1. PICK T : T = {a}
        OBVIOUS
      <4>2. g.bucket = y.bucket /\ (\A b \in Page \ T : g.span[b] = y.span[b])
            /\ \A b \in T : b \in SpansOf(y) => b \in Loose(y) \/ y.span[b].is_alloc
        BY <1>34, <3>8, <3>9, <4>1 DEF SameBins
      <4>3. /\ Binned(g)
            /\ Loose(g) = (Loose(y) \ T) \cup {b \in SpansOf(g) : b \in T /\ ~g.span[b].is_alloc}
        BY <1>28, <3>10, <4>2, Respan
      <4> QED
        BY <1>34, <3>9, <3>11, <3>12, <4>1, <4>3
    <3>14. /\ z \in World /\ z.span = g.span /\ SameBins(g, z)
           /\ z.epoch = g.epoch /\ z.origins = g.origins
           /\ z.mappings = g.mappings /\ z.crashed = g.crashed
           /\ \A p \in Page : z.pagetrie[p] = IF p \in Extent(g, a) THEN a ELSE g.pagetrie[p]
      <4>1. a \in Page
        BY <1>5
      <4> QED
        BY <3>5, <3>10, <4>1, PagetrieInsertFields
    <3>15. Binned(z) /\ Loose(z) = Loose(y) /\ SpansOf(z) = SpansOf(y)
           /\ (Counted(y) => Counted(z)) /\ (Marked(y) => Marked(z))
      BY <3>8, <3>11, <3>13, <3>14, SameSpansKeeps, SameBinsCounts, SameBinsMarked
    <3>16. /\ v \in World /\ SameShape(z, v) /\ Binned(v) /\ Loose(v) = Loose(z) \ {a}
           /\ (Counted(z) => Counted(v)) /\ (Marked(z) => Marked(v))
      <4>1. z \in World /\ Binned(z) /\ a \in Loose(z) /\ a \in SpansOf(z)
        BY <1>34, <3>11, <3>14, <3>15
      <4>2. v \in World /\ SameShape(z, v) /\ Binned(v) /\ Loose(v) = Loose(z) \ {a}
        BY <3>6, <4>1, BinPutKeeps
      <4>3. Counted(z) => Counted(v)
        BY <3>6, <4>1, BinPutCounts
      <4>4. Marked(z) => Marked(v)
        BY <3>6, <4>1, BinPutMarked
      <4> QED
        BY <4>2, <4>3, <4>4
    <3>17. \A b \in SpansOf(z) : SameBut(z.span[b], v.span[b])
      BY <3>16 DEF SameShape
    <3>18. SpansOf(v) = SpansOf(w) \cup {s, r}
      BY <1>29, <3>15, <3>16 DEF SameShape
    <3>19. \A b \in SpansOf(y) \ {a} : SameBut(y.span[b], v.span[b])
      BY <3>9, <3>14, <3>15, <3>17 DEF SpansOf
    <3>20. SameBut(ec, v.span[s]) /\ SameBut(er, v.span[r])
      BY <1>8, <1>29, <1>31, <2>2, <3>19 DEF SameBut
    <3>21. \A b \in SpansOf(w) \ {a} : SameBut(w.span[b], v.span[b])
      <4>1. \A b \in SpansOf(w) \ {a} : b # s /\ b \in SpansOf(y)
        BY <1>10, <1>29, <2>2
      <4> QED
        BY <1>32, <3>19, <4>1 DEF SameBut
    <3>22. /\ Kin(d, v.span[a]) /\ v.span[a].nbytes = q
           /\ v.span[a].szclass = SpanClass(q) /\ v.span[a].record = 0
      <4>1. SameBut(e, v.span[a])
        BY <3>9, <3>11, <3>14, <3>15, <3>17
      <4>2. v.span[a] \in SpanRecord
        BY <1>1, <3>16, <3>18, SpanFields
      <4> QED
        BY <3>3, <4>1, <4>2 DEF SameBut, Kin
    <3>23. Loose(v) = (Loose(w) \ {a}) \cup {s}
      BY <1>8, <1>34, <1>35, <2>2, <3>15, <3>16
    <3>24. /\ v.epoch = w.epoch /\ v.origins = w.origins /\ v.mappings = w.mappings
           /\ v.crashed = w.crashed /\ v.pagetrie = z.pagetrie
      BY <1>33, <3>8, <3>14, <3>16 DEF SameShape
    <3>25. \A p \in Page : p \in Extent(g, a) <=> a <= p /\ p < s
      <4>1. a \in SpansOf(g) /\ g.span[a].nbytes = q
        BY <3>3, <3>9, <3>11
      <4>2. \A p \in Nat : p \in Extent(g, a) <=> a <= p /\ p < a + q
        BY <3>10, <4>1, ExtentFacts
      <4>3. a + q = s
        BY <1>8, <3>1
      <4> QED
        BY <4>2, <4>3, Sizes
    <3>26. \A p \in Page : v.pagetrie[p] = IF a <= p /\ p < s THEN a
                                          ELSE IF r <= p /\ p < a + m THEN r
                                          ELSE IF s <= p /\ p < r THEN s ELSE w.pagetrie[p]
      BY <1>37, <3>8, <3>14, <3>24, <3>25
    <3> QED
      BY <1>28, <3>1, <3>15, <3>16, <3>18, <3>20, <3>21, <3>22, <3>23, <3>24, <3>26
  <2> QED
    BY <2>1, <2>2
<1>40. /\ Kin(d, v.span[s]) /\ v.span[s].nbytes = n /\ v.span[s].record = 0
       /\ v.span[s].szclass = SpanClass(n)
       /\ Kin(d, v.span[r]) /\ v.span[r].nbytes = nr /\ v.span[r].record = 0
       /\ v.span[r].szclass = SpanClass(nr)
  <2>1. v.span[s] \in SpanRecord /\ v.span[r] \in SpanRecord
    BY <1>39, SpanFields
  <2>2. k = SpanClass(n)
    BY <1>4, <1>8, ClassOfClass
  <2> QED
    BY <1>13, <1>39, <2>1, <2>2 DEF Kin, SameBut
<1>41. SplitDone(w, v, a, s, r, k)
  <2>1. \A b \in {a, s, r} : Kin(w.span[a], v.span[b]) /\ v.span[b].record = 0
                             /\ v.span[b].szclass = SpanClass(v.span[b].nbytes)
    BY <1>2, <1>39, <1>40
  <2>2. s # a => a + v.span[a].nbytes = s
    BY <1>8, <1>39
  <2>3. s + v.span[s].nbytes = r /\ r + v.span[r].nbytes = a + w.span[a].nbytes
        /\ v.span[s].nbytes = ClassPages[k]
    BY <1>2, <1>3, <1>4, <1>8, <1>40
  <2>4. /\ s \in Page /\ r \in Page /\ SpansOf(v) = SpansOf(w) \cup {s, r}
        /\ r \notin SpansOf(w) /\ s # r /\ a # r /\ (s # a => s \notin SpansOf(w) /\ a < s)
    BY <1>8, <1>10, <1>39
  <2> QED
    BY <1>39, <2>1, <2>2, <2>3, <2>4 DEF SplitDone
<1>42. /\ \A p \in Nat : p \in Extent(v, s) <=> s <= p /\ p < r
       /\ \A p \in Nat : p \in Extent(v, r) <=> r <= p /\ p < a + m
       /\ s # a => \A p \in Nat : p \in Extent(v, a) <=> a <= p /\ p < s
       /\ \A p \in Nat : p \in Extent(w, a) <=> a <= p /\ p < a + m
  <2>1. s \in SpansOf(v) /\ r \in SpansOf(v) /\ a \in SpansOf(v)
    BY <1>1, <1>39
  <2>7. /\ v \in World /\ v.span[s].nbytes = n /\ v.span[r].nbytes = nr
        /\ s # a => v.span[a].nbytes = s - a
    BY <1>39, <1>40
  <2>2. \A p \in Nat : p \in Extent(v, s) <=> s <= p /\ p < s + n
    BY ONLY <2>1, <2>7, ExtentRange
  <2>3. \A p \in Nat : p \in Extent(v, r) <=> r <= p /\ p < r + nr
    BY ONLY <2>1, <2>7, ExtentRange
  <2>4. s # a => \A p \in Nat : p \in Extent(v, a) <=> a <= p /\ p < a + (s - a)
    BY ONLY <2>1, <2>7, ExtentRange
  <2>5. \A p \in Nat : p \in Extent(w, a) <=> a <= p /\ p < a + m
    BY <1>1, <1>2, <1>3, ExtentRange
  <2>6. s + n = r /\ r + nr = a + m /\ a + (s - a) = s
    BY <1>8
  <2> QED
    BY <2>2, <2>3, <2>4, <2>5, <2>6
<1>43. PICK E : E = {a, s, r}
  OBVIOUS
<1>44. Reshaped(w, v, {a}, E)
  <2>1. SpansOf(v) = (SpansOf(w) \ {a}) \cup E /\ {a} \subseteq SpansOf(w) /\ E \subseteq SpansOf(v)
    BY <1>1, <1>39, <1>43
  <2>2. Mapped(v) = Mapped(w) /\ Mapped(w) \subseteq Page
    BY <1>1, <1>39 DEF Mapped, Tiled
  <2>3. \A p \in Nat : p \in Extent(w, a) <=> \E e \in E : p \in Extent(v, e)
    <3>2. \A p \in Nat : (\E e \in E : p \in Extent(v, e)) <=> \/ s # a /\ p \in Extent(v, a)
                                                              \/ p \in Extent(v, s)
                                                              \/ p \in Extent(v, r)
      BY <1>43
    <3>3. ASSUME NEW p \in Nat
          PROVE  p \in Extent(w, a) <=> \/ s # a /\ p \in Extent(v, a)
                                       \/ p \in Extent(v, s)
                                       \/ p \in Extent(v, r)
      <4>1. /\ p \in Extent(v, s) <=> s <= p /\ p < r
            /\ p \in Extent(v, r) <=> r <= p /\ p < a + m
            /\ p \in Extent(w, a) <=> a <= p /\ p < a + m
        BY <1>42
      <4>2. s # a => (p \in Extent(v, a) <=> a <= p /\ p < s)
        BY <1>42
      <4>3. (a <= p /\ p < a + m) <=> \/ s # a /\ a <= p /\ p < s
                                      \/ s <= p /\ p < r
                                      \/ r <= p /\ p < a + m
        BY ONLY <1>5, <1>6, <1>8, m \in 1 .. NPages, Sizes, p \in Nat
      <4> QED
        BY ONLY <4>1, <4>2, <4>3
    <3> QED
      BY <3>2, <3>3
  <2>4. \A e, f \in E : e # f => Extent(v, e) \cap Extent(v, f) = {}
    <3>1. \A e \in E : \A p \in Extent(v, e) : p \in Nat
      BY <1>39, <2>1, ExtentFacts
    <3>2. ASSUME NEW e \in E, NEW f \in E, e # f, NEW p \in Nat,
                 p \in Extent(v, e), p \in Extent(v, f)
          PROVE  FALSE
      <4>1. (e = s => s <= p /\ p < r) /\ (e = r => r <= p) /\ (e = a /\ s # a => p < s)
        BY <1>42, <3>2
      <4>2. (f = s => s <= p /\ p < r) /\ (f = r => r <= p) /\ (f = a /\ s # a => p < s)
        BY <1>42, <3>2
      <4>3. s < r
        BY <1>6, <1>8
      <4>4. (e = s \/ e = r \/ e = a) /\ (f = s \/ f = r \/ f = a)
        BY <1>43
      <4> QED
        BY ONLY <1>6, <1>8, <3>2, <4>1, <4>2, <4>3, <4>4, p \in Nat, a \in Nat, <1>5
    <3> QED
      BY <3>1, <3>2
  <2>5. \A e \in E : v.span[e].szclass = SpanClass(v.span[e].nbytes)
    BY <1>39, <1>40, <1>43
  <2>6. Resized(w, v, {a}, E)
    <3>1. \A p \in Nat : (p \in Mapped(v) \ Mapped(w) \/ \E x1 \in {a} : p \in Extent(w, x1))
                         <=> \E e \in E : p \in Extent(v, e)
      BY <2>2, <2>3
    <3> QED
      BY <1>39, <2>1, <2>2, <2>4, <2>5, <3>1 DEF Resized
  <2>7. ASSUME NEW p \in Page
        PROVE  IF \E e \in E : p \in Extent(v, e)
               THEN v.pagetrie[p] \in E /\ p \in Extent(v, v.pagetrie[p])
               ELSE v.pagetrie[p] = w.pagetrie[p]
    <3>1. p \in Nat
      BY Sizes
    <3>2. v.pagetrie[p] = IF a <= p /\ p < s THEN a
                          ELSE IF r <= p /\ p < a + m THEN r
                          ELSE IF s <= p /\ p < r THEN s ELSE w.pagetrie[p]
      BY <1>39
    <3>3. CASE a <= p /\ p < s
      BY <1>5, <1>6, <1>42, <1>43, <3>1, <3>2, <3>3
    <3>4. CASE r <= p /\ p < a + m
      BY <1>6, <1>8, <1>42, <1>43, <3>1, <3>2, <3>4
    <3>5. CASE s <= p /\ p < r
      BY <1>6, <1>8, <1>42, <1>43, <3>1, <3>2, <3>5
    <3>6. CASE ~(a <= p /\ p < s) /\ ~(r <= p /\ p < a + m) /\ ~(s <= p /\ p < r)
      BY <1>42, <1>43, <3>1, <3>2, <3>6
    <3> QED
      BY <3>3, <3>4, <3>5, <3>6
  <2> QED
    BY <2>6, <2>7 DEF Reshaped
<1>45. Sound(v)
  BY <1>1, <1>39, <1>44, ReshapedKeeps DEF Sound
<1> QED
  BY <1>6, <1>39, <1>41, <1>45

-----------------------------------------------------------------------------
(* The lists of records *)

(* An aligned span takes over the descriptor of its origin, but not the    *)
(* record.                                                                 *)
RecordsStay == UnmapOnTermination => AlignedGets = {}

OwnRecord(w, ar, a) == a \in SpansOf(w) /\ w.span[a].arena = ar /\ w.span[a].record # 0

(* The list of an arena holds its spans with a record, each once. *)
ListIs(w, ar) == /\ Distinct(w.origins[ar])
                 /\ \A a : InSeq(w.origins[ar], a) <=> OwnRecord(w, ar, a)

NoRecords(w) == \A a \in SpansOf(w) : w.span[a].record = 0

Lists(w) == /\ \A ar \in Arenas : ListIs(w, ar)
            /\ ~UnmapOnTermination => NoRecords(w)

(* The lists stay right, and nothing wild is followed. *)
Tidy(w, v) == RecordsStay /\ Lists(w) => Lists(v)

Calm(w, v) == RecordsStay /\ Lists(w) /\ ~w.crashed => ~v.crashed

LEMMA TidyTwice ==
    ASSUME NEW w, NEW v, NEW u, Tidy(w, v), Calm(w, v), Tidy(v, u), Calm(v, u)
    PROVE  Tidy(w, u) /\ Calm(w, u)
  BY DEF Tidy, Calm

(* A function that keeps the lists, the records and the arenas *)
LEMMA SameRecordsTidy ==
    ASSUME NEW w, NEW v, v.origins = w.origins, v.crashed = w.crashed,
           \A ar, a : OwnRecord(v, ar, a) <=> OwnRecord(w, ar, a),
           NoRecords(w) => NoRecords(v)
    PROVE  Tidy(w, v) /\ Calm(w, v)
  BY DEF Tidy, Calm, Lists, ListIs

LEMMA SameShapeTidy ==
    ASSUME NEW w, NEW v, SameShape(w, v)
    PROVE  Tidy(w, v) /\ Calm(w, v)
<1>1. \A ar, a : OwnRecord(v, ar, a) <=> OwnRecord(w, ar, a)
  BY DEF SameShape, SameBut, OwnRecord
<1>2. NoRecords(w) => NoRecords(v)
  BY DEF SameShape, SameBut, NoRecords
<1> QED
  BY <1>1, <1>2, SameRecordsTidy DEF SameShape

LEMMA CutTidy ==
    ASSUME NEW w, NEW v, NEW a \in SpansOf(w), NEW c, NEW k, CutDone(w, v, a, c, k)
    PROVE  Tidy(w, v) /\ Calm(w, v)
<1>1. /\ SpansOf(v) = SpansOf(w) \cup {c} /\ c \notin SpansOf(w) /\ v.span[c].record = 0
      /\ \A b \in SpansOf(w) : v.span[b].record = w.span[b].record
                               /\ v.span[b].arena = w.span[b].arena
  BY DEF CutDone, SameBut, Kin
<1>2. \A ar, b : OwnRecord(v, ar, b) <=> OwnRecord(w, ar, b)
  BY <1>1 DEF OwnRecord
<1>3. NoRecords(w) => NoRecords(v)
  BY <1>1 DEF NoRecords
<1> QED
  BY <1>2, <1>3, SameRecordsTidy DEF CutDone

LEMMA SplitTidy ==
    ASSUME AlignedGets # {}, NEW w, NEW v, NEW a \in SpansOf(w), NEW s, NEW r, NEW k,
           SplitDone(w, v, a, s, r, k)
    PROVE  Tidy(w, v) /\ Calm(w, v)
<1>1. /\ SpansOf(v) = SpansOf(w) \cup {s, r}
      /\ \A b \in SpansOf(w) \ {a} : v.span[b].record = w.span[b].record
      /\ \A b \in {a, s, r} : v.span[b].record = 0
      /\ v.origins = w.origins /\ v.crashed = w.crashed
  BY DEF SplitDone, SameBut
<1>2. NoRecords(w) => NoRecords(v)
  BY <1>1 DEF NoRecords
<1>3. RecordsStay => ~UnmapOnTermination
  BY DEF RecordsStay
<1>4. NoRecords(w) => \A ar, b : OwnRecord(v, ar, b) <=> OwnRecord(w, ar, b)
  BY <1>2 DEF NoRecords, OwnRecord
<1> QED
  BY <1>1, <1>2, <1>3, <1>4 DEF Tidy, Calm, Lists, ListIs

(* A span outside the heaps is marked as given or taken back. *)
FlagDone(w, v, a, x) ==
    /\ SpansOf(v) = SpansOf(w) /\ v.span[a].is_alloc = x
    /\ \A b \in SpansOf(w) \ {a} : v.span[b] = w.span[b]
    /\ \A b \in SpansOf(w) :
          /\ v.span[b].age = w.span[b].age /\ v.span[b].arena = w.span[b].arena
          /\ v.span[b].szclass = w.span[b].szclass
          /\ v.span[b].nbytes = w.span[b].nbytes /\ v.span[b].record = w.span[b].record
    /\ v.pagetrie = w.pagetrie /\ v.epoch = w.epoch /\ v.origins = w.origins
    /\ v.mappings = w.mappings /\ v.crashed = w.crashed

Flagged(w, a, x, y) == [w EXCEPT !.span[a].is_alloc = x, !.span[a].is_slab = y]

LEMMA FlagTidy ==
    ASSUME NEW w, NEW v, NEW a, NEW x, FlagDone(w, v, a, x)
    PROVE  Tidy(w, v) /\ Calm(w, v)
<1>1. \A ar, b : OwnRecord(v, ar, b) <=> OwnRecord(w, ar, b)
  BY DEF FlagDone, OwnRecord
<1>2. NoRecords(w) => NoRecords(v)
  BY DEF FlagDone, NoRecords
<1> QED
  BY <1>1, <1>2, SameRecordsTidy DEF FlagDone

(* A list with one element more at its head *)
OneMore(T, s, a, t) == /\ t \in Seq(T)
                       /\ \A b : InSeq(t, b) <=> b = a \/ InSeq(s, b)
                       /\ Distinct(s) /\ ~InSeq(s, a) => Distinct(t)

LEMMA Prepended ==
    ASSUME NEW T, NEW s \in Seq(T), NEW a \in T, NEW t, t = <<a>> \o s
    PROVE  OneMore(T, s, a, t)
<1>1. \A q \in Seq(T) : \A b : InSeq(q, b) <=> b \in ToSet(q)
  BY ToSetSeq DEF InSeq
<1>2. <<a>> \in Seq(T) /\ Len(<<a>>) = 1 /\ <<a>>[1] = a
  OBVIOUS
<1>3. t \in Seq(T) /\ Len(t) = Len(s) + 1 /\ t[1] = a /\ Len(s) \in Nat
      /\ \A i \in 1 .. Len(s) : t[i + 1] = s[i]
  BY ONLY <1>2, s \in Seq(T), t = <<a>> \o s
<1>4. DOMAIN t = 1 .. Len(s) + 1 /\ DOMAIN s = 1 .. Len(s)
  BY <1>3
<1>5. ASSUME NEW b, InSeq(t, b) PROVE b = a \/ InSeq(s, b)
  <2>1. PICK i \in 1 .. Len(s) + 1 : t[i] = b
    BY <1>4, <1>5 DEF InSeq
  <2>2. i = 1 \/ (i - 1 \in 1 .. Len(s) /\ (i - 1) + 1 = i)
    BY <1>3
  <2> QED
    BY <1>3, <1>4, <2>1, <2>2 DEF InSeq
<1>6. ASSUME NEW b, b = a \/ InSeq(s, b) PROVE InSeq(t, b)
  <2>1. CASE b = a
    <3>1. 1 \in DOMAIN t
      BY <1>3, <1>4
    <3> QED
      BY <1>3, <2>1, <3>1 DEF InSeq
  <2>2. CASE InSeq(s, b)
    <3>1. PICK i \in 1 .. Len(s) : s[i] = b
      BY <1>4, <2>2 DEF InSeq
    <3>2. i + 1 \in DOMAIN t
      BY <1>3, <1>4
    <3> QED
      BY <1>3, <3>1, <3>2 DEF InSeq
  <2> QED
    BY <1>6, <2>1, <2>2
<1>7. Distinct(s) /\ ~InSeq(s, a) => Distinct(t)
  BY <1>1, ConsSeq
<1> QED
  BY <1>3, <1>5, <1>6, <1>7 DEF OneMore

LEMMA MintTidy ==
    ASSUME NEW w, Sound(w), NEW v, Sound(v), NEW ar \in Arenas, NEW k \in Class, NEW base,
           MintDone(w, v, ar, k, base)
    PROVE  Tidy(w, v) /\ Calm(w, v)
<1>1. w \in World /\ v \in World
  BY DEF Sound
<1>2. /\ SpansOf(v) = SpansOf(w) \cup {base} /\ base \notin SpansOf(w) /\ base \in Page
      /\ \A b \in SpansOf(w) : v.span[b] = w.span[b]
      /\ v.span[base].arena = ar
      /\ v.span[base].record = IF UnmapOnTermination THEN ClassPages[k] ELSE 0
      /\ \A x \in Arenas \ {ar} : v.origins[x] = w.origins[x]
  BY DEF MintDone, MintRecord
<1>3. CASE ~UnmapOnTermination
  <2>1. v.span[base].record = 0 /\ v.crashed = w.crashed /\ v.origins[ar] = w.origins[ar]
    BY <1>2, <1>3 DEF MintDone
  <2>2. \A x, b : OwnRecord(v, x, b) <=> OwnRecord(w, x, b)
    BY <1>2, <2>1 DEF OwnRecord
  <2>3. NoRecords(w) => NoRecords(v)
    BY <1>2, <2>1 DEF NoRecords
  <2>4. v.origins = w.origins
    <3>1. \A x \in Arenas : v.origins[x] = w.origins[x]
      BY <1>2, <2>1
    <3>2. v.origins \in [Arenas -> Seq(Page)] /\ w.origins \in [Arenas -> Seq(Page)]
      BY <1>1, WorldFields
    <3> QED
      BY ONLY <3>1, <3>2
  <2> QED
    BY <2>1, <2>2, <2>3, <2>4, SameRecordsTidy
<1>4. CASE UnmapOnTermination
  <2>1. v.span[base].record # 0
    BY <1>2, <1>4, ClassFacts
  <2>2. PICK s \in Seq(Page) : s = w.origins[ar]
    BY <1>1, WorldFields
  <2>3. PICK t : t = <<base>> \o s
    OBVIOUS
  <2>4. /\ v.origins[ar] = t
        /\ v.crashed = (w.crashed \/ (s # <<>> /\ ~Linked(v, s[1])))
    BY <1>4, <2>2, <2>3 DEF MintDone
  <2>5. /\ \A b : InSeq(t, b) <=> b = base \/ InSeq(s, b)
        /\ Distinct(s) /\ ~InSeq(s, base) => Distinct(t)
    <3>1. OneMore(Page, s, base, t)
      BY <1>2, <2>3, Prepended
    <3> QED
      BY <3>1 DEF OneMore
  <2>6. \A x, b : OwnRecord(v, x, b) <=> OwnRecord(w, x, b) \/ (b = base /\ x = ar)
    BY <1>2, <2>1 DEF OwnRecord
  <2>7. ASSUME Lists(w), NEW x \in Arenas PROVE ListIs(v, x)
    <3>1. CASE x # ar
      BY <1>2, <2>6, <2>7, <3>1 DEF Lists, ListIs
    <3>2. CASE x = ar
      <4>1. Distinct(s) /\ \A b : InSeq(s, b) <=> OwnRecord(w, ar, b)
        BY <2>2, <2>7 DEF Lists, ListIs
      <4>2. ~InSeq(s, base)
        BY <1>2, <4>1 DEF OwnRecord
      <4> QED
        BY <2>4, <2>5, <2>6, <3>2, <4>1, <4>2 DEF ListIs
    <3> QED
      BY <3>1, <3>2
  <2>8. ASSUME Lists(w), ~w.crashed PROVE ~v.crashed
    <3> SUFFICES ASSUME s # <<>> PROVE Linked(v, s[1])
      BY <2>4, <2>8
    <3>1. 1 \in DOMAIN s
      BY ONLY <2>2, s # <<>>
    <3>2. InSeq(s, s[1])
      BY <3>1 DEF InSeq
    <3>3. OwnRecord(v, ar, s[1])
      BY <2>2, <2>6, <2>8, <3>2 DEF Lists, ListIs
    <3> QED
      BY <3>3 DEF OwnRecord, Linked, SpansOf
  <2> QED
    BY <1>4, <2>7, <2>8 DEF Tidy, Calm, Lists
<1> QED
  BY <1>3, <1>4

(* A list without one of its elements *)
LEMMA Removed ==
    ASSUME NEW T, NEW s \in Seq(T), Distinct(s), NEW i \in DOMAIN s, NEW t, t = Sans(s, i)
    PROVE  Distinct(t) /\ \A b : InSeq(t, b) <=> InSeq(s, b) /\ b # s[i]
<1>1. PICK n \in Nat : n = Len(s) /\ i \in 1 .. n /\ DOMAIN s = 1 .. n
  OBVIOUS
<1>2. t \in Seq(T) /\ Len(t) = n - 1 /\ \A j \in 1 .. n - 1 : t[j] = IF j < i THEN s[j] ELSE s[j + 1]
  BY <1>1, WithoutFacts
<1>3. DOMAIN t = 1 .. n - 1
  BY <1>1, <1>2
<1>4. \A j \in 1 .. n - 1 : j \in 1 .. n /\ j + 1 \in 1 .. n
  BY <1>1
<1>5. \A j, g \in 1 .. n : s[j] = s[g] => j = g
  BY <1>1 DEF Distinct
<1>6. ASSUME NEW j \in 1 .. n - 1, NEW g \in 1 .. n - 1, t[j] = t[g] PROVE j = g
  <2>1. PICK x : x = IF j < i THEN j ELSE j + 1
    OBVIOUS
  <2>2. PICK y : y = IF g < i THEN g ELSE g + 1
    OBVIOUS
  <2>3. x \in 1 .. n /\ y \in 1 .. n /\ t[j] = s[x] /\ t[g] = s[y]
    BY <1>2, <1>4, <2>1, <2>2
  <2>4. x = y
    BY <1>5, <1>6, <2>3
  <2> QED
    BY <1>1, <2>1, <2>2, <2>4
<1>7. ASSUME NEW j \in 1 .. n - 1 PROVE t[j] # s[i]
  <2>1. PICK x : x = IF j < i THEN j ELSE j + 1
    OBVIOUS
  <2>2. x \in 1 .. n /\ t[j] = s[x] /\ x # i
    BY <1>1, <1>2, <1>4, <2>1
  <2> QED
    BY <1>1, <1>5, <2>2
<1>8. Distinct(t)
  BY <1>2, <1>6 DEF Distinct
<1>9. \A b : InSeq(t, b) => b # s[i]
  BY <1>3, <1>7 DEF InSeq
<1>10. /\ \A b : InSeq(s, b) /\ b # s[i] => InSeq(t, b)
       /\ \A b : InSeq(t, b) => InSeq(s, b)
  BY WithoutMembers
<1> QED
  BY <1>8, <1>9, <1>10

LEMMA CoalesceTidy ==
    ASSUME NEW w \in World, NEW l \in SpansOf(w), NEW r \in SpansOf(w), l # r,
           w.span[l].arena = w.span[r].arena, NEW v \in World, CoalesceDone(w, v, l, r)
    PROVE  Tidy(w, v) /\ Calm(w, v)
<1>1. PICK ar \in Arenas : ar = w.span[l].arena /\ v.span[l].arena = ar
  BY SpanFields, RecordFields DEF CoalesceDone
<1>2. /\ SpansOf(v) = SpansOf(w) \ {r}
      /\ \A b \in SpansOf(w) \ {l, r} : v.span[b] = w.span[b]
      /\ v.span[l].record = w.span[l].record + w.span[r].record
      /\ w.span[l].record \in Nat /\ w.span[r].record \in Nat /\ l \in Page /\ r \in Page
  BY SpanFields, RecordFields DEF CoalesceDone
<1>3. NoRecords(w) => NoRecords(v)
  BY <1>2 DEF NoRecords
<1>4. CASE w.span[r].record = 0
  <2>1. v.span[l].record = w.span[l].record /\ v.origins = w.origins /\ v.crashed = w.crashed
    BY <1>2, <1>4 DEF CoalesceDone
  <2>2. \A x, b : OwnRecord(v, x, b) <=> OwnRecord(w, x, b)
    BY <1>1, <1>2, <1>4, <2>1 DEF OwnRecord
  <2> QED
    BY <1>3, <2>1, <2>2, SameRecordsTidy
<1>5. CASE w.span[r].record # 0
  <2>1. v.span[l].record # 0
    BY <1>2, <1>5
  <2>2. \A x, b : OwnRecord(v, x, b) <=> \/ OwnRecord(w, x, b) /\ b # r
                                         \/ b = l /\ x = ar
    BY <1>1, <1>2, <2>1 DEF OwnRecord
  <2>3. PICK s \in Seq(Page) : s = w.origins[ar]
    BY WorldFields
  <2>4. PICK pre : pre = IF w.span[l].record = 0 THEN <<l>> \o s ELSE s
    OBVIOUS
  <2>5. MovedRecord(w, v, l, r)
    BY <1>5 DEF CoalesceDone
  <2>6. /\ \A x \in Arenas \ {ar} : v.origins[x] = w.origins[x]
        /\ \E i \in DOMAIN pre : pre[i] = r /\ v.origins[ar] = Sans(pre, i)
        /\ v.crashed => w.crashed \/ Stray(w, ar)
    BY <1>1, <2>3, <2>4, <2>5 DEF MovedRecord, Moved
  <2>7. PICK i \in DOMAIN pre : pre[i] = r /\ v.origins[ar] = Sans(pre, i)
    BY <2>6
  <2>8. Lists(w) => /\ pre \in Seq(Page) /\ Distinct(pre)
                    /\ \A b : InSeq(pre, b) <=> b = l \/ OwnRecord(w, ar, b)
    <3> SUFFICES ASSUME Lists(w)
                 PROVE  /\ pre \in Seq(Page) /\ Distinct(pre)
                        /\ \A b : InSeq(pre, b) <=> b = l \/ OwnRecord(w, ar, b)
      OBVIOUS
    <3>1. Distinct(s) /\ \A b : InSeq(s, b) <=> OwnRecord(w, ar, b)
      BY <2>3 DEF Lists, ListIs
    <3>2. CASE w.span[l].record = 0
      <4>1. ~InSeq(s, l) /\ pre = <<l>> \o s
        BY <2>4, <3>1, <3>2 DEF OwnRecord
      <4>2. OneMore(Page, s, l, pre)
        BY <1>2, <4>1, Prepended
      <4> QED
        BY <3>1, <4>1, <4>2 DEF OneMore
    <3>3. CASE w.span[l].record # 0
      <4>1. OwnRecord(w, ar, l)
        BY <1>1, <3>3 DEF OwnRecord
      <4> QED
        BY <2>4, <3>1, <3>3, <4>1
    <3> QED
      BY <3>2, <3>3
  <2>9. ASSUME Lists(w), NEW x \in Arenas PROVE ListIs(v, x)
    <3>1. CASE x # ar
      <4>1. \A b : OwnRecord(v, x, b) <=> OwnRecord(w, x, b)
        <5>1. \A b : OwnRecord(w, x, b) => b # r
          BY <1>1, <3>1 DEF OwnRecord
        <5> QED
          BY <2>2, <3>1, <5>1
      <4> QED
        BY <2>6, <2>9, <3>1, <4>1 DEF Lists, ListIs
    <3>2. CASE x = ar
      <4>1. Distinct(v.origins[ar]) /\ \A b : InSeq(v.origins[ar], b) <=> InSeq(pre, b) /\ b # r
        BY <2>7, <2>8, <2>9, Removed
      <4>2. \A b : InSeq(v.origins[ar], b) <=> OwnRecord(v, ar, b)
        BY <2>2, <2>8, <2>9, <4>1
      <4> QED
        BY <3>2, <4>1, <4>2 DEF ListIs
    <3> QED
      BY <3>1, <3>2
  <2>10. Lists(w) => ~Stray(w, ar)
    BY DEF Lists, ListIs, Stray, OwnRecord, Linked, SpansOf
  <2> QED
    BY <1>3, <2>6, <2>9, <2>10 DEF Tidy, Calm, Lists
<1> QED
  BY <1>4, <1>5

-----------------------------------------------------------------------------
(* Ages *)

(* No age is given twice: there are fewer pages, so fewer mappings, than   *)
(* ages, and no age is used up by a mapping that fails.                    *)
AgesHold == NPages < AgeMod /\ "pagetrie" \notin Faults

AgePages(w, ar, g) == {p \in Page : \E a \in SpansOf(w) : /\ p \in Extent(w, a)
                                                          /\ w.span[a].arena = ar
                                                          /\ w.span[a].age = g}

IsConvex(S) == \A p, s \in S : \A q \in Nat : p < q /\ q < s => q \in S

(* The pages of one age lie together, and the ages to come are new. *)
Convex(w) == \A ar, g : IsConvex(AgePages(w, ar, g))

Young(w) == /\ \A ar \in Arenas : w.epoch[ar] <= Cardinality(Mapped(w))
            /\ \A a \in SpansOf(w) : w.span[a].age < w.epoch[w.span[a].arena]

Aged(w) == Convex(w) /\ Young(w)

Aging(w, v) == AgesHold /\ Aged(w) => Aged(v)

SameAges(w, v) == \A ar, g : AgePages(v, ar, g) = AgePages(w, ar, g)

(* What keeps the records apart from each other *)
OriginsKept == UnmapOnTermination =>
                  /\ AgesHold /\ ~AllowCrossOrigin /\ AlignedGets = {}

MapExtent(m) == m.addr .. (m.addr + m.npages - 1)

(* The spans with a record are those at the start of a mapping, and the    *)
(* pages of one age lie in one mapping.                                    *)
Rooted(w) ==
    /\ \A m \in w.mappings : /\ m.addr \in SpansOf(w)
                             /\ w.span[m.addr].arena = m.arena
                             /\ w.span[m.addr].record = m.npages
    /\ \A a \in SpansOf(w) : w.span[a].record # 0 => \E m \in w.mappings : m.addr = a
    /\ \A m \in w.mappings : \A ar, g : \A p, q \in AgePages(w, ar, g) :
          p \in MapExtent(m) => q \in MapExtent(m)

Rooting(w, v) == UnmapOnTermination /\ OriginsKept /\ Aged(w) /\ Rooted(w) => Rooted(v)

LEMMA PageFinite == /\ IsFiniteSet(Page) /\ Cardinality(Page) = NPages
                    /\ \A S \in SUBSET Page : IsFiniteSet(S) /\ Cardinality(S) \in Nat
                                              /\ Cardinality(S) <= NPages
<1>1. NPages \in Nat \ {0}
  BY Sizes
<1>2. PICK m \in Int : m = NPages - 1
  BY <1>1
<1>3. IsFiniteSet(0 .. m) /\ Cardinality(0 .. m) = m - 0 + 1
  BY <1>1, <1>2, FS_Interval
<1>4. IsFiniteSet(Page) /\ Cardinality(Page) = NPages
  BY <1>1, <1>2, <1>3 DEF Page
<1>5. \A S \in SUBSET Page : IsFiniteSet(S) /\ Cardinality(S) <= Cardinality(Page)
  BY <1>4, FS_Subset
<1> QED
  BY <1>4, <1>5, FS_CardinalityType

(* The pages of w lie in v under the age they have in w. *)
Within(w, v) == \A a \in SpansOf(w) : \E b \in SpansOf(v) :
                   /\ Extent(w, a) \subseteq Extent(v, b)
                   /\ v.span[b].arena = w.span[a].arena /\ v.span[b].age = w.span[a].age

(* Cutting or joining spans of one age changes no age. *)
LEMMA WithinAges ==
    ASSUME NEW w, NEW v, Tiled(w), Tiled(v), Mapped(v) = Mapped(w), Within(w, v)
    PROVE  SameAges(w, v) /\ SameAges(v, w)
<1> SUFFICES ASSUME NEW ar, NEW g PROVE AgePages(v, ar, g) = AgePages(w, ar, g)
  BY DEF SameAges
<1>1. AgePages(w, ar, g) \subseteq AgePages(v, ar, g)
  BY DEF AgePages, Within
<1>2. ASSUME NEW p \in AgePages(v, ar, g) PROVE p \in AgePages(w, ar, g)
  <2>1. PICK b \in SpansOf(v) : p \in Extent(v, b) /\ v.span[b].arena = ar /\ v.span[b].age = g
    BY DEF AgePages
  <2>2. PICK a \in SpansOf(w) : p \in Extent(w, a)
    BY <2>1 DEF Tiled
  <2>3. PICK c \in SpansOf(v) : /\ Extent(w, a) \subseteq Extent(v, c)
                                /\ v.span[c].arena = w.span[a].arena
                                /\ v.span[c].age = w.span[a].age
    BY DEF Within
  <2>4. c = b
    BY <2>1, <2>2, <2>3 DEF Tiled
  <2> QED
    BY <2>1, <2>2, <2>3, <2>4 DEF AgePages
<1> QED
  BY <1>1, <1>2

(* What keeps the ages, the mappings and the epochs keeps them in order. *)
LEMMA SameAgesAging ==
    ASSUME NEW w, NEW v, SameAges(w, v), v.epoch = w.epoch, Mapped(v) = Mapped(w),
           Young(w) => \A b \in SpansOf(v) : v.span[b].age < v.epoch[v.span[b].arena]
    PROVE  Aging(w, v)
  BY DEF Aging, Aged, Convex, Young, SameAges

LEMMA WithinYoung ==
    ASSUME NEW w, NEW v, v.epoch = w.epoch,
           \A b \in SpansOf(v) : \E a \in SpansOf(w) : v.span[b].arena = w.span[a].arena
                                                       /\ v.span[b].age = w.span[a].age
    PROVE  Young(w) => \A b \in SpansOf(v) : v.span[b].age < v.epoch[v.span[b].arena]
  BY DEF Young

(* What keeps the mappings and the ages, and gives no new record *)
LEMMA SameAgesRooting ==
    ASSUME NEW w, NEW v, SameAges(w, v), v.mappings = w.mappings,
           SpansOf(w) \subseteq SpansOf(v),
           \A a \in SpansOf(w) : v.span[a].arena = w.span[a].arena
                                 /\ v.span[a].record = w.span[a].record,
           \A a \in SpansOf(v) \ SpansOf(w) : v.span[a].record = 0
    PROVE  Rooting(w, v)
<1> SUFFICES ASSUME Rooted(w) PROVE Rooted(v)
  BY DEF Rooting
<1>1. \A m \in v.mappings : /\ m.addr \in SpansOf(v)
                            /\ v.span[m.addr].arena = m.arena
                            /\ v.span[m.addr].record = m.npages
  BY DEF Rooted
<1>2. \A a \in SpansOf(v) : v.span[a].record # 0 => \E m \in v.mappings : m.addr = a
  BY DEF Rooted
<1>3. \A m \in v.mappings : \A ar, g : \A p, q \in AgePages(v, ar, g) :
          p \in MapExtent(m) => q \in MapExtent(m)
  BY DEF Rooted, SameAges
<1> QED
  BY <1>1, <1>2, <1>3 DEF Rooted

(* The same spans, but for their classes and states *)
SameLots(w, v) ==
    /\ SpansOf(v) = SpansOf(w) /\ v.mappings = w.mappings /\ v.epoch = w.epoch
    /\ \A a \in SpansOf(w) : /\ v.span[a].arena = w.span[a].arena
                             /\ v.span[a].age = w.span[a].age
                             /\ v.span[a].record = w.span[a].record
                             /\ v.span[a].nbytes = w.span[a].nbytes

LEMMA SameLotsAges ==
    ASSUME NEW w, NEW v, SameLots(w, v)
    PROVE  Aging(w, v) /\ Rooting(w, v)
<1>1. \A a \in SpansOf(w) : Extent(v, a) = Extent(w, a)
  BY DEF SameLots, Extent
<1>2. SameAges(w, v)
  BY <1>1 DEF SameLots, SameAges, AgePages
<1>3. Mapped(v) = Mapped(w)
  BY DEF SameLots, Mapped
<1>4. Young(w) => \A b \in SpansOf(v) : v.span[b].age < v.epoch[v.span[b].arena]
  BY WithinYoung DEF SameLots
<1>5. Aging(w, v)
  BY <1>2, <1>3, <1>4, SameAgesAging DEF SameLots
<1>6. Rooting(w, v)
  BY <1>2, SameAgesRooting DEF SameLots
<1> QED
  BY <1>5, <1>6

LEMMA SameShapeLots ==
    ASSUME NEW w, NEW v, SameShape(w, v)
    PROVE  SameLots(w, v)
  BY DEF SameShape, SameBut, SameLots

LEMMA FlagLots ==
    ASSUME NEW w, NEW v, NEW a, NEW x, FlagDone(w, v, a, x)
    PROVE  SameLots(w, v)
  BY DEF FlagDone, SameLots

LEMMA SameSpanLots ==
    ASSUME NEW w, NEW v, v.span = w.span, v.mappings = w.mappings, v.epoch = w.epoch
    PROVE  SameLots(w, v)
  BY DEF SameLots, SpansOf

(* The pages of a span of v that lie within those of a span of w *)
LEMMA ExtentIn ==
    ASSUME NEW w \in World, NEW v \in World, NEW a \in SpansOf(w), NEW b \in SpansOf(v),
           NEW m, NEW n, m = w.span[a].nbytes, n = v.span[b].nbytes, a <= b, b + n <= a + m
    PROVE  Extent(v, b) \subseteq Extent(w, a)
<1>1. /\ \A p \in Nat : p \in Extent(w, a) <=> a <= p /\ p < a + m
      /\ \A p \in Nat : p \in Extent(v, b) <=> b <= p /\ p < b + n
      /\ m \in Nat \ {0} /\ n \in Nat \ {0}
  BY ExtentRange
<1>2. \A p \in Extent(v, b) : p \in Nat
  BY ExtentFacts
<1>3. a \in Nat /\ b \in Nat
  BY ExtentFacts
<1> QED
  BY ONLY <1>1, <1>2, <1>3, a <= b, b + n <= a + m

LEMMA CutAges ==
    ASSUME NEW w, Sound(w), NEW v, Sound(v), NEW a \in SpansOf(w), NEW c, NEW k \in Class,
           CutDone(w, v, a, c, k)
    PROVE  Aging(w, v) /\ Rooting(w, v)
<1>1. w \in World /\ v \in World /\ Tiled(w) /\ Tiled(v)
  BY DEF Sound
<1>2. /\ SpansOf(v) = SpansOf(w) \cup {c} /\ c \notin SpansOf(w) /\ c # a /\ v.epoch = w.epoch
      /\ v.mappings = w.mappings /\ Mapped(v) = Mapped(w) /\ v.span[c].record = 0
  BY DEF CutDone, Mapped
<1>3. \A b \in SpansOf(w) \ {a} : /\ v.span[b].arena = w.span[b].arena
                                  /\ v.span[b].age = w.span[b].age
                                  /\ v.span[b].record = w.span[b].record
                                  /\ v.span[b].nbytes = w.span[b].nbytes
  BY DEF CutDone, SameBut
<1>4. \A b \in {a, c} : v.span[b].arena = w.span[a].arena /\ v.span[b].age = w.span[a].age
  BY DEF CutDone, Kin
<1>5. v.span[a].record = w.span[a].record
  BY DEF CutDone
<1>6. Extent(v, a) \subseteq Extent(w, a) /\ Extent(v, c) \subseteq Extent(w, a)
  <2>1. PICK m, n, q : m = w.span[a].nbytes /\ n = v.span[a].nbytes /\ q = v.span[c].nbytes
    OBVIOUS
  <2>2. m \in Nat \ {0} /\ n \in Nat \ {0} /\ q \in Nat \ {0} /\ a \in Nat
    BY <1>1, <1>2, <2>1, ExtentFacts
  <2>3. n = m - q /\ c = a + n
    BY <2>1 DEF CutDone
  <2>4. a <= a /\ a + n <= a + m /\ a <= c /\ c + q <= a + m
    BY ONLY <2>2, <2>3
  <2> QED
    BY <1>1, <1>2, <2>1, <2>4, ExtentIn
<1>7. Within(v, w)
  <2> SUFFICES ASSUME NEW b \in SpansOf(v)
               PROVE  \E d \in SpansOf(w) : /\ Extent(v, b) \subseteq Extent(w, d)
                                            /\ w.span[d].arena = v.span[b].arena
                                            /\ w.span[d].age = v.span[b].age
    BY DEF Within
  <2>1. CASE b \in {a, c}
    BY <1>4, <1>6, <2>1
  <2>2. CASE b \notin {a, c}
    BY <1>2, <1>3, <2>2 DEF Extent
  <2> QED
    BY <2>1, <2>2
<1>8. SameAges(w, v)
  BY <1>1, <1>2, <1>7, WithinAges
<1>9. Aging(w, v)
  <2>1. \A b \in SpansOf(v) : \E d \in SpansOf(w) : v.span[b].arena = w.span[d].arena
                                                   /\ v.span[b].age = w.span[d].age
    BY <1>7 DEF Within
  <2>2. Young(w) => \A b \in SpansOf(v) : v.span[b].age < v.epoch[v.span[b].arena]
    BY <1>2, <2>1, WithinYoung
  <2> QED
    BY <1>2, <1>8, <2>2, SameAgesAging
<1>10. Rooting(w, v)
  <2>1. /\ SpansOf(w) \subseteq SpansOf(v)
        /\ \A b \in SpansOf(v) \ SpansOf(w) : v.span[b].record = 0
        /\ \A b \in SpansOf(w) : v.span[b].arena = w.span[b].arena
                                 /\ v.span[b].record = w.span[b].record
    BY <1>2, <1>3, <1>4, <1>5
  <2> QED
    BY <1>2, <1>8, <2>1, SameAgesRooting
<1> QED
  BY <1>9, <1>10

LEMMA SplitAges ==
    ASSUME AlignedGets # {}, NEW w, Sound(w), NEW v, Sound(v), NEW a \in SpansOf(w),
           NEW s, NEW r, NEW k \in Class, SplitDone(w, v, a, s, r, k)
    PROVE  Aging(w, v) /\ Rooting(w, v)
<1>1. w \in World /\ v \in World /\ Tiled(w) /\ Tiled(v)
  BY DEF Sound
<1>2. /\ SpansOf(v) = SpansOf(w) \cup {s, r} /\ v.epoch = w.epoch
      /\ Mapped(v) = Mapped(w)
  BY DEF SplitDone, Mapped
<1>3. \A b \in SpansOf(w) \ {a} : /\ v.span[b].arena = w.span[b].arena
                                  /\ v.span[b].age = w.span[b].age
                                  /\ v.span[b].nbytes = w.span[b].nbytes
  BY DEF SplitDone, SameBut
<1>4. \A b \in {a, s, r} : v.span[b].arena = w.span[a].arena /\ v.span[b].age = w.span[a].age
  BY DEF SplitDone, Kin
<1>6. \A b \in {a, s, r} : Extent(v, b) \subseteq Extent(w, a)
  <2>1. PICK m, n, q, i : m = w.span[a].nbytes /\ n = v.span[a].nbytes /\ q = v.span[s].nbytes
                          /\ i = v.span[r].nbytes
    OBVIOUS
  <2>2. /\ m \in Nat \ {0} /\ n \in Nat \ {0} /\ q \in Nat \ {0} /\ i \in Nat \ {0}
        /\ a \in Nat /\ s \in Nat /\ r \in Nat
    BY <1>1, <1>2, <2>1, ExtentFacts
  <2>3. /\ (s # a => a + n = s /\ a < s) /\ s + q = r /\ r + i = a + m
        /\ (s = a => n = q)
    BY <2>1 DEF SplitDone
  <2>4. a <= a /\ a + n <= a + m /\ a <= s /\ s + q <= a + m /\ a <= r /\ r + i <= a + m
    BY ONLY <2>2, <2>3
  <2> QED
    BY <1>1, <1>2, <2>1, <2>4, ExtentIn
<1>7. Within(v, w)
  <2> SUFFICES ASSUME NEW b \in SpansOf(v)
               PROVE  \E d \in SpansOf(w) : /\ Extent(v, b) \subseteq Extent(w, d)
                                            /\ w.span[d].arena = v.span[b].arena
                                            /\ w.span[d].age = v.span[b].age
    BY DEF Within
  <2>1. CASE b \in {a, s, r}
    BY <1>4, <1>6, <2>1
  <2>2. CASE b \notin {a, s, r}
    BY <1>2, <1>3, <2>2 DEF Extent
  <2> QED
    BY <2>1, <2>2
<1>8. SameAges(w, v)
  BY <1>1, <1>2, <1>7, WithinAges
<1>9. Aging(w, v)
  <2>1. \A b \in SpansOf(v) : \E d \in SpansOf(w) : v.span[b].arena = w.span[d].arena
                                                   /\ v.span[b].age = w.span[d].age
    BY <1>7 DEF Within
  <2>2. Young(w) => \A b \in SpansOf(v) : v.span[b].age < v.epoch[v.span[b].arena]
    BY <1>2, <2>1, WithinYoung
  <2> QED
    BY <1>2, <1>8, <2>2, SameAgesAging
<1>10. Rooting(w, v)
  BY DEF Rooting, OriginsKept
<1> QED
  BY <1>9, <1>10

(* A new mapping has an age of its own. *)
LEMMA MintAges ==
    ASSUME NEW w, Sound(w), NEW v, Sound(v), NEW ar \in Arenas, NEW k \in Class, NEW base,
           MintDone(w, v, ar, k, base)
    PROVE  Aging(w, v) /\ Rooting(w, v)
<1>1. w \in World /\ v \in World /\ Tiled(w) /\ Tiled(v)
  BY DEF Sound
<1>2. /\ SpansOf(v) = SpansOf(w) \cup {base} /\ base \notin SpansOf(w) /\ base \in Page
      /\ \A b \in SpansOf(w) : v.span[b] = w.span[b]
      /\ v.epoch = [w.epoch EXCEPT ![ar] = (w.epoch[ar] + 1) % AgeMod]
      /\ v.mappings = w.mappings \cup {NewMapping(ar, k, base)}
  BY DEF MintDone
<1>3. /\ v.span[base].age = w.epoch[ar] /\ v.span[base].arena = ar
      /\ v.span[base].nbytes = ClassPages[k]
      /\ v.span[base].record = IF UnmapOnTermination THEN ClassPages[k] ELSE 0
  BY DEF MintDone, MintRecord
<1>4. \A b \in SpansOf(w) : Extent(v, b) = Extent(w, b)
  BY <1>2 DEF Extent
<1>5. PICK I : I = Extent(v, base)
  OBVIOUS
<1>6. Mapped(v) = Mapped(w) \cup I /\ I = MapExtent(NewMapping(ar, k, base))
  <2>1. PICK o : o = NewMapping(ar, k, base)
    OBVIOUS
  <2>2. o.addr = base /\ o.npages = ClassPages[k]
    BY <2>1 DEF NewMapping
  <2>3. I = MapExtent(o)
    BY <1>3, <1>5, <2>2 DEF MapExtent, Extent
  <2>4. v.mappings = w.mappings \cup {o}
    BY <1>2, <2>1
  <2>5. MappedPages(w.mappings \cup {o}) = MappedPages(w.mappings) \cup MapExtent(o)
    BY MappedMore DEF MapExtent
  <2>6. Mapped(v) = Mapped(w) \cup MapExtent(o)
    BY <2>4, <2>5 DEF Mapped
  <2> QED
    BY <2>1, <2>3, <2>6
<1>7. base \in I /\ I \cap Mapped(w) = {} /\ I \subseteq Page
  <2>1. \A b \in SpansOf(w) : Extent(w, b) \cap I = {}
    BY <1>1, <1>2, <1>4, <1>5 DEF Tiled
  <2> QED
    BY <1>1, <1>2, <1>5, <2>1, ExtentFacts DEF Tiled
<1>8. \A x, g : AgePages(v, x, g) = IF x = ar /\ g = w.epoch[ar] THEN AgePages(w, x, g) \cup I
                                    ELSE AgePages(w, x, g)
  BY <1>2, <1>3, <1>4, <1>5, <1>7 DEF AgePages
<1>9. Young(w) => AgePages(w, ar, w.epoch[ar]) = {}
  <2> SUFFICES ASSUME Young(w), NEW a \in SpansOf(w), w.span[a].arena = ar,
                      w.span[a].age = w.epoch[ar]
               PROVE  FALSE
    BY DEF AgePages
  <2>1. w.epoch[ar] < w.epoch[ar] /\ w.epoch[ar] \in 0 .. AgeMod - 1
    BY <1>1, WorldFields DEF Young
  <2> QED
    BY <2>1, Sizes
<1>10. Young(w) => \A x, g : AgePages(v, x, g) = IF x = ar /\ g = w.epoch[ar] THEN I
                                                ELSE AgePages(w, x, g)
  BY <1>8, <1>9
<1>11. IsConvex(I)
  <2>1. \A p \in Nat : p \in I <=> base <= p /\ p < base + ClassPages[k]
    BY <1>1, <1>2, <1>3, <1>5, ExtentRange
  <2>2. \A p \in I : p \in Nat
    BY <1>7, Sizes
  <2>3. ClassPages[k] \in Nat /\ base \in Nat
    BY <1>2, ClassFacts, Sizes
  <2> QED
    BY ONLY <2>1, <2>2, <2>3 DEF IsConvex
<1>12. ASSUME AgesHold, Aged(w) PROVE Aged(v)
  <2>1. Young(w) /\ Convex(w)
    BY <1>12 DEF Aged
  <2>2. Convex(v)
    BY <1>10, <1>11, <2>1 DEF Convex
  <2>3. PICK n, m \in Nat : n = Cardinality(Mapped(w)) /\ m = Cardinality(Mapped(v))
    BY <1>1, PageFinite DEF Tiled
  <2>4. n + 1 <= m /\ m <= NPages
    <3>1. PICK S : S = Mapped(w)
      OBVIOUS
    <3>2. PICK T : T = S \cup {base}
      OBVIOUS
    <3>3. IsFiniteSet(S) /\ base \notin S
      BY <1>1, <1>7, <3>1, PageFinite DEF Tiled
    <3>4. Cardinality(T) = Cardinality(S) + 1
      BY <3>2, <3>3, FS_AddElement
    <3>5. T \subseteq Mapped(v) /\ IsFiniteSet(Mapped(v)) /\ m <= NPages
      BY <1>1, <1>6, <1>7, <2>3, <3>1, <3>2, PageFinite DEF Tiled
    <3>6. Cardinality(T) <= Cardinality(Mapped(v))
      BY <3>5, FS_Subset
    <3> QED
      BY <2>3, <3>1, <3>4, <3>5, <3>6
  <2>5. PICK e \in Nat : e = w.epoch[ar]
    BY <1>1, WorldFields, Sizes
  <2>6. e <= n
    BY <2>1, <2>3, <2>5 DEF Young
  <2>7. v.epoch[ar] = e + 1 /\ \A x \in Arenas \ {ar} : v.epoch[x] = w.epoch[x]
    <3>1. w.epoch \in [Arenas -> 0 .. AgeMod - 1]
      BY <1>1, WorldFields
    <3>2. (e + 1) % AgeMod = e + 1
      <4>1. e + 1 < AgeMod
        BY <1>12, <2>3, <2>4, <2>5, <2>6, Sizes DEF AgesHold
      <4> QED
        BY <4>1, <2>5, Sizes
    <3> QED
      BY <1>2, <2>5, <3>1, <3>2
  <2>8. \A x \in Arenas : v.epoch[x] <= m
    <3> SUFFICES ASSUME NEW x \in Arenas PROVE v.epoch[x] <= m
      OBVIOUS
    <3>1. CASE x = ar
      BY <2>3, <2>4, <2>5, <2>6, <2>7, <3>1
    <3>2. CASE x # ar
      <4>1. w.epoch[x] <= n /\ w.epoch[x] \in Nat /\ v.epoch[x] = w.epoch[x]
        BY <1>1, <2>1, <2>3, <2>7, <3>2, WorldFields, Sizes DEF Young
      <4> QED
        BY <2>3, <2>4, <4>1
    <3> QED
      BY <3>1, <3>2
  <2>9. ASSUME NEW a \in SpansOf(v) PROVE v.span[a].age < v.epoch[v.span[a].arena]
    <3>1. CASE a = base
      BY <1>3, <2>5, <2>7, <3>1
    <3>2. CASE a # base
      <4>1. a \in SpansOf(w) /\ v.span[a] = w.span[a]
        BY <1>2, <3>2
      <4>2. PICK x \in Arenas, g \in Nat : x = w.span[a].arena /\ g = w.span[a].age
        BY <1>1, <4>1, SpanFields, RecordFields, Sizes
      <4>3. g < w.epoch[x] /\ w.epoch[x] \in Nat
        BY <1>1, <2>1, <4>1, <4>2, WorldFields, Sizes DEF Young
      <4>4. v.epoch[x] = w.epoch[x] \/ v.epoch[x] = w.epoch[x] + 1
        BY <2>5, <2>7
      <4> QED
        BY <4>1, <4>2, <4>3, <4>4
    <3> QED
      BY <3>1, <3>2
  <2>10. Young(v)
    BY <2>3, <2>8, <2>9 DEF Young
  <2> QED
    BY <2>2, <2>10 DEF Aged
<1>13. ASSUME UnmapOnTermination, Aged(w), Rooted(w) PROVE Rooted(v)
  <2>1. PICK o : o = NewMapping(ar, k, base)
    OBVIOUS
  <2>2. o.addr = base /\ o.arena = ar /\ o.npages = ClassPages[k]
    BY <2>1 DEF NewMapping
  <2>3. \A m \in v.mappings : /\ m.addr \in SpansOf(v)
                              /\ v.span[m.addr].arena = m.arena
                              /\ v.span[m.addr].record = m.npages
    BY <1>2, <1>3, <1>13, <2>1, <2>2 DEF Rooted
  <2>4. \A a \in SpansOf(v) : v.span[a].record # 0 => \E m \in v.mappings : m.addr = a
    BY <1>2, <1>13, <2>1, <2>2 DEF Rooted
  <2>5. ASSUME NEW m \in v.mappings, NEW x, NEW g, NEW p \in AgePages(v, x, g),
               NEW q \in AgePages(v, x, g), p \in MapExtent(m)
        PROVE  q \in MapExtent(m)
    <3>1. AgePages(v, x, g) = IF x = ar /\ g = w.epoch[ar] THEN I ELSE AgePages(w, x, g)
      BY <1>10, <1>13 DEF Aged
    <3>2. AgePages(w, x, g) \subseteq Mapped(w)
      BY <1>1 DEF AgePages, Tiled
    <3>3. CASE m = o
      BY <1>6, <1>7, <2>1, <2>5, <3>1, <3>2, <3>3
    <3>4. CASE m # o
      <4>1. m \in w.mappings
        BY <1>2, <2>1, <3>4
      <4>2. MapExtent(m) \subseteq Mapped(w)
        BY <4>1 DEF Mapped, MappedPages, MapExtent
      <4>3. AgePages(v, x, g) = AgePages(w, x, g)
        BY <1>7, <2>5, <3>1, <4>2
      <4> QED
        BY <1>13, <2>5, <4>1, <4>3 DEF Rooted
    <3> QED
      BY <3>3, <3>4
  <2> QED
    BY <2>3, <2>4, <2>5 DEF Rooted
<1> QED
  BY <1>12, <1>13 DEF Aging, Rooting

Between(I, i, j) == \A p \in Nat : p \in I <=> i <= p /\ p < j

(* An interval next to a convex set moves into it from another one. *)
LEMMA ConvexJoin ==
    ASSUME NEW G \in SUBSET Nat, NEW H \in SUBSET Nat, IsConvex(G), IsConvex(H),
           G \cap H = {}, NEW i \in Nat, NEW j \in Nat, i < j,
           NEW I \in SUBSET H, Between(I, i, j),
           NEW e \in G, e + 1 = i \/ e = j
    PROVE  IsConvex(G \cup I) /\ IsConvex(H \ I)
<1>0. \A p \in Nat : p \in I <=> i <= p /\ p < j
  BY DEF Between
<1>1. ASSUME NEW p \in G \cup I, NEW s \in G \cup I, NEW q \in Nat, p < q, q < s
      PROVE  q \in G \cup I
  <2>1. p \in Nat /\ s \in Nat /\ e \in Nat
    OBVIOUS
  <2>2. CASE p \in G /\ s \in G
    BY <1>1, <2>2 DEF IsConvex
  <2>3. CASE p \in I /\ s \in I
    BY <1>0, <1>1, <2>1, <2>3
  <2>4. CASE p \in G /\ s \in I
    <3>1. q \in I \/ q < i
      BY <1>0, <1>1, <2>1, <2>4
    <3>2. q < i => q = e \/ q < e
      BY <2>1
    <3>3. q < e => q \in G
      BY <1>1, <2>4 DEF IsConvex
    <3> QED
      BY <3>1, <3>2, <3>3
  <2>5. CASE p \in I /\ s \in G
    <3>1. q \in I \/ q >= j
      BY <1>0, <1>1, <2>1, <2>5
    <3>2. q >= j => q = e \/ e < q
      BY <2>1
    <3>3. e < q => q \in G
      BY <1>1, <2>5 DEF IsConvex
    <3> QED
      BY <3>1, <3>2, <3>3
  <2> QED
    BY <2>2, <2>3, <2>4, <2>5
<1>2. ASSUME NEW p \in H \ I, NEW s \in H \ I, NEW q \in Nat, p < q, q < s
      PROVE  q \in H \ I
  <2>1. p \in Nat /\ s \in Nat /\ e \in Nat
    OBVIOUS
  <2>2. q \in H
    BY <1>2 DEF IsConvex
  <2>3. ASSUME q \in I PROVE FALSE
    <3>1. i <= q /\ q < j
      BY <1>0, <2>3
    <3>2. p < i /\ s >= j
      BY <1>0, <1>2, <2>1, <3>1
    <3>3. p # e /\ s # e
      BY <1>2
    <3>4. p < e /\ e < s
      BY <2>1, <3>1, <3>2, <3>3
    <3>5. e \in H
      BY <1>2, <2>1, <3>4 DEF IsConvex
    <3> QED
      BY <3>5
  <2> QED
    BY <2>2, <2>3
<1> QED
  BY <1>1, <1>2 DEF IsConvex

(* The age of a page is that of the one span around it. *)
LEMMA PageAge ==
    ASSUME NEW w \in World, Tiled(w), NEW a \in SpansOf(w), NEW p \in Extent(w, a)
    PROVE  \A x, g : p \in AgePages(w, x, g) <=> x = w.span[a].arena /\ g = w.span[a].age
<1>1. p \in Page
  BY DEF Tiled
<1>2. \A b \in SpansOf(w) : p \in Extent(w, b) => b = a
  BY DEF Tiled
<1> QED
  BY <1>1, <1>2 DEF AgePages

(* The extent of two spans that were joined *)
LEMMA JoinedExtent ==
    ASSUME NEW w \in World, NEW v \in World, NEW l, NEW r, Adjoining(w, l, r),
           CoalesceDone(w, v, l, r)
    PROVE  /\ l \in SpansOf(v) /\ Extent(v, l) = Extent(w, l) \cup Extent(w, r)
           /\ \A b \in SpansOf(v) \ {l} : b \in SpansOf(w) /\ b # r
                                          /\ v.span[b] = w.span[b] /\ Extent(v, b) = Extent(w, b)
<1>1. l \in SpansOf(w) /\ r \in SpansOf(w) /\ l # r /\ l + w.span[l].nbytes = r
  BY DEF Adjoining
<1>2. /\ SpansOf(v) = SpansOf(w) \ {r} /\ \A b \in SpansOf(w) \ {l, r} : v.span[b] = w.span[b]
      /\ v.span[l].nbytes = w.span[l].nbytes + w.span[r].nbytes
  BY DEF CoalesceDone
<1>3. l \in SpansOf(v)
  BY <1>1, <1>2
<1>4. Extent(v, l) = Extent(w, l) \cup Extent(w, r)
  <2>1. PICK m, n, q : m = w.span[l].nbytes /\ n = w.span[r].nbytes /\ q = v.span[l].nbytes
    OBVIOUS
  <2>2. m \in Nat \ {0} /\ n \in Nat \ {0} /\ l \in Nat
    BY <1>1, <2>1, ExtentFacts
  <2>3. Extent(v, l) = l .. (l + q - 1) /\ Extent(w, l) = l .. (l + m - 1)
        /\ Extent(w, r) = r .. (r + n - 1)
    BY <2>1 DEF Extent
  <2>4. q = m + n /\ r = l + m
    BY <1>1, <1>2, <2>1
  <2> QED
    BY <2>2, <2>3, <2>4
<1> QED
  BY <1>2, <1>3, <1>4 DEF Extent

(* Spans of one age: no page changes its age. *)
LEMMA JoinWithin ==
    ASSUME NEW w \in World, NEW v \in World, Tiled(w), Tiled(v), NEW l, NEW r,
           Adjoining(w, l, r), CoalesceDone(w, v, l, r), w.span[l].age = w.span[r].age
    PROVE  SameAges(w, v)
<1>1. /\ l \in SpansOf(w) /\ r \in SpansOf(w) /\ l \in SpansOf(v)
      /\ Extent(v, l) = Extent(w, l) \cup Extent(w, r)
      /\ w.span[l].arena = w.span[r].arena
  BY JoinedExtent DEF Adjoining
<1>2. /\ SpansOf(v) = SpansOf(w) \ {r} /\ \A b \in SpansOf(w) \ {l, r} : v.span[b] = w.span[b]
      /\ v.span[l].arena = w.span[l].arena /\ v.mappings = w.mappings
  BY DEF CoalesceDone
<1>3. v.span[l].age = w.span[l].age
  BY DEF CoalesceDone
<1>4. Mapped(v) = Mapped(w)
  BY <1>2 DEF Mapped
<1>5. Within(w, v)
  <2> SUFFICES ASSUME NEW a \in SpansOf(w)
               PROVE  \E b \in SpansOf(v) : /\ Extent(w, a) \subseteq Extent(v, b)
                                            /\ v.span[b].arena = w.span[a].arena
                                            /\ v.span[b].age = w.span[a].age
    BY DEF Within
  <2>1. CASE a \in {l, r}
    BY <1>1, <1>2, <1>3, <2>1
  <2>2. CASE a \notin {l, r}
    BY <1>2, <2>2 DEF Extent
  <2> QED
    BY <2>1, <2>2
<1> QED
  BY <1>4, <1>5, WithinAges

(* Of two spans h and o of different ages, h takes the age of o. *)
AgeMoves(w, v, h, o) ==
    \A x, g : AgePages(v, x, g) =
                 IF x = w.span[h].arena /\ g = w.span[o].age
                 THEN AgePages(w, x, g) \cup Extent(w, h)
                 ELSE IF x = w.span[h].arena /\ g = w.span[h].age
                 THEN AgePages(w, x, g) \ Extent(w, h)
                 ELSE AgePages(w, x, g)

LEMMA JoinMoves ==
    ASSUME NEW w \in World, NEW v \in World, Tiled(w), Tiled(v), NEW l, NEW r,
           Adjoining(w, l, r), CoalesceDone(w, v, l, r), NEW h, NEW o, {h, o} = {l, r},
           v.span[l].age = w.span[o].age, w.span[h].age # w.span[o].age
    PROVE  AgeMoves(w, v, h, o)
<1>1. /\ l \in SpansOf(w) /\ r \in SpansOf(w) /\ l # r /\ l \in SpansOf(v)
      /\ h \in SpansOf(w) /\ o \in SpansOf(w) /\ h # o
      /\ w.span[l].arena = w.span[r].arena /\ w.span[h].arena = w.span[o].arena
      /\ v.span[l].arena = w.span[h].arena
  <2>1. /\ l \in SpansOf(w) /\ r \in SpansOf(w) /\ l # r
        /\ w.span[l].arena = w.span[r].arena
    BY DEF Adjoining
  <2>2. v.span[l].arena = w.span[l].arena
    BY DEF CoalesceDone
  <2>3. l \in SpansOf(v)
    BY JoinedExtent
  <2>4. (h = l /\ o = r) \/ (h = r /\ o = l)
    BY <2>1
  <2> QED
    BY <2>1, <2>2, <2>3, <2>4
<1>2. Extent(v, l) = Extent(w, h) \cup Extent(w, o)
  BY JoinedExtent
<1>3. /\ SpansOf(v) = SpansOf(w) \ {r}
      /\ \A b \in SpansOf(w) \ {l, r} : Extent(v, b) = Extent(w, b)
                                        /\ v.span[b] = w.span[b]
  BY DEF CoalesceDone, Extent
<1> SUFFICES ASSUME NEW x, NEW g
             PROVE  AgePages(v, x, g) =
                       IF x = w.span[h].arena /\ g = w.span[o].age
                       THEN AgePages(w, x, g) \cup Extent(w, h)
                       ELSE IF x = w.span[h].arena /\ g = w.span[h].age
                       THEN AgePages(w, x, g) \ Extent(w, h)
                       ELSE AgePages(w, x, g)
  BY DEF AgeMoves
<1>4. ASSUME NEW p \in Extent(w, h)
      PROVE  /\ p \in AgePages(v, x, g) <=> x = w.span[h].arena /\ g = w.span[o].age
             /\ p \in AgePages(w, x, g) <=> x = w.span[h].arena /\ g = w.span[h].age
  BY <1>1, <1>2, PageAge
<1>5. ASSUME NEW p \in Extent(w, o)
      PROVE  /\ p \in AgePages(v, x, g) <=> x = w.span[h].arena /\ g = w.span[o].age
             /\ p \in AgePages(w, x, g) <=> x = w.span[h].arena /\ g = w.span[o].age
             /\ p \notin Extent(w, h)
  <2>1. p \notin Extent(w, h)
    BY <1>1, OneSpan
  <2> QED
    BY <1>1, <1>2, <2>1, PageAge
<1>6. ASSUME NEW p, p \notin Extent(w, h), p \notin Extent(w, o)
      PROVE  p \in AgePages(v, x, g) <=> p \in AgePages(w, x, g)
  <2>1. \A a : /\ a \in SpansOf(v) /\ p \in Extent(v, a)
               <=> a \in SpansOf(w) \ {l, r} /\ p \in Extent(w, a)
    BY <1>1, <1>2, <1>3, <1>6
  <2>2. \A a : /\ a \in SpansOf(w) /\ p \in Extent(w, a)
               <=> a \in SpansOf(w) \ {l, r} /\ p \in Extent(w, a)
    BY <1>6
  <2>3. \A a \in SpansOf(w) \ {l, r} : v.span[a] = w.span[a]
    BY <1>3
  <2> QED
    BY <2>1, <2>2, <2>3 DEF AgePages
<1> QED
  BY <1>4, <1>5, <1>6

(* The pages that move are next to pages of the age they take. *)
LEMMA AgeMovesConvex ==
    ASSUME NEW w \in World, NEW v \in World, Tiled(w), NEW h \in SpansOf(w),
           NEW o \in SpansOf(w), w.span[h].arena = w.span[o].arena,
           w.span[h].age # w.span[o].age, AgeMoves(w, v, h, o),
           h + w.span[h].nbytes = o \/ o + w.span[o].nbytes = h
    PROVE  Convex(w) => Convex(v)
<1> SUFFICES ASSUME Convex(w) PROVE Convex(v)
  OBVIOUS
<1>1. PICK x, g, k : x = w.span[h].arena /\ g = w.span[o].age /\ k = w.span[h].age
  OBVIOUS
<1>2. PICK G : G = AgePages(w, x, g)
  OBVIOUS
<1>3. PICK H : H = AgePages(w, x, k)
  OBVIOUS
<1>4. G \in SUBSET Nat /\ H \in SUBSET Nat
  BY <1>2, <1>3, Sizes DEF AgePages
<1>5. IsConvex(G) /\ IsConvex(H)
  BY <1>2, <1>3 DEF Convex
<1>6. G \cap H = {}
  <2> SUFFICES ASSUME NEW p \in G, p \in H PROVE FALSE
    OBVIOUS
  <2>1. PICK a \in SpansOf(w) : p \in Extent(w, a) /\ w.span[a].age = g
    BY <1>2 DEF AgePages
  <2>2. k = w.span[a].age
    BY <1>3, <2>1, PageAge
  <2> QED
    BY <1>1, <2>1, <2>2
<1>7. PICK I : I = Extent(w, h)
  OBVIOUS
<1>8. PICK m, n : m = w.span[h].nbytes /\ n = w.span[o].nbytes
  OBVIOUS
<1>9. m \in Nat \ {0} /\ n \in Nat \ {0} /\ h \in Nat /\ o \in Nat
  BY <1>8, ExtentFacts
<1>10. PICK j \in Nat : j = h + m
  BY <1>9
<1>11. Between(I, h, j)
  BY <1>7, <1>8, <1>10, ExtentRange DEF Between
<1>12. I \in SUBSET H
  BY <1>1, <1>3, <1>7, PageAge
<1>13. Extent(w, o) \subseteq G
  BY <1>1, <1>2, PageAge
<1>14. PICK e \in G : e + 1 = h \/ e = j
  <2>1. CASE j = o
    BY <1>13, <2>1, ExtentFacts
  <2>2. CASE o + n = h
    <3>1. PICK e \in Nat : e + 1 = h
      BY <1>9, <2>2
    <3>2. o <= e /\ e < o + n
      BY <1>9, <2>2, <3>1
    <3>3. e \in Extent(w, o)
      BY <1>8, <3>1, <3>2, ExtentRange
    <3> QED
      BY <1>13, <3>1, <3>3
  <2> QED
    BY <1>8, <1>10, <2>1, <2>2
<1>15. IsConvex(G \cup I) /\ IsConvex(H \ I)
  <2>1. h < j
    BY <1>9, <1>10
  <2> QED
    BY <1>4, <1>5, <1>6, <1>9, <1>11, <1>12, <1>14, <2>1, ConvexJoin
<1>16. ASSUME NEW y, NEW z PROVE IsConvex(AgePages(v, y, z))
  <2>1. CASE y = x /\ z = g
    BY <1>1, <1>2, <1>7, <1>15, <2>1 DEF AgeMoves
  <2>2. CASE y = x /\ z = k
    BY <1>1, <1>3, <1>7, <1>15, <2>2 DEF AgeMoves
  <2>3. CASE ~(y = x /\ (z = g \/ z = k))
    <3>1. AgePages(v, y, z) = AgePages(w, y, z)
      BY <1>1, <2>3 DEF AgeMoves
    <3> QED
      BY <3>1 DEF Convex
  <2> QED
    BY <2>1, <2>2, <2>3
<1> QED
  BY <1>16 DEF Convex

LEMMA CoalesceAging ==
    ASSUME NEW w \in World, NEW v \in World, Tiled(w), Tiled(v), NEW l, NEW r,
           Adjoining(w, l, r), CoalesceDone(w, v, l, r)
    PROVE  Aging(w, v)
<1>1. /\ l \in SpansOf(w) /\ r \in SpansOf(w) /\ l # r /\ l \in SpansOf(v)
      /\ w.span[l].arena = w.span[r].arena /\ l + w.span[l].nbytes = r
  BY JoinedExtent DEF Adjoining
<1>2. /\ SpansOf(v) = SpansOf(w) \ {r} /\ \A b \in SpansOf(w) \ {l, r} : v.span[b] = w.span[b]
      /\ v.span[l].arena = w.span[l].arena /\ v.mappings = w.mappings /\ v.epoch = w.epoch
  BY DEF CoalesceDone
<1>3. PICK h, o : {h, o} = {l, r} /\ v.span[l].age = w.span[o].age
  <2>1. v.span[l].age = w.span[l].age \/ v.span[l].age = w.span[r].age
    BY DEF CoalesceDone
  <2>2. {r, l} = {l, r}
    OBVIOUS
  <2> QED
    BY <2>1, <2>2
<1>4. h \in SpansOf(w) /\ o \in SpansOf(w) /\ w.span[h].arena = w.span[o].arena
      /\ (h + w.span[h].nbytes = o \/ o + w.span[o].nbytes = h)
      /\ v.span[l].arena = w.span[o].arena
  <2>1. (h = l /\ o = r) \/ (h = r /\ o = l)
    BY <1>1, <1>3
  <2> QED
    BY <1>1, <1>2, <2>1
<1>5. Young(w) => \A b \in SpansOf(v) : v.span[b].age < v.epoch[v.span[b].arena]
  <2>1. \A b \in SpansOf(v) : \E a \in SpansOf(w) : v.span[b].arena = w.span[a].arena
                                                   /\ v.span[b].age = w.span[a].age
    BY <1>2, <1>3, <1>4
  <2> QED
    BY <1>2, <2>1, WithinYoung
<1>6. Mapped(v) = Mapped(w)
  BY <1>2 DEF Mapped
<1>7. CASE w.span[h].age = w.span[o].age
  <2>1. w.span[l].age = w.span[r].age
    BY <1>3, <1>7
  <2> QED
    BY <1>2, <1>5, <1>6, <2>1, JoinWithin, SameAgesAging
<1>8. CASE w.span[h].age # w.span[o].age
  <2>1. AgeMoves(w, v, h, o)
    BY <1>3, <1>8, JoinMoves
  <2>2. Convex(w) => Convex(v)
    BY <1>4, <1>8, <2>1, AgeMovesConvex
  <2> QED
    BY <1>2, <1>5, <1>6, <2>2 DEF Aging, Aged, Young
<1> QED
  BY <1>7, <1>8

(* Where mappings are told apart, the right one of two spans that merge    *)
(* does not start a mapping.                                               *)
LEMMA CoalesceRooting ==
    ASSUME NEW w \in World, NEW v \in World, Tiled(w), Tiled(v), NEW l, NEW r,
           Adjoining(w, l, r), CoalesceDone(w, v, l, r)
    PROVE  Rooting(w, v)
<1> SUFFICES ASSUME UnmapOnTermination, OriginsKept, Rooted(w) PROVE Rooted(v)
  BY DEF Rooting
<1>1. /\ l \in SpansOf(w) /\ r \in SpansOf(w) /\ l # r /\ l \in SpansOf(v)
      /\ l + w.span[l].nbytes = r /\ w.span[l].arena = w.span[r].arena
      /\ w.span[l].age = w.span[r].age
  BY JoinedExtent DEF Adjoining, OriginsKept
<1>2. /\ SpansOf(v) = SpansOf(w) \ {r} /\ \A b \in SpansOf(w) \ {l, r} : v.span[b] = w.span[b]
      /\ v.span[l].arena = w.span[l].arena /\ v.mappings = w.mappings
      /\ v.span[l].record = w.span[l].record + w.span[r].record
  BY DEF CoalesceDone
<1>3. SameAges(w, v)
  BY <1>1, JoinWithin
<1>4. \A m \in w.mappings : m.addr # r
  <2> SUFFICES ASSUME NEW m \in w.mappings, m.addr = r PROVE FALSE
    OBVIOUS
  <2>1. PICK x, g : x = w.span[l].arena /\ g = w.span[l].age
    OBVIOUS
  <2>2. l \in AgePages(w, x, g) /\ r \in AgePages(w, x, g)
    <3>1. l \in Extent(w, l) /\ r \in Extent(w, r)
      BY <1>1, ExtentFacts
    <3> QED
      BY <1>1, <2>1, <3>1, PageAge
  <2>3. m.npages \in Nat \ {0}
    BY WorldFields, Sizes
  <2>4. l \in Nat /\ r \in Nat /\ l < r
    <3>1. l \in Nat /\ r \in Nat /\ w.span[l].nbytes \in Nat \ {0}
      BY <1>1, ExtentFacts
    <3> QED
      BY <1>1, <3>1
  <2>5. r \in MapExtent(m)
    BY <2>3, <2>4 DEF MapExtent
  <2>6. l \in MapExtent(m)
    BY <2>2, <2>5 DEF Rooted
  <2> QED
    BY <2>4, <2>6 DEF MapExtent
<1>5. w.span[r].record = 0
  BY <1>1, <1>4 DEF Rooted
<1>6. w.span[l].record \in Nat
  BY <1>1, SpanFields, RecordFields
<1>7. \A b \in SpansOf(v) : b \in SpansOf(w) /\ v.span[b].record = w.span[b].record
                            /\ v.span[b].arena = w.span[b].arena
  <2>1. v.span[l].record = w.span[l].record
    BY <1>2, <1>5, <1>6
  <2> QED
    BY <1>2, <2>1
<1>8. \A m \in v.mappings : /\ m.addr \in SpansOf(v)
                            /\ v.span[m.addr].arena = m.arena
                            /\ v.span[m.addr].record = m.npages
  BY <1>2, <1>4, <1>7 DEF Rooted
<1>9. \A a \in SpansOf(v) : v.span[a].record # 0 => \E m \in v.mappings : m.addr = a
  BY <1>2, <1>7 DEF Rooted
<1>10. \A m \in v.mappings : \A ar, g : \A p, q \in AgePages(v, ar, g) :
          p \in MapExtent(m) => q \in MapExtent(m)
  BY <1>2, <1>3 DEF Rooted, SameAges
<1> QED
  BY <1>8, <1>9, <1>10 DEF Rooted

LEMMA CoalesceAges ==
    ASSUME NEW w \in World, NEW v \in World, Tiled(w), Tiled(v), NEW l, NEW r,
           Adjoining(w, l, r), CoalesceDone(w, v, l, r)
    PROVE  Aging(w, v) /\ Rooting(w, v)
  BY CoalesceAging, CoalesceRooting

-----------------------------------------------------------------------------
(* All of it together *)

(* Where madvise does not fail, no bit of a bitmap is left wrong and no    *)
(* null or freed pointer is followed.                                      *)
Marking(w, v) == "madvise" \notin Faults /\ Marked(w) => Marked(v)

Quiet(w, v) == "madvise" \notin Faults /\ Marked(w) /\ RecordsStay /\ Lists(w) /\ ~w.crashed
                 => ~v.crashed

(* What a failed rollback left mapped lies in no mapping of the caches, so *)
(* in no span.                                                             *)
Clear(w) == MappedPages(stranded) \cap Mapped(w) = {}

Clearing(w, v) == Clear(w) => Clear(v)

LEMMA SameMapped ==
    ASSUME NEW w, NEW v, v.mappings = w.mappings
    PROVE  Clearing(w, v)
  BY DEF Clearing, Clear, Mapped

LEMMA MappedUnion ==
    ASSUME NEW M, NEW N
    PROVE  MappedPages(M \cup N) = MappedPages(M) \cup MappedPages(N)
  BY DEF MappedPages

LEMMA MappedOne ==
    ASSUME NEW m
    PROVE  MappedPages({m}) = MapExtent(m)
  BY DEF MappedPages, MapExtent

(* A step that keeps the lists, the ages, the records and the bitmaps, and *)
(* away from what is stranded *)
Ordered(w, v) == /\ Tidy(w, v) /\ Aging(w, v) /\ Rooting(w, v)
                 /\ Marking(w, v) /\ Quiet(w, v) /\ Clearing(w, v)

LEMMA AgesTwice ==
    ASSUME NEW w, NEW v, NEW u, Aging(w, v), Rooting(w, v), Aging(v, u), Rooting(v, u)
    PROVE  Aging(w, u) /\ Rooting(w, u)
<1>1. Aging(w, u)
  BY DEF Aging
<1>2. Rooting(w, u)
  BY DEF Aging, Rooting, OriginsKept
<1> QED
  BY <1>1, <1>2

LEMMA OrderedTwice ==
    ASSUME NEW w, NEW v, NEW u, Ordered(w, v), Ordered(v, u)
    PROVE  Ordered(w, u)
<1>1. Aging(w, u) /\ Rooting(w, u)
  BY AgesTwice DEF Ordered
<1>2. Tidy(w, u) /\ Marking(w, u) /\ Quiet(w, u)
  BY DEF Ordered, Tidy, Marking, Quiet
<1>3. Clearing(w, u)
  BY DEF Ordered, Clearing
<1> QED
  BY <1>1, <1>2, <1>3 DEF Ordered

LEMMA OrderedBy ==
    ASSUME NEW w, NEW v, Tidy(w, v), Calm(w, v), Aging(w, v), Rooting(w, v),
           Marked(w) => Marked(v), Clearing(w, v)
    PROVE  Ordered(w, v)
  BY DEF Ordered, Calm, Marking, Quiet

LEMMA SameShapeOrdered ==
    ASSUME NEW w, NEW v, SameShape(w, v), Marking(w, v)
    PROVE  Ordered(w, v)
<1>1. Tidy(w, v) /\ Calm(w, v)
  BY SameShapeTidy
<1>2. Aging(w, v) /\ Rooting(w, v)
  BY SameShapeLots, SameLotsAges
<1>3. Clearing(w, v)
  BY SameMapped DEF SameShape
<1> QED
  BY <1>1, <1>2, <1>3 DEF Ordered, Calm, Quiet

LEMMA FlagOrdered ==
    ASSUME NEW w, NEW v, NEW a, NEW x, FlagDone(w, v, a, x), SameBins(w, v)
    PROVE  Ordered(w, v)
<1>1. Tidy(w, v) /\ Calm(w, v)
  BY FlagTidy
<1>2. Aging(w, v) /\ Rooting(w, v)
  BY FlagLots, SameLotsAges
<1>3. Clearing(w, v)
  BY SameMapped DEF FlagDone
<1> QED
  BY <1>1, <1>2, <1>3, SameBinsMarked, OrderedBy

LEMMA MergedOrdered ==
    ASSUME NEW w, Sound(w), NEW v, Sound(v), NEW a, NEW l, NEW r, NEW m,
           NEW x, NEW y, NEW z, MergedBy(w, v, a, l, r, m, x, y, z),
           Marked(w) => Marked(v)
    PROVE  Ordered(w, v)
<1>1. x \in World /\ y \in World /\ z \in World
  BY DEF MergedBy
<1>2. Tiled(z)
  <2>1. v.span = z.span /\ v.mappings = z.mappings
    BY DEF MergedBy
  <2>2. SpansOf(z) = SpansOf(v) /\ Mapped(z) = Mapped(v) /\ \A b : Extent(z, b) = Extent(v, b)
    BY <2>1 DEF SpansOf, Mapped, Extent
  <2> QED
    BY <2>2 DEF Sound, Tiled
<1>3. Tidy(w, x) /\ Calm(w, x) /\ Aging(w, x) /\ Rooting(w, x)
  <2>1. SameShape(w, x)
    BY DEF MergedBy
  <2> QED
    BY <2>1, SameShapeTidy, SameShapeLots, SameLotsAges
<1>4. Tidy(x, y) /\ Calm(x, y) /\ Aging(x, y) /\ Rooting(x, y)
  <2>1. CASE CanMerge(w, l, a)
    <3>1. CoalesceDone(x, y, l, a) /\ Adjoining(x, l, a)
      BY <2>1 DEF MergedBy
    <3>2. Tiled(x) /\ Tiled(y)
      <4>1. Tiled(y)
        BY <1>2 DEF MergedBy, Adjoining
      <4> QED
        BY <3>1, <4>1 DEF Adjoining
    <3>3. Aging(x, y) /\ Rooting(x, y)
      BY <1>1, <3>1, <3>2, CoalesceAges
    <3>4. l \in SpansOf(x) /\ a \in SpansOf(x) /\ l # a /\ x.span[l].arena = x.span[a].arena
      BY <3>1 DEF Adjoining
    <3>5. Tidy(x, y) /\ Calm(x, y)
      BY <1>1, <3>1, <3>4, CoalesceTidy
    <3> QED
      BY <3>3, <3>5
  <2>2. CASE ~CanMerge(w, l, a)
    <3>1. y = x
      BY <2>2 DEF MergedBy
    <3> QED
      BY <3>1 DEF Tidy, Calm, Aging, Rooting
  <2> QED
    BY <2>1, <2>2
<1>5. Tidy(y, z) /\ Calm(y, z) /\ Aging(y, z) /\ Rooting(y, z)
  <2>1. CASE CanMerge(w, a, r)
    <3>1. CoalesceDone(y, z, m, r) /\ Adjoining(y, m, r)
      BY <2>1 DEF MergedBy
    <3>2. Tiled(y)
      BY <3>1 DEF Adjoining
    <3>3. Aging(y, z) /\ Rooting(y, z)
      BY <1>1, <1>2, <3>1, <3>2, CoalesceAges
    <3>4. m \in SpansOf(y) /\ r \in SpansOf(y) /\ m # r /\ y.span[m].arena = y.span[r].arena
      BY <3>1 DEF Adjoining
    <3>5. Tidy(y, z) /\ Calm(y, z)
      BY <1>1, <3>1, <3>4, CoalesceTidy
    <3> QED
      BY <3>3, <3>5
  <2>2. CASE ~CanMerge(w, a, r)
    <3>1. z = y
      BY <2>2 DEF MergedBy
    <3> QED
      BY <3>1 DEF Tidy, Calm, Aging, Rooting
  <2> QED
    BY <2>1, <2>2
<1>6. Tidy(z, v) /\ Calm(z, v) /\ Aging(z, v) /\ Rooting(z, v)
  <2>1. /\ v.span = z.span /\ v.epoch = z.epoch /\ v.origins = z.origins
        /\ v.mappings = z.mappings /\ v.crashed = z.crashed
    BY DEF MergedBy
  <2>2. Aging(z, v) /\ Rooting(z, v)
    BY <2>1, SameSpanLots, SameLotsAges
  <2>3. (\A ar, b : OwnRecord(v, ar, b) <=> OwnRecord(z, ar, b)) /\ (NoRecords(z) => NoRecords(v))
    BY <2>1 DEF OwnRecord, NoRecords, SpansOf
  <2> QED
    BY <2>1, <2>2, <2>3, SameRecordsTidy
<1>7. Tidy(w, v) /\ Calm(w, v)
  BY <1>3, <1>4, <1>5, <1>6, TidyTwice
<1>8. Aging(w, v) /\ Rooting(w, v)
  BY <1>3, <1>4, <1>5, <1>6, AgesTwice
<1>9. Clearing(w, v)
  <2>1. x.mappings = w.mappings /\ v.mappings = z.mappings
    BY DEF MergedBy, SameShape
  <2>2. y.mappings = x.mappings
    BY DEF MergedBy, CoalesceDone
  <2>3. z.mappings = y.mappings
    BY DEF MergedBy, CoalesceDone
  <2> QED
    BY <2>1, <2>2, <2>3, SameMapped
<1> QED
  BY <1>7, <1>8, <1>9, OrderedBy

-----------------------------------------------------------------------------
(* Free neighbours *)

(* Two free neighbours of one mapping *)
Touch(w, a, b) ==
    /\ ~w.span[a].is_alloc /\ ~w.span[b].is_alloc
    /\ w.span[a].arena = w.span[b].arena /\ w.span[a].age = w.span[b].age
    /\ a + w.span[a].nbytes = b

(* No two, but for the spans X that are in the hands of the call *)
Parted(w, X) == \A a, b \in SpansOf(w) \ X : ~Touch(w, a, b)

(* Spans of any length may be merged, and no call stops half way with a    *)
(* span cut off or with a neighbour that was not merged.                   *)
PartHolds == /\ AgesHold /\ NPages <= AllocMax
             /\ "slabpool" \notin Faults /\ "madvise" \notin Faults

Parting(w, v, X) == PartHolds /\ Aged(w) /\ Parted(w, {}) => Parted(v, X)

LEMMA SameShapeParted ==
    ASSUME NEW w, NEW v, SameShape(w, v), NEW X, Parted(w, X)
    PROVE  Parted(v, X)
<1>1. SpansOf(v) = SpansOf(w) /\ \A a \in SpansOf(w) : SameBut(w.span[a], v.span[a])
  BY DEF SameShape
<1>2. \A a, b \in SpansOf(w) : Touch(v, a, b) => Touch(w, a, b)
  BY <1>1 DEF Touch, SameBut
<1> QED
  BY <1>1, <1>2 DEF Parted

LEMMA SameSpanParted ==
    ASSUME NEW w, NEW v, v.span = w.span, NEW X, Parted(w, X)
    PROVE  Parted(v, X)
  BY DEF Parted, Touch, SpansOf

LEMMA GivenParted ==
    ASSUME NEW w, NEW v, NEW a, FlagDone(w, v, a, TRUE), Parted(w, {a})
    PROVE  Parted(v, {})
<1>1. /\ SpansOf(v) = SpansOf(w) /\ v.span[a].is_alloc
      /\ \A b \in SpansOf(w) \ {a} : v.span[b] = w.span[b]
  BY DEF FlagDone
<1>2. \A p, q \in SpansOf(w) : Touch(v, p, q) => p # a /\ q # a /\ Touch(w, p, q)
  BY <1>1 DEF Touch
<1> QED
  BY <1>1, <1>2 DEF Parted

LEMMA TakenParted ==
    ASSUME NEW w, NEW v, NEW a, FlagDone(w, v, a, FALSE), Parted(w, {})
    PROVE  Parted(v, {a})
<1>1. /\ SpansOf(v) = SpansOf(w)
      /\ \A b \in SpansOf(w) \ {a} : v.span[b] = w.span[b]
  BY DEF FlagDone
<1>2. \A p, q \in SpansOf(w) \ {a} : Touch(v, p, q) => Touch(w, p, q)
  BY <1>1 DEF Touch
<1> QED
  BY <1>1, <1>2 DEF Parted

(* A new mapping touches no span of its own age. *)
LEMMA MintParted ==
    ASSUME NEW w, Sound(w), NEW v, Sound(v), NEW ar \in Arenas, NEW k, NEW base,
           MintDone(w, v, ar, k, base), Young(w), Parted(w, {})
    PROVE  Parted(v, {})
<1>1. w \in World /\ v \in World
  BY DEF Sound
<1>2. /\ SpansOf(v) = SpansOf(w) \cup {base} /\ base \notin SpansOf(w)
      /\ \A b \in SpansOf(w) : v.span[b] = w.span[b]
      /\ v.span[base].age = w.epoch[ar] /\ v.span[base].arena = ar
  BY DEF MintDone, MintRecord
<1>3. w.epoch[ar] \in Nat
  BY <1>1, WorldFields
<1>4. \A b \in SpansOf(w) : ~(v.span[b].arena = ar /\ v.span[b].age = w.epoch[ar])
  BY <1>2, <1>3 DEF Young
<1>5. base \in Nat /\ v.span[base].nbytes \in Nat \ {0}
  BY <1>1, <1>2, ExtentFacts
<1>6. base + v.span[base].nbytes # base
  BY <1>5
<1>7. \A p, q \in SpansOf(v) : Touch(v, p, q) => p \in SpansOf(w) /\ q \in SpansOf(w)
  BY <1>2, <1>4, <1>6 DEF Touch
<1>8. \A p, q \in SpansOf(w) : Touch(v, p, q) => Touch(w, p, q)
  BY <1>2 DEF Touch
<1> QED
  BY <1>7, <1>8 DEF Parted

LEMMA CutParted ==
    ASSUME NEW w, NEW v, NEW a \in SpansOf(w), NEW c, NEW k, CutDone(w, v, a, c, k),
           Parted(w, {})
    PROVE  Parted(v, {c})
<1>1. /\ SpansOf(v) = SpansOf(w) \cup {c} /\ c = a + v.span[a].nbytes
      /\ v.span[a].arena = w.span[a].arena /\ v.span[a].age = w.span[a].age
      /\ v.span[a].is_alloc = w.span[a].is_alloc
      /\ \A b \in SpansOf(w) \ {a} : SameBut(w.span[b], v.span[b])
  BY DEF CutDone, Kin
<1>2. \A b \in SpansOf(w) : /\ v.span[b].arena = w.span[b].arena
                            /\ v.span[b].age = w.span[b].age
                            /\ v.span[b].is_alloc = w.span[b].is_alloc
                            /\ b # a => v.span[b].nbytes = w.span[b].nbytes
  BY <1>1 DEF SameBut
<1>3. ASSUME NEW p \in SpansOf(w), NEW q \in SpansOf(w), q # c, Touch(v, p, q)
      PROVE  Touch(w, p, q)
  <2>1. p # a
    BY <1>1, <1>3 DEF Touch
  <2> QED
    BY <1>2, <1>3, <2>1 DEF Touch
<1> QED
  BY <1>1, <1>3 DEF Parted

LEMMA SplitParted ==
    ASSUME NEW w, Sound(w), NEW v, Sound(v), NEW a \in SpansOf(w), NEW s, NEW r, NEW k,
           SplitDone(w, v, a, s, r, k), Parted(w, {})
    PROVE  Parted(v, {s})
<1>1. w \in World /\ v \in World /\ Tiled(v)
  BY DEF Sound
<1>2. /\ SpansOf(v) = SpansOf(w) \cup {s, r} /\ r \notin SpansOf(w) /\ s # r /\ a # r
      /\ (s # a => a + v.span[a].nbytes = s)
      /\ s + v.span[s].nbytes = r /\ r + v.span[r].nbytes = a + w.span[a].nbytes
      /\ \A b \in SpansOf(w) \ {a} : SameBut(w.span[b], v.span[b])
      /\ \A b \in {a, s, r} : Kin(w.span[a], v.span[b])
  BY DEF SplitDone
<1>3. /\ \A b \in {a, s, r} : /\ v.span[b].arena = w.span[a].arena
                              /\ v.span[b].age = w.span[a].age
                              /\ v.span[b].is_alloc = w.span[a].is_alloc
      /\ \A b \in SpansOf(w) \ {a} : /\ v.span[b].arena = w.span[b].arena
                                     /\ v.span[b].age = w.span[b].age
                                     /\ v.span[b].is_alloc = w.span[b].is_alloc
                                     /\ v.span[b].nbytes = w.span[b].nbytes
  BY <1>2 DEF Kin, SameBut
<1>4. \A p \in SpansOf(v) : p + v.span[p].nbytes = r => p = s
  <2> SUFFICES ASSUME NEW p \in SpansOf(v), p + v.span[p].nbytes = r PROVE p = s
    OBVIOUS
  <2>1. PICK n, j : n = v.span[p].nbytes /\ j = v.span[s].nbytes
    OBVIOUS
  <2>2. p \in Nat /\ s \in Nat /\ r \in Nat /\ n \in Nat \ {0} /\ j \in Nat \ {0}
        /\ p + n = r /\ s + j = r
    BY <1>1, <1>2, <2>1, ExtentFacts
  <2>3. r - 1 \in Nat /\ p <= r - 1 /\ r - 1 < p + n /\ s <= r - 1 /\ r - 1 < s + j
    BY ONLY <2>2
  <2>4. r - 1 \in Extent(v, p) /\ r - 1 \in Extent(v, s)
    <3>1. r - 1 \in Extent(v, p)
      BY <1>1, <2>1, <2>3, ExtentRange
    <3>2. s \in SpansOf(v)
      BY <1>2
    <3>3. r - 1 \in Extent(v, s)
      BY <1>1, <2>1, <2>3, <3>2, ExtentRange
    <3> QED
      BY <3>1, <3>3
  <2> QED
    BY <1>1, <1>2, <2>4, OneSpan
<1>5. r \in Nat /\ v.span[r].nbytes \in Nat \ {0} /\ a \in Nat /\ w.span[a].nbytes \in Nat \ {0}
  BY <1>1, <1>2, ExtentFacts
<1>6. r + v.span[r].nbytes # r /\ a + w.span[a].nbytes # a
  BY <1>5
<1>7. ASSUME NEW p \in SpansOf(v) \ {s}, NEW q \in SpansOf(v) \ {s}, Touch(v, p, q)
      PROVE  FALSE
  <2>1. q # r /\ q \in SpansOf(w)
    BY <1>2, <1>4, <1>7 DEF Touch
  <2>2. p # a
    BY <1>2, <1>7 DEF Touch
  <2>3. CASE p = r
    <3>1. q = a + w.span[a].nbytes /\ q # a
      BY <1>2, <1>6, <1>7, <2>3 DEF Touch
    <3>2. Touch(w, a, q)
      BY <1>3, <1>7, <2>1, <2>3, <3>1 DEF Touch
    <3> QED
      BY <2>1, <3>2 DEF Parted
  <2>4. CASE p # r
    <3>1. p \in SpansOf(w) \ {a}
      BY <1>2, <1>7, <2>2, <2>4
    <3>2. Touch(w, p, q)
      <4>1. /\ v.span[q].arena = w.span[q].arena /\ v.span[q].age = w.span[q].age
            /\ v.span[q].is_alloc = w.span[q].is_alloc
        BY <1>3, <2>1
      <4> QED
        BY <1>3, <1>7, <3>1, <4>1 DEF Touch
    <3> QED
      BY <2>1, <3>1, <3>2 DEF Parted
  <2> QED
    BY <2>3, <2>4
<1> QED
  BY <1>7 DEF Parted

(* What merging made of span a and of its neighbours l and r: the span m *)
MergedSpan(w, v, a, l, r, m) ==
    /\ m \in SpansOf(v) /\ m = (IF CanMerge(w, l, a) THEN l ELSE a)
    /\ \A b \in SpansOf(v) \ {m} :
          /\ b \in SpansOf(w) \ {a}
          /\ v.span[b].arena = w.span[b].arena /\ v.span[b].age = w.span[b].age
          /\ v.span[b].is_alloc = w.span[b].is_alloc /\ v.span[b].nbytes = w.span[b].nbytes
    /\ v.span[m].arena = w.span[a].arena
    /\ \/ v.span[m].age = w.span[a].age
       \/ AllowCrossOrigin /\ CanMerge(w, l, a) /\ v.span[m].age = w.span[l].age
       \/ AllowCrossOrigin /\ CanMerge(w, a, r) /\ v.span[m].age = w.span[r].age
    /\ m + v.span[m].nbytes = IF CanMerge(w, a, r) THEN r + w.span[r].nbytes
                              ELSE a + w.span[a].nbytes

LEMMA MergedFields ==
    ASSUME NEW w, Sound(w), NEW v, Sound(v), NEW a \in SpansOf(w), NEW l, NEW r, NEW m,
           l = LeftOf(w, a), r = RightOf(w, a),
           NEW x, NEW y, NEW z, MergedBy(w, v, a, l, r, m, x, y, z)
    PROVE  MergedSpan(w, v, a, l, r, m)
<1>1. w \in World /\ v \in World /\ x \in World /\ y \in World /\ z \in World
  BY DEF Sound, MergedBy
<1>2. SpansOf(x) = SpansOf(w) /\ \A b \in SpansOf(w) : SameBut(w.span[b], x.span[b])
  BY DEF MergedBy, SameShape
<1>3. /\ CanMerge(w, l, a) => /\ l \in SpansOf(w) /\ l # a /\ l + w.span[l].nbytes = a
                              /\ w.span[l].arena = w.span[a].arena
                              /\ (AllowCrossOrigin \/ w.span[l].age = w.span[a].age)
      /\ CanMerge(w, a, r) => /\ r \in SpansOf(w) /\ r # a /\ a + w.span[a].nbytes = r
                              /\ (AllowCrossOrigin \/ w.span[a].age = w.span[r].age)
      /\ CanMerge(w, l, a) /\ CanMerge(w, a, r) => l # r
  BY NeighboursAreSpans, CanMergeFacts
<1>4. /\ m \in SpansOf(y) /\ m = (IF CanMerge(w, l, a) THEN l ELSE a)
      /\ SpansOf(y) \subseteq SpansOf(w) /\ (CanMerge(w, l, a) => a \notin SpansOf(y))
      /\ \A b \in SpansOf(y) \ {m} : SameBut(w.span[b], y.span[b])
      /\ y.span[m].arena = w.span[a].arena
      /\ (y.span[m].age = w.span[a].age \/ (CanMerge(w, l, a) /\ y.span[m].age = w.span[l].age))
      /\ m + y.span[m].nbytes = a + w.span[a].nbytes
  <2>1. CASE CanMerge(w, l, a)
    <3>1. m = l /\ CoalesceDone(x, y, l, a)
      BY <2>1 DEF MergedBy
    <3>2. /\ SpansOf(y) = SpansOf(x) \ {a} /\ \A b \in SpansOf(x) \ {l, a} : y.span[b] = x.span[b]
          /\ y.span[l].arena = x.span[l].arena
          /\ (y.span[l].age = x.span[l].age \/ y.span[l].age = x.span[a].age)
          /\ y.span[l].nbytes = x.span[l].nbytes + x.span[a].nbytes
      BY <3>1 DEF CoalesceDone
    <3>3. /\ x.span[l].arena = w.span[l].arena /\ x.span[l].age = w.span[l].age
          /\ x.span[l].nbytes = w.span[l].nbytes
          /\ x.span[a].age = w.span[a].age /\ x.span[a].nbytes = w.span[a].nbytes
      BY <1>2, <1>3, <2>1 DEF SameBut
    <3>4. PICK i \in Nat, j \in Nat : i = w.span[l].nbytes /\ j = w.span[a].nbytes
      BY <1>1, <1>3, <2>1, ExtentFacts
    <3>5. l \in Nat
      BY <1>1, <1>3, <2>1, ExtentFacts
    <3>6. l + (i + j) = (l + i) + j
      BY ONLY <3>4, <3>5
    <3>7. l + y.span[l].nbytes = a + w.span[a].nbytes
      BY <1>3, <2>1, <3>2, <3>3, <3>4, <3>6
    <3> QED
      BY <1>2, <1>3, <2>1, <3>1, <3>2, <3>3, <3>7
  <2>2. CASE ~CanMerge(w, l, a)
    <3>1. m = a /\ y = x
      BY <2>2 DEF MergedBy
    <3> QED
      BY <1>2, <2>2, <3>1 DEF SameBut
  <2> QED
    BY <2>1, <2>2
<1>5. /\ m \in SpansOf(z) /\ SpansOf(z) \subseteq SpansOf(y)
      /\ \A b \in SpansOf(z) \ {m} : z.span[b] = y.span[b]
      /\ z.span[m].arena = y.span[m].arena
      /\ (z.span[m].age = y.span[m].age \/ (CanMerge(w, a, r) /\ z.span[m].age = w.span[r].age))
      /\ m + z.span[m].nbytes = IF CanMerge(w, a, r) THEN r + w.span[r].nbytes
                                ELSE a + w.span[a].nbytes
  <2>1. CASE CanMerge(w, a, r)
    <3>1. CoalesceDone(y, z, m, r) /\ m # r /\ r \in SpansOf(y)
      BY <2>1 DEF MergedBy
    <3>2. /\ SpansOf(z) = SpansOf(y) \ {r} /\ \A b \in SpansOf(y) \ {m, r} : z.span[b] = y.span[b]
          /\ z.span[m].arena = y.span[m].arena
          /\ (z.span[m].age = y.span[m].age \/ z.span[m].age = y.span[r].age)
          /\ z.span[m].nbytes = y.span[m].nbytes + y.span[r].nbytes
      BY <3>1 DEF CoalesceDone
    <3>3. y.span[r].age = w.span[r].age /\ y.span[r].nbytes = w.span[r].nbytes
      BY <1>4, <3>1 DEF SameBut
    <3>4. PICK i \in Nat, j \in Nat : i = y.span[m].nbytes /\ j = w.span[r].nbytes
      <4>1. y.span[m].nbytes \in Nat
        BY <1>1, <1>4, ExtentFacts
      <4>2. w.span[r].nbytes \in Nat
        BY <1>1, <1>3, <2>1, ExtentFacts
      <4> QED
        BY <4>1, <4>2
    <3>5. m \in Nat
      BY <1>1, <1>4, ExtentFacts
    <3>6. m + (i + j) = (m + i) + j
      BY ONLY <3>4, <3>5
    <3>7. m + z.span[m].nbytes = r + w.span[r].nbytes
      BY <1>3, <1>4, <2>1, <3>2, <3>3, <3>4, <3>6
    <3> QED
      BY <1>4, <2>1, <3>1, <3>2, <3>3, <3>7
  <2>2. CASE ~CanMerge(w, a, r)
    <3>1. z = y
      BY <2>2 DEF MergedBy
    <3> QED
      BY <1>4, <2>2, <3>1
  <2> QED
    BY <2>1, <2>2
<1>6. v.span = z.span /\ SpansOf(v) = SpansOf(z)
  BY DEF MergedBy, SpansOf
<1>7. \A b \in SpansOf(v) \ {m} :
          /\ b \in SpansOf(w) \ {a}
          /\ v.span[b].arena = w.span[b].arena /\ v.span[b].age = w.span[b].age
          /\ v.span[b].is_alloc = w.span[b].is_alloc /\ v.span[b].nbytes = w.span[b].nbytes
  <2>1. \A b \in SpansOf(v) \ {m} : b \in SpansOf(w) \ {a}
    BY <1>4, <1>5, <1>6
  <2>2. \A b \in SpansOf(v) \ {m} : SameBut(w.span[b], v.span[b])
    BY <1>4, <1>5, <1>6
  <2> QED
    BY <2>1, <2>2 DEF SameBut
<1>8. \/ v.span[m].age = w.span[a].age
      \/ AllowCrossOrigin /\ CanMerge(w, l, a) /\ v.span[m].age = w.span[l].age
      \/ AllowCrossOrigin /\ CanMerge(w, a, r) /\ v.span[m].age = w.span[r].age
  BY <1>3, <1>4, <1>5, <1>6
<1> QED
  BY <1>4, <1>5, <1>6, <1>7, <1>8 DEF MergedSpan

(* The age of the first page of a span is that of the span. *)
LEMMA BaseAge ==
    ASSUME NEW w \in World, Tiled(w), NEW a \in SpansOf(w), NEW x, NEW g
    PROVE  a \in AgePages(w, x, g) <=> x = w.span[a].arena /\ g = w.span[a].age
<1>1. a \in Extent(w, a)
  BY ExtentFacts
<1>2. \A y, h : a \in AgePages(w, y, h) <=> y = w.span[a].arena /\ h = w.span[a].age
  BY <1>1, PageAge
<1> QED
  BY <1>2

(* A span left of one that has the age and arena of a span further right *)
LEMMA AgeBetween ==
    ASSUME NEW w \in World, Tiled(w), Convex(w),
           NEW p \in SpansOf(w), NEW q \in SpansOf(w), NEW s \in SpansOf(w), p < q, q < s,
           w.span[p].arena = w.span[s].arena, w.span[p].age = w.span[s].age
    PROVE  w.span[q].arena = w.span[p].arena /\ w.span[q].age = w.span[p].age
<1>1. PICK x, g : x = w.span[p].arena /\ g = w.span[p].age
  OBVIOUS
<1>2. p \in Extent(w, p) /\ q \in Extent(w, q) /\ s \in Extent(w, s) /\ q \in Nat
  BY ExtentFacts
<1>3. p \in AgePages(w, x, g) /\ s \in AgePages(w, x, g)
  <2>1. p \in AgePages(w, x, g) <=> x = w.span[p].arena /\ g = w.span[p].age
    BY BaseAge
  <2>2. s \in AgePages(w, x, g) <=> x = w.span[s].arena /\ g = w.span[s].age
    BY BaseAge
  <2> QED
    BY <1>1, <2>1, <2>2
<1>4. q \in AgePages(w, x, g)
  BY <1>2, <1>3 DEF Convex, IsConvex
<1>5. q \in AgePages(w, x, g) <=> x = w.span[q].arena /\ g = w.span[q].age
  BY BaseAge
<1> QED
  BY <1>1, <1>4, <1>5

LEMMA Mergeable ==
    ASSUME NEW w \in World, Tiled(w), NPages <= AllocMax,
           NEW p \in SpansOf(w), NEW q \in SpansOf(w), p + w.span[p].nbytes = q,
           ~w.span[p].is_alloc, ~w.span[q].is_alloc, w.span[p].arena = w.span[q].arena,
           ~CanMerge(w, p, q)
    PROVE  ~AllowCrossOrigin /\ w.span[p].age # w.span[q].age
<1>1. PICK i, j : i = w.span[p].nbytes /\ j = w.span[q].nbytes
  OBVIOUS
<1>2. p \in Nat /\ q \in Nat /\ i \in Nat /\ j \in Nat /\ q + j <= NPages /\ p + i = q
  BY <1>1, ExtentFacts, ExtentBound
<1>3. AllocMax \in Nat /\ NPages \in Nat
  BY SpanCacheAssumption
<1>4. i + j <= AllocMax
  BY ONLY <1>2, <1>3, NPages <= AllocMax
<1>5. p # Null /\ q # Null
  BY Sizes DEF SpansOf
<1> QED
  BY <1>1, <1>4, <1>5 DEF CanMerge

LEMMA MergedParted ==
    ASSUME NEW w, Sound(w), NEW v, Sound(v), NEW a \in SpansOf(w), ~w.span[a].is_alloc,
           NEW l, NEW r, NEW m, l = LeftOf(w, a), r = RightOf(w, a),
           MergedSpan(w, v, a, l, r, m), NPages <= AllocMax, Convex(w), Parted(w, {a})
    PROVE  Parted(v, {})
<1> SUFFICES ASSUME NEW p \in SpansOf(v), NEW q \in SpansOf(v), Touch(v, p, q)
             PROVE  FALSE
  BY DEF Parted
<1>1. w \in World /\ v \in World /\ Tiled(w)
  BY DEF Sound
<1>2. /\ CanMerge(w, l, a) => /\ l \in SpansOf(w) /\ l # a /\ l + w.span[l].nbytes = a
                              /\ w.span[l].arena = w.span[a].arena /\ ~w.span[l].is_alloc
      /\ CanMerge(w, a, r) => /\ r \in SpansOf(w) /\ r # a /\ a + w.span[a].nbytes = r
                              /\ w.span[a].arena = w.span[r].arena /\ ~w.span[r].is_alloc
      /\ CanMerge(w, l, a) /\ CanMerge(w, a, r) => l # r
  BY NeighboursAreSpans, CanMergeFacts
<1>3. /\ m \in SpansOf(v) /\ m = (IF CanMerge(w, l, a) THEN l ELSE a)
      /\ \A b \in SpansOf(v) \ {m} :
          /\ b \in SpansOf(w) \ {a}
          /\ v.span[b].arena = w.span[b].arena /\ v.span[b].age = w.span[b].age
          /\ v.span[b].is_alloc = w.span[b].is_alloc /\ v.span[b].nbytes = w.span[b].nbytes
      /\ v.span[m].arena = w.span[a].arena
      /\ \/ v.span[m].age = w.span[a].age
         \/ AllowCrossOrigin /\ CanMerge(w, l, a) /\ v.span[m].age = w.span[l].age
         \/ AllowCrossOrigin /\ CanMerge(w, a, r) /\ v.span[m].age = w.span[r].age
      /\ m + v.span[m].nbytes = IF CanMerge(w, a, r) THEN r + w.span[r].nbytes
                                ELSE a + w.span[a].nbytes
  BY DEF MergedSpan
<1>4. \A b \in SpansOf(w) : b \in Nat /\ w.span[b].nbytes \in Nat \ {0}
  BY <1>1, ExtentFacts
<1>5. CanMerge(w, l, a) => l < a
  BY <1>2, <1>4
<1>6. CanMerge(w, a, r) => a < r
  BY <1>2, <1>4
<1>7. CASE p # m /\ q # m
  <2>1. p \in SpansOf(w) \ {a} /\ q \in SpansOf(w) \ {a} /\ Touch(w, p, q)
    BY <1>3, <1>7 DEF Touch
  <2> QED
    BY <2>1 DEF Parted
<1>8. CASE p = m /\ q = m
  <2>1. m \in Nat /\ v.span[m].nbytes \in Nat \ {0}
    BY <1>1, <1>3, ExtentFacts
  <2> QED
    BY <1>8, <2>1 DEF Touch
<1>9. CASE p # m /\ q = m
  <2>1. /\ p \in SpansOf(w) \ {a} /\ ~w.span[p].is_alloc /\ w.span[p].arena = w.span[a].arena
        /\ w.span[p].age = v.span[m].age /\ p + w.span[p].nbytes = m
    BY <1>3, <1>9 DEF Touch
  <2>2. p < m
    <3>1. m \in Nat
      BY <1>1, <1>3, ExtentFacts
    <3> QED
      BY <1>4, <2>1, <3>1
  <2>3. CASE CanMerge(w, l, a)
    <3>1. m = l /\ p < l /\ ~Touch(w, p, l)
      BY <1>2, <1>3, <2>1, <2>2, <2>3 DEF Parted
    <3>2. w.span[p].age # w.span[l].age
      BY <1>2, <2>1, <2>3, <3>1 DEF Touch
    <3>3. CASE w.span[p].age = w.span[a].age
      <4>1. w.span[l].age = w.span[p].age
        BY <1>1, <1>2, <1>5, <2>1, <2>3, <3>1, <3>3, AgeBetween
      <4> QED
        BY <3>2, <4>1
    <3>4. CASE CanMerge(w, a, r) /\ w.span[p].age = w.span[r].age
      <4>1. l < r
        BY <1>2, <1>4, <1>5, <1>6, <2>3, <3>4
      <4>2. w.span[p].arena = w.span[r].arena /\ r \in SpansOf(w) /\ l \in SpansOf(w)
        BY <1>2, <2>1, <2>3, <3>4
      <4>3. w.span[l].age = w.span[p].age
        BY <1>1, <2>1, <3>1, <3>4, <4>1, <4>2, AgeBetween
      <4> QED
        BY <3>2, <4>3
    <3> QED
      BY <1>3, <2>1, <3>2, <3>3, <3>4
  <2>4. CASE ~CanMerge(w, l, a)
    <3>1. m = a /\ p + w.span[p].nbytes = a
      BY <1>3, <2>1, <2>4
    <3>2. a - 1 \in Extent(w, p)
      <4>1. PICK n \in Nat \ {0} : n = w.span[p].nbytes
        BY <1>4, <2>1
      <4>2. p \in Nat /\ a \in Nat /\ p + n = a
        BY <1>4, <2>1, <3>1, <4>1
      <4>3. a - 1 \in Nat /\ p <= a - 1 /\ a - 1 < p + n
        BY ONLY <4>1, <4>2
      <4> QED
        BY <1>1, <2>1, <4>1, <4>3, ExtentRange
    <3>3. l = p
      BY <2>1, <3>2, PagetrieFinds DEF LeftOf
    <3>4. ~AllowCrossOrigin /\ w.span[p].age # w.span[a].age
      BY <1>1, <2>1, <2>4, <3>1, <3>3, Mergeable
    <3> QED
      BY <1>3, <2>1, <3>4
  <2> QED
    BY <2>3, <2>4
<1>10. CASE p = m /\ q # m
  <2>1. /\ q \in SpansOf(w) \ {a} /\ ~w.span[q].is_alloc /\ w.span[q].arena = w.span[a].arena
        /\ w.span[q].age = v.span[m].age /\ q = m + v.span[m].nbytes
    BY <1>3, <1>10 DEF Touch
  <2>2. CASE CanMerge(w, a, r)
    <3>1. q = r + w.span[r].nbytes /\ r < q
      <4>1. q = r + w.span[r].nbytes
        BY <1>3, <2>1, <2>2
      <4>2. r \in Nat /\ w.span[r].nbytes \in Nat \ {0}
        BY <1>2, <1>4, <2>2
      <4> QED
        BY <4>1, <4>2
    <3>2. ~Touch(w, r, q)
      BY <1>2, <2>1, <2>2 DEF Parted
    <3>3. w.span[q].age # w.span[r].age
      BY <1>2, <2>1, <2>2, <3>1, <3>2 DEF Touch
    <3>4. CASE w.span[q].age = w.span[a].age
      <4>1. w.span[r].age = w.span[a].age
        BY <1>1, <1>2, <1>6, <2>1, <2>2, <3>1, <3>4, AgeBetween
      <4> QED
        BY <3>3, <3>4, <4>1
    <3>5. CASE CanMerge(w, l, a) /\ w.span[q].age = w.span[l].age
      <4>1. l < r
        BY <1>2, <1>4, <1>5, <1>6, <2>2, <3>5
      <4>2. w.span[l].arena = w.span[q].arena /\ r \in SpansOf(w) /\ l \in SpansOf(w)
        BY <1>2, <2>1, <2>2, <3>5
      <4>3. w.span[r].age = w.span[l].age
        BY <1>1, <2>1, <3>1, <3>5, <4>1, <4>2, AgeBetween
      <4> QED
        BY <3>3, <3>5, <4>3
    <3> QED
      BY <1>3, <2>1, <3>3, <3>4, <3>5
  <2>3. CASE ~CanMerge(w, a, r)
    <3>1. q = a + w.span[a].nbytes
      BY <1>3, <2>1, <2>3
    <3>2. q \in Extent(w, q)
      BY <1>1, <2>1, ExtentFacts
    <3>3. r = q
      BY <2>1, <3>1, <3>2, PagetrieFinds DEF RightOf
    <3>4. ~AllowCrossOrigin /\ w.span[q].age # w.span[a].age
      BY <1>1, <2>1, <2>3, <3>1, <3>3, Mergeable
    <3> QED
      BY <1>3, <2>1, <3>4
  <2> QED
    BY <2>2, <2>3
<1> QED
  BY <1>7, <1>8, <1>9, <1>10

-----------------------------------------------------------------------------
(* What the callers hold *)

(* The allocated spans *)
Given(w) == {a \in SpansOf(w) : w.span[a].is_alloc}

(* No call but the one that gives or takes a span touches an allocated one. *)
SameGiven(w, v) == /\ Given(v) = Given(w)
                   /\ \A a \in Given(w) : v.span[a].nbytes = w.span[a].nbytes

LEMMA SameGivenTwice ==
    ASSUME NEW w, NEW v, NEW u, SameGiven(w, v), SameGiven(v, u)
    PROVE  SameGiven(w, u)
  BY DEF SameGiven

LEMMA SameShapeGiven ==
    ASSUME NEW w, NEW v, SameShape(w, v)
    PROVE  SameGiven(w, v)
  BY DEF SameShape, SameBut, SameGiven, Given

LEMMA SameSpanGiven ==
    ASSUME NEW w, NEW v, v.span = w.span
    PROVE  SameGiven(w, v)
  BY DEF SameGiven, Given, SpansOf

LEMMA CutGiven ==
    ASSUME NEW w, NEW v, NEW a \in Loose(w), NEW c, NEW k, CutDone(w, v, a, c, k)
    PROVE  SameGiven(w, v)
<1>1. a \in SpansOf(w) /\ ~w.span[a].is_alloc
  BY DEF Loose
<1>2. ~v.span[a].is_alloc /\ ~v.span[c].is_alloc /\ c \notin SpansOf(w) /\ SpansOf(v) = SpansOf(w) \cup {c}
  BY <1>1 DEF CutDone, Kin
<1>3. \A b \in SpansOf(w) \ {a} : v.span[b].is_alloc = w.span[b].is_alloc
                                  /\ v.span[b].nbytes = w.span[b].nbytes
  BY DEF CutDone, SameBut
<1> QED
  BY <1>1, <1>2, <1>3 DEF SameGiven, Given

LEMMA SplitGiven ==
    ASSUME NEW w, NEW v, NEW a \in Loose(w), NEW s, NEW r, NEW k, SplitDone(w, v, a, s, r, k)
    PROVE  SameGiven(w, v)
<1>1. a \in SpansOf(w) /\ ~w.span[a].is_alloc
  BY DEF Loose
<1>2. /\ ~v.span[a].is_alloc /\ ~v.span[s].is_alloc /\ ~v.span[r].is_alloc
      /\ r \notin SpansOf(w) /\ (s = a \/ s \notin SpansOf(w))
      /\ SpansOf(v) = SpansOf(w) \cup {s, r}
  BY <1>1 DEF SplitDone, Kin
<1>3. \A b \in SpansOf(w) \ {a} : v.span[b].is_alloc = w.span[b].is_alloc
                                  /\ v.span[b].nbytes = w.span[b].nbytes
  BY DEF SplitDone, SameBut
<1> QED
  BY <1>1, <1>2, <1>3 DEF SameGiven, Given

LEMMA MintGiven ==
    ASSUME NEW w, NEW v, NEW ar, NEW k, NEW base, MintDone(w, v, ar, k, base)
    PROVE  SameGiven(w, v)
<1>1. /\ ~v.span[base].is_alloc /\ base \notin SpansOf(w) /\ SpansOf(v) = SpansOf(w) \cup {base}
      /\ \A b \in SpansOf(w) : v.span[b] = w.span[b]
  BY DEF MintDone, MintRecord
<1> QED
  BY <1>1 DEF SameGiven, Given

LEMMA CoalesceGiven ==
    ASSUME NEW w, NEW v, NEW l \in SpansOf(w), NEW r \in SpansOf(w), CoalesceDone(w, v, l, r),
           ~w.span[l].is_alloc, ~w.span[r].is_alloc
    PROVE  SameGiven(w, v)
<1>1. /\ ~v.span[l].is_alloc /\ SpansOf(v) = SpansOf(w) \ {r}
      /\ \A b \in SpansOf(w) \ {l, r} : v.span[b] = w.span[b]
  BY DEF CoalesceDone
<1> QED
  BY <1>1 DEF SameGiven, Given
LEMMA MergedGiven ==
    ASSUME NEW w, Sound(w), NEW v, NEW a \in Loose(w), NEW l, NEW r, NEW m,
           NEW x, NEW y, NEW z, MergedBy(w, v, a, l, r, m, x, y, z)
    PROVE  SameGiven(w, v)
<1>1. a \in SpansOf(w) /\ ~w.span[a].is_alloc
  BY DEF Loose
<1>2. SpansOf(x) = SpansOf(w) /\ \A b \in SpansOf(w) : x.span[b].is_alloc = w.span[b].is_alloc
  BY DEF MergedBy, SameShape, SameBut
<1>3. SameGiven(w, x)
  BY SameShapeGiven DEF MergedBy
<1>4. CanMerge(w, l, a) => ~w.span[l].is_alloc
  BY CanMergeFacts
<1>5. CanMerge(w, a, r) => ~w.span[r].is_alloc
  BY CanMergeFacts
<1>6. SameGiven(x, y) /\ (CanMerge(w, a, r) => r \in SpansOf(y) /\ m \in SpansOf(y)
                                               /\ ~y.span[r].is_alloc /\ ~y.span[m].is_alloc)
  <2>1. CASE CanMerge(w, l, a)
    <3>1. m = l /\ l \in SpansOf(x) /\ l # a /\ CoalesceDone(x, y, l, a)
      BY <2>1 DEF MergedBy
    <3>2. ~x.span[l].is_alloc /\ ~x.span[a].is_alloc
      BY <1>1, <1>2, <1>4, <2>1, <3>1
    <3>3. SameGiven(x, y)
      BY <1>1, <1>2, <3>1, <3>2, CoalesceGiven
    <3>4. /\ SpansOf(y) = SpansOf(x) \ {a} /\ y.span[l].is_alloc = x.span[l].is_alloc
          /\ \A b \in SpansOf(x) \ {l, a} : y.span[b] = x.span[b]
      BY <3>1 DEF CoalesceDone
    <3>5. CanMerge(w, a, r) => r \in SpansOf(y) /\ r # l
      BY <3>1 DEF MergedBy
    <3> QED
      BY <1>2, <1>5, <3>1, <3>2, <3>3, <3>4, <3>5
  <2>2. CASE ~CanMerge(w, l, a)
    <3>1. m = a /\ y = x /\ (CanMerge(w, a, r) => r \in SpansOf(y))
      BY <2>2 DEF MergedBy
    <3> QED
      BY <1>1, <1>2, <1>5, <3>1 DEF SameGiven
  <2> QED
    BY <2>1, <2>2
<1>7. SameGiven(y, z)
  <2>1. CASE CanMerge(w, a, r)
    <3>1. CoalesceDone(y, z, m, r)
      BY <2>1 DEF MergedBy
    <3> QED
      BY <1>6, <2>1, <3>1, CoalesceGiven
  <2>2. CASE ~CanMerge(w, a, r)
    BY <2>2 DEF MergedBy, SameGiven
  <2> QED
    BY <2>1, <2>2
<1>8. SameGiven(z, v)
  BY SameSpanGiven DEF MergedBy
<1> QED
  BY <1>3, <1>6, <1>7, <1>8, SameGivenTwice

LEMMA FlagKeeps ==
    ASSUME NEW w, Sound(w), NEW a \in SpansOf(w), a \in Loose(w) \/ w.span[a].is_alloc,
           NEW x \in BOOLEAN, NEW y \in BOOLEAN,
           NEW v, v = Flagged(w, a, x, y)
    PROVE  /\ Sound(v) /\ FlagDone(w, v, a, x) /\ SameBins(w, v)
           /\ v.span[a].is_alloc => Loose(v) = Loose(w) \ {a}
           /\ ~v.span[a].is_alloc => Loose(v) = (Loose(w) \ {a}) \cup {a}
           /\ (Listed(w) => Listed(v)) /\ (Counted(w) => Counted(v))
<1>1. w \in World /\ Tiled(w) /\ Classed(w) /\ Indexed(w) /\ Binned(w)
  BY DEF Sound
<1>2. PICK d \in SpanRecord : d = w.span[a]
  BY <1>1, SpanFields
<1>3. a \in Page /\ w.span \in [Page -> SpanRecord \cup {Null}]
  BY <1>1, SpanFields
<1>4. PICK e : e = [d EXCEPT !.is_alloc = x, !.is_slab = y]
  OBVIOUS
<1>5. e \in SpanRecord /\ e.is_alloc = x /\ e.age = d.age /\ e.szclass = d.szclass
      /\ e.arena = d.arena /\ e.nbytes = d.nbytes /\ e.record = d.record
  BY <1>4 DEF SpanRecord
<1>6. PICK g : g = [w.span EXCEPT ![a] = e]
  OBVIOUS
<1>7. g \in [Page -> SpanRecord \cup {Null}] /\ g[a] = e /\ \A b \in Page \ {a} : g[b] = w.span[b]
  BY <1>3, <1>5, <1>6
<1>8. v = [w EXCEPT !.span = g]
  <2>1. g = [w.span EXCEPT ![a] = [[w.span[a] EXCEPT !.is_alloc = x] EXCEPT !.is_slab = y]]
    BY <1>2, <1>4, <1>6 DEF SpanRecord
  <2> QED
    BY <1>1, <1>3, <2>1 DEF World, Flagged
<1>9. /\ v.span = g /\ v.pagetrie = w.pagetrie /\ v.epoch = w.epoch /\ v.origins = w.origins
      /\ v.mappings = w.mappings /\ v.crashed = w.crashed /\ SameBins(w, v)
      /\ v = [w EXCEPT !.span = v.span, !.pagetrie = v.pagetrie, !.epoch = v.epoch,
                       !.origins = v.origins, !.mappings = v.mappings, !.crashed = v.crashed]
  BY <1>1, <1>8 DEF World, SameBins
<1>10. v \in World
  <2>1. /\ v.span \in [Page -> SpanRecord \cup {Null}]
        /\ v.pagetrie \in [Page -> Page \cup {Null}]
        /\ v.epoch \in [Arenas -> 0 .. AgeMod - 1]
        /\ v.origins \in [Arenas -> Seq(Page)]
        /\ v.mappings \in SUBSET [arena : Arenas, addr : Page, npages : 1 .. NPages]
        /\ v.crashed \in BOOLEAN
    <3>1. /\ v.span = g /\ v.pagetrie = w.pagetrie /\ v.epoch = w.epoch
          /\ v.origins = w.origins /\ v.mappings = w.mappings /\ v.crashed = w.crashed
      BY <1>9
    <3> QED
      BY <1>1, <1>7, <3>1, WorldFields
  <2>2. v = [w EXCEPT !.span = v.span, !.pagetrie = v.pagetrie, !.epoch = v.epoch,
                      !.origins = v.origins, !.mappings = v.mappings, !.crashed = v.crashed]
    BY <1>9
  <2> QED
    BY <1>1, <2>1, <2>2, WorldUpdate2
<1>11. SpansOf(v) = SpansOf(w)
  BY <1>3, <1>5, <1>7, <1>9, RecordFields DEF SpansOf
<1>12. \A b \in SpansOf(w) :
          /\ v.span[b].age = w.span[b].age /\ v.span[b].arena = w.span[b].arena
          /\ v.span[b].szclass = w.span[b].szclass
          /\ v.span[b].nbytes = w.span[b].nbytes /\ v.span[b].record = w.span[b].record
  BY <1>2, <1>5, <1>7, <1>9 DEF SpansOf
<1>13. FlagDone(w, v, a, x)
  BY <1>5, <1>7, <1>9, <1>11, <1>12 DEF FlagDone, SpansOf
<1>14. /\ Binned(v)
       /\ v.span[a].is_alloc => Loose(v) = Loose(w) \ {a}
       /\ ~v.span[a].is_alloc => Loose(v) = (Loose(w) \ {a}) \cup {a}
  <2>1. PICK T : T = {a}
    OBVIOUS
  <2>2. v.bucket = w.bucket /\ (\A b \in Page \ T : v.span[b] = w.span[b])
        /\ \A b \in T : b \in SpansOf(w) => b \in Loose(w) \/ w.span[b].is_alloc
    BY <1>7, <1>9, <2>1 DEF SameBins
  <2>3. /\ Binned(v)
        /\ Loose(v) = (Loose(w) \ T) \cup {b \in SpansOf(v) : b \in T /\ ~v.span[b].is_alloc}
    BY <1>1, <1>10, <2>2, Respan
  <2> QED
    BY <1>11, <2>1, <2>3
<1>15. \A b \in SpansOf(w) : Extent(v, b) = Extent(w, b)
  BY <1>12 DEF Extent
<1>16. Mapped(v) = Mapped(w)
  BY <1>9 DEF Mapped
<1>17. Tiled(v) /\ Indexed(v)
  BY <1>1, <1>9, <1>11, <1>15, <1>16 DEF Tiled, Indexed
<1>18. Classed(v)
  BY <1>1, <1>11, <1>12 DEF Classed
<1>19. Listed(w) => Listed(v)
  BY <1>9, <1>11, <1>12 DEF Listed
<1>20. Counted(w) => Counted(v)
  BY <1>9, SameBinsCounts
<1> QED
  BY <1>9, <1>10, <1>13, <1>14, <1>17, <1>18, <1>19, <1>20 DEF Sound

-----------------------------------------------------------------------------
(* Where a span comes from *)

LEMMA FindFacts ==
    ASSUME NEW w \in World, NEW ar \in Arenas, NEW k \in Class,
           NEW i, i = FindNonemptyBin(w, ar, k), i # NoClass
    PROVE  i \in Class /\ i >= k /\ i \in w.bitmap[ar]
<1>1. PICK S : S = {j \in w.bitmap[ar] : j >= k}
  OBVIOUS
<1>2. S \subseteq Class /\ S \subseteq Nat
  BY <1>1, WorldFields, ClassFacts
<1>3. S # {} /\ i = Min(S)
  BY <1>1 DEF FindNonemptyBin
<1>4. i \in S
  BY <1>2, <1>3, MinNat
<1> QED
  BY <1>1, <1>2, <1>4

LEMMA NoClassFacts == \A k \in Class : k # NoClass
  BY ClassFacts DEF NoClass

(* A step of cutting, minting, popping or merging: v is sound, holds what  *)
(* w holds, and a is the span that came into the hands of the call.        *)
Taken(w, v, a) ==
    /\ Sound(v) /\ Listed(v) /\ SameGiven(w, v) /\ a \in Loose(v)
    /\ Loose(w) = {} => Loose(v) = {a} /\ (Counted(w) => Counted(v))
    /\ Ordered(w, v) /\ Parting(w, v, {a})

LEMMA PartedBut ==
    ASSUME NEW w, NEW v, Parting(w, v, {}), NEW X
    PROVE  Parting(w, v, X)
  BY DEF Parting, Parted

LEMMA SameShapeParting ==
    ASSUME NEW w, NEW v, SameShape(w, v)
    PROVE  Parting(w, v, {})
  BY SameShapeParted DEF Parting

LEMMA PopTakes ==
    ASSUME NEW w, Sound(w), Listed(w), NEW b \in Bins, ~BinEmpty(w, b),
           NEW v, v = BinPop(w, b), NEW a, a = NextOut(w, b)
    PROVE  Taken(w, v, a) /\ v.span[a].szclass = b[2] /\ SameShape(w, v)
           /\ Parting(w, v, {})
<1>1. w \in World /\ Tiled(w) /\ Classed(w) /\ Indexed(w) /\ Binned(w)
  BY DEF Sound
<1>2. /\ a \in SpansOf(w) /\ ~w.span[a].is_alloc /\ BinOf(w, a) = b
      /\ v \in World /\ SameShape(w, v) /\ Binned(v) /\ Loose(v) = Loose(w) \cup {a}
  BY <1>1, BinPopKeeps
<1>3. Sound(v) /\ Listed(v)
  BY <1>1, <1>2, SameShapeKeeps, SameShapeListed DEF Sound
<1>4. v.span[a].szclass = b[2]
  <2>1. v.span[a].szclass = w.span[a].szclass
    BY <1>2 DEF SameShape, SameBut
  <2> QED
    BY <1>1, <1>2, <2>1, SpanFields
<1>5. (Counted(w) => Counted(v)) /\ (Marked(w) => Marked(v))
  <2>1. PICK s : s = FirstBucket(w, b)
    OBVIOUS
  <2>2. s \in States /\ a \in w.bucket[b][s] /\ w.span[a].state = s /\ TakeDone(w, v, a, b, s)
    BY <1>1, <2>1, BinPopFields
  <2>3. TakeDone(w, v, a, BinOf(w, a), w.span[a].state) /\ a \notin Loose(w)
    BY <1>2, <2>2 DEF Loose
  <2>4. Counted(w) => Counted(v)
    BY <1>1, <1>2, <2>3, TakeCounts
  <2>5. Marked(w) => Marked(v)
    BY <1>1, <2>2, TakeMarked
  <2> QED
    BY <2>4, <2>5
<1>6. Ordered(w, v) /\ Parting(w, v, {})
  BY <1>2, <1>5, SameShapeOrdered, SameShapeParting DEF Marking
<1>7. Parting(w, v, {a})
  BY <1>6, PartedBut
<1> QED
  BY <1>2, <1>3, <1>4, <1>5, <1>6, <1>7, SameShapeGiven DEF Taken

LEMMA MintListed ==
    ASSUME NEW w, Sound(w), Listed(w), NEW v, Sound(v), NEW ar \in Arenas, NEW k, NEW base,
           MintDone(w, v, ar, k, base)
    PROVE  Listed(v)
<1>1. w \in World /\ v \in World
  BY DEF Sound
<1>2. PICK s \in Seq(Page) : s = w.origins[ar]
  BY <1>1, WorldFields
<1>3. base \in Page /\ base \notin SpansOf(w) /\ SpansOf(v) = SpansOf(w) \cup {base}
  BY DEF MintDone
<1>4. v.origins[ar] = <<base>> \o s \/ v.origins[ar] = s
  BY <1>2 DEF MintDone
<1>5. \A a : InSeq(s, a) => InSeq(v.origins[ar], a)
  <2> SUFFICES ASSUME NEW a, NEW i \in 1 .. Len(s), s[i] = a, v.origins[ar] = <<base>> \o s
               PROVE  InSeq(v.origins[ar], a)
    BY <1>2, <1>4 DEF InSeq
  <2>1. <<base>> \in Seq(Page) /\ <<base>> \o s \in Seq(Page) /\ i + 1 \in 1 .. Len(<<base>> \o s)
        /\ (<<base>> \o s)[i + 1] = s[i]
    BY ONLY <1>2, <1>3, i \in 1 .. Len(s)
  <2>2. i + 1 \in DOMAIN (<<base>> \o s)
    BY ONLY <2>1
  <2> QED
    BY <2>1, <2>2 DEF InSeq
<1>6. ASSUME NEW a \in SpansOf(v), v.span[a].record # 0
      PROVE  InSeq(v.origins[v.span[a].arena], a)
  <2>1. CASE a = base
    <3>1. v.span[a].arena = ar /\ UnmapOnTermination
      BY <1>6, <2>1 DEF MintDone, MintRecord
    <3>2. v.origins[ar] = <<base>> \o s
      BY <1>2, <3>1 DEF MintDone
    <3>3. <<base>> \in Seq(Page) /\ 1 \in 1 .. Len(<<base>> \o s) /\ (<<base>> \o s)[1] = base
          /\ <<base>> \o s \in Seq(Page)
      BY ONLY <1>2, <1>3
    <3>4. 1 \in DOMAIN (<<base>> \o s)
      BY ONLY <3>3
    <3> QED
      BY <2>1, <3>1, <3>2, <3>3, <3>4 DEF InSeq
  <2>2. CASE a # base
    <3>1. a \in SpansOf(w) /\ v.span[a] = w.span[a]
      BY <1>3, <2>2 DEF MintDone
    <3>2. InSeq(w.origins[w.span[a].arena], a)
      BY <1>6, <3>1 DEF Listed
    <3>3. CASE w.span[a].arena = ar
      BY <1>2, <1>5, <3>1, <3>2, <3>3
    <3>4. CASE w.span[a].arena # ar
      <4>1. w.span[a].arena \in Arenas
        BY <1>1, <3>1, SpanFields, RecordFields
      <4>2. v.origins[w.span[a].arena] = w.origins[w.span[a].arena]
        BY <3>4, <4>1 DEF MintDone
      <4> QED
        BY <3>1, <3>2, <4>2
    <3> QED
      BY <3>3, <3>4
  <2> QED
    BY <2>1, <2>2
<1> QED
  BY <1>6 DEF Listed

LEMMA MintTakes ==
    ASSUME NEW w, Sound(w), Listed(w), NEW ar \in Arenas, NEW k \in Class, NEW base \in Page,
           base .. (base + ClassPages[k] - 1) \subseteq Page \ Mapped(w),
           base .. (base + ClassPages[k] - 1) \cap MappedPages(stranded) = {},
           NEW v, v = MintSpan(w, ar, k, base)
    PROVE  Taken(w, v, base) /\ v.span[base].nbytes = ClassPages[k]
           /\ MintDone(w, v, ar, k, base) /\ Parting(w, v, {})
<1>1. /\ Sound(v) /\ MintDone(w, v, ar, k, base) /\ Loose(v) = Loose(w) \cup {base}
      /\ Counted(w) => Counted(v)
  BY MintKeeps
<1>4. Ordered(w, v)
  <2>1. Tidy(w, v) /\ Calm(w, v)
    BY <1>1, MintTidy
  <2>2. Aging(w, v) /\ Rooting(w, v)
    BY <1>1, MintAges
  <2>3. Marked(w) => Marked(v)
    BY MintKeeps
  <2>4. Clearing(w, v)
    <3>1. v.mappings = w.mappings \cup {NewMapping(ar, k, base)}
      BY <1>1 DEF MintDone
    <3>2. MapExtent(NewMapping(ar, k, base)) = base .. (base + ClassPages[k] - 1)
      BY DEF NewMapping, MapExtent
    <3>3. Mapped(v) = Mapped(w) \cup (base .. (base + ClassPages[k] - 1))
      <4>1. PICK n : n = NewMapping(ar, k, base)
        OBVIOUS
      <4>2. MappedPages(w.mappings \cup {n}) = MappedPages(w.mappings) \cup MappedPages({n})
        BY MappedUnion
      <4>3. MappedPages({n}) = base .. (base + ClassPages[k] - 1)
        BY <3>2, <4>1, MappedOne
      <4> QED
        BY <3>1, <4>1, <4>2, <4>3 DEF Mapped
    <3> QED
      BY <3>3 DEF Clearing, Clear
  <2> QED
    BY <2>1, <2>2, <2>3, <2>4, OrderedBy
<1>5. Parting(w, v, {})
  BY <1>1, MintParted DEF Parting, Aged
<1>6. Parting(w, v, {base})
  BY <1>5, PartedBut
<1>2. Listed(v)
  BY <1>1, MintListed
<1>3. v.span[base].nbytes = ClassPages[k]
  BY <1>1 DEF MintDone, MintRecord
<1> QED
  BY <1>1, <1>2, <1>3, <1>4, <1>5, <1>6, MintGiven DEF Taken

(* How a source came about *)
Popped(w, v, a, ar, i) ==
    /\ i \in Class /\ ~BinEmpty(w, <<ar, i>>)
    /\ v = BinPop(w, <<ar, i>>) /\ a = NextOut(w, <<ar, i>>)

Minted(w, v, a, ar, j) ==
    /\ j \in Class /\ a \in Page
    /\ a .. (a + ClassPages[j] - 1) \subseteq Page \ Mapped(w)
    /\ a .. (a + ClassPages[j] - 1) \cap MappedPages(stranded) = {}
    /\ v = MintSpan(w, ar, j, a)

(* Where the OS places a mapping, nothing is mapped. *)
LEMMA FreeRunFacts ==
    ASSUME NEW n, NEW base \in FreeRuns(n)
    PROVE  /\ base \in Page
           /\ base .. (base + n - 1) \subseteq Page \ Mapped(Now)
           /\ base .. (base + n - 1) \cap MappedPages(stranded) = {}
<1>1. base \in MapBases
      /\ base .. (base + n - 1) \subseteq Page \ MappedPages(mappings \cup stranded)
  BY DEF FreeRuns
<1>2. MappedPages(mappings \cup stranded) = Mapped(Now) \cup MappedPages(stranded)
  BY MappedUnion DEF Mapped, Now
<1> QED
  BY <1>1, <1>2, SpanCacheAssumption

LEMMA SourceKinds ==
    ASSUME Sound(Now), NEW ar \in Arenas, NEW k \in Class, NEW o \in Sources(ar, k)
    PROVE  \/ \E i \in Class : /\ i >= k /\ (IsOverfit(ar, k) <=> i > k)
                               /\ Popped(Now, o.w, o.a, ar, i)
           \/ /\ IsOverfit(ar, k) <=> NewSpanClass > k
              /\ FindNonemptyBin(Now, ar, k) = NoClass
              /\ Minted(Now, o.w, o.a, ar, MintClass(k))
<1>1. PICK w : w = Now
  OBVIOUS
<1>2. w \in World
  BY <1>1 DEF Sound
<1>3. PICK i : i = FindNonemptyBin(Now, ar, k)
  OBVIOUS
<1>4. MintClass(k) \in Class
  BY SpanCacheAssumption DEF MintClass
<1>5. CASE i = NoClass
  <2>1. PICK base \in FreeRuns(ClassPages[MintClass(k)]) :
           o = [w |-> MintSpan(Now, ar, MintClass(k), base), a |-> base]
    BY <1>3, <1>5 DEF Sources
  <2>2. base .. (base + ClassPages[MintClass(k)] - 1) \subseteq Page \ Mapped(Now)
        /\ base .. (base + ClassPages[MintClass(k)] - 1) \cap MappedPages(stranded) = {}
    BY <2>1, FreeRunFacts
  <2>3. base \in Page
    BY <2>1, FreeRunFacts
  <2>4. o.w = MintSpan(Now, ar, MintClass(k), base) /\ o.a = base
    BY <2>1
  <2>5. IsOverfit(ar, k) <=> NewSpanClass > k
    BY <1>3, <1>5 DEF IsOverfit
  <2> QED
    BY <1>3, <1>4, <1>5, <2>2, <2>3, <2>4, <2>5 DEF Minted
<1>6. CASE i # NoClass
  <2>1. i \in Class /\ i >= k
    BY <1>1, <1>2, <1>3, <1>6, FindFacts
  <2>2. ~BinEmpty(Now, <<ar, i>>) /\ o = [w |-> BinPop(Now, <<ar, i>>), a |-> NextOut(Now, <<ar, i>>)]
    BY <1>3, <1>6 DEF Sources
  <2>3. o.w = BinPop(Now, <<ar, i>>) /\ o.a = NextOut(Now, <<ar, i>>)
    BY <2>2
  <2>4. IsOverfit(ar, k) <=> i > k
    BY <1>3, <1>6 DEF IsOverfit
  <2> QED
    BY <2>1, <2>2, <2>3, <2>4 DEF Popped
<1> QED
  BY <1>5, <1>6

LEMMA SourcesTake ==
    ASSUME Sound(Now), Listed(Now), NEW ar \in Arenas, NEW k \in Class, NEW o \in Sources(ar, k)
    PROVE  /\ Taken(Now, o.w, o.a) /\ Parting(Now, o.w, {})
           /\ o.w.span[o.a].szclass >= k
           /\ IsOverfit(ar, k) => ClassPages[k] < o.w.span[o.a].nbytes
<1>1. PICK w, v, a : w = Now /\ v = o.w /\ a = o.a
  OBVIOUS
<1>2. ASSUME NEW i \in Class, i >= k, IsOverfit(ar, k) <=> i > k, Popped(w, v, a, ar, i)
      PROVE  /\ Taken(w, v, a) /\ Parting(w, v, {}) /\ v.span[a].szclass >= k
             /\ IsOverfit(ar, k) => ClassPages[k] < v.span[a].nbytes
  <2>1. PICK b \in Bins : b = <<ar, i>>
    BY DEF Bins
  <2>2. ~BinEmpty(w, b) /\ v = BinPop(w, b) /\ a = NextOut(w, b)
    BY <1>2, <2>1 DEF Popped
  <2>3. Taken(w, v, a) /\ Parting(w, v, {}) /\ v.span[a].szclass = i
    BY <1>1, <2>1, <2>2, PopTakes
  <2>4. v \in World /\ a \in SpansOf(v) /\ v.span[a].szclass = SpanClass(v.span[a].nbytes)
    BY <2>3 DEF Taken, Sound, Classed, Loose
  <2>5. v.span[a].nbytes \in 1 .. NPages
    BY <2>4, SpanFields, RecordFields
  <2>6. i > k => ClassPages[k] < v.span[a].nbytes
    BY <2>3, <2>4, <2>5, HigherIsLarger
  <2> QED
    BY <1>2, <2>3, <2>6
<1>3. ASSUME IsOverfit(ar, k) <=> NewSpanClass > k, Minted(w, v, a, ar, MintClass(k))
      PROVE  /\ Taken(w, v, a) /\ Parting(w, v, {}) /\ v.span[a].szclass >= k
             /\ IsOverfit(ar, k) => ClassPages[k] < v.span[a].nbytes
  <2>1. PICK j : j = MintClass(k)
    OBVIOUS
  <2>2. j \in Class /\ j >= k /\ (NewSpanClass > k => j > k)
    BY <1>3, <2>1, ClassFacts, SpanCacheAssumption DEF Minted, MintClass
  <2>3. Taken(w, v, a) /\ v.span[a].nbytes = ClassPages[j] /\ MintDone(w, v, ar, j, a)
        /\ Parting(w, v, {})
    BY <1>1, <1>3, <2>1, MintTakes DEF Minted
  <2>4. v.span[a].szclass = j
    BY <2>3 DEF MintDone, MintRecord
  <2>5. j > k => ClassPages[k] < ClassPages[j]
    BY <2>2, ClassFacts
  <2> QED
    BY <1>3, <2>2, <2>3, <2>4, <2>5
<1> QED
  BY <1>1, <1>2, <1>3, SourceKinds

(* Larger than the class below *)
Nearly(n, k) == \A j \in Class : j < k => ClassPages[j] < n

(* The class below ends one page short: what does not fit in it has the    *)
(* size of this one.  It is so for 1 to 8 pages, and never above.          *)
Snug(k) == k = 0 \/ ClassPages[k] = ClassPages[k - 1] + 1

SnugGets == \A g \in Gets : Snug(g[1])

(* A span of this class or a higher one does not fit in the class below.   *)
LEMMA ClassHolds ==
    ASSUME NEW w, Sound(w), NEW a \in SpansOf(w), NEW k \in Class,
           w.span[a].szclass >= k
    PROVE  Nearly(w.span[a].nbytes, k)
<1>1. w \in World /\ w.span[a].szclass = SpanClass(w.span[a].nbytes)
  BY DEF Sound, Classed
<1>2. PICK n \in 1 .. NPages : n = w.span[a].nbytes
  BY <1>1, SpanFields, RecordFields
<1>3. ASSUME NEW j \in Class, j < k PROVE ClassPages[j] < n
  <2>1. PICK c : c = SpanClass(n)
    OBVIOUS
  <2>2. c \in Class /\ c >= k
    BY <1>1, <1>2, <2>1, SpanClassFits
  <2>3. c > j
    BY <1>3, <2>2, ClassFacts
  <2>4. n > ClassPages[j]
    BY <2>1, <2>3, HigherIsLarger
  <2> QED
    BY <1>2, <2>4, ClassFacts
<1> QED
  BY <1>2, <1>3 DEF Nearly

LEMMA SnugHolds ==
    ASSUME NEW n \in Nat \ {0}, NEW k \in Class, Nearly(n, k), Snug(k)
    PROVE  n >= ClassPages[k]
<1>1. CASE k = 0
  BY <1>1, SpanCacheAssumption
<1>2. CASE k # 0
  <2>1. k \in Nat /\ k - 1 \in 0 .. k
    BY <1>2, ClassFacts
  <2>2. k - 1 \in Class /\ k - 1 < k
    BY <2>1, ClassFacts
  <2>3. ClassPages[k - 1] < n /\ ClassPages[k - 1] \in Nat
    BY <2>2, ClassFacts DEF Nearly
  <2> QED
    BY <1>2, <2>3 DEF Snug
<1> QED
  BY <1>1, <1>2

(* What has the size of a class does not fit in the class below. *)
LEMMA HoldsNearly ==
    ASSUME NEW n \in Nat, NEW k \in Class, n >= ClassPages[k]
    PROVE  Nearly(n, k)
  BY ClassFacts DEF Nearly

(* The source after the cut, if it is larger than asked for *)
LEMMA FittedTakes ==
    ASSUME Sound(Now), Listed(Now), NEW ar \in Arenas, NEW k \in Class, NEW o \in Sources(ar, k),
           NEW f, f = Fitted(ar, k, o)
    PROVE  /\ Taken(Now, f.w, f.a)
           /\ IsOverfit(ar, k) => f.w.span[f.a].nbytes = ClassPages[k]
           /\ Nearly(f.w.span[f.a].nbytes, k)
<1>1. PICK w, v, a : w = Now /\ v = o.w /\ a = o.a
  OBVIOUS
<1>2. Taken(w, v, a) /\ (IsOverfit(ar, k) => ClassPages[k] < v.span[a].nbytes)
      /\ Parting(w, v, {})
  BY <1>1, SourcesTake
<1>3. CASE ~IsOverfit(ar, k)
  <2>1. f.w = v /\ f.a = a
    BY <1>1, <1>3 DEF Fitted
  <2>2. v.span[a].szclass >= k /\ Sound(v) /\ a \in SpansOf(v)
    BY <1>1, <1>2, SourcesTake DEF Taken, Loose
  <2>3. Nearly(v.span[a].nbytes, k)
    BY <2>2, ClassHolds
  <2> QED
    BY <1>1, <1>2, <1>3, <2>1, <2>3
<1>4. CASE IsOverfit(ar, k)
  <2>1. PICK u, c : u = CutoutSpan(v, a, k) /\ c = CutAddr(v, a, k)
    OBVIOUS
  <2>2. f.w = u /\ f.a = c
    BY <1>1, <1>4, <2>1 DEF Fitted
  <2>3. /\ Sound(u) /\ CutDone(v, u, a, c, k) /\ Loose(u) = (Loose(v) \ {a}) \cup {c}
        /\ Counted(v) => Counted(u)
    BY <1>2, <1>4, <2>1, CutoutKeeps DEF Taken
  <2>4. Listed(u)
    <3> SUFFICES ASSUME NEW b \in SpansOf(u), u.span[b].record # 0
                 PROVE  InSeq(u.origins[u.span[b].arena], b)
      BY DEF Listed
    <3>1. b \in SpansOf(v) /\ u.span[b].record = v.span[b].record /\ u.span[b].arena = v.span[b].arena
          /\ u.origins = v.origins
      <4>1. a \in SpansOf(v)
        BY <1>2 DEF Taken, Loose
      <4>2. b # c /\ SpansOf(u) = SpansOf(v) \cup {c} /\ u.origins = v.origins
        BY <2>3 DEF CutDone
      <4>3. b # a => u.span[b].record = v.span[b].record /\ u.span[b].arena = v.span[b].arena
        BY <2>3, <4>2 DEF CutDone, SameBut
      <4>4. u.span[a].record = v.span[a].record /\ u.span[a].arena = v.span[a].arena
        BY <2>3 DEF CutDone, Kin
      <4> QED
        BY <4>2, <4>3, <4>4
    <3> QED
      BY <1>2, <3>1 DEF Taken, Listed
  <2>5. SameGiven(w, u)
    BY <1>2, <2>3, CutGiven, SameGivenTwice DEF Taken
  <2>6. u.span[c].nbytes = ClassPages[k]
    BY <2>3 DEF CutDone
  <2>7. Nearly(u.span[c].nbytes, k)
    BY <2>6, ClassFacts, HoldsNearly
  <2>8. Sound(v) /\ a \in Loose(v) /\ a \in SpansOf(v) /\ Ordered(w, v)
    BY <1>2 DEF Taken, Loose
  <2>9. Ordered(v, u)
    <3>1. Tidy(v, u) /\ Calm(v, u)
      BY <2>3, <2>8, CutTidy
    <3>2. Aging(v, u) /\ Rooting(v, u)
      BY <2>3, <2>8, CutAges
    <3>3. Marked(v) => Marked(u)
      BY <1>2, <1>4, <2>1, <2>8, CutoutKeeps
    <3>4. Clearing(v, u)
      BY <2>3, SameMapped DEF CutDone
    <3> QED
      BY <3>1, <3>2, <3>3, <3>4, OrderedBy
  <2>10. Ordered(w, u)
    BY <2>8, <2>9, OrderedTwice
  <2>11. Parting(w, u, {c})
    BY <1>2, <2>3, <2>8, CutParted DEF Parting
  <2> QED
    BY <1>1, <1>2, <2>2, <2>3, <2>4, <2>5, <2>6, <2>7, <2>10, <2>11 DEF Taken
<1> QED
  BY <1>3, <1>4

-----------------------------------------------------------------------------
(* The steps *)

(* Nothing is loose after the step if nothing was before. *)
Clean(w, v) == Loose(w) = {} => Loose(v) = {} /\ (Counted(w) => Counted(v))

(* A step that gives and takes nothing *)
Kept(w, v) == /\ Sound(v) /\ Listed(v) /\ SameGiven(w, v)
              /\ Ordered(w, v) /\ Parting(w, v, {})

HeldRecord == [addr : Page, class : Class, align : Nat \ {0}]

(* What h asked for: a multiple of the alignment, and more than the class  *)
(* below, which is the size of the class where the requests are snug.      *)
Fits(w, h) == /\ Nearly(w.span[h.addr].nbytes, h.class)
              /\ SnugGets => w.span[h.addr].nbytes >= ClassPages[h.class]
              /\ h.addr % h.align = 0

(* A step that gives the span of h *)
Gave(w, v, h) ==
    /\ Sound(v) /\ Listed(v) /\ Ordered(w, v) /\ Parting(w, v, {})
    /\ Fits(v, h) /\ h \in HeldRecord /\ h.addr \notin Given(w)
    /\ Given(v) = Given(w) \cup {h.addr}
    /\ \A a \in Given(w) : v.span[a].nbytes = w.span[a].nbytes

(* What v holds has the sizes it has in w. *)
SameSizes(w, v) == \A b \in Given(v) : v.span[b].nbytes = w.span[b].nbytes

(* A step that takes back the span of h *)
Took(w, v, h) ==
    /\ Sound(v) /\ Listed(v) /\ Ordered(w, v) /\ Parting(w, v, {})
    /\ h.addr \in Given(w) /\ Given(v) = Given(w) \ {h.addr}
    /\ SameSizes(w, v)

LEMMA BinnedKept ==
    ASSUME NEW w, NEW v, NEW a, Taken(w, v, a), Parting(w, v, {}), NEW u, u = BinPut(v, a)
    PROVE  Kept(w, u) /\ Clean(w, u)
<1>1. v \in World /\ Tiled(v) /\ Classed(v) /\ Indexed(v) /\ Binned(v) /\ a \in Loose(v)
      /\ Listed(v) /\ SameGiven(w, v)
  BY DEF Taken, Sound
<1>2. u \in World /\ SameShape(v, u) /\ Binned(u) /\ Loose(u) = Loose(v) \ {a}
  BY <1>1, BinPutKeeps
<1>3. Sound(u) /\ Listed(u)
  BY <1>1, <1>2, SameShapeKeeps, SameShapeListed DEF Sound
<1>4. SameGiven(w, u)
  BY <1>1, <1>2, SameShapeGiven, SameGivenTwice
<1>5. Counted(v) => Counted(u)
  BY <1>1, BinPutCounts
<1>6. Clean(w, u)
  BY <1>2, <1>5 DEF Clean, Taken
<1>7. Ordered(w, u)
  <2>1. a \in SpansOf(v)
    BY <1>1 DEF Loose
  <2>2. Marked(v) => Marked(u)
    BY <1>1, <2>1, BinPutMarked
  <2>3. Ordered(v, u)
    BY <1>2, <2>2, SameShapeOrdered DEF Marking
  <2> QED
    BY <2>3, OrderedTwice DEF Taken
<1>8. Parting(w, u, {})
  BY <1>2, SameShapeParted DEF Parting
<1> QED
  BY <1>3, <1>4, <1>6, <1>7, <1>8 DEF Kept

LEMMA DeliverGives ==
    ASSUME NEW w, NEW v, NEW a, Taken(w, v, a), NEW slab \in BOOLEAN,
           NEW u, u = Flagged(v, a, TRUE, slab),
           NEW h \in HeldRecord, h.addr = a, Fits(v, h)
    PROVE  /\ Gave(w, u, h) /\ Clean(w, u)
           /\ u.span[a].nbytes = v.span[a].nbytes
           /\ FlagDone(v, u, a, TRUE)
<1>1. Sound(v) /\ a \in Loose(v) /\ Listed(v) /\ SameGiven(w, v) /\ a \in SpansOf(v)
      /\ ~v.span[a].is_alloc
  BY DEF Taken, Loose
<1>2. /\ Sound(u) /\ FlagDone(v, u, a, TRUE) /\ Loose(u) = Loose(v) \ {a}
      /\ Listed(u) /\ (Counted(v) => Counted(u))
  <2>1. /\ Sound(u) /\ FlagDone(v, u, a, TRUE)
        /\ u.span[a].is_alloc => Loose(u) = Loose(v) \ {a}
        /\ (Listed(v) => Listed(u)) /\ (Counted(v) => Counted(u))
    <3>1. Sound(v) /\ a \in Loose(v) /\ a \in SpansOf(v)
      BY <1>1
    <3>2. Sound(u) /\ FlagDone(v, u, a, TRUE)
      BY ONLY <3>1, slab \in BOOLEAN, u = Flagged(v, a, TRUE, slab), FlagKeeps
    <3>3. u.span[a].is_alloc => Loose(u) = Loose(v) \ {a}
      BY ONLY <3>1, slab \in BOOLEAN, u = Flagged(v, a, TRUE, slab), FlagKeeps
    <3>4. (Listed(v) => Listed(u)) /\ (Counted(v) => Counted(u))
      BY ONLY <3>1, slab \in BOOLEAN, u = Flagged(v, a, TRUE, slab), FlagKeeps
    <3> QED
      BY <3>2, <3>3, <3>4
  <2>2. u.span[a].is_alloc
    BY <2>1 DEF FlagDone
  <2> QED
    BY <1>1, <2>1, <2>2
<1>3. /\ SpansOf(u) = SpansOf(v) /\ u.span[a].is_alloc
      /\ \A b \in SpansOf(v) \ {a} : u.span[b] = v.span[b]
      /\ \A b \in SpansOf(v) : u.span[b].nbytes = v.span[b].nbytes
  BY <1>2 DEF FlagDone
<1>4. Given(u) = Given(v) \cup {a} /\ a \notin Given(v)
  BY <1>1, <1>3 DEF Given
<1>5. Given(v) = Given(w) /\ \A b \in Given(w) : v.span[b].nbytes = w.span[b].nbytes
  BY <1>1 DEF SameGiven
<1>6. \A b \in Given(w) : u.span[b].nbytes = w.span[b].nbytes
  BY <1>3, <1>5 DEF Given
<1>7. Gave(w, u, h)
  <2>1. u.span[h.addr].nbytes = v.span[h.addr].nbytes
    BY <1>1, <1>3
  <2>2. Fits(u, h)
    BY <2>1 DEF Fits
  <2>3. SameBins(v, u)
    BY <1>1, FlagKeeps
  <2>4. Ordered(v, u)
    BY <1>2, <2>3, FlagOrdered
  <2>5. Ordered(w, u)
    BY <2>4, OrderedTwice DEF Taken
  <2>6. Parting(w, u, {})
    BY <1>2, GivenParted DEF Taken, Parting
  <2> QED
    BY <1>2, <1>4, <1>5, <1>6, <2>2, <2>5, <2>6 DEF Gave
<1>8. Clean(w, u)
  BY <1>2 DEF Clean, Taken
<1> QED
  BY <1>1, <1>2, <1>3, <1>7, <1>8

(* scache_get_span *)

LEMMA GetSpanGives ==
    ASSUME Sound(Now), Listed(Now), NEW ar \in Arenas, NEW k \in Class, NEW slab \in BOOLEAN,
           GetSpan(ar, k, slab), SnugGets => Snug(k)
    PROVE  \E v, h : /\ Become(v) /\ held' = held \cup {h}
                     /\ Gave(Now, v, h) /\ Clean(Now, v)
<1>1. PICK o \in Sources(ar, k) :
         Deliver(Fitted(ar, k, o).w, Fitted(ar, k, o).a, k, slab, 1)
  BY DEF GetSpan
<1>2. PICK v, a : v = Fitted(ar, k, o).w /\ a = Fitted(ar, k, o).a
  OBVIOUS
<1>3. PICK u : u = Flagged(v, a, TRUE, slab)
  OBVIOUS
<1>4. PICK h : h = [addr |-> a, class |-> k, align |-> 1]
  OBVIOUS
<1>5. Become(u) /\ held' = held \cup {h}
  BY <1>1, <1>2, <1>3, <1>4 DEF Deliver, Flagged
<1>6. Taken(Now, v, a) /\ Nearly(v.span[a].nbytes, k)
  BY <1>2, FittedTakes
<1>7. h \in HeldRecord /\ h.addr = a
  BY <1>4, <1>6 DEF Taken, Loose, SpansOf, HeldRecord
<1>8. Fits(v, h)
  <2>1. a \in Nat
    BY <1>6, Sizes DEF Taken, Loose, SpansOf, Page
  <2>2. a % 1 = 0
    BY <2>1
  <2>3. v.span[a].nbytes \in Nat \ {0}
    <3>1. v \in World /\ a \in SpansOf(v)
      BY <1>6 DEF Taken, Loose, Sound
    <3> QED
      BY <3>1, SpanFields, RecordFields
  <2>4. SnugGets => v.span[a].nbytes >= ClassPages[k]
    BY <1>6, <2>3, SnugHolds
  <2> QED
    BY <1>4, <1>6, <2>2, <2>4 DEF Fits
<1> QED
  BY <1>3, <1>5, <1>6, <1>7, <1>8, DeliverGives

LEMMA GetSpanNoDescriptorKeeps ==
    ASSUME Sound(Now), Listed(Now), NEW ar \in Arenas, NEW k \in Class, GetSpanNoDescriptor(ar, k)
    PROVE  \E v : Become(v) /\ held' = held /\ Kept(Now, v) /\ Clean(Now, v)
<1>1. PICK o \in Sources(ar, k) : Become(BinPut(o.w, o.a)) /\ held' = held
  BY DEF GetSpanNoDescriptor
<1>2. PICK v : v = BinPut(o.w, o.a)
  OBVIOUS
<1> QED
  BY <1>1, <1>2, SourcesTake, BinnedKept

LEMMA GetSpanNoSlabKeeps ==
    ASSUME Sound(Now), Listed(Now), NEW ar \in Arenas, NEW k \in Class, GetSpanNoSlab(ar, k)
    PROVE  \E v : Become(v) /\ held' = held /\ Kept(Now, v) /\ Clean(Now, v)
<1>1. PICK o \in Sources(ar, k) :
         Become(BinPut(Fitted(ar, k, o).w, Fitted(ar, k, o).a)) /\ held' = held
  BY DEF GetSpanNoSlab
<1>2. PICK f : f = Fitted(ar, k, o)
  OBVIOUS
<1>3. PICK v : v = BinPut(f.w, f.a)
  OBVIOUS
<1>4. Become(v)
  BY <1>1, <1>2, <1>3
<1>5. Parting(Now, f.w, {})
  BY DEF GetSpanNoSlab, Parting, PartHolds
<1> QED
  BY <1>1, <1>2, <1>3, <1>4, <1>5, FittedTakes, BinnedKept

LEMMA SameAllKeeps ==
    ASSUME NEW w, Kept(w, w), NEW v \in World, v.span = w.span, v.pagetrie = w.pagetrie,
           v.mappings = w.mappings, v.origins = w.origins, SameBins(w, v),
           Aging(w, v), Rooting(w, v), Quiet(w, v)
    PROVE  Kept(w, v) /\ Clean(w, v)
<1>1. SpansOf(v) = SpansOf(w) /\ (Binned(v) <=> Binned(w)) /\ Loose(v) = Loose(w)
      /\ \A a : Extent(v, a) = Extent(w, a) /\ BinOf(v, a) = BinOf(w, a)
  BY SameSpansKeeps
<1>2. Mapped(v) = Mapped(w)
  BY DEF Mapped
<1>3. Sound(v)
  BY <1>1, <1>2 DEF Kept, Sound, Tiled, Indexed, Classed
<1>4. Listed(v)
  BY <1>1 DEF Kept, Listed
<1>5. Counted(w) => Counted(v)
  BY SameBinsCounts
<1>6. Tidy(w, v)
  <2>1. (\A ar, a : OwnRecord(v, ar, a) <=> OwnRecord(w, ar, a)) /\ (NoRecords(w) => NoRecords(v))
    BY <1>1 DEF OwnRecord, NoRecords
  <2> QED
    BY <2>1 DEF Tidy, Lists, ListIs
<1>7. Ordered(w, v)
  BY <1>6, SameBinsMarked, SameMapped DEF Ordered, Marking
<1>8. Parting(w, v, {})
  BY SameSpanParted DEF Parting
<1> QED
  BY <1>1, <1>3, <1>4, <1>5, <1>7, <1>8, SameSpanGiven DEF Kept, Clean

LEMMA KeptSelf ==
    ASSUME NEW w, Sound(w), Listed(w)
    PROVE  Kept(w, w)
<1>1. Ordered(w, w) /\ Parting(w, w, {})
  BY DEF Ordered, Tidy, Aging, Rooting, Marking, Quiet, Clearing, Parting
<1> QED
  BY <1>1 DEF Kept, SameGiven

LEMMA MintRolledBackKeeps ==
    ASSUME Sound(Now), Listed(Now), NEW ar \in Arenas, NEW k, MintRolledBack(ar, k)
    PROVE  \E v : Become(v) /\ held' = held /\ Kept(Now, v) /\ Clean(Now, v)
<1>1. PICK w : w = Now
  OBVIOUS
<1>2. PICK v : v = [w EXCEPT !.epoch[ar] = (@ + 1) % AgeMod]
  OBVIOUS
<1>3. w \in World /\ Kept(w, w)
  BY <1>1, KeptSelf DEF Sound
<1>4. PICK e : e = [w.epoch EXCEPT ![ar] = (w.epoch[ar] + 1) % AgeMod]
  OBVIOUS
<1>5. v = [w EXCEPT !.epoch = e]
  BY <1>2, <1>3, <1>4 DEF World
<1>6. e \in [Arenas -> 0 .. AgeMod - 1]
  BY <1>3, <1>4, EpochUpdate
<1>7. /\ v.span = w.span /\ v.pagetrie = w.pagetrie /\ v.mappings = w.mappings
      /\ v.origins = w.origins /\ SameBins(w, v) /\ v \in World
  BY <1>3, <1>5, <1>6 DEF World, SameBins
<1>8. Become(v) /\ held' = held
  BY <1>1, <1>2 DEF MintRolledBack
<1>9. Aging(w, v) /\ Rooting(w, v)
  BY DEF MintRolledBack, Aging, Rooting, OriginsKept, AgesHold
<1>10. Quiet(w, v)
  <2>1. v.crashed = w.crashed
    BY <1>3, <1>5 DEF World
  <2> QED
    BY <2>1 DEF Quiet
<1> QED
  BY <1>1, <1>3, <1>7, <1>8, <1>9, <1>10, SameAllKeeps

LEMMA PopNullKeeps ==
    ASSUME Sound(Now), Listed(Now), NEW ar \in Arenas, NEW k \in Class, PopNull(ar, k)
    PROVE  \E v : Become(v) /\ held' = held /\ Kept(Now, v) /\ Clean(Now, v)
<1>1. PICK w : w = Now
  OBVIOUS
<1>2. PICK v : v = [w EXCEPT !.crashed = TRUE]
  OBVIOUS
<1>3. w \in World /\ Kept(w, w)
  BY <1>1, KeptSelf DEF Sound
<1>4. /\ v.span = w.span /\ v.pagetrie = w.pagetrie /\ v.mappings = w.mappings
      /\ v.origins = w.origins /\ SameBins(w, v) /\ v \in World
  BY <1>2, <1>3 DEF World, SameBins
<1>5. Become(v) /\ held' = held
  BY <1>1, <1>2 DEF PopNull
<1>6. ~Marked(w)
  <2>1. PICK i : i = FindNonemptyBin(w, ar, k)
    OBVIOUS
  <2>2. i # NoClass /\ BinEmpty(w, <<ar, i>>)
    BY <1>1, <2>1 DEF PopNull
  <2>3. i \in Class /\ i \in w.bitmap[ar]
    BY <1>3, <2>1, <2>2, FindFacts
  <2>4. PICK b \in Bins : b = <<ar, i>>
    BY <2>3 DEF Bins
  <2> QED
    BY <2>2, <2>3, <2>4 DEF Marked
<1>7. Quiet(w, v)
  BY <1>6 DEF Quiet
<1>8. Aging(w, v) /\ Rooting(w, v)
  <2>1. v.epoch = w.epoch
    BY <1>2, <1>3 DEF World
  <2> QED
    BY <1>4, <2>1, SameSpanLots, SameLotsAges
<1> QED
  BY <1>1, <1>3, <1>4, <1>5, <1>7, <1>8, SameAllKeeps

(* scache_get_span_aligned *)

LEMMA SplitListed ==
    ASSUME NEW w, Listed(w), NEW v, NEW a \in Loose(w), NEW s, NEW r, NEW k,
           SplitDone(w, v, a, s, r, k)
    PROVE  Listed(v)
<1>1. \A b \in SpansOf(v) : v.span[b].record # 0 => b \in SpansOf(w) \ {a}
  BY DEF SplitDone
<1>2. \A b \in SpansOf(w) \ {a} : v.span[b].record = w.span[b].record
                                  /\ v.span[b].arena = w.span[b].arena
  BY DEF SplitDone, SameBut
<1>3. v.origins = w.origins
  BY DEF SplitDone
<1> QED
  BY <1>1, <1>2, <1>3 DEF Listed

LEMMA SplitTakes ==
    ASSUME AlignedGets # {}, NEW w, NEW v, NEW a, Taken(w, v, a), Parting(w, v, {}),
           NEW align \in Nat \ {0}, NEW k \in Class,
           v.span[a].nbytes >= align + ClassPages[k],
           NEW u, u = SplitAligned(v, a, align, k), NEW s, s = AlignUp(a, align)
    PROVE  Taken(w, u, s) /\ u.span[s].nbytes = ClassPages[k] /\ s % align = 0
<1>1. PICK r : r = s + ClassPages[k]
  OBVIOUS
<1>2. Sound(v) /\ a \in Loose(v) /\ Listed(v) /\ SameGiven(w, v)
  BY DEF Taken
<1>3. /\ Sound(u) /\ SplitDone(v, u, a, s, r, k) /\ s % align = 0
      /\ Loose(u) = (Loose(v) \ {a}) \cup {s} /\ (Counted(v) => Counted(u))
  BY <1>1, <1>2, SplitKeeps
<1>4. Listed(u) /\ SameGiven(w, u)
  BY <1>2, <1>3, SplitListed, SplitGiven, SameGivenTwice
<1>5. u.span[s].nbytes = ClassPages[k]
  BY <1>3 DEF SplitDone
<1>6. a \in SpansOf(v)
  BY <1>2 DEF Loose
<1>7. Ordered(v, u)
  <2>1. Tidy(v, u) /\ Calm(v, u)
    BY <1>3, <1>6, SplitTidy
  <2>2. Aging(v, u) /\ Rooting(v, u)
    BY <1>2, <1>3, <1>6, SplitAges
  <2>3. Marked(v) => Marked(u)
    BY <1>1, <1>2, SplitKeeps
  <2>4. Clearing(v, u)
    BY <1>3, SameMapped DEF SplitDone
  <2> QED
    BY <2>1, <2>2, <2>3, <2>4, OrderedBy
<1>8. Ordered(w, u)
  BY <1>7, OrderedTwice DEF Taken
<1>9. Parting(w, u, {s})
  BY <1>2, <1>3, <1>6, SplitParted DEF Parting
<1> QED
  BY <1>3, <1>4, <1>5, <1>8, <1>9 DEF Taken

LEMMA GetSpanAlignedGives ==
    ASSUME Sound(Now), Listed(Now), NEW ar \in Arenas, NEW g \in AlignedGets,
           GetSpanAligned(ar, g[1], g[2])
    PROVE  \E v, h : /\ Become(v) /\ held' = held \cup {h}
                     /\ Gave(Now, v, h) /\ Clean(Now, v)
<1>1. PICK align \in Nat \ {0}, k \in Class : align = g[1] /\ k = g[2]
  BY SpanCacheAssumption
<1>2. PICK j \in Class : j = AlignedClass(align, k)
  BY <1>1, AlignedGetsAssumption
<1>3. PICK o \in Sources(ar, j) :
        /\ SplitFits(o, align, k)
        /\ Deliver(SplitAligned(o.w, o.a, align, k), AlignUp(o.a, align), k, FALSE, align)
  BY <1>1, <1>2 DEF GetSpanAligned
<1>4. PICK v, s : v = SplitAligned(o.w, o.a, align, k) /\ s = AlignUp(o.a, align)
  OBVIOUS
<1>5. Taken(Now, v, s) /\ v.span[s].nbytes = ClassPages[k] /\ s % align = 0
  BY <1>3, <1>4, SourcesTake, SplitTakes DEF SplitFits
<1>6. PICK u : u = Flagged(v, s, TRUE, FALSE)
  OBVIOUS
<1>7. PICK h : h = [addr |-> s, class |-> k, align |-> align]
  OBVIOUS
<1>8. Become(u) /\ held' = held \cup {h}
  BY <1>3, <1>4, <1>6, <1>7 DEF Deliver, Flagged
<1>9. h \in HeldRecord /\ h.addr = s
  BY <1>5, <1>7 DEF Taken, Loose, SpansOf, HeldRecord
<1>10. Fits(v, h)
  <2>1. v.span[s].nbytes >= ClassPages[k] /\ v.span[s].nbytes \in Nat
    BY <1>5, ClassFacts
  <2>2. Nearly(v.span[s].nbytes, k)
    BY <2>1, HoldsNearly
  <2> QED
    BY <1>5, <1>7, <2>1, <2>2 DEF Fits
<1> QED
  BY <1>5, <1>6, <1>8, <1>9, <1>10, DeliverGives

LEMMA GetSpanAlignedFailsKeeps ==
    ASSUME Sound(Now), Listed(Now), NEW ar \in Arenas, NEW g \in AlignedGets,
           GetSpanAlignedFails(ar, g[1], g[2])
    PROVE  \E v : Become(v) /\ held' = held /\ Kept(Now, v)
<1>1. PICK j \in Class : j = AlignedClass(g[1], g[2])
  BY AlignedGetsAssumption
<1>2. PICK o \in Sources(ar, j) : Become(o.w) /\ held' = held
  BY <1>1 DEF GetSpanAlignedFails
<1>3. Taken(Now, o.w, o.a) /\ Parting(Now, o.w, {})
  BY <1>2, SourcesTake
<1> QED
  BY <1>2, <1>3 DEF Taken, Kept

(* scache_put_span *)

LEMMA ReleasedFacts ==
    ASSUME NEW w, Sound(w), Listed(w), NEW a \in Given(w),
           NEW v, v = Flagged(w, a, FALSE, FALSE)
    PROVE  /\ Sound(v) /\ Listed(v) /\ FlagDone(w, v, a, FALSE) /\ a \in Loose(v)
           /\ Loose(v) = Loose(w) \cup {a} /\ (Counted(w) => Counted(v))
           /\ Given(v) = Given(w) \ {a}
           /\ SameSizes(w, v) /\ Ordered(w, v) /\ Parting(w, v, {a})
<1>1. a \in SpansOf(w) /\ w.span[a].is_alloc
  BY DEF Given
<1>4. /\ Sound(v) /\ FlagDone(w, v, a, FALSE)
      /\ ~v.span[a].is_alloc => Loose(v) = (Loose(w) \ {a}) \cup {a}
      /\ (Listed(w) => Listed(v)) /\ (Counted(w) => Counted(v))
  BY <1>1, FlagKeeps
<1>5. a \notin Loose(w)
  BY <1>1 DEF Loose
<1>7. /\ SpansOf(v) = SpansOf(w) /\ ~v.span[a].is_alloc
      /\ \A b \in SpansOf(w) \ {a} : v.span[b] = w.span[b]
  BY <1>4 DEF FlagDone
<1>6. Loose(v) = Loose(w) \cup {a}
  BY <1>4, <1>5, <1>7
<1>8. Given(v) = Given(w) \ {a} /\ SameSizes(w, v)
  BY <1>7 DEF Given, SameSizes
<1>9. Ordered(w, v)
  <2>1. SameBins(w, v)
    BY <1>1, FlagKeeps
  <2> QED
    BY <1>4, <2>1, FlagOrdered
<1>10. Parting(w, v, {a})
  BY <1>4, TakenParted DEF Parting
<1> QED
  BY <1>4, <1>6, <1>8, <1>9, <1>10

LEMMA TookThen ==
    ASSUME NEW w, NEW v, NEW u, NEW h, h.addr \in Given(w), Given(v) = Given(w) \ {h.addr},
           SameSizes(w, v), Sound(u), Listed(u), SameGiven(v, u),
           Ordered(w, u), Parting(w, u, {})
    PROVE  Took(w, u, h)
  BY DEF Took, SameGiven, SameSizes

LEMMA PutSpanTakes ==
    ASSUME Sound(Now), Listed(Now), NEW h, h.addr \in Given(Now), PutSpan(h)
    PROVE  \E v : /\ Become(v) /\ held' = held \ {h}
                  /\ Took(Now, v, h) /\ Clean(Now, v)
<1>1. PICK a, w : a = h.addr /\ w = Now
  OBVIOUS
<1>2. PICK v : v = Released(a)
  OBVIOUS
<1>3. v = Flagged(w, a, FALSE, FALSE)
  BY <1>1, <1>2 DEF Released, Flagged
<1>4. /\ Sound(v) /\ Listed(v) /\ a \in Loose(v)
      /\ Loose(v) = Loose(w) \cup {a} /\ (Counted(w) => Counted(v))
      /\ Given(v) = Given(w) \ {a}
      /\ SameSizes(w, v)
  <2>1. Sound(w) /\ Listed(w) /\ a \in Given(w)
    BY <1>1
  <2>2. Sound(v) /\ Listed(v) /\ a \in Loose(v) /\ Loose(v) = Loose(w) \cup {a}
    BY ONLY <2>1, <1>3, ReleasedFacts
  <2>3. Counted(w) => Counted(v)
    BY ONLY <2>1, <1>3, ReleasedFacts
  <2>4. Given(v) = Given(w) \ {a} /\ SameSizes(w, v)
    BY ONLY <2>1, <1>3, ReleasedFacts
  <2> QED
    BY <2>2, <2>3, <2>4
<1>15. FlagDone(w, v, a, FALSE) /\ Ordered(w, v) /\ Parting(w, v, {a})
  <2>1. Sound(w) /\ Listed(w) /\ a \in Given(w)
    BY <1>1
  <2> QED
    BY ONLY <2>1, <1>3, ReleasedFacts
<1>5. PICK u, m : u = MergeAdj(v, a) /\ m = MergedAddr(v, a)
  OBVIOUS
<1>6. PICK l, r : l = LeftOf(v, a) /\ r = RightOf(v, a)
  OBVIOUS
<1>7. /\ Sound(u) /\ Listed(u) /\ m \in Loose(u)
      /\ Loose(v) = {a} => Loose(u) = {m} /\ (Counted(v) => Counted(u))
      /\ \E x, y, z : MergedBy(v, u, a, l, r, m, x, y, z)
  BY <1>4, <1>5, <1>6, MergeAdjSteps
<1>8. SameGiven(v, u)
  BY <1>4, <1>7, MergedGiven
<1>16. Ordered(v, u)
  <2>1. PICK x, y, z : MergedBy(v, u, a, l, r, m, x, y, z)
    BY <1>7
  <2>2. Marked(v) => Marked(u)
    BY <1>4, <1>5, <1>6, MergeAdjSteps
  <2> QED
    BY <1>4, <1>7, <2>1, <2>2, MergedOrdered
<1>17. PartHolds /\ Convex(v) /\ Parted(v, {a}) => Parted(u, {})
  <2>1. a \in SpansOf(v) /\ ~v.span[a].is_alloc
    BY <1>4 DEF Loose
  <2>2. MergedSpan(v, u, a, l, r, m)
    BY <1>4, <1>6, <1>7, <2>1, MergedFields
  <2> QED
    BY <1>4, <1>6, <1>7, <2>1, <2>2, MergedParted DEF PartHolds
<1>9. PICK z : z = BinPut(u, m)
  OBVIOUS
<1>10. Become(z) /\ held' = held \ {h}
  BY <1>1, <1>2, <1>5, <1>9 DEF PutSpan
<1>11. Taken(v, u, m)
  <2>1. Loose(v) = {} => Loose(u) = {m} /\ (Counted(v) => Counted(u))
    BY <1>4
  <2>2. Parting(v, u, {m})
    BY <1>17 DEF Parting, Parted, Aged
  <2> QED
    BY <1>7, <1>8, <1>16, <2>1, <2>2 DEF Taken
<1>12. Kept(v, z) /\ (Parted(u, {}) => Parted(z, {}))
  <2>1. Parting(v, u, {})
    BY <1>17 DEF Parting, Parted, Aged
  <2>2. Kept(v, z)
    BY <1>9, <1>11, <2>1, BinnedKept
  <2>3. SameShape(u, z)
    BY <1>7, <1>9, BinPutKeeps DEF Sound
  <2> QED
    BY <2>2, <2>3, SameShapeParted
<1>18. Ordered(w, z)
  BY <1>12, <1>15, OrderedTwice DEF Kept
<1>19. Parting(w, z, {})
  <2>1. PartHolds /\ Aged(w) => Aged(v)
    BY <1>15 DEF Ordered, Aging, PartHolds
  <2> QED
    BY <1>12, <1>15, <1>17, <2>1 DEF Parting, Aged
<1>13. Took(w, z, h)
  BY <1>1, <1>4, <1>12, <1>18, <1>19, TookThen DEF Kept
<1>14. Clean(w, z)
  <2>1. u \in World /\ Binned(u) /\ m \in Loose(u)
    BY <1>7 DEF Sound
  <2>2. Loose(z) = Loose(u) \ {m} /\ (Counted(u) => Counted(z))
    BY <1>9, <2>1, BinPutKeeps, BinPutCounts
  <2> QED
    BY <1>4, <1>7, <2>2 DEF Clean
<1> QED
  BY <1>1, <1>10, <1>13, <1>14

LEMMA PutSpanFailsTakes ==
    ASSUME Sound(Now), Listed(Now), NEW h, h.addr \in Given(Now), PutSpanFails(h)
    PROVE  \E v : Become(v) /\ held' = held \ {h} /\ Took(Now, v, h)
<1>1. PICK a, w : a = h.addr /\ w = Now
  OBVIOUS
<1>2. PICK v : v = Released(a)
  OBVIOUS
<1>3. v = Flagged(w, a, FALSE, FALSE)
  BY <1>1, <1>2 DEF Released, Flagged
<1>4. /\ Sound(v) /\ Listed(v) /\ a \in Loose(v)
      /\ Given(v) = Given(w) \ {a}
      /\ SameSizes(w, v)
  <2>1. Sound(w) /\ Listed(w) /\ a \in Given(w)
    BY <1>1
  <2>2. Sound(v) /\ Listed(v) /\ a \in Loose(v) /\ Loose(v) = Loose(w) \cup {a}
    BY ONLY <2>1, <1>3, ReleasedFacts
  <2>3. Counted(w) => Counted(v)
    BY ONLY <2>1, <1>3, ReleasedFacts
  <2>4. Given(v) = Given(w) \ {a} /\ SameSizes(w, v)
    BY ONLY <2>1, <1>3, ReleasedFacts
  <2> QED
    BY <2>2, <2>3, <2>4
<1>10. Ordered(w, v) /\ "madvise" \in Faults
  <2>1. Sound(w) /\ Listed(w) /\ a \in Given(w)
    BY <1>1
  <2>2. Ordered(w, v)
    BY ONLY <2>1, <1>3, ReleasedFacts
  <2> QED
    BY <2>2 DEF PutSpanFails
<1>11. \A x : Parting(w, x, {}) /\ Marking(v, x)
  BY <1>10 DEF Parting, PartHolds, Marking
<1>5. PICK l, r : l = LeftOf(v, a) /\ r = RightOf(v, a)
  OBVIOUS
<1>6. PICK u : u = BinRemove(v, l)
  OBVIOUS
<1>7. Become(v) \/ (CanMerge(v, l, a) /\ Become(u))
  <2>1. \/ CanMerge(v, l, a) /\ v.span[l].state = "RETAINED" /\ Become(v)
        \/ /\ CanMerge(v, a, r) /\ v.span[r].state = "RETAINED"
           /\ Become(IF CanMerge(v, l, a) THEN u ELSE v)
    BY <1>1, <1>2, <1>5, <1>6 DEF PutSpanFails
  <2>4. PICK t : t = IF CanMerge(v, l, a) THEN u ELSE v
    OBVIOUS
  <2>5. Become(v) \/ Become(t)
    BY <2>1, <2>4
  <2>2. CASE CanMerge(v, l, a)
    <3>1. t = u
      BY <2>2, <2>4
    <3> QED
      BY <2>2, <2>5, <3>1 DEF Become
  <2>3. CASE ~CanMerge(v, l, a)
    <3>1. t = v
      BY <2>3, <2>4
    <3> QED
      BY <2>5, <3>1 DEF Become
  <2> QED
    BY <2>2, <2>3
<1>8. CASE Become(v)
  <2>1. Took(w, v, h)
    BY <1>1, <1>4, <1>10, <1>11, TookThen DEF SameGiven
  <2> QED
    BY <1>1, <1>8, <2>1 DEF PutSpanFails
<1>9. CASE CanMerge(v, l, a) /\ Become(u)
  <2>1. v \in World /\ Tiled(v) /\ Classed(v) /\ Indexed(v) /\ Binned(v) /\ a \in SpansOf(v)
    BY <1>4 DEF Sound, Loose
  <2>2. l \in SpansOf(v) /\ ~v.span[l].is_alloc
    BY <1>4, <1>5, <1>9, <2>1, NeighboursAreSpans, CanMergeFacts
  <2>3. u \in World /\ SameShape(v, u) /\ Binned(u)
    BY <1>6, <2>1, <2>2, BinRemoveKeeps
  <2>4. Sound(u) /\ Listed(u) /\ SameGiven(v, u)
    BY <1>4, <2>1, <2>3, SameShapeKeeps, SameShapeListed, SameShapeGiven DEF Sound
  <2>6. Ordered(w, u)
    BY <1>10, <1>11, <2>3, SameShapeOrdered, OrderedTwice
  <2>5. Took(w, u, h)
    BY <1>1, <1>4, <1>11, <2>4, <2>6, TookThen
  <2> QED
    BY <1>1, <1>9, <2>5 DEF PutSpanFails
<1> QED
  BY <1>7, <1>8, <1>9

(* scache_decay *)

(* v is w with the dirty spans F[k] of each bin <<ar, k>> retained, and    *)
(* with the spans lost out of the heaps.                                   *)
Decayed(w, v, ar, F, lost) ==
    /\ v.span = [a \in Page |-> IF \E k \in Class : a \in F[k]
                                THEN [w.span[a] EXCEPT !.state = "RETAINED"] ELSE w.span[a]]
    /\ v.bucket = [b \in Bins |->
                     IF b \notin {ar} \X Class THEN w.bucket[b]
                     ELSE [w.bucket[b] EXCEPT !["DIRTY"] = @ \ (F[b[2]] \cup lost),
                                              !["RETAINED"] = @ \cup F[b[2]]]]
    /\ v.nspans \in [Bins -> 0 .. CountMod - 1]
    /\ v.epoch_min \in [Bins -> 0 .. CountMod - 1]
    /\ lost = {} => v.nspans = w.nspans
    /\ v.pagetrie = w.pagetrie /\ v.bitmap = w.bitmap /\ v.epoch = w.epoch
    /\ v.origins = w.origins /\ v.mappings = w.mappings /\ v.crashed = w.crashed
    /\ lost = {} \/ "madvise" \in Faults
    /\ v = [w EXCEPT !.span = v.span, !.bucket = v.bucket, !.nspans = v.nspans,
                     !.epoch_min = v.epoch_min, !.bitmap = v.bitmap]

LEMMA DecayedKeeps ==
    ASSUME NEW w, Sound(w), Listed(w), NEW ar \in Arenas, NEW F \in [Class -> SUBSET Page],
           \A k \in Class : F[k] \subseteq w.bucket[<<ar, k>>]["DIRTY"],
           NEW lost \in SUBSET Page, NEW v, Decayed(w, v, ar, F, lost)
    PROVE  Kept(w, v) /\ SameShape(w, v) /\ (lost = {} => Clean(w, v))
<1>1. w \in World /\ Tiled(w) /\ Classed(w) /\ Indexed(w) /\ Binned(w)
  BY DEF Sound
<1>2. PICK R \in SUBSET Page : R = {a \in Page : \E k \in Class : a \in F[k]}
  OBVIOUS
<1>3. /\ "DIRTY" \in States /\ "RETAINED" \in States /\ "CLEAN" \in States
      /\ \A s \in States : s = "DIRTY" \/ s = "RETAINED" \/ s = "CLEAN"
  BY DEF States
<1>4. \A k \in Class : \A a \in F[k] :
         /\ a \in SpansOf(w) /\ ~w.span[a].is_alloc
         /\ w.span[a].state = "DIRTY" /\ BinOf(w, a) = <<ar, k>>
  <2> SUFFICES ASSUME NEW k \in Class, NEW a \in F[k]
               PROVE  /\ a \in SpansOf(w) /\ ~w.span[a].is_alloc
                      /\ w.span[a].state = "DIRTY" /\ BinOf(w, a) = <<ar, k>>
    OBVIOUS
  <2>1. PICK b \in Bins : b = <<ar, k>>
    BY DEF Bins
  <2>2. a \in w.bucket[b]["DIRTY"]
    BY <2>1
  <2> QED
    BY <1>1, <1>3, <2>1, <2>2 DEF Binned
<1>5. R \subseteq SpansOf(w) /\ \A a \in R : ~w.span[a].is_alloc /\ w.span[a].state = "DIRTY"
  BY <1>2, <1>4
<1>6. w.span \in [Page -> SpanRecord \cup {Null}]
  BY <1>1, WorldFields
<1>7. \A a \in Page : v.span[a] = IF a \in R THEN [w.span[a] EXCEPT !.state = "RETAINED"]
                                  ELSE w.span[a]
  BY <1>2 DEF Decayed
<1>8. \A a \in R : v.span[a] \in SpanRecord /\ v.span[a].state = "RETAINED"
                   /\ SameBut(w.span[a], v.span[a])
  <2> SUFFICES ASSUME NEW a \in R
               PROVE  v.span[a] \in SpanRecord /\ v.span[a].state = "RETAINED"
                      /\ SameBut(w.span[a], v.span[a])
    OBVIOUS
  <2>1. PICK d \in SpanRecord : d = w.span[a]
    BY <1>1, <1>5, SpanFields
  <2>2. PICK e : e = [d EXCEPT !.state = "RETAINED"]
    OBVIOUS
  <2>3. e \in SpanRecord /\ e.state = "RETAINED" /\ SameBut(d, e)
    BY <1>3, <2>2 DEF SpanRecord, SameBut
  <2> QED
    BY <1>7, <2>1, <2>2, <2>3
<1>9. v.span \in [Page -> SpanRecord \cup {Null}]
  <2>1. \A a \in Page : v.span[a] \in SpanRecord \cup {Null}
    BY <1>6, <1>7, <1>8
  <2>2. v.span = [a \in Page |-> v.span[a]]
    BY DEF Decayed
  <2> QED
    BY <2>1, <2>2
<1>10. SpansOf(v) = SpansOf(w)
  BY <1>5, <1>7, <1>8, RecordFields DEF SpansOf
<1>11. \A a \in SpansOf(w) : SameBut(w.span[a], v.span[a])
                             /\ (a \notin R => v.span[a] = w.span[a])
  BY <1>7, <1>8 DEF SpansOf, SameBut
<1>12. SameShape(w, v)
  BY <1>10, <1>11 DEF SameShape, Decayed
<1>13. w.bucket \in [Bins -> [States -> SUBSET Page]]
  BY <1>1, WorldFields
<1>14. \A b \in Bins, s \in States :
          v.bucket[b][s] = IF b \notin {ar} \X Class \/ s = "CLEAN" THEN w.bucket[b][s]
                           ELSE IF s = "DIRTY" THEN w.bucket[b][s] \ (F[b[2]] \cup lost)
                           ELSE w.bucket[b][s] \cup F[b[2]]
  <2> SUFFICES ASSUME NEW b \in Bins, NEW s \in States
               PROVE  v.bucket[b][s] =
                           IF b \notin {ar} \X Class \/ s = "CLEAN" THEN w.bucket[b][s]
                           ELSE IF s = "DIRTY" THEN w.bucket[b][s] \ (F[b[2]] \cup lost)
                           ELSE w.bucket[b][s] \cup F[b[2]]
    OBVIOUS
  <2>1. PICK g \in [States -> SUBSET Page] : g = w.bucket[b]
    BY <1>13
  <2>2. v.bucket[b] = IF b \notin {ar} \X Class THEN g
                      ELSE [g EXCEPT !["DIRTY"] = @ \ (F[b[2]] \cup lost),
                                     !["RETAINED"] = @ \cup F[b[2]]]
    BY <2>1 DEF Decayed
  <2> QED
    BY <1>3, <2>1, <2>2
<1>15. v.bucket \in [Bins -> [States -> SUBSET Page]]
  <2>1. \A b \in Bins : v.bucket[b] \in [States -> SUBSET Page]
    <3> SUFFICES ASSUME NEW b \in Bins PROVE v.bucket[b] \in [States -> SUBSET Page]
      OBVIOUS
    <3>1. PICK g \in [States -> SUBSET Page] : g = w.bucket[b]
      BY <1>13
    <3>2. b \in {ar} \X Class => b[2] \in Class
      OBVIOUS
    <3>3. v.bucket[b] = IF b \notin {ar} \X Class THEN g
                        ELSE [g EXCEPT !["DIRTY"] = @ \ (F[b[2]] \cup lost),
                                       !["RETAINED"] = @ \cup F[b[2]]]
      BY <3>1 DEF Decayed
    <3> QED
      BY <1>3, <3>1, <3>2, <3>3
  <2>2. v.bucket = [b \in Bins |-> v.bucket[b]]
    BY DEF Decayed
  <2> QED
    BY <2>1, <2>2
<1>16. v \in World
  <2>1. v.nspans \in [Bins -> 0 .. CountMod - 1] /\ v.epoch_min \in [Bins -> 0 .. CountMod - 1]
        /\ v.bitmap \in [Arenas -> SUBSET Class]
    BY <1>1, WorldFields DEF Decayed
  <2>2. v = [w EXCEPT !.span = v.span, !.bucket = v.bucket, !.nspans = v.nspans,
                      !.epoch_min = v.epoch_min, !.bitmap = v.bitmap]
    BY DEF Decayed
  <2> QED
    BY <1>1, <1>9, <1>15, <2>1, <2>2, WorldUpdate
<1>17. \A a \in SpansOf(w) : BinOf(v, a) = BinOf(w, a)
  BY <1>11 DEF BinOf, SameBut
<1>18. \A b \in Bins : b \in {ar} \X Class => b[2] \in Class /\ b = <<ar, b[2]>>
  BY DEF Bins
<1>19. Binned(v)
  <2> SUFFICES ASSUME NEW b \in Bins, NEW s \in States, NEW a \in v.bucket[b][s]
               PROVE  /\ a \in SpansOf(v) /\ ~v.span[a].is_alloc
                      /\ v.span[a].state = s /\ BinOf(v, a) = b
    BY DEF Binned
  <2>1. CASE a \in w.bucket[b][s] /\ a \notin R
    BY <1>1, <1>10, <1>11, <1>17, <2>1 DEF Binned
  <2>2. CASE a \in w.bucket[b][s] /\ a \in R
    <3>1. s = "DIRTY" /\ BinOf(w, a) = b
      BY <1>1, <1>5, <2>2 DEF Binned
    <3>2. PICK k \in Class : a \in F[k]
      BY <1>2, <2>2
    <3>3. b = <<ar, k>>
      BY <1>4, <3>1, <3>2
    <3>4. b \in {ar} \X Class /\ b[2] = k
      BY <3>3
    <3> QED
      BY <1>3, <1>14, <3>1, <3>2, <3>4
  <2>3. CASE a \notin w.bucket[b][s]
    <3>1. b \in {ar} \X Class /\ s = "RETAINED" /\ a \in F[b[2]]
      <4>1. v.bucket[b][s] = IF b \notin {ar} \X Class \/ s = "CLEAN" THEN w.bucket[b][s]
                             ELSE IF s = "DIRTY" THEN w.bucket[b][s] \ (F[b[2]] \cup lost)
                             ELSE w.bucket[b][s] \cup F[b[2]]
        BY <1>14
      <4>2. s = "DIRTY" \/ s = "RETAINED" \/ s = "CLEAN"
        BY <1>3
      <4> QED
        BY <2>3, <4>1, <4>2
    <3>2. b[2] \in Class /\ b = <<ar, b[2]>>
      BY <1>18, <3>1
    <3>3. a \in R /\ a \in SpansOf(w) /\ BinOf(w, a) = b /\ ~w.span[a].is_alloc
      BY <1>2, <1>4, <3>1, <3>2
    <3> QED
      BY <1>8, <1>10, <1>17, <3>1, <3>3 DEF SameBut
  <2> QED
    BY <2>1, <2>2, <2>3
<1>23. ASSUME lost = {}, Marked(w) PROVE Marked(v)
  <2> SUFFICES ASSUME NEW b \in Bins PROVE BinEmpty(v, b) <=> BinEmpty(w, b)
    BY <1>23 DEF Marked, Decayed
  <2>1. CASE b \notin {ar} \X Class
    BY <1>14, <2>1 DEF BinEmpty
  <2>2. CASE b \in {ar} \X Class
    <3>1. PICK S : S = F[b[2]]
      OBVIOUS
    <3>2. S \subseteq w.bucket[b]["DIRTY"]
      BY <1>18, <2>2, <3>1
    <3>3. /\ v.bucket[b]["CLEAN"] = w.bucket[b]["CLEAN"]
          /\ v.bucket[b]["DIRTY"] = w.bucket[b]["DIRTY"] \ S
          /\ v.bucket[b]["RETAINED"] = w.bucket[b]["RETAINED"] \cup S
      BY <1>3, <1>14, <1>23, <2>2, <3>1
    <3>4. BinEmpty(v, b) <=> /\ v.bucket[b]["CLEAN"] = {} /\ v.bucket[b]["DIRTY"] = {}
                             /\ v.bucket[b]["RETAINED"] = {}
      BY <1>3 DEF BinEmpty
    <3>5. BinEmpty(w, b) <=> /\ w.bucket[b]["CLEAN"] = {} /\ w.bucket[b]["DIRTY"] = {}
                             /\ w.bucket[b]["RETAINED"] = {}
      BY <1>3 DEF BinEmpty
    <3> QED
      BY <3>2, <3>3, <3>4, <3>5
  <2> QED
    BY <2>1, <2>2
<1>24. Ordered(w, v) /\ Parting(w, v, {})
  <2>1. lost = {} \/ "madvise" \in Faults
    BY DEF Decayed
  <2>2. Marking(w, v)
    BY <1>23, <2>1 DEF Marking
  <2> QED
    BY <1>12, <2>2, SameShapeOrdered, SameShapeParting
<1>20. Kept(w, v)
  BY <1>1, <1>12, <1>16, <1>19, <1>24, SameShapeKeeps, SameShapeListed, SameShapeGiven DEF Kept, Sound
<1>21. ASSUME lost = {}, Loose(w) = {} PROVE Loose(v) = {}
  <2> SUFFICES ASSUME NEW a \in SpansOf(w), ~v.span[a].is_alloc
               PROVE  a \in v.bucket[BinOf(v, a)][v.span[a].state]
    BY <1>10 DEF Loose
  <2>1. ~w.span[a].is_alloc /\ a \in w.bucket[BinOf(w, a)][w.span[a].state]
    BY <1>11, <1>21 DEF Loose, SameBut
  <2>2. PICK b \in Bins, s \in States : b = BinOf(w, a) /\ s = w.span[a].state
    BY <1>1, SpanFields, RecordFields
  <2>3. CASE a \in R
    <3>1. PICK k \in Class : a \in F[k]
      BY <1>2, <2>3
    <3>2. b = <<ar, k>>
      BY <1>4, <2>2, <3>1
    <3>3. b \in {ar} \X Class /\ b[2] = k
      BY <3>2
    <3>4. a \in v.bucket[b]["RETAINED"]
      <4>1. v.bucket[b]["RETAINED"] = w.bucket[b]["RETAINED"] \cup F[b[2]]
        BY <1>3, <1>14, <3>3
      <4> QED
        BY <3>1, <3>3, <4>1
    <3> QED
      BY <1>8, <1>17, <2>2, <2>3, <3>4
  <2>4. CASE a \notin R
    <3>1. v.span[a].state = s /\ BinOf(v, a) = b /\ a \in w.bucket[b][s]
      BY <1>11, <1>17, <2>1, <2>2, <2>4
    <3>2. b \in {ar} \X Class => a \notin F[b[2]]
      BY <1>2, <1>18, <2>4
    <3>3. a \in v.bucket[b][s]
      <4>1. v.bucket[b][s] = IF b \notin {ar} \X Class \/ s = "CLEAN" THEN w.bucket[b][s]
                             ELSE IF s = "DIRTY" THEN w.bucket[b][s] \ (F[b[2]] \cup lost)
                             ELSE w.bucket[b][s] \cup F[b[2]]
        BY <1>14
      <4>2. s = "DIRTY" \/ s = "RETAINED" \/ s = "CLEAN"
        BY <1>3
      <4>3. a \in w.bucket[b][s] /\ a \notin lost
        BY <1>21, <3>1
      <4> QED
        BY <3>2, <4>1, <4>2, <4>3
    <3> QED
      BY <3>1, <3>3
  <2> QED
    BY <2>3, <2>4
<1>22. ASSUME lost = {}, Counted(w) PROVE Counted(v)
  <2>1. \A b \in Bins : InBin(v, b) = InBin(w, b)
    <3> SUFFICES ASSUME NEW b \in Bins PROVE InBin(v, b) = InBin(w, b)
      OBVIOUS
    <3>1. CASE b \notin {ar} \X Class
      <4>1. \A s \in States : v.bucket[b][s] = w.bucket[b][s]
        BY <1>14, <3>1
      <4> QED
        BY <4>1 DEF InBin
    <3>2. CASE b \in {ar} \X Class
      <4>1. PICK S : S = F[b[2]]
        OBVIOUS
      <4>2. S \subseteq w.bucket[b]["DIRTY"]
        BY <1>18, <3>2, <4>1
      <4>3. /\ v.bucket[b]["CLEAN"] = w.bucket[b]["CLEAN"]
            /\ v.bucket[b]["DIRTY"] = w.bucket[b]["DIRTY"] \ S
            /\ v.bucket[b]["RETAINED"] = w.bucket[b]["RETAINED"] \cup S
        BY <1>3, <1>14, <1>22, <3>2, <4>1
      <4>4. \A x : x \in InBin(v, b) <=> \/ x \in v.bucket[b]["CLEAN"]
                                         \/ x \in v.bucket[b]["DIRTY"]
                                         \/ x \in v.bucket[b]["RETAINED"]
        BY <1>3 DEF InBin
      <4>5. \A x : x \in InBin(w, b) <=> \/ x \in w.bucket[b]["CLEAN"]
                                         \/ x \in w.bucket[b]["DIRTY"]
                                         \/ x \in w.bucket[b]["RETAINED"]
        BY <1>3 DEF InBin
      <4> QED
        BY <4>2, <4>3, <4>4, <4>5
    <3> QED
      BY <3>1, <3>2
  <2>2. v.nspans = w.nspans /\ v.bitmap = w.bitmap
    BY <1>22 DEF Decayed
  <2> QED
    BY <1>22, <2>1, <2>2 DEF Counted
<1> QED
  BY <1>12, <1>20, <1>21, <1>22 DEF Clean

LEMMA DecayKeeps ==
    ASSUME Sound(Now), Listed(Now), NEW ar \in Arenas, Decay(ar)
    PROVE  \E v : /\ Become(v) /\ held' = held /\ Kept(Now, v)
                  /\ "madvise" \notin Faults => Clean(Now, v)
<1> DEFINE Retire(L, k) == {a \in Idle(ar, k) : \A b \in L \cap Idle(ar, k) :
                                                   a # b /\ Oldest(Now, {a, b}) = a}
           Left(L, k) == (nspans[<<ar, k>>] - Cardinality(L \cap Idle(ar, k))) % CountMod
<1>1. PICK lost \in SUBSET UNION {Idle(ar, k) : k \in Class} :
         LET Mine == {ar} \X Class
         IN  /\ ~crashed
             /\ lost = {} \/ "madvise" \in Faults
             /\ span' = [a \in Page |->
                           IF \E k \in Class : a \in Retire(lost, k)
                           THEN [span[a] EXCEPT !.state = "RETAINED"] ELSE span[a]]
             /\ bucket' = [b \in DOMAIN bucket |->
                   IF b \notin Mine THEN bucket[b]
                   ELSE [bucket[b] EXCEPT
                           !["DIRTY"] = @ \ (Retire(lost, b[2]) \cup lost),
                           !["RETAINED"] = @ \cup Retire(lost, b[2])]]
             /\ nspans' = [b \in DOMAIN nspans |->
                             IF b \in Mine THEN Left(lost, b[2]) ELSE nspans[b]]
             /\ epoch_min' = [b \in DOMAIN epoch_min |->
                                IF b \in Mine THEN Left(lost, b[2]) ELSE epoch_min[b]]
             /\ UNCHANGED <<pagetrie, bitmap, epoch, origins, mappings, stranded,
                            held, crashed>>
  BY DEF Decay
<1>2. PICK w : w = Now
  OBVIOUS
<1>3. /\ w.span = span /\ w.pagetrie = pagetrie /\ w.bucket = bucket /\ w.nspans = nspans
      /\ w.epoch_min = epoch_min /\ w.bitmap = bitmap /\ w.epoch = epoch
      /\ w.origins = origins /\ w.mappings = mappings /\ w.crashed = crashed
  BY <1>2 DEF Now
<1>4. w \in World
  BY <1>2 DEF Sound
<1>5. /\ w.bucket \in [Bins -> [States -> SUBSET Page]]
      /\ w.nspans \in [Bins -> 0 .. CountMod - 1] /\ w.epoch_min \in [Bins -> 0 .. CountMod - 1]
  BY <1>4, WorldFields
<1>6. \A k \in Class : Idle(ar, k) \subseteq w.bucket[<<ar, k>>]["DIRTY"]
                       /\ Idle(ar, k) \subseteq Page
  <2>1. \A k \in Class : Idle(ar, k) \subseteq w.bucket[<<ar, k>>]["DIRTY"]
    BY <1>3 DEF Idle
  <2>2. \A k \in Class : w.bucket[<<ar, k>>]["DIRTY"] \subseteq Page
    BY <1>5 DEF Bins, States
  <2> QED
    BY <2>1, <2>2
<1>7. PICK F : F = [k \in Class |-> Retire(lost, k)]
  OBVIOUS
<1>8. \A k \in Class : F[k] = Retire(lost, k) /\ F[k] \subseteq Idle(ar, k)
  BY <1>7
<1>9. F \in [Class -> SUBSET Page] /\ \A k \in Class : F[k] \subseteq w.bucket[<<ar, k>>]["DIRTY"]
  BY <1>6, <1>7, <1>8
<1>10. lost \in SUBSET Page
  BY <1>6
<1>11. \A k \in Class : Left(lost, k) \in 0 .. CountMod - 1
                        /\ (lost = {} => Left(lost, k) = nspans[<<ar, k>>])
  <2> SUFFICES ASSUME NEW k \in Class
               PROVE  Left(lost, k) \in 0 .. CountMod - 1
                      /\ (lost = {} => Left(lost, k) = nspans[<<ar, k>>])
    OBVIOUS
  <2>1. PICK S : S = lost \cap Idle(ar, k)
    OBVIOUS
  <2>2. PICK n : n = Cardinality(S)
    OBVIOUS
  <2>3. n \in Nat /\ (lost = {} => n = 0)
    <3>1. S \in SUBSET Page /\ (lost = {} => S = {})
      BY <1>10, <2>1
    <3> QED
      BY <2>2, <3>1, PageFinite, FS_EmptySet
  <2>4. PICK q \in 0 .. CountMod - 1 : q = nspans[<<ar, k>>]
    BY <1>3, <1>5 DEF Bins
  <2>5. Left(lost, k) = (q - n) % CountMod
    BY <2>1, <2>2, <2>4
  <2>6. (q - n) % CountMod \in 0 .. CountMod - 1 /\ (n = 0 => (q - n) % CountMod = q)
    BY <2>3, Sizes
  <2> QED
    BY <2>3, <2>4, <2>5, <2>6
<1> HIDE DEF Retire, Left
<1>12. PICK v : v = [span |-> span', pagetrie |-> pagetrie, bucket |-> bucket', nspans |-> nspans',
                     epoch_min |-> epoch_min', bitmap |-> bitmap, epoch |-> epoch,
                     origins |-> origins, mappings |-> mappings, crashed |-> crashed]
  OBVIOUS
<1>13. /\ v.span = span' /\ v.bucket = bucket' /\ v.nspans = nspans' /\ v.epoch_min = epoch_min'
       /\ v.pagetrie = w.pagetrie /\ v.bitmap = w.bitmap /\ v.epoch = w.epoch
       /\ v.origins = w.origins /\ v.mappings = w.mappings /\ v.crashed = w.crashed
  BY <1>3, <1>12
<1>14. Become(v) /\ held' = held
  BY <1>1, <1>3, <1>13 DEF Become
<1>15. Decayed(w, v, ar, F, lost)
  <2>1. v.span = [a \in Page |-> IF \E k \in Class : a \in F[k]
                                 THEN [w.span[a] EXCEPT !.state = "RETAINED"] ELSE w.span[a]]
    BY <1>1, <1>3, <1>8, <1>13
  <2>2. DOMAIN bucket = Bins /\ DOMAIN nspans = Bins /\ DOMAIN epoch_min = Bins
    BY <1>3, <1>5
  <2>3. \A b \in Bins : b \in {ar} \X Class => b[2] \in Class /\ b = <<ar, b[2]>>
    BY DEF Bins
  <2>4. v.bucket = [b \in Bins |->
                     IF b \notin {ar} \X Class THEN w.bucket[b]
                     ELSE [w.bucket[b] EXCEPT !["DIRTY"] = @ \ (F[b[2]] \cup lost),
                                              !["RETAINED"] = @ \cup F[b[2]]]]
    <3>1. bucket' = [b \in Bins |->
                     IF b \notin {ar} \X Class THEN w.bucket[b]
                     ELSE [w.bucket[b] EXCEPT
                             !["DIRTY"] = @ \ (Retire(lost, b[2]) \cup lost),
                             !["RETAINED"] = @ \cup Retire(lost, b[2])]]
      BY <1>1, <1>3, <2>2
    <3>2. \A b \in Bins : b \in {ar} \X Class => Retire(lost, b[2]) = F[b[2]]
      BY <1>8, <2>3
    <3> QED
      BY <1>13, <3>1, <3>2
  <2>5. v.nspans = [b \in Bins |-> IF b \in {ar} \X Class THEN Left(lost, b[2]) ELSE w.nspans[b]]
    BY <1>1, <1>3, <1>13, <2>2
  <2>6. v.epoch_min = [b \in Bins |->
                          IF b \in {ar} \X Class THEN Left(lost, b[2]) ELSE w.epoch_min[b]]
    BY <1>1, <1>3, <1>13, <2>2
  <2>7. v.nspans \in [Bins -> 0 .. CountMod - 1]
    BY <1>5, <1>11, <2>3, <2>5
  <2>8. v.epoch_min \in [Bins -> 0 .. CountMod - 1]
    BY <1>5, <1>11, <2>3, <2>6
  <2>9. ASSUME lost = {} PROVE v.nspans = w.nspans
    <3>1. \A b \in Bins : v.nspans[b] = w.nspans[b]
      <4> SUFFICES ASSUME NEW b \in Bins PROVE v.nspans[b] = w.nspans[b]
        OBVIOUS
      <4>1. CASE b \in {ar} \X Class
        BY <1>3, <1>11, <2>3, <2>5, <2>9, <4>1
      <4>2. CASE b \notin {ar} \X Class
        BY <2>5, <4>2
      <4> QED
        BY <4>1, <4>2
    <3> QED
      BY <1>5, <2>7, <3>1
  <2>10. v = [w EXCEPT !.span = v.span, !.bucket = v.bucket, !.nspans = v.nspans,
                       !.epoch_min = v.epoch_min, !.bitmap = v.bitmap]
    <3>1. v = [span |-> v.span, pagetrie |-> w.pagetrie, bucket |-> v.bucket,
               nspans |-> v.nspans, epoch_min |-> v.epoch_min, bitmap |-> w.bitmap,
               epoch |-> w.epoch, origins |-> w.origins, mappings |-> w.mappings,
               crashed |-> w.crashed]
      BY <1>3, <1>12, <1>13
    <3> QED
      BY <1>4, <1>13, <3>1 DEF World
  <2> QED
    BY <1>1, <1>13, <2>1, <2>4, <2>7, <2>8, <2>9, <2>10 DEF Decayed
<1>16. Sound(w) /\ Listed(w)
  BY <1>2
<1>17. Kept(w, v) /\ (lost = {} => Clean(w, v))
  BY <1>9, <1>10, <1>15, <1>16, DecayedKeeps
<1>18. "madvise" \notin Faults => lost = {}
  BY <1>1
<1> QED
  BY <1>2, <1>14, <1>17, <1>18

-----------------------------------------------------------------------------
(* The invariant *)

(* The allocated spans are those that the callers hold, one each. *)
Owned(w, H) == /\ H \subseteq HeldRecord
               /\ \A h \in H : h.addr \in Given(w)
               /\ \A a \in Given(w) : \E h \in H : h.addr = a
               /\ \A g, h \in H : g.addr = h.addr => g = h
               /\ \A h \in H : Fits(w, h)

Mapping == [arena : Arenas, addr : Page, npages : 1 .. NPages]

(* What is stranded is memory that no span touches. *)
Strayed == stranded \subseteq Mapping /\ Clear(Now)

SpanInv == Sound(Now) /\ Listed(Now) /\ Owned(Now, held) /\ Strayed

(* No span can leave the heaps for good: madvise does not fail, and the    *)
(* span found for an aligned request can always be split.                  *)
NeverLost ==
    /\ "madvise" \notin Faults
    /\ AlignedGets # {} =>
          /\ "spanpool" \notin Faults
          /\ \A g \in AlignedGets : /\ g[1] + ClassPages[g[2]] > SlabAllocMax
                                     /\ Snug(AlignedClass(g[1], g[2]))

(* The three kinds of steps *)
KeepStep == \E v : /\ Become(v) /\ held' = held /\ Kept(Now, v)
                   /\ NeverLost => Clean(Now, v)

GiveStep == \E v, h : /\ Become(v) /\ held' = held \cup {h} /\ Gave(Now, v, h)
                      /\ NeverLost => Clean(Now, v)

TakeStep == \E v, h : /\ h \in held
                      /\ Become(v) /\ held' = held \ {h} /\ Took(Now, v, h)
                      /\ NeverLost => Clean(Now, v)

LEMMA AlwaysFits ==
    ASSUME Sound(Now), Listed(Now), NEW ar \in Arenas, NEW g \in AlignedGets, NeverLost,
           NEW o \in Sources(ar, AlignedClass(g[1], g[2]))
    PROVE  SplitFits(o, g[1], g[2])
<1>1. PICK align \in Nat \ {0}, k \in Class : align = g[1] /\ k = g[2]
  BY SpanCacheAssumption
<1>2. PICK n \in Nat \ {0} : n = align + ClassPages[k]
  BY ClassFacts
<1>3. PICK j \in Class : j = AlignedClass(align, k)
  BY <1>1, AlignedGetsAssumption
<1>4. ClassPages[j] >= n
  <2>1. n > SlabAllocMax
    BY <1>1, <1>2 DEF NeverLost
  <2>2. j = SpanClass(n)
    <3>1. ~(n <= SlabAllocMax)
      BY <1>2, <2>1, SpanCacheAssumption
    <3> QED
      BY <1>2, <1>3, <3>1 DEF AlignedClass
  <2>3. PICK S : S = {i \in Class : ClassPages[i] >= n}
    OBVIOUS
  <2>4. S \subseteq Nat /\ S # {}
    <3>1. PICK i \in Class : n <= ClassPages[i]
      BY <1>1, <1>2, AlignedGetsAssumption
    <3>2. ClassPages[i] \in Nat
      BY ClassFacts
    <3> QED
      BY <1>2, <2>3, <3>1, <3>2, ClassFacts
  <2>5. j = Min(S)
    BY <2>2, <2>3 DEF SpanClass
  <2>6. j \in S
    BY <2>4, <2>5, MinNat
  <2> QED
    BY <2>3, <2>6
<1>5. PICK v, a : v = o.w /\ a = o.a
  OBVIOUS
<1>6. Taken(Now, v, a) /\ v.span[a].szclass >= j
  BY <1>1, <1>3, <1>5, SourcesTake
<1>7. v.span[a].nbytes >= ClassPages[j]
  <2>1. Sound(v) /\ v \in World /\ a \in SpansOf(v)
    BY <1>6 DEF Taken, Loose, Sound
  <2>2. Snug(j)
    BY <1>1, <1>3 DEF NeverLost
  <2>3. Nearly(v.span[a].nbytes, j)
    BY <1>6, <2>1, ClassHolds
  <2>4. v.span[a].nbytes \in Nat \ {0}
    BY <2>1, SpanFields, RecordFields
  <2> QED
    BY <2>2, <2>3, <2>4, SnugHolds
<1>8. v.span[a].nbytes \in Nat /\ ClassPages[j] \in Nat
  <2>1. v \in World /\ a \in SpansOf(v)
    BY <1>6 DEF Taken, Loose, Sound
  <2> QED
    BY <2>1, SpanFields, RecordFields, ClassFacts, Sizes
<1>9. v.span[a].nbytes >= n
  BY <1>2, <1>4, <1>7, <1>8
<1> QED
  BY <1>1, <1>2, <1>5, <1>9 DEF SplitFits

LEMMA NextSteps ==
    ASSUME SpanInv, Next
    PROVE  KeepStep \/ GiveStep \/ TakeStep
<1>1. Sound(Now) /\ Listed(Now) /\ Owned(Now, held)
  BY DEF SpanInv
<1>2. CASE \E ar \in Arenas, g \in Gets :
             \/ GetSpan(ar, g[1], g[2])
             \/ GetSpanNoDescriptor(ar, g[1])
             \/ g[2] /\ GetSpanNoSlab(ar, g[1])
             \/ MintRolledBack(ar, g[1])
             \/ PopNull(ar, g[1])
  <2>1. PICK ar \in Arenas, g \in Gets :
             \/ GetSpan(ar, g[1], g[2])
             \/ GetSpanNoDescriptor(ar, g[1])
             \/ g[2] /\ GetSpanNoSlab(ar, g[1])
             \/ MintRolledBack(ar, g[1])
             \/ PopNull(ar, g[1])
    BY <1>2
  <2>2. g[1] \in Class /\ g[2] \in BOOLEAN
    BY SpanCacheAssumption
  <2>3. CASE GetSpan(ar, g[1], g[2])
    <3>1. SnugGets => Snug(g[1])
      BY DEF SnugGets
    <3> QED
      BY <1>1, <2>2, <2>3, <3>1, GetSpanGives DEF GiveStep
  <2>4. CASE GetSpanNoDescriptor(ar, g[1])
    BY <1>1, <2>2, <2>4, GetSpanNoDescriptorKeeps DEF KeepStep
  <2>5. CASE g[2] /\ GetSpanNoSlab(ar, g[1])
    BY <1>1, <2>2, <2>5, GetSpanNoSlabKeeps DEF KeepStep
  <2>6. CASE MintRolledBack(ar, g[1])
    BY <1>1, <2>6, MintRolledBackKeeps DEF KeepStep
  <2>7. CASE PopNull(ar, g[1])
    BY <1>1, <2>2, <2>7, PopNullKeeps DEF KeepStep
  <2> QED
    BY <2>1, <2>3, <2>4, <2>5, <2>6, <2>7
<1>3. CASE \E ar \in Arenas, g \in AlignedGets :
             \/ GetSpanAligned(ar, g[1], g[2])
             \/ GetSpanAlignedFails(ar, g[1], g[2])
             \/ MintRolledBack(ar, AlignedClass(g[1], g[2]))
             \/ PopNull(ar, AlignedClass(g[1], g[2]))
  <2>1. PICK ar \in Arenas, g \in AlignedGets :
             \/ GetSpanAligned(ar, g[1], g[2])
             \/ GetSpanAlignedFails(ar, g[1], g[2])
             \/ MintRolledBack(ar, AlignedClass(g[1], g[2]))
             \/ PopNull(ar, AlignedClass(g[1], g[2]))
    BY <1>3
  <2>2. CASE GetSpanAligned(ar, g[1], g[2])
    BY <1>1, <2>2, GetSpanAlignedGives DEF GiveStep
  <2>3. CASE GetSpanAlignedFails(ar, g[1], g[2])
    <3>1. ~NeverLost
      <4>1. PICK o \in Sources(ar, AlignedClass(g[1], g[2])) :
               ~SplitFits(o, g[1], g[2]) \/ "spanpool" \in Faults
        BY <2>3 DEF GetSpanAlignedFails
      <4>2. NeverLost => "spanpool" \notin Faults
        BY DEF NeverLost
      <4>3. NeverLost => SplitFits(o, g[1], g[2])
        BY <1>1, AlwaysFits
      <4> QED
        BY <4>1, <4>2, <4>3
    <3> QED
      BY <1>1, <2>3, <3>1, GetSpanAlignedFailsKeeps DEF KeepStep
  <2>4. CASE MintRolledBack(ar, AlignedClass(g[1], g[2]))
    BY <1>1, <2>4, MintRolledBackKeeps DEF KeepStep
  <2>5. CASE PopNull(ar, AlignedClass(g[1], g[2]))
    <3>1. AlignedClass(g[1], g[2]) \in Class
      BY AlignedGetsAssumption
    <3> QED
      BY <1>1, <2>5, <3>1, PopNullKeeps DEF KeepStep
  <2> QED
    BY <2>1, <2>2, <2>3, <2>4, <2>5
<1>4. CASE \E h \in held : PutSpan(h) \/ PutSpanFails(h)
  <2>1. PICK h \in held : PutSpan(h) \/ PutSpanFails(h)
    BY <1>4
  <2>2. h.addr \in Given(Now)
    BY <1>1 DEF Owned
  <2>3. CASE PutSpan(h)
    BY <1>1, <2>2, <2>3, PutSpanTakes DEF TakeStep
  <2>4. CASE PutSpanFails(h)
    <3>1. ~NeverLost
      BY <2>4 DEF PutSpanFails, NeverLost
    <3> QED
      BY <1>1, <2>2, <2>4, <3>1, PutSpanFailsTakes DEF TakeStep
  <2> QED
    BY <2>1, <2>3, <2>4
<1>5. CASE \E ar \in Arenas : Decay(ar)
  <2>1. NeverLost => "madvise" \notin Faults
    BY DEF NeverLost
  <2> QED
    BY <1>1, <1>5, <2>1, DecayKeeps DEF KeepStep
<1> QED
  BY <1>2, <1>3, <1>4, <1>5 DEF Next

LEMMA BecomeNow ==
    ASSUME NEW v \in World, Become(v)
    PROVE  Now' = v
<1>1. /\ span' = v.span /\ pagetrie' = v.pagetrie /\ bucket' = v.bucket
      /\ nspans' = v.nspans /\ epoch_min' = v.epoch_min /\ bitmap' = v.bitmap
      /\ epoch' = v.epoch /\ origins' = v.origins /\ mappings' = v.mappings
      /\ crashed' = v.crashed
  BY DEF Become
<1>2. v = [span |-> v.span, pagetrie |-> v.pagetrie, bucket |-> v.bucket,
           nspans |-> v.nspans, epoch_min |-> v.epoch_min, bitmap |-> v.bitmap,
           epoch |-> v.epoch, origins |-> v.origins, mappings |-> v.mappings,
           crashed |-> v.crashed]
  BY DEF World
<1> QED
  BY <1>1, <1>2 DEF Now

LEMMA InitSound ==
    ASSUME Init
    PROVE  SpanInv /\ Loose(Now) = {} /\ Counted(Now) /\ SpansOf(Now) = {}
<1>1. /\ Now.span = [p \in Page |-> Null] /\ Now.pagetrie = [p \in Page |-> Null]
      /\ Now.bucket = [b \in Bins |-> [s \in States |-> {}]]
      /\ Now.nspans = [b \in Bins |-> 0] /\ Now.epoch_min = [b \in Bins |-> 0]
      /\ Now.bitmap = [ar \in Arenas |-> {}] /\ Now.epoch = [ar \in Arenas |-> 0]
      /\ Now.origins = [ar \in Arenas |-> <<>>] /\ Now.mappings = {}
      /\ Now.crashed = FALSE
  BY DEF Init, Now, Bins
<1>2. 0 \in 0 .. CountMod - 1 /\ 0 \in 0 .. AgeMod - 1
  BY Sizes
<1>3. Now \in World
  <2>1. PICK w : w = Now
    OBVIOUS
  <2>2. /\ w.span \in [Page -> SpanRecord \cup {Null}] /\ w.pagetrie \in [Page -> Page \cup {Null}]
        /\ w.nspans \in [Bins -> 0 .. CountMod - 1] /\ w.epoch_min \in [Bins -> 0 .. CountMod - 1]
        /\ w.bitmap \in [Arenas -> SUBSET Class] /\ w.epoch \in [Arenas -> 0 .. AgeMod - 1]
        /\ w.mappings \in SUBSET [arena : Arenas, addr : Page, npages : 1 .. NPages]
        /\ w.crashed \in BOOLEAN
    BY <1>1, <1>2, <2>1
  <2>3. w.bucket \in [Bins -> [States -> SUBSET Page]]
    BY <1>1, <2>1
  <2>4. w.origins \in [Arenas -> Seq(Page)]
    <3>1. w.origins = [ar \in Arenas |-> <<>>]
      BY <1>1, <2>1
    <3>2. <<>> \in Seq(Page)
      OBVIOUS
    <3> QED
      BY ONLY <3>1, <3>2
  <2>5. w = [span |-> w.span, pagetrie |-> w.pagetrie, bucket |-> w.bucket,
             nspans |-> w.nspans, epoch_min |-> w.epoch_min, bitmap |-> w.bitmap,
             epoch |-> w.epoch, origins |-> w.origins, mappings |-> w.mappings,
             crashed |-> w.crashed]
    BY <2>1 DEF Now
  <2>6. w \in World
    BY ONLY <2>2, <2>3, <2>4, <2>5 DEF World
  <2> QED
    BY <2>1, <2>6
<1>4. SpansOf(Now) = {}
  BY <1>1 DEF SpansOf
<1>5. Mapped(Now) = {}
  BY <1>1 DEF Mapped, MappedPages
<1>6. Tiled(Now) /\ Classed(Now) /\ Indexed(Now)
  BY <1>1, <1>4, <1>5 DEF Tiled, Classed, Indexed
<1>7. \A b \in Bins, s \in States : Now.bucket[b][s] = {}
  BY <1>1
<1>8. Binned(Now)
  BY <1>7 DEF Binned
<1>9. Loose(Now) = {} /\ Listed(Now) /\ Given(Now) = {}
  BY <1>4 DEF Loose, Listed, Given
<1>10. Counted(Now)
  <2>1. \A b \in Bins : InBin(Now, b) = {}
    BY <1>7 DEF InBin
  <2>2. \A b \in Bins : Now.nspans[b] = 0 /\ b[1] \in Arenas
    BY <1>1 DEF Bins
  <2>3. \A b \in Bins : Now.bitmap[b[1]] = {}
    BY <1>1, <2>2
  <2> QED
    BY <2>1, <2>2, <2>3, FS_EmptySet DEF Counted
<1>11. Owned(Now, held)
  BY <1>9 DEF Init, Owned
<1>12. Strayed
  BY <1>5 DEF Init, Strayed, Clear
<1> QED
  BY <1>3, <1>4, <1>6, <1>8, <1>9, <1>10, <1>11, <1>12 DEF SpanInv, Sound

(* Only a rollback whose unmap fails strands a mapping: the one that the   *)
(* caches have not entered.                                                *)
StrandStep ==
    /\ "pagetrie" \in Faults /\ "unmap" \in Faults
    /\ mappings' = mappings
    /\ \E m \in Mapping : /\ stranded' = stranded \cup {m}
                          /\ MapExtent(m) \cap Mapped(Now) = {}

LEMMA RollbackStrands ==
    ASSUME NEW ar \in Arenas, NEW k \in Class, MintRolledBack(ar, k)
    PROVE  stranded' = stranded \/ StrandStep
<1>1. PICK j \in Class : j = MintClass(k)
  BY SpanCacheAssumption DEF MintClass
<1>2. PICK n \in Nat \ {0} : n = ClassPages[j]
  BY <1>1, ClassFacts
<1>3. PICK base \in FreeRuns(n) : SpanDestroy([arena |-> ar, addr |-> base, npages |-> n])
  BY <1>1, <1>2 DEF MintRolledBack
<1>4. PICK m : m = [arena |-> ar, addr |-> base, npages |-> n]
  OBVIOUS
<1>5. CASE "unmap" \in Faults /\ stranded' = stranded \cup {m}
  <2>1. /\ base \in Page /\ base .. (base + n - 1) \subseteq Page \ Mapped(Now)
    BY <1>3, FreeRunFacts
  <2>2. n \in 1 .. NPages
    <3>1. base + n - 1 \in base .. (base + n - 1)
      BY <1>2, <2>1, Sizes
    <3>2. base + n - 1 \in Page
      BY <2>1, <3>1
    <3> QED
      BY <1>2, <2>1, <3>2, Sizes DEF Page
  <2>3. m \in Mapping
    BY <1>4, <2>1, <2>2 DEF Mapping
  <2>4. MapExtent(m) \cap Mapped(Now) = {}
    BY <1>4, <2>1 DEF MapExtent
  <2>5. mappings' = mappings
    <3>1. PICK v : v = [Now EXCEPT !.epoch[ar] = (@ + 1) % AgeMod]
      OBVIOUS
    <3>2. v.mappings = mappings
      BY <3>1 DEF Now
    <3>3. Become(v)
      BY <3>1 DEF MintRolledBack
    <3> QED
      BY <3>2, <3>3 DEF Become
  <2> QED
    BY <1>5, <2>3, <2>4, <2>5 DEF StrandStep, MintRolledBack
<1>6. CASE stranded' = stranded
  BY <1>6
<1> QED
  BY <1>3, <1>4, <1>5, <1>6 DEF SpanDestroy

LEMMA NextStrands ==
    ASSUME Next
    PROVE  stranded' = stranded \/ StrandStep
<1>1. ASSUME NEW ar \in Arenas, NEW g \in Gets, MintRolledBack(ar, g[1])
      PROVE  stranded' = stranded \/ StrandStep
  <2>1. g[1] \in Class
    BY SpanCacheAssumption
  <2> QED
    BY <1>1, <2>1, RollbackStrands
<1>2. ASSUME NEW ar \in Arenas, NEW g \in AlignedGets,
             MintRolledBack(ar, AlignedClass(g[1], g[2]))
      PROVE  stranded' = stranded \/ StrandStep
  <2>1. AlignedClass(g[1], g[2]) \in Class
    BY AlignedGetsAssumption
  <2> QED
    BY <1>2, <2>1, RollbackStrands
<1>3. \A ar, k, slab : GetSpan(ar, k, slab) => stranded' = stranded
  BY DEF GetSpan, Deliver
<1>4. \A ar, k : GetSpanNoDescriptor(ar, k) => stranded' = stranded
  BY DEF GetSpanNoDescriptor
<1>5. \A ar, k : GetSpanNoSlab(ar, k) => stranded' = stranded
  BY DEF GetSpanNoSlab
<1>6. \A ar, k : PopNull(ar, k) => stranded' = stranded
  BY DEF PopNull
<1>7. \A ar, align, k : GetSpanAligned(ar, align, k) => stranded' = stranded
  BY DEF GetSpanAligned, Deliver
<1>8. \A ar, align, k : GetSpanAlignedFails(ar, align, k) => stranded' = stranded
  BY DEF GetSpanAlignedFails
<1>9. \A h : PutSpan(h) \/ PutSpanFails(h) => stranded' = stranded
  BY DEF PutSpan, PutSpanFails
<1>10. \A ar : Decay(ar) => stranded' = stranded
  BY DEF Decay
<1> QED
  BY <1>1, <1>2, <1>3, <1>4, <1>5, <1>6, <1>7, <1>8, <1>9, <1>10 DEF Next

(* Whatever is mapped or stranded, the two stay apart. *)
LEMMA StraysKeep ==
    ASSUME SpanInv, Next
    PROVE  Strayed'
<1>1. PICK v \in World : Become(v) /\ Ordered(Now, v)
  <2>1. KeepStep \/ GiveStep \/ TakeStep
    BY NextSteps
  <2>2. CASE KeepStep
    BY <2>2 DEF KeepStep, Kept, Sound
  <2>3. CASE GiveStep
    BY <2>3 DEF GiveStep, Gave, Sound
  <2>4. CASE TakeStep
    BY <2>4 DEF TakeStep, Took, Sound
  <2> QED
    BY <2>1, <2>2, <2>3, <2>4
<1>2. Mapped(Now)' = MappedPages(v.mappings) /\ mappings' = v.mappings
  BY <1>1, BecomeNow DEF Become, Mapped
<1>3. MappedPages(stranded) \cap MappedPages(v.mappings) = {}
  BY <1>1 DEF SpanInv, Strayed, Ordered, Clearing, Clear, Mapped
<1>4. CASE stranded' = stranded
  <2>1. MappedPages(stranded') \cap Mapped(Now)' = {}
    BY <1>2, <1>3, <1>4
  <2> QED
    BY <1>4, <2>1 DEF SpanInv, Strayed, Clear
<1>5. CASE StrandStep
  <2>1. PICK m \in Mapping : /\ stranded' = stranded \cup {m}
                             /\ MapExtent(m) \cap Mapped(Now) = {}
    BY <1>5 DEF StrandStep
  <2>2. MappedPages(stranded') = MappedPages(stranded) \cup MapExtent(m)
    <3>1. MappedPages(stranded \cup {m}) = MappedPages(stranded) \cup MappedPages({m})
      BY MappedUnion
    <3>2. MappedPages({m}) = MapExtent(m)
      BY MappedOne
    <3> QED
      BY <2>1, <3>1, <3>2
  <2>3. Mapped(Now)' = Mapped(Now)
    BY <1>2, <1>5 DEF StrandStep, Mapped, Now
  <2>4. MappedPages(stranded') \cap Mapped(Now)' = {}
    BY <1>2, <1>3, <2>1, <2>2, <2>3
  <2> QED
    BY <2>1, <2>4 DEF SpanInv, Strayed, Clear
<1> QED
  BY <1>4, <1>5, NextStrands

(* Each kind of step keeps the invariant. *)
LEMMA StepsKeep ==
    ASSUME SpanInv, KeepStep \/ GiveStep \/ TakeStep, Strayed'
    PROVE  SpanInv'
<1>1. Owned(Now, held)
  BY DEF SpanInv
<1>2. CASE KeepStep
  <2>1. PICK v : Become(v) /\ held' = held /\ Kept(Now, v)
    BY <1>2 DEF KeepStep
  <2>2. Sound(v) /\ Listed(v) /\ Given(v) = Given(Now)
    BY <2>1 DEF Kept, SameGiven
  <2>3. Now' = v
    BY <2>1, <2>2, BecomeNow DEF Sound
  <2>4. \A h \in held : Fits(v, h)
    BY <1>1, <2>1 DEF Owned, Fits, Kept, SameGiven
  <2>5. Owned(v, held)
    BY <1>1, <2>2, <2>4 DEF Owned
  <2> QED
    BY <2>1, <2>2, <2>3, <2>5 DEF SpanInv
<1>3. CASE GiveStep
  <2>1. PICK v, h : Become(v) /\ held' = held \cup {h} /\ Gave(Now, v, h)
    BY <1>3 DEF GiveStep
  <2>2. Sound(v) /\ Listed(v) /\ h \in HeldRecord /\ h.addr \notin Given(Now)
        /\ Given(v) = Given(Now) \cup {h.addr}
    BY <2>1 DEF Gave
  <2>3. Now' = v
    BY <2>1, <2>2, BecomeNow DEF Sound
  <2>4. \A g \in held \cup {h} : Fits(v, g)
    BY <1>1, <2>1 DEF Owned, Fits, Gave
  <2>5. Owned(v, held \cup {h})
    BY <1>1, <2>2, <2>4 DEF Owned
  <2> QED
    BY <2>1, <2>2, <2>3, <2>5 DEF SpanInv
<1>4. CASE TakeStep
  <2>1. PICK v, h : h \in held /\ Become(v) /\ held' = held \ {h} /\ Took(Now, v, h)
    BY <1>4 DEF TakeStep
  <2>2. Sound(v) /\ Listed(v) /\ Given(v) = Given(Now) \ {h.addr}
    BY <2>1 DEF Took
  <2>3. Now' = v
    BY <2>1, <2>2, BecomeNow DEF Sound
  <2>4. \A g \in held \ {h} : g.addr \in Given(v)
    BY <1>1, <2>1, <2>2 DEF Owned
  <2>5. \A g \in held \ {h} : Fits(v, g)
    BY <1>1, <2>1, <2>4 DEF Owned, Fits, Took, SameSizes
  <2>6. Owned(v, held \ {h})
    BY <1>1, <2>1, <2>2, <2>4, <2>5 DEF Owned
  <2> QED
    BY <2>1, <2>2, <2>3, <2>6 DEF SpanInv
<1> QED
  BY <1>2, <1>3, <1>4

LEMMA StutterNow ==
    ASSUME UNCHANGED vars
    PROVE  Now' = Now /\ held' = held /\ stranded' = stranded
  BY DEF vars, Now

(* In every reachable state, whichever calls in Faults fail, the unmap of  *)
(* a rollback included, the world of the span caches is sound (typed,      *)
(* tiled, classed, indexed by the pagetrie, the heaps hold only free spans *)
(* under their own keys), what is stranded lies outside it, and every      *)
(* caller owns what it holds: the invariant of scache.c that the rest      *)
(* follows from.                                                           *)
THEOREM SpanInvariant == Spec => []SpanInv
<1>1. Init => SpanInv
  BY InitSound
<1>2. SpanInv /\ [Next]_vars => SpanInv'
  <2>1. SpanInv /\ Next => SpanInv'
    BY NextSteps, StraysKeep, StepsKeep
  <2>2. SpanInv /\ UNCHANGED vars => SpanInv'
    BY StutterNow DEF SpanInv, Strayed, Clear
  <2> QED
    BY <2>1, <2>2
<1> QED
  BY <1>1, <1>2, PTL DEF Spec

LEMMA SpanInvMeans ==
    ASSUME SpanInv
    PROVE  /\ TypeOK /\ SpansTile /\ PagetrieExact
           /\ SnugGets => SpanFits
<1>1. Now \in World /\ Tiled(Now) /\ Indexed(Now) /\ Owned(Now, held)
  BY DEF SpanInv, Sound
<1>2. TypeOK
  <2>1. held \subseteq [addr : Page, class : Class, align : Nat \ {0}]
    BY <1>1 DEF Owned, HeldRecord
  <2>2. /\ span \in [Page -> SpanRecord \cup {Null}] /\ pagetrie \in [Page -> Page \cup {Null}]
        /\ bucket \in [Bins -> [States -> SUBSET Page]]
        /\ nspans \in [Bins -> 0 .. CountMod - 1] /\ epoch_min \in [Bins -> 0 .. CountMod - 1]
        /\ bitmap \in [Arenas -> SUBSET Class] /\ epoch \in [Arenas -> 0 .. AgeMod - 1]
        /\ origins \in [Arenas -> Seq(Page)]
        /\ mappings \in SUBSET [arena : Arenas, addr : Page, npages : 1 .. NPages]
        /\ crashed \in BOOLEAN
    BY <1>1 DEF World, Now
  <2>3. stranded \in SUBSET [arena : Arenas, addr : Page, npages : 1 .. NPages]
    BY DEF SpanInv, Strayed, Mapping
  <2> QED
    BY <2>1, <2>2, <2>3 DEF TypeOK, Bins
<1>3. SpansOf(Now) = Spans /\ Mapped(Now) = MappedPages(mappings) /\ Now.pagetrie = pagetrie
  BY DEF SpansOf, Spans, Mapped, Now
<1>4. SpansTile
  <2>1. MappedPages(mappings \cup stranded) \ MappedPages(stranded) = Mapped(Now)
    <3>1. MappedPages(stranded) \cap Mapped(Now) = {}
      BY DEF SpanInv, Strayed, Clear
    <3>2. MappedPages(mappings \cup stranded) = Mapped(Now) \cup MappedPages(stranded)
      BY <1>3, MappedUnion
    <3> QED
      BY <3>1, <3>2
  <2>2. /\ UNION {Extent(Now, a) : a \in Spans} = Mapped(Now)
        /\ \A a, b \in Spans : a # b => Extent(Now, a) \cap Extent(Now, b) = {}
    BY <1>1, <1>3 DEF Tiled
  <2> QED
    BY <2>1, <2>2 DEF SpansTile
<1>5. PagetrieExact
  BY <1>1, <1>3 DEF Indexed, PagetrieExact
<1>6. SnugGets => SpanFits
  BY <1>1 DEF Owned, Fits, SpanFits, Now
<1> QED
  BY <1>2, <1>4, <1>5, <1>6

(* Every field of the descriptors, bins and caches keeps its type, the age *)
(* and the counters their widths (span.h, bin.h).                          *)
THEOREM SpanCacheTypeCorrect == Spec => []TypeOK
  BY SpanInvariant, SpanInvMeans, PTL

(* Whatever scache_get_span and scache_get_span_aligned hand out has the   *)
(* alignment asked for and, where the class below ends one page short, the *)
(* size of the class, as long as it is held (span.c:192, scache.c:70).     *)
THEOREM SpansAlwaysFit ==
    ASSUME SnugGets
    PROVE  Spec => []SpanFits
<1>1. SpanInv => SpanFits
  BY SpanInvMeans
<1> QED
  BY <1>1, SpanInvariant, PTL

NearlyFit == \A h \in held : /\ Nearly(span[h.addr].nbytes, h.class)
                              /\ h.addr % h.align = 0

(* Of any class asked for: what is handed out has the alignment and is     *)
(* larger than the class below, whatever fails.  A span that rounds up to  *)
(* the class is all that can be wrong with it (span.c:192, scache.c:70).   *)
THEOREM SpansNearlyFit == Spec => []NearlyFit
<1>1. SpanInv => NearlyFit
  BY DEF SpanInv, Owned, Fits, Now, NearlyFit
<1> QED
  BY <1>1, SpanInvariant, PTL

(* Splits, coalescings and mappings keep the spans a partition of the      *)
(* mapped memory, less what a failing auxil_unmap stranded in a rollback,  *)
(* and no span ever has a page of that (span.c:101-114, 150-194, 237-329,  *)
(* 371-382, scache.c:241).                                                 *)
THEOREM SpansAlwaysTile == Spec => []SpansTile
  BY SpanInvariant, SpanInvMeans, PTL

(* The pagetrie names for every page of a span the span around it, so that *)
(* a free and span_get_adj never follow a recycled descriptor, and nothing *)
(* for other pages, those of a stranded mapping included (scache.c:241).   *)
THEOREM PagetrieAlwaysExact == Spec => []PagetrieExact
  BY SpanInvariant, SpanInvMeans, PTL

-----------------------------------------------------------------------------
(* The refinement *)

RangeOf(w, h) == [addr |-> h.addr, npages |-> w.span[h.addr].nbytes]

Live(w, H) == {RangeOf(w, h) : h \in H}

LEMMA KeepRefines ==
    ASSUME NEW w, NEW v, NEW H, Owned(w, H), SameGiven(w, v)
    PROVE  Live(v, H) = Live(w, H)
<1>1. \A h \in H : v.span[h.addr].nbytes = w.span[h.addr].nbytes
  BY DEF Owned, SameGiven
<1>2. \A h \in H : RangeOf(v, h) = RangeOf(w, h)
  BY <1>1 DEF RangeOf
<1> QED
  BY <1>2 DEF Live

LEMMA GiveRefines ==
    ASSUME NEW w, NEW v, NEW H, Owned(w, H), NEW h, Gave(w, v, h), NEW r, r = RangeOf(v, h)
    PROVE  /\ Live(v, H \cup {h}) = Live(w, H) \cup {r}
           /\ Heap!Extent(r) \subseteq Page
           /\ \A q \in Live(w, H) : Heap!Extent(q) \cap Heap!Extent(r) = {}
<1>1. \A g \in H : g.addr \in Given(w) /\ v.span[g.addr].nbytes = w.span[g.addr].nbytes
  BY DEF Owned, Gave
<1>2. \A g \in H : RangeOf(v, g) = RangeOf(w, g)
  BY <1>1 DEF RangeOf
<1>3. Live(v, H \cup {h}) = Live(w, H) \cup {r}
  BY <1>2 DEF Live
<1>4. \A g : Heap!Extent(RangeOf(v, g)) = Extent(v, g.addr)
  BY DEF Heap!Extent, RangeOf, Extent
<1>5. v \in World /\ Tiled(v) /\ Given(v) = Given(w) \cup {h.addr} /\ h.addr \notin Given(w)
  BY DEF Gave, Sound
<1>6. h.addr \in SpansOf(v) /\ \A g \in H : g.addr \in SpansOf(v) /\ g.addr # h.addr
  BY <1>1, <1>5 DEF Given
<1>7. Heap!Extent(r) \subseteq Page
  BY <1>4, <1>5, <1>6 DEF Tiled
<1>8. ASSUME NEW q \in Live(w, H) PROVE Heap!Extent(q) \cap Heap!Extent(r) = {}
  <2>1. PICK g \in H : q = RangeOf(v, g)
    BY <1>2 DEF Live
  <2>2. Heap!Extent(q) = Extent(v, g.addr) /\ Heap!Extent(r) = Extent(v, h.addr)
    BY <1>4, <2>1
  <2>3. Extent(v, g.addr) \cap Extent(v, h.addr) = {}
    BY <1>5, <1>6 DEF Tiled
  <2> QED
    BY <2>2, <2>3
<1> QED
  BY <1>3, <1>7, <1>8

LEMMA TakeRefines ==
    ASSUME NEW w, NEW v, NEW H, Owned(w, H), NEW h \in H, Took(w, v, h), NEW r, r = RangeOf(w, h)
    PROVE  r \in Live(w, H) /\ Live(v, H \ {h}) = Live(w, H) \ {r}
<1>1. \A g \in H : g # h => g.addr # h.addr
  BY DEF Owned
<1>2. \A g \in H \ {h} : g.addr \in Given(v)
  BY <1>1 DEF Owned, Took
<1>3. \A g \in H \ {h} : RangeOf(v, g) = RangeOf(w, g)
  BY <1>2 DEF Took, SameSizes, RangeOf
<1>4. \A g \in H \ {h} : RangeOf(w, g) # r
  <2>1. \A g : RangeOf(w, g).addr = g.addr
    BY DEF RangeOf
  <2> QED
    BY <1>1, <2>1
<1> QED
  BY <1>3, <1>4 DEF Live

LEMMA LiveIs ==
    {[addr |-> h.addr, npages |-> span[h.addr].nbytes] : h \in held} = Live(Now, held)
  BY DEF Live, RangeOf, Now

LEMMA InitRefines == Init => Heap!HInit
  BY DEF Init, Heap!HInit

LEMMA StepRefines ==
    ASSUME SpanInv, [Next]_vars
    PROVE  [Heap!HNext]_({[addr |-> h.addr, npages |-> span[h.addr].nbytes] : h \in held})
<1> DEFINE L == {[addr |-> h.addr, npages |-> span[h.addr].nbytes] : h \in held}
<1>1. L = Live(Now, held) /\ L' = Live(Now', held')
  <2>1. L' = {[addr |-> h.addr, npages |-> span'[h.addr].nbytes] : h \in held'}
    OBVIOUS
  <2>2. Live(Now', held') = {[addr |-> h.addr, npages |-> span'[h.addr].nbytes] : h \in held'}
    BY DEF Live, RangeOf, Now
  <2> QED
    BY <2>1, <2>2, LiveIs
<1>2. Owned(Now, held)
  BY DEF SpanInv
<1>3. CASE KeepStep
  <2>1. PICK v : Become(v) /\ held' = held /\ Kept(Now, v)
    BY <1>3 DEF KeepStep
  <2>2. Now' = v
    BY <2>1, BecomeNow DEF Kept, Sound
  <2>3. L' = L
    BY <1>1, <1>2, <2>1, <2>2, KeepRefines DEF Kept
  <2> QED
    BY <2>3
<1>4. CASE GiveStep
  <2>1. PICK v, h : Become(v) /\ held' = held \cup {h} /\ Gave(Now, v, h)
    BY <1>4 DEF GiveStep
  <2>2. Now' = v
    BY <2>1, BecomeNow DEF Gave, Sound
  <2>3. PICK r : r = RangeOf(v, h)
    OBVIOUS
  <2>4. /\ L' = L \cup {r} /\ Heap!Extent(r) \subseteq Page
        /\ \A q \in L : Heap!Extent(q) \cap Heap!Extent(r) = {}
    <3>1. /\ Live(v, held \cup {h}) = Live(Now, held) \cup {r} /\ Heap!Extent(r) \subseteq Page
          /\ \A q \in Live(Now, held) : Heap!Extent(q) \cap Heap!Extent(r) = {}
      BY <1>2, <2>1, <2>3, GiveRefines
    <3> QED
      BY <1>1, <2>1, <2>2, <3>1
  <2>5. Heap!Allocate(r) /\ r \in L'
    BY <2>4 DEF Heap!Allocate
  <2>6. Heap!HNext
    BY <2>5 DEF Heap!HNext
  <2> QED
    BY <2>6
<1>5. CASE TakeStep
  <2>1. PICK v, h : h \in held /\ Become(v) /\ held' = held \ {h} /\ Took(Now, v, h)
    BY <1>5 DEF TakeStep
  <2>2. Now' = v
    BY <2>1, BecomeNow DEF Took, Sound
  <2>3. PICK r : r = RangeOf(Now, h)
    OBVIOUS
  <2>4. r \in L /\ L' = L \ {r}
    <3>1. r \in Live(Now, held) /\ Live(v, held \ {h}) = Live(Now, held) \ {r}
      BY <1>2, <2>1, <2>3, TakeRefines
    <3> QED
      BY <1>1, <2>1, <2>2, <3>1
  <2>5. Heap!Release(r) /\ r \in L
    BY <2>4 DEF Heap!Release
  <2>6. Heap!HNext
    BY <2>5 DEF Heap!HNext
  <2> QED
    BY <2>6
<1>6. CASE UNCHANGED vars
  <2>1. L' = L
    BY <1>6 DEF vars
  <2> QED
    BY <2>1
<1> QED
  BY <1>3, <1>4, <1>5, <1>6, NextSteps

(* The caches implement the heap of AbstractHeap: scache_get_span* hands   *)
(* out ranges that overlap no held one, scache_put_span takes back exactly *)
(* one, and no other operation touches what a caller holds.                *)
THEOREM SpanCacheImplementsHeap == Spec => ImplementsHeap
<1>1. SpanInv /\ [Next]_vars
        => [Heap!HNext]_({[addr |-> h.addr, npages |-> span[h.addr].nbytes] : h \in held})
  BY StepRefines
<1> QED
  BY <1>1, InitRefines, SpanInvariant, PTL DEF Spec, ImplementsHeap, Heap!HSpec

-----------------------------------------------------------------------------
(* Where no span can leave the heaps for good *)

(* Every free span lies in its heap, and the summaries agree. *)
Whole(w) == Loose(w) = {} /\ Counted(w)

LEMMA StepsKeepWhole ==
    ASSUME NeverLost, Whole(Now), KeepStep \/ GiveStep \/ TakeStep
    PROVE  Whole(Now)'
<1>1. PICK v : Become(v) /\ Clean(Now, v) /\ v \in World
  <2>1. CASE KeepStep
    BY <2>1 DEF KeepStep, Kept, Sound
  <2>2. CASE GiveStep
    BY <2>2 DEF GiveStep, Gave, Sound
  <2>3. CASE TakeStep
    BY <2>3 DEF TakeStep, Took, Sound
  <2> QED
    BY <2>1, <2>2, <2>3
<1>2. Whole(v)
  BY <1>1 DEF Clean, Whole
<1>3. Now' = v
  BY <1>1, BecomeNow
<1> QED
  BY <1>2, <1>3

(* Where neither madvise nor an aligned split can fail every free span     *)
(* lies in its heap, and the counters and the bitmap follow the heaps.     *)
THEOREM AlwaysWhole ==
    ASSUME NeverLost
    PROVE  Spec => [](SpanInv /\ Whole(Now))
<1>1. Init => SpanInv /\ Whole(Now)
  BY InitSound DEF Whole
<1>2. SpanInv /\ Whole(Now) /\ [Next]_vars => (SpanInv /\ Whole(Now))'
  <2>1. SpanInv /\ Whole(Now) /\ Next => (SpanInv /\ Whole(Now))'
    BY NextSteps, StraysKeep, StepsKeep, StepsKeepWhole
  <2>2. SpanInv /\ Whole(Now) /\ UNCHANGED vars => (SpanInv /\ Whole(Now))'
    BY StutterNow DEF SpanInv, Strayed, Clear
  <2> QED
    BY <2>1, <2>2
<1> QED
  BY <1>1, <1>2, PTL DEF Spec

LEMMA WholeMeansNothingLost ==
    ASSUME SpanInv, Whole(Now)
    PROVE  NothingLost
<1>1. Now \in World /\ Binned(Now) /\ Owned(Now, held) /\ Loose(Now) = {}
  BY DEF SpanInv, Sound, Whole
<1>2. Spans = SpansOf(Now) /\ Given(Now) = {a \in Spans : span[a].is_alloc}
  BY DEF Spans, SpansOf, Given, Now
<1>3. /\ \A a \in Spans : span[a].is_alloc <=> \E h \in held : h.addr = a
      /\ \A h \in held : h.addr \in Spans
  BY <1>1, <1>2 DEF Owned
<1>4. ASSUME NEW b \in Bins, NEW s \in States
      PROVE  bucket[b][s] = {a \in Spans : /\ ~span[a].is_alloc /\ span[a].state = s
                                           /\ BinOf(Now, a) = b}
  <2>1. \A a \in bucket[b][s] : a \in Spans /\ ~span[a].is_alloc /\ span[a].state = s
                                /\ BinOf(Now, a) = b
    BY <1>1, <1>2 DEF Binned, Now
  <2>2. \A a \in Spans : ~span[a].is_alloc => a \in bucket[BinOf(Now, a)][span[a].state]
    <3>1. \A a \in SpansOf(Now) : ~Now.span[a].is_alloc
                                    => a \in Now.bucket[BinOf(Now, a)][Now.span[a].state]
      BY <1>1 DEF Loose
    <3> QED
      BY <1>2, <3>1 DEF Now
  <2> QED
    BY <2>1, <2>2
<1> QED
  BY <1>3, <1>4 DEF NothingLost, Bins

LEMMA WholeMeansExact ==
    ASSUME Whole(Now), NPages < CountMod
    PROVE  SummariesExact
<1> SUFFICES ASSUME NEW ar \in Arenas, NEW k \in Class, NEW b, b = <<ar, k>>
             PROVE  LET all == UNION {bucket[b][s] : s \in States}
                    IN  /\ nspans[b] = Cardinality(all)
                        /\ k \in bitmap[ar] <=> all # {}
  BY DEF SummariesExact
<1>1. b \in Bins /\ b[1] = ar /\ b[2] = k
  BY DEF Bins
<1>2. /\ Now.nspans[b] = Cardinality(InBin(Now, b))
      /\ b[2] \in Now.bitmap[b[1]] <=> InBin(Now, b) # {}
  BY <1>1 DEF Whole, Counted
<1>3. InBin(Now, b) = UNION {bucket[b][s] : s \in States} /\ Now.nspans = nspans
      /\ Now.bitmap = bitmap
  BY DEF InBin, Now
<1> QED
  BY <1>1, <1>2, <1>3

(* A span is held by one caller or lies in the one heap its flags name:    *)
(* no operation of scache.c forgets it, where none of them can fail half   *)
(* way.                                                                    *)
THEOREM NothingEverLost ==
    ASSUME NeverLost
    PROVE  Spec => []NothingLost
<1>1. SpanInv /\ Whole(Now) => NothingLost
  BY WholeMeansNothingLost
<1> QED
  BY <1>1, AlwaysWhole, PTL

(* The bitmap and the counters that scache_get_span trusts agree with the  *)
(* heaps, where no operation can fail half way and the counters are wide   *)
(* enough for the address space.                                           *)
THEOREM SummariesAlwaysExact ==
    ASSUME NeverLost, NPages < CountMod
    PROVE  Spec => []SummariesExact
<1>1. Whole(Now) => SummariesExact
  BY WholeMeansExact
<1> QED
  BY <1>1, AlwaysWhole, PTL

-----------------------------------------------------------------------------
(* Lists, ages and neighbours *)

LEMMA StepsOrder ==
    ASSUME SpanInv, KeepStep \/ GiveStep \/ TakeStep
    PROVE  \E v : Now' = v /\ Ordered(Now, v) /\ Parting(Now, v, {})
<1>1. PICK v : /\ Become(v) /\ Sound(v) /\ Ordered(Now, v) /\ Parting(Now, v, {})
  <2>1. CASE KeepStep
    BY <2>1 DEF KeepStep, Kept
  <2>2. CASE GiveStep
    BY <2>2 DEF GiveStep, Gave
  <2>3. CASE TakeStep
    BY <2>3 DEF TakeStep, Took
  <2> QED
    BY <2>1, <2>2, <2>3
<1>2. Now' = v
  BY <1>1, BecomeNow DEF Sound
<1> QED
  BY <1>1, <1>2

LEMMA InitOrdered ==
    ASSUME Init
    PROVE  /\ Marked(Now) /\ Lists(Now) /\ ~Now.crashed
           /\ Aged(Now) /\ Rooted(Now) /\ Parted(Now, {})
<1>1. PICK w : w = Now
  OBVIOUS
<1>2. /\ w.bucket = [b \in Bins |-> [s \in States |-> {}]] /\ w.bitmap = [ar \in Arenas |-> {}]
      /\ w.epoch = [ar \in Arenas |-> 0] /\ w.origins = [ar \in Arenas |-> <<>>]
      /\ w.mappings = {} /\ w.crashed = FALSE
  BY <1>1 DEF Init, Now, Bins
<1>3. SpansOf(w) = {}
  BY <1>1, InitSound
<1>4. Marked(w)
  <2>1. \A b \in Bins : BinEmpty(w, b) /\ b[1] \in Arenas
    BY <1>2 DEF BinEmpty, Bins
  <2> QED
    BY <1>2, <2>1 DEF Marked
<1>5. Lists(w)
  <2>1. Distinct(<<>>) /\ \A a : ~InSeq(<<>>, a)
    BY DEF Distinct, InSeq
  <2>2. \A ar \in Arenas : w.origins[ar] = <<>>
    BY <1>2
  <2>3. \A ar, a : ~OwnRecord(w, ar, a)
    BY <1>3 DEF OwnRecord
  <2>4. \A ar \in Arenas : ListIs(w, ar)
    BY <2>1, <2>2, <2>3 DEF ListIs
  <2> QED
    BY <1>3, <2>4 DEF Lists, NoRecords
<1>6. \A ar, g : AgePages(w, ar, g) = {}
  BY <1>3 DEF AgePages
<1>7. Aged(w)
  <2>1. Convex(w)
    BY <1>6 DEF Convex, IsConvex
  <2>2. Mapped(w) = {}
    BY <1>2 DEF Mapped, MappedPages
  <2>3. Young(w)
    BY <1>2, <1>3, <2>2, FS_EmptySet DEF Young
  <2> QED
    BY <2>1, <2>3 DEF Aged
<1>8. Rooted(w) /\ Parted(w, {})
  BY <1>2, <1>3 DEF Rooted, Parted
<1> QED
  BY <1>1, <1>2, <1>4, <1>5, <1>7, <1>8

(* The bitmaps name exactly the bins with spans in them, and the list of   *)
(* records the spans that have one: where that holds, no null or freed     *)
(* pointer is followed.                                                    *)
Tame == Marked(Now) /\ Lists(Now) /\ ~Now.crashed

(* scache_get_span never uses the null span of an empty bin, and the list  *)
(* of records never leads to a recycled descriptor, where madvise does not *)
(* fail and no aligned request takes over a descriptor with a record       *)
(* (scache.c:163-171, 243-257, span.c:371-382).                            *)
THEOREM NoPointerEverWild ==
    ASSUME "madvise" \notin Faults, RecordsStay
    PROVE  Spec => []NoWildPointer
<1>1. Init => SpanInv /\ Tame
  BY InitSound, InitOrdered DEF Tame
<1>2. SpanInv /\ Tame /\ [Next]_vars => (SpanInv /\ Tame)'
  <2>1. SpanInv /\ Tame /\ Next => (SpanInv /\ Tame)'
    <3> SUFFICES ASSUME SpanInv, Tame, Next PROVE SpanInv' /\ Tame'
      OBVIOUS
    <3>1. PICK v : Now' = v /\ Ordered(Now, v)
      BY NextSteps, StepsOrder
    <3>2. Marked(v) /\ Lists(v) /\ ~v.crashed
      BY <3>1 DEF Tame, Ordered, Tidy, Marking, Quiet
    <3>3. Tame'
      BY <3>1, <3>2 DEF Tame
    <3> QED
      BY <3>3, NextSteps, StraysKeep, StepsKeep
  <2>2. SpanInv /\ Tame /\ UNCHANGED vars => (SpanInv /\ Tame)'
    BY StutterNow DEF SpanInv, Strayed, Clear, Tame
  <2> QED
    BY <2>1, <2>2
<1>3. Tame => NoWildPointer
  BY DEF Tame, NoWildPointer, Now
<1> QED
  BY <1>1, <1>2, <1>3, PTL DEF Spec

(* Every mapping has an age of its own, whose pages lie together, and its  *)
(* record is that of the span at its start.                                *)
Filed == UnmapOnTermination => /\ Lists(Now) /\ Aged(Now) /\ Rooted(Now)
                               /\ stranded = {}

LEMMA FiledMeansExact ==
    ASSUME SpanInv, Filed
    PROVE  OriginsExact
<1> SUFFICES ASSUME UnmapOnTermination, NEW ar \in Arenas
             PROVE  DestroyUnmaps(ar) = {m \in mappings : m.arena = ar}
  BY DEF OriginsExact, Filed
<1>1. PICK w : w = Now
  OBVIOUS
<1>2. /\ w.span = span /\ w.origins = origins /\ w.mappings = mappings
      /\ w \in World /\ Lists(w) /\ Rooted(w)
  BY <1>1 DEF Now, SpanInv, Sound, Filed
<1>3. PICK list : list = origins[ar]
  OBVIOUS
<1>4. \A a : InSeq(list, a) <=> a \in SpansOf(w) /\ span[a].arena = ar /\ span[a].record # 0
  BY <1>2, <1>3 DEF Lists, ListIs, OwnRecord
<1>5. DestroyUnmaps(ar) =
        {[arena |-> ar, addr |-> list[i],
          npages |-> IF span[list[i]] = Null THEN 0 ELSE span[list[i]].record] : i \in DOMAIN list}
  BY <1>3 DEF DestroyUnmaps
<1>6. \A m \in mappings : /\ m \in [arena : Arenas, addr : Page, npages : 1 .. NPages]
                          /\ m.addr \in SpansOf(w) /\ span[m.addr].arena = m.arena
                          /\ span[m.addr].record = m.npages
  BY <1>2, WorldFields DEF Rooted
<1>7. ASSUME NEW d \in DestroyUnmaps(ar) PROVE d \in mappings /\ d.arena = ar
  <2>1. PICK i \in DOMAIN list :
           d = [arena |-> ar, addr |-> list[i],
                npages |-> IF span[list[i]] = Null THEN 0 ELSE span[list[i]].record]
    BY <1>5
  <2>2. PICK a : a = list[i]
    OBVIOUS
  <2>3. a \in SpansOf(w) /\ span[a].arena = ar /\ span[a].record # 0
    BY <1>4, <2>2 DEF InSeq
  <2>4. PICK m \in mappings : m.addr = a
    BY <1>2, <2>3 DEF Rooted
  <2>5. m \in [arena : Arenas, addr : Page, npages : 1 .. NPages]
        /\ m.arena = ar /\ m.addr = a /\ m.npages = span[a].record
    BY <1>6, <2>3, <2>4
  <2>6. span[a] # Null
    BY <1>2, <2>3 DEF SpansOf
  <2>7. d = [arena |-> ar, addr |-> a, npages |-> span[a].record]
    BY <2>1, <2>2, <2>6
  <2>8. m = [arena |-> ar, addr |-> a, npages |-> span[a].record]
    BY <2>5
  <2>9. d = m
    BY <2>7, <2>8
  <2> QED
    BY <2>4, <2>5, <2>9
<1>8. ASSUME NEW m \in mappings, m.arena = ar PROVE m \in DestroyUnmaps(ar)
  <2>1. PICK a : a = m.addr
    OBVIOUS
  <2>2. /\ m \in [arena : Arenas, addr : Page, npages : 1 .. NPages]
        /\ a \in SpansOf(w) /\ span[a].arena = ar /\ span[a].record = m.npages
    BY <1>6, <1>8, <2>1
  <2>3. span[a].record # 0 /\ span[a] # Null
    BY <1>2, <2>2 DEF SpansOf
  <2>4. PICK i \in DOMAIN list : list[i] = a
    BY <1>4, <2>2, <2>3 DEF InSeq
  <2>5. m = [arena |-> ar, addr |-> a, npages |-> span[a].record]
    BY <1>8, <2>1, <2>2
  <2> QED
    BY <1>5, <2>3, <2>4, <2>5
<1> QED
  BY <1>7, <1>8

(* An arena that unmaps at its end has at every moment one record for each *)
(* of its mappings, with the address and the size of the mapping, where    *)
(* mappings are never merged and no descriptor with a record is taken over *)
(* (scache.c:243-257, 548-576, span.c:371-382).                            *)
THEOREM OriginsAlwaysExact ==
    ASSUME OriginsKept
    PROVE  Spec => []OriginsExact
<1>1. Init => SpanInv /\ Filed
  BY InitSound, InitOrdered DEF Filed, Init
<1>2. SpanInv /\ Filed /\ [Next]_vars => (SpanInv /\ Filed)'
  <2>1. SpanInv /\ Filed /\ Next => (SpanInv /\ Filed)'
    <3> SUFFICES ASSUME SpanInv, Filed, Next PROVE SpanInv' /\ Filed'
      OBVIOUS
    <3>1. PICK v : Now' = v /\ Ordered(Now, v)
      BY NextSteps, StepsOrder
    <3>2. UnmapOnTermination => Lists(v) /\ Aged(v) /\ Rooted(v)
      BY <3>1 DEF Filed, Ordered, Tidy, Aging, Rooting, OriginsKept, RecordsStay
    <3>4. UnmapOnTermination => stranded' = stranded
      BY NextStrands DEF StrandStep, OriginsKept, AgesHold
    <3>3. Filed'
      BY <3>1, <3>2, <3>4 DEF Filed
    <3> QED
      BY <3>3, NextSteps, StraysKeep, StepsKeep
  <2>2. SpanInv /\ Filed /\ UNCHANGED vars => (SpanInv /\ Filed)'
    BY StutterNow DEF SpanInv, Strayed, Clear, Filed
  <2> QED
    BY <2>1, <2>2
<1>3. SpanInv /\ Filed => OriginsExact
  BY FiledMeansExact
<1> QED
  BY <1>1, <1>2, <1>3, PTL DEF Spec

Apart == Aged(Now) /\ Parted(Now, {})

LEMMA ApartMeansCoalesced ==
    ASSUME Apart
    PROVE  FreeCoalesced
<1>1. Spans = SpansOf(Now) /\ Now.span = span
  BY DEF Spans, SpansOf, Now
<1>2. \A a, b \in Spans : ~Touch(Now, a, b)
  BY <1>1 DEF Apart, Parted
<1> QED
  BY <1>1, <1>2 DEF FreeCoalesced, CanMerge, Touch

(* Two free neighbours of one mapping are always one span: what a cut      *)
(* leaves and what is put back merges with both of its neighbours, in      *)
(* whatever order spans are put back, and also where spans of different    *)
(* mappings may merge (scache.c:263-351).                                  *)
THEOREM FreeAlwaysCoalesced ==
    ASSUME PartHolds
    PROVE  Spec => []FreeCoalesced
<1>1. Init => SpanInv /\ Apart
  BY InitSound, InitOrdered DEF Apart
<1>2. SpanInv /\ Apart /\ [Next]_vars => (SpanInv /\ Apart)'
  <2>1. SpanInv /\ Apart /\ Next => (SpanInv /\ Apart)'
    <3> SUFFICES ASSUME SpanInv, Apart, Next PROVE SpanInv' /\ Apart'
      OBVIOUS
    <3>1. PICK v : Now' = v /\ Ordered(Now, v) /\ Parting(Now, v, {})
      BY NextSteps, StepsOrder
    <3>2. Aged(v) /\ Parted(v, {})
      BY <3>1 DEF Apart, Ordered, Aging, Parting, PartHolds
    <3>3. Apart'
      BY <3>1, <3>2 DEF Apart
    <3> QED
      BY <3>3, NextSteps, StraysKeep, StepsKeep
  <2>2. SpanInv /\ Apart /\ UNCHANGED vars => (SpanInv /\ Apart)'
    BY StutterNow DEF SpanInv, Strayed, Clear, Apart
  <2> QED
    BY <2>1, <2>2
<1>3. Apart => FreeCoalesced
  BY ApartMeansCoalesced
<1> QED
  BY <1>1, <1>2, <1>3, PTL DEF Spec

=============================================================================
