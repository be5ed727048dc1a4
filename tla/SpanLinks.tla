------------------------------ MODULE SpanLinks ------------------------------
(***************************************************************************)
(* The intrusive containers at the level of their pointers: the pairing    *)
(* heaps of bucket.c (internal/genheap.h) and the doubly linked registry   *)
(* of registry.c (internal/genlist.h).  Both link a span through the one   *)
(* union span->coord, so a span that is in one must have left the other    *)
(* without a trace.  Every call is made under a lock and is one action.    *)
(***************************************************************************)
EXTENDS DoublyLinked, Integers, SequencesExt

CONSTANTS Spans,      \* bound: span descriptors, by address
          Buckets,    \* bin.buckets: one heap per state
          Age         \* flags.age

ASSUME SpanLinksAssumption == /\ Spans \subseteq Int
                              /\ Age \in [Spans -> Nat]
                              /\ Null \notin Spans

VARIABLES coord,        \* span->coord: next, prev, childlist.head
          root,         \* of each heap
          head, tail,   \* of the registry
          where,        \* the container the callers put each span in
          popped        \* what the last call returned

vars == <<coord, root, head, tail, where, popped>>

NoLinks == [next |-> Null, prev |-> Null, head |-> Null]

Init == /\ coord = [s \in Spans |-> NoLinks]
        /\ root = [b \in Buckets |-> Null]
        /\ head = Null /\ tail = Null
        /\ where = [s \in Spans |-> "loose"]
        /\ popped = Null

(* span_cmp *)
Before(a, b) == \/ Age[a] < Age[b]
                \/ Age[a] = Age[b] /\ a < b

-----------------------------------------------------------------------------
(* Pairing heaps.  The functions map the links and return them with a root *)
(* (or with the tail of the list of siblings that a pop walks).            *)

(* bucket_merge: the later of the two roots becomes the first child of the *)
(* other.                                                                  *)
Merge(c, a, b) ==
    IF a = Null \/ b = Null THEN [coord |-> c, root |-> IF a = Null THEN b ELSE a]
    ELSE LET r == IF Before(a, b) THEN a ELSE b
             k == IF Before(a, b) THEN b ELSE a
         IN  [root |-> r,
              coord |-> [SetPrev(c, c[r].head, k) EXCEPT
                            ![k].prev = r, ![k].next = c[r].head,
                            ![r] = [NoLinks EXCEPT !.head = k]]]

(* The merge of a and b, linked behind the siblings that end with t *)
MergeBehind(c, t, a, b) ==
    LET m == Merge(c, a, b)
    IN  [root |-> m.root, coord |-> SetNext(SetPrev(m.coord, m.root, t), t, m.root)]

(* One turn of the first loop of bucket_pop: two siblings become one. *)
Pair(w) ==
    IF w.curr = Null \/ w.coord[w.curr].next = Null THEN w
    ELSE LET r == w.coord[w.curr].next
             m == MergeBehind(w.coord, w.tail, w.curr, r)
         IN  [coord |-> m.coord, tail |-> m.root, curr |-> w.coord[r].next]

(* a mutant: the last sibling stays behind *)
DropSingle(w) == w

(* A last sibling without a partner *)
AddSingle(w) ==
    IF w.curr = Null THEN w
    ELSE [coord |-> SetPrev(SetNext(w.coord, w.tail, w.curr), w.curr, w.tail),
          tail |-> w.curr, curr |-> Null]

(* One turn of the second loop: the last two of the merged ones become one. *)
Gather(w) ==
    LET p  == w.coord[w.tail].prev
        pp == w.coord[p].prev
        c  == SetNext(SetPrev(w.coord, w.tail, Null), p, Null)
        m  == MergeBehind(c, pp, p, w.tail)
    IN  [w EXCEPT !.tail = m.root, !.coord = m.coord]

(* Both loops end within as many turns as there are spans. *)
RECURSIVE PairAll(_, _), GatherAll(_, _)

PairAll(w, n) == IF n = 0 \/ w.curr = Null THEN w ELSE PairAll(Pair(w), n - 1)

GatherAll(w, n) == IF n = 0 \/ w.tail = Null \/ w.coord[w.tail].prev = Null THEN w
                   ELSE GatherAll(Gather(w), n - 1)

(* The children of r as one heap, and r without links *)
WithoutRoot(c, r) ==
    LET k == c[r].head
        p == AddSingle(PairAll([coord |-> c, tail |-> Null, curr |-> k], Cardinality(Spans)))
        g == GatherAll(p, Cardinality(Spans))
    IN  IF k = Null THEN [coord |-> [c EXCEPT ![r] = NoLinks], root |-> Null]
        ELSE [coord |-> [g.coord EXCEPT ![r] = NoLinks], root |-> g.tail]

(* a mutant: the next sibling still points at s *)
UnlinkForwardOnly(c, s) ==
    IF c[c[s].prev].head = s THEN [c EXCEPT ![c[s].prev].head = c[s].next]
    ELSE SetNext(c, c[s].prev, c[s].next)

(* s leaves its siblings: prev is the parent of a first child. *)
Unlink(c, s) ==
    LET p  == c[s].prev
        c1 == IF c[p].head = s THEN [c EXCEPT ![p].head = c[s].next]
              ELSE SetNext(c, p, c[s].next)
    IN  SetPrev(c1, c[s].next, p)

(* bucket_remove of a span below the root *)
RemoveInner(c, r, s) ==
    LET t == WithoutRoot(Unlink(c, s), s)
        m == Merge(t.coord, r, t.root)
    IN  [m EXCEPT !.coord[s] = NoLinks]

-----------------------------------------------------------------------------
SetHeap(b, h) == /\ coord' = h.coord
                 /\ root' = [root EXCEPT ![b] = h.root]
                 /\ UNCHANGED <<head, tail>>

PutIn(s, place) == where' = [where EXCEPT ![s] = place]

BucketInsert(b, s) ==
    /\ where[s] = "loose"
    /\ SetHeap(b, Merge([coord EXCEPT ![s] = NoLinks], root[b], s))
    /\ PutIn(s, b) /\ popped' = Null

BucketPop(b) ==
    /\ popped' = root[b]
    /\ IF root[b] = Null THEN UNCHANGED <<coord, root, head, tail, where>>
       ELSE SetHeap(b, WithoutRoot(coord, root[b])) /\ PutIn(root[b], "loose")

(* bucket_remove: also of a span that an error path lost, which is in no   *)
(* heap (see BinRemove in SpanCache).                                      *)
BucketRemove(b, s) ==
    /\ where[s] \in {b, "loose"}
    /\ IF s = root[b] THEN SetHeap(b, WithoutRoot(coord, s))
       ELSE IF coord[s].prev = Null THEN UNCHANGED <<coord, root, head, tail>>
       ELSE SetHeap(b, RemoveInner(coord, root[b], s))
    /\ PutIn(s, "loose") /\ popped' = Null

-----------------------------------------------------------------------------
(* The registry: the first two links of the union *)

Registry == [head |-> head, tail |-> tail]

SetRegistry(l) == /\ coord' = l.coord /\ head' = l.head /\ tail' = l.tail
                  /\ UNCHANGED root

RegistryPush(s) ==
    /\ where[s] = "loose"
    /\ SetRegistry(ListPush(Registry, coord, s))
    /\ PutIn(s, "registry") /\ popped' = Null

(* registry_remove clears next and prev, and not the third link. *)
RegistryRemove(s) ==
    /\ where[s] = "registry"
    /\ SetRegistry(ListRemove(Registry, coord, s))
    /\ PutIn(s, "loose") /\ popped' = Null

(* registry_pop_front, as records_pop uses it as well *)
RegistryPop ==
    /\ popped' = head
    /\ IF head = Null THEN UNCHANGED <<coord, root, head, tail, where>>
       ELSE SetRegistry(ListRemove(Registry, coord, head)) /\ PutIn(head, "loose")

Next == \/ \E b \in Buckets, s \in Spans : BucketInsert(b, s) \/ BucketRemove(b, s)
        \/ \E b \in Buckets : BucketPop(b)
        \/ \E s \in Spans : RegistryPush(s) \/ RegistryRemove(s)
        \/ RegistryPop

Spec == Init /\ [][Next]_vars

-----------------------------------------------------------------------------
In(place) == {s \in Spans : where[s] = place}

LinksOf(s) == {coord[s].next, coord[s].prev, coord[s].head} \ {Null}

RECURSIVE Walk(_, _), Tree(_, _)

(* The walk along next, and what hangs from a root: at most n of each *)
Walk(x, n) == IF x = Null \/ n = 0 THEN <<>> ELSE <<x>> \o Walk(coord[x].next, n - 1)

Children(s) == Walk(coord[s].head, Cardinality(Spans))

Tree(r, n) == IF r = Null \/ n = 0 THEN {}
              ELSE {r} \cup UNION {Tree(k, n - 1) : k \in ToSet(Children(r))}

InTree(b) == Tree(root[b], Cardinality(Spans))

Listed == Walk(head, Cardinality(Spans) + 1)

(* After any mix of inserts, pops and removes from the middle each bucket   *)
(* is one tree of exactly the spans put in it, its links agree in both      *)
(* directions, and a parent is older than its children (genheap.h:63-250). *)
HeapsExact ==
    \A b \in Buckets :
        /\ InTree(b) = In(b)
        /\ root[b] # Null => coord[root[b]].next = Null /\ coord[root[b]].prev = Null
        /\ \A s \in In(b) :
              LET q == Children(s)
              IN  /\ IsInjective(q)
                  /\ \A i \in DOMAIN q :
                        /\ Before(s, q[i])
                        /\ coord[q[i]].prev = IF i = 1 THEN s ELSE q[i - 1]

(* The registry is one list of exactly the spans registered, the same from *)
(* both ends; and what is in neither container holds no link, which is     *)
(* what makes bucket_remove of a lost span harmless (genheap.h:229).       *)
RegistryExact ==
    LET q == Listed
    IN  /\ ToSet(q) = In("registry") /\ IsInjective(q)
        /\ tail = IF q = <<>> THEN Null ELSE Last(q)
        /\ \A i \in DOMAIN q : coord[q[i]].prev = IF i = 1 THEN Null ELSE q[i - 1]
        /\ \A s \in In("registry") : coord[s].head = Null
        /\ \A s \in In("loose") : LinksOf(s) = {}

(* The pointers implement sets with the oldest first and a sequence.       *)
Containers == INSTANCE AbstractLinks WITH
                  bucket <- [b \in Buckets |-> InTree(b)],
                  registry <- Listed

ImplementsContainers == Containers!ASpec
=============================================================================
