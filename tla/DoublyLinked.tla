---------------------------- MODULE DoublyLinked -----------------------------
(***************************************************************************)
(* The doubly linked lists that internal/genlist.h generates, for the      *)
(* registries of slabs and the ledger of caches: l holds the head and the  *)
(* tail of a list, c the links of every node; the result holds both.       *)
(***************************************************************************)
EXTENDS Sequences, Integers

CONSTANT Null

(* x->next = n or x->prev = n, where x may be null *)
SetNext(c, x, n) == IF x = Null THEN c ELSE [c EXCEPT ![x].next = n]

SetPrev(c, x, n) == IF x = Null THEN c ELSE [c EXCEPT ![x].prev = n]

(* push_front *)
ListPush(l, c, n) ==
    [coord |-> SetPrev([c EXCEPT ![n].next = l.head, ![n].prev = Null], l.head, n),
     head  |-> n,
     tail  |-> IF l.head = Null THEN n ELSE l.tail]

(* The neighbours of n skip it, and n has no links left. *)
Skip(c, n) == [SetPrev(SetNext(c, c[n].prev, c[n].next), c[n].next, c[n].prev) EXCEPT
                  ![n].next = Null, ![n].prev = Null]

(* a mutant: the tail stays *)
ListRemoveKeepsTail(l, c, n) ==
    [coord |-> Skip(c, n),
     head  |-> IF c[n].prev = Null THEN c[n].next ELSE l.head,
     tail  |-> l.tail]

(* remove: a node without links is taken for the only one of the list,     *)
(* also when it is not on it.                                              *)
ListRemove(l, c, n) ==
    [coord |-> Skip(c, n),
     head  |-> IF c[n].prev = Null THEN c[n].next ELSE l.head,
     tail  |-> IF c[n].next = Null THEN c[n].prev ELSE l.tail]

(* The list whose head is h holds the elements of q, in this order.        *)
NextLinks(c, q) == \A i \in 1 .. Len(q) : c[q[i]].next = IF i = Len(q) THEN Null ELSE q[i + 1]

Spells(h, c, q) == h = (IF q = <<>> THEN Null ELSE q[1]) /\ NextLinks(c, q)
=============================================================================
