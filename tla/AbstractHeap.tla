---------------------------- MODULE AbstractHeap ----------------------------
(***************************************************************************)
(* What the users of a span cache rely on: the ranges of pages they hold   *)
(* never overlap, and a range they hold does not move, grow or shrink      *)
(* until they give it back.                                                *)
(***************************************************************************)
EXTENDS Integers

CONSTANT Page   \* the page numbers of the address space

VARIABLE live   \* the ranges held, each [addr, npages]

Range == [addr : Page, npages : Nat \ {0}]

Extent(r) == r.addr .. (r.addr + r.npages - 1)

HInit == live = {}

Allocate(r) == /\ Extent(r) \subseteq Page
               /\ \A q \in live : Extent(q) \cap Extent(r) = {}
               /\ live' = live \cup {r}

Release(r) == /\ r \in live
              /\ live' = live \ {r}

HNext == \/ \E r \in live' : Allocate(r)
         \/ \E r \in live : Release(r)

HSpec == HInit /\ [][HNext]_live
=============================================================================
