----------------------------- MODULE GlobProofs ------------------------------
(***************************************************************************)
(* Proofs about allocators and the caches threads keep for them.  The      *)
(* ledgers: the caches an allocator has mapped lie on chains, of which the *)
(* head leads to one; to the only one, as long as no call failed.  The     *)
(* uids: as long as no creates raced, an allocator has a uid of its own    *)
(* below glob_epoch, and no thread has a cache from glob_epoch on.         *)
(***************************************************************************)
EXTENDS Glob, DistinctSeqs, FiniteSetTheorems

-----------------------------------------------------------------------------
(* The doubly linked lists.  The nodes of one owner lie on chains:         *)
(* sequences of nodes whose links, both ways, lead through them.  Pushing  *)
(* and removing turn chains into chains.  That also holds of nodes that    *)
(* the head no longer reaches: a list removed from twice by the same node  *)
(* loses its head and leaves chains behind, and a node removed from one of *)
(* those is removed correctly.                                             *)

Linked(N) == [N -> [next : N \cup {Null}, prev : N \cup {Null}]]

Alone == [next |-> Null, prev |-> Null]

PrevLinks(c, q) == \A i \in 1 .. Len(q) : c[q[i]].prev = IF i = 1 THEN Null ELSE q[i - 1]

Chain(c, q, M) == /\ q \in Seq(M) /\ q # <<>> /\ Distinct(q)
                  /\ NextLinks(c, q) /\ PrevLinks(c, q)

-----------------------------------------------------------------------------
(* What the two operations do to the links of each node *)

LEMMA PushLinks ==
    ASSUME NEW N, Null \notin N, NEW c \in Linked(N), NEW n \in N, NEW l,
           l.head \in (N \ {n}) \cup {Null}
    PROVE  LET c2 == ListPush(l, c, n).coord
           IN  /\ ListPush(l, c, n).head = n
               /\ c2 \in Linked(N)
               /\ c2[n].next = l.head /\ c2[n].prev = Null
               /\ \A y \in N \ {n} :
                     /\ c2[y].next = c[y].next
                     /\ c2[y].prev = IF y = l.head THEN n ELSE c[y].prev
               /\ \A y \in N \ {n, l.head} : c2[y] = c[y]
<1> DEFINE h == l.head
           c1 == [c EXCEPT ![n].next = h, ![n].prev = Null]
           c2 == ListPush(l, c, n).coord
<1>1. h \in (N \ {n}) \cup {Null}
  OBVIOUS
<1>2. ListPush(l, c, n).head = n /\ c2 = SetPrev(c1, h, n)
  BY DEF ListPush
<1> HIDE DEF h, c2
<1>3. /\ c1 \in Linked(N)
      /\ c1[n].next = h /\ c1[n].prev = Null
      /\ \A y \in N \ {n} : c1[y] = c[y]
  BY <1>1 DEF Linked
<1> HIDE DEF c1
<1>4. CASE h = Null
  <2>1. c2 = c1
    BY <1>2, <1>4 DEF SetPrev
  <2> QED
    BY <1>2, <1>3, <1>4, <2>1 DEF h, c2
<1>5. CASE h # Null
  <2>1. c2 = [c1 EXCEPT ![h].prev = n] /\ h \in N /\ h # n
    BY <1>1, <1>2, <1>5 DEF SetPrev
  <2>2. /\ c2 \in Linked(N)
        /\ c2[h].next = c1[h].next /\ c2[h].prev = n
        /\ \A y \in N \ {h} : c2[y] = c1[y]
    BY <1>3, <2>1 DEF Linked
  <2> QED
    BY <1>2, <1>3, <2>1, <2>2 DEF h, c2
<1> QED
  BY <1>4, <1>5

LEMMA SkipLinks ==
    ASSUME NEW N, Null \notin N, NEW c \in Linked(N), NEW n \in N,
           c[n].next # n, c[n].prev # n
    PROVE  /\ Skip(c, n) \in Linked(N)
           /\ Skip(c, n)[n] = Alone
           /\ \A y \in N \ {n} :
                 /\ Skip(c, n)[y].next = IF y = c[n].prev THEN c[n].next ELSE c[y].next
                 /\ Skip(c, n)[y].prev = IF y = c[n].next THEN c[n].prev ELSE c[y].prev
           /\ \A y \in N \ {n, c[n].next, c[n].prev} : Skip(c, n)[y] = c[y]
<1> DEFINE p == c[n].prev
           x == c[n].next
           c1 == SetNext(c, p, x)
           c2 == SetPrev(c1, x, p)
           c3 == [c2 EXCEPT ![n].next = Null, ![n].prev = Null]
<1>1. p \in (N \ {n}) \cup {Null} /\ x \in (N \ {n}) \cup {Null}
  BY DEF Linked
<1>2. Skip(c, n) = c3
  BY DEF Skip
<1> HIDE DEF p, x
<1>3. /\ c1 \in Linked(N)
      /\ \A y \in N : /\ c1[y].next = IF y = p THEN x ELSE c[y].next
                      /\ c1[y].prev = c[y].prev
      /\ \A y \in N \ {p} : c1[y] = c[y]
  BY <1>1 DEF SetNext, Linked
<1> HIDE DEF c1
<1>4. /\ c2 \in Linked(N)
      /\ \A y \in N : /\ c2[y].next = c1[y].next
                      /\ c2[y].prev = IF y = x THEN p ELSE c1[y].prev
      /\ \A y \in N \ {x} : c2[y] = c1[y]
  BY <1>1, <1>3 DEF SetPrev, Linked
<1> HIDE DEF c2
<1>5. c3 \in Linked(N) /\ c3[n] = Alone /\ \A y \in N \ {n} : c3[y] = c2[y]
  <2>1. c3 \in Linked(N) /\ \A y \in N \ {n} : c3[y] = c2[y]
    <3>1. c2 \in [N -> [next : N \cup {Null}, prev : N \cup {Null}]]
      BY <1>4 DEF Linked
    <3>2. c2[n] \in [next : N \cup {Null}, prev : N \cup {Null}]
      BY <3>1
    <3>3. [c2[n] EXCEPT !.next = Null, !.prev = Null] \in [next : N \cup {Null}, prev : N \cup {Null}]
      BY <3>2
    <3> QED
      BY <3>1, <3>3 DEF Linked
  <2>2. c3[n].next = Null /\ c3[n].prev = Null
    BY <1>4 DEF Linked
  <2> HIDE DEF c3
  <2>3. c3[n] \in [next : N \cup {Null}, prev : N \cup {Null}]
    BY <2>1 DEF Linked
  <2>4. c3[n] = [next |-> c3[n].next, prev |-> c3[n].prev]
    BY <2>3
  <2> QED
    BY <2>1, <2>2, <2>4 DEF Alone
<1> HIDE DEF c3
<1> QED
  BY <1>2, <1>3, <1>4, <1>5 DEF p, x

-----------------------------------------------------------------------------
(* One chain *)

(* A chain stays one while the links of its nodes do. *)
LEMMA ChainFrame ==
    ASSUME NEW M, NEW M2, NEW c, NEW c2, NEW q, Chain(c, q, M),
           ToSet(q) \subseteq M2, \A y \in ToSet(q) : c2[y] = c[y]
    PROVE  Chain(c2, q, M2)
<1>1. q \in Seq(M) /\ \A i \in 1 .. Len(q) : q[i] \in ToSet(q)
  BY ToSetSeq DEF Chain
<1>2. q \in Seq(M2)
  BY <1>1
<1> QED
  BY <1>1, <1>2 DEF Chain, NextLinks, PrevLinks

(* A single node without links is a chain. *)
LEMMA AloneChain ==
    ASSUME NEW M, NEW n \in M, NEW c, c[n].next = Null, c[n].prev = Null
    PROVE  Chain(c, <<n>>, M) /\ ToSet(<<n>>) = {n} /\ <<n>>[1] = n
<1> DEFINE q == <<n>>
<1>1. q \in Seq(M) /\ Len(q) = 1 /\ q[1] = n /\ q # <<>>
  OBVIOUS
<1> HIDE DEF q
<1>2. ToSet(q) = {q[i] : i \in 1 .. 1}
  BY <1>1, ToSetSeq
<1>3. Chain(c, q, M)
  BY <1>1 DEF Chain, Distinct, NextLinks, PrevLinks
<1> QED
  BY <1>1, <1>2, <1>3 DEF q

(* Pushing in front of a chain makes it one longer. *)
LEMMA PushedChain ==
    ASSUME NEW N, Null \notin N, NEW c \in Linked(N), NEW n \in N, NEW l,
           NEW q, Chain(c, q, N), n \notin ToSet(q), l.head = q[1]
    PROVE  Chain(ListPush(l, c, n).coord, <<n>> \o q, N)
<1> DEFINE r == <<n>> \o q
           c2 == ListPush(l, c, n).coord
<1>1. /\ q \in Seq(N) /\ Len(q) \in Nat \ {0} /\ Distinct(q)
      /\ \A i \in 1 .. Len(q) : q[i] \in N /\ q[i] # n
  BY ToSetSeq DEF Chain
<1>2. /\ r \in Seq(N) /\ r # <<>> /\ Distinct(r) /\ Len(r) = Len(q) + 1
      /\ r[1] = n /\ \A i \in 1 .. Len(q) : r[i + 1] = q[i]
  BY <1>1, ConsSeq
<1>3. 1 \in 1 .. Len(q) /\ l.head \in N \ {n}
  BY <1>1
<1>4. /\ c2[n].next = q[1] /\ c2[n].prev = Null
      /\ \A y \in N \ {n} : /\ c2[y].next = c[y].next
                            /\ c2[y].prev = IF y = q[1] THEN n ELSE c[y].prev
  BY <1>3, PushLinks
<1> HIDE DEF r, c2
<1>5. \A i \in 1 .. Len(r) : i = 1 \/ (i - 1 \in 1 .. Len(q) /\ r[i] = q[i - 1])
  <2> SUFFICES ASSUME NEW i \in 1 .. Len(r), i # 1
               PROVE  i - 1 \in 1 .. Len(q) /\ r[i] = q[i - 1]
    OBVIOUS
  <2>1. i - 1 \in 1 .. Len(q) /\ (i - 1) + 1 = i
    BY <1>1, <1>2
  <2> QED
    BY <1>2, <2>1
<1>6. NextLinks(c2, r)
  <2> SUFFICES ASSUME NEW i \in 1 .. Len(r)
               PROVE  c2[r[i]].next = IF i = Len(r) THEN Null ELSE r[i + 1]
    BY DEF NextLinks
  <2>1. CASE i = 1
    BY <1>1, <1>2, <1>3, <1>4, <2>1
  <2>2. CASE i # 1
    <3>1. i - 1 \in 1 .. Len(q) /\ r[i] = q[i - 1]
      BY <1>5, <2>2
    <3>2. c2[r[i]].next = IF i - 1 = Len(q) THEN Null ELSE q[(i - 1) + 1]
      BY <1>1, <1>4, <3>1 DEF Chain, NextLinks
    <3>3. CASE i - 1 = Len(q)
      BY <1>1, <1>2, <3>2, <3>3
    <3>4. CASE i - 1 # Len(q)
      <4>1. i \in 1 .. Len(q) /\ (i - 1) + 1 = i /\ i # Len(r)
        BY <1>1, <1>2, <3>1, <3>4
      <4> QED
        BY <1>2, <3>2, <3>4, <4>1
    <3> QED
      BY <3>3, <3>4
  <2> QED
    BY <2>1, <2>2
<1>7. PrevLinks(c2, r)
  <2> SUFFICES ASSUME NEW i \in 1 .. Len(r)
               PROVE  c2[r[i]].prev = IF i = 1 THEN Null ELSE r[i - 1]
    BY DEF PrevLinks
  <2>1. CASE i = 1
    BY <1>2, <1>4, <2>1
  <2>2. CASE i # 1
    <3>1. i - 1 \in 1 .. Len(q) /\ r[i] = q[i - 1]
      BY <1>5, <2>2
    <3>2. CASE i = 2
      BY <1>1, <1>2, <1>4, <3>1, <3>2
    <3>3. CASE i # 2
      <4>1. /\ i - 1 # 1 /\ (i - 1) - 1 \in 1 .. Len(q) /\ ((i - 1) - 1) + 1 = i - 1
            /\ 1 \in 1 .. Len(q)
        BY <1>1, <3>1, <3>3, <2>2
      <4>2. q[i - 1] # q[1]
        BY <1>1, <3>1, <4>1 DEF Distinct
      <4>3. c2[r[i]].prev = q[(i - 1) - 1]
        BY <1>1, <1>4, <3>1, <4>1, <4>2 DEF Chain, PrevLinks
      <4> QED
        BY <1>2, <2>2, <4>1, <4>3
    <3> QED
      BY <3>2, <3>3
  <2> QED
    BY <2>1, <2>2
<1> QED
  BY <1>2, <1>6, <1>7 DEF Chain, r, c2

(* Removing a node from its chain: those before and behind it close up. *)
LEMMA RemovedChain ==
    ASSUME NEW N, Null \notin N, NEW c \in Linked(N), NEW q, Chain(c, q, N),
           NEW n \in ToSet(q)
    PROVE  LET r  == Without(q, n)
               c2 == Skip(c, n)
           IN  /\ n \in N /\ c2 \in Linked(N) /\ c2[n] = Alone
               /\ \A y \in N \ ToSet(q) : c2[y] = c[y]
               /\ r # <<>> => Chain(c2, r, N)
               /\ ToSet(r) = ToSet(q) \ {n}
               /\ r = <<>> => ToSet(q) = {n}
               /\ q[1] = n => /\ c[n].prev = Null
                              /\ c[n].next = IF r = <<>> THEN Null ELSE r[1]
               /\ q[1] # n => c[n].prev # Null /\ r # <<>> /\ r[1] = q[1]
<1> DEFINE r  == Without(q, n)
           c2 == Skip(c, n)
           m  == Len(q)
<1>1. /\ q \in Seq(N) /\ m \in Nat \ {0} /\ Distinct(q)
      /\ \A i \in 1 .. m : q[i] \in N /\ q[i] \in ToSet(q)
      /\ \A i \in 1 .. m : c[q[i]].next = IF i = m THEN Null ELSE q[i + 1]
      /\ \A i \in 1 .. m : c[q[i]].prev = IF i = 1 THEN Null ELSE q[i - 1]
      /\ \A i, j \in 1 .. m : q[i] = q[j] => i = j
  BY ToSetSeq DEF Chain, NextLinks, PrevLinks, Distinct
<1>2. r \in Seq(N) /\ Distinct(r) /\ ToSet(r) = ToSet(q) \ {n}
  BY <1>1, WithoutSeq
<1>3. PICK k \in 1 .. m : /\ q[k] = n /\ Len(r) = m - 1
                          /\ \A i \in 1 .. m - 1 : r[i] = IF i < k THEN q[i] ELSE q[i + 1]
  BY <1>1, WithoutAt
<1> HIDE DEF r, c2, m
<1>4. c[n].next = (IF k = m THEN Null ELSE q[k + 1]) /\ (k # m => k + 1 \in 1 .. m)
  BY <1>1, <1>3
<1>5. c[n].prev = (IF k = 1 THEN Null ELSE q[k - 1]) /\ (k # 1 => k - 1 \in 1 .. m)
  BY <1>1, <1>3
<1>6. c[n].next # n /\ c[n].prev # n /\ n \in N
  <2>1. k + 1 # k /\ k - 1 # k
    BY <1>1
  <2> QED
    BY <1>1, <1>3, <1>4, <1>5, <2>1
<1>7. /\ c2 \in Linked(N) /\ c2[n] = Alone
      /\ \A y \in N \ {n} : /\ c2[y].next = IF y = c[n].prev THEN c[n].next ELSE c[y].next
                            /\ c2[y].prev = IF y = c[n].next THEN c[n].prev ELSE c[y].prev
      /\ \A y \in N \ {n, c[n].next, c[n].prev} : c2[y] = c[y]
  BY <1>6, SkipLinks DEF c2
<1>8. \A y \in N \ ToSet(q) : c2[y] = c[y]
  BY <1>1, <1>3, <1>4, <1>5, <1>7
<1>9. (r = <<>> <=> m = 1) /\ (m = 1 => ToSet(q) = {n})
  <2>1. r = <<>> <=> m = 1
    BY <1>1, <1>2, <1>3
  <2>2. ASSUME m = 1 PROVE ToSet(q) = {n}
    <3>1. ToSet(q) = {q[i] : i \in 1 .. 1} /\ k = 1
      BY <1>1, <2>2, ToSetSeq DEF m
    <3> QED
      BY <1>3, <3>1
  <2> QED
    BY <2>1, <2>2
<1>10. (q[1] = n <=> k = 1)
  BY <1>1, <1>3
<1>11. /\ q[1] = n => /\ c[n].prev = Null
                     /\ c[n].next = IF r = <<>> THEN Null ELSE r[1]
       /\ q[1] # n => c[n].prev # Null /\ r # <<>> /\ r[1] = q[1]
  <2>1. ASSUME q[1] = n
        PROVE  c[n].prev = Null /\ c[n].next = IF r = <<>> THEN Null ELSE r[1]
    <3>1. CASE m = 1
      BY <1>1, <1>3, <1>4, <1>5, <1>9, <1>10, <2>1, <3>1
    <3>2. CASE m # 1
      <4>1. 1 \in 1 .. m - 1 /\ ~(1 < k)
        BY <1>1, <1>10, <2>1, <3>2
      <4> QED
        BY <1>3, <1>4, <1>5, <1>9, <1>10, <2>1, <3>2, <4>1
    <3> QED
      BY <3>1, <3>2
  <2>2. ASSUME q[1] # n
        PROVE  c[n].prev # Null /\ r # <<>> /\ r[1] = q[1]
    <3>1. k # 1 /\ 1 \in 1 .. m - 1 /\ 1 < k /\ m # 1
      BY <1>1, <1>10, <2>2
    <3>2. q[k - 1] # Null
      BY <1>1, <1>5, <3>1
    <3> QED
      BY <1>3, <1>5, <1>9, <3>1, <3>2
  <2> QED
    BY <2>1, <2>2
<1>12. \A i \in 1 .. m - 1 : r[i] \in N \ {n}
  <2> SUFFICES ASSUME NEW i \in 1 .. m - 1 PROVE r[i] \in N \ {n}
    OBVIOUS
  <2>1. CASE i < k
    <3>1. i \in 1 .. m /\ i # k /\ r[i] = q[i]
      BY <1>1, <1>3, <2>1
    <3>2. q[i] \in N /\ q[i] # q[k]
      BY <1>1, <3>1
    <3> QED
      BY <1>3, <3>1, <3>2
  <2>2. CASE ~(i < k)
    <3>1. i + 1 \in 1 .. m /\ i + 1 # k
      BY <1>1, <2>2
    <3>2. r[i] = q[i + 1]
      BY <1>3, <2>2
    <3>3. q[i + 1] \in N /\ q[i + 1] # q[k]
      BY <1>1, <3>1
    <3> QED
      BY <1>3, <3>2, <3>3
  <2> QED
    BY <2>1, <2>2
<1>13. NextLinks(c2, r)
  <2> SUFFICES ASSUME NEW i \in 1 .. m - 1
               PROVE  c2[r[i]].next = IF i = m - 1 THEN Null ELSE r[i + 1]
    BY <1>3 DEF NextLinks
  <2>1. c2[r[i]].next = IF r[i] = c[n].prev THEN c[n].next ELSE c[r[i]].next
    BY <1>7, <1>12
  <2>2. CASE i < k - 1
    <3>1. /\ i \in 1 .. m /\ i + 1 \in 1 .. m - 1 /\ i < k /\ i + 1 < k /\ i # m /\ i # m - 1
          /\ i # k - 1 /\ k # 1
      BY <1>1, <2>2
    <3>2. r[i] = q[i] /\ r[i + 1] = q[i + 1] /\ q[i] # q[k - 1]
      BY <1>1, <1>3, <1>5, <3>1
    <3> QED
      BY <1>1, <1>5, <2>1, <3>1, <3>2
  <2>3. CASE i = k - 1
    <3>1. i \in 1 .. m /\ i < k /\ k # 1 /\ ~(i + 1 < k) /\ i + 1 = k /\ i + 1 + 1 = k + 1
      BY <1>1, <2>3
    <3>2. c2[r[i]].next = c[n].next
      BY <1>3, <1>5, <2>1, <2>3, <3>1
    <3>3. CASE k = m
      BY <1>1, <1>4, <2>3, <3>2, <3>3
    <3>4. CASE k # m
      <4>1. i + 1 \in 1 .. m - 1 /\ i # m - 1
        BY <1>1, <2>3, <3>4
      <4> QED
        BY <1>3, <1>4, <3>1, <3>2, <3>4, <4>1
    <3> QED
      BY <3>3, <3>4
  <2>4. CASE i > k - 1
    <3>1. /\ i + 1 \in 1 .. m /\ ~(i < k) /\ ~(i + 1 < k) /\ (k # 1 => i + 1 # k - 1)
          /\ (i + 1 = m <=> i = m - 1) /\ (i # m - 1 => i + 1 \in 1 .. m - 1)
      BY <1>1, <2>4
    <3>2. r[i] = q[i + 1] /\ (i # m - 1 => r[i + 1] = q[i + 1 + 1])
      BY <1>3, <3>1
    <3>3. r[i] # c[n].prev
      <4>1. CASE k = 1
        BY <1>5, <1>12, <4>1
      <4>2. CASE k # 1
        BY <1>1, <1>5, <3>1, <3>2, <4>2
      <4> QED
        BY <4>1, <4>2
    <3> QED
      BY <1>1, <2>1, <3>1, <3>2, <3>3
  <2> QED
    BY <1>1, <2>2, <2>3, <2>4
<1>14. PrevLinks(c2, r)
  <2> SUFFICES ASSUME NEW i \in 1 .. m - 1
               PROVE  c2[r[i]].prev = IF i = 1 THEN Null ELSE r[i - 1]
    BY <1>3 DEF PrevLinks
  <2>1. c2[r[i]].prev = IF r[i] = c[n].next THEN c[n].prev ELSE c[r[i]].prev
    BY <1>7, <1>12
  <2>2. CASE i < k
    <3>1. /\ i \in 1 .. m /\ (k # m => i # k + 1)
          /\ (i # 1 => i - 1 \in 1 .. m - 1 /\ i - 1 < k)
      BY <1>1, <2>2
    <3>2. r[i] = q[i] /\ (i # 1 => r[i - 1] = q[i - 1])
      BY <1>3, <2>2, <3>1
    <3>3. r[i] # c[n].next
      <4>1. CASE k = m
        BY <1>4, <1>12, <4>1
      <4>2. CASE k # m
        BY <1>1, <1>4, <3>1, <3>2, <4>2
      <4> QED
        BY <4>1, <4>2
    <3> QED
      BY <1>1, <2>1, <3>1, <3>2, <3>3
  <2>3. CASE i = k
    <3>1. /\ i + 1 \in 1 .. m /\ ~(i < k) /\ k # m
          /\ (k # 1 => k - 1 \in 1 .. m - 1 /\ k - 1 < k)
      BY <1>1, <2>3
    <3>2. r[i] = c[n].next /\ (k # 1 => r[k - 1] = q[k - 1])
      BY <1>3, <1>4, <2>3, <3>1
    <3> QED
      BY <1>5, <2>1, <2>3, <3>2
  <2>4. CASE i > k
    <3>1. /\ i + 1 \in 1 .. m /\ ~(i < k) /\ i # 1 /\ i - 1 \in 1 .. m - 1 /\ ~(i - 1 < k)
          /\ i + 1 # k + 1 /\ (i - 1) + 1 = i /\ (i + 1) - 1 = i /\ i + 1 # 1
      BY <1>1, <2>4
    <3>2. r[i] = q[i + 1] /\ r[i - 1] = q[i]
      BY <1>3, <3>1
    <3>3. r[i] # c[n].next
      <4>1. CASE k = m
        BY <1>4, <1>12, <4>1
      <4>2. CASE k # m
        BY <1>1, <1>4, <3>1, <3>2, <4>2
      <4> QED
        BY <4>1, <4>2
    <3> QED
      BY <1>1, <2>1, <3>1, <3>2, <3>3
  <2> QED
    BY <1>1, <2>2, <2>3, <2>4
<1> QED
  BY <1>2, <1>6, <1>7, <1>8, <1>9, <1>11, <1>13, <1>14 DEF r, c2, Chain

-----------------------------------------------------------------------------
(* All nodes of one owner: K is the set of chains they lie on, h the head   *)
(* of the list, which leads to one of them.  It is whole when there is no   *)
(* other.                                                                   *)
Chains(K, M, h, c) ==
    /\ \A q \in K : Chain(c, q, M)
    /\ \A q1, q2 \in K : q1 = q2 \/ ToSet(q1) \cap ToSet(q2) = {}
    /\ \A y \in M : \E q \in K : y \in ToSet(q)
    /\ h = Null \/ \E q \in K : h = q[1]

Whole(K, h) == \A q \in K : h = q[1]

Listed(M, h, c, whole) == \E K : Chains(K, M, h, c) /\ (whole => Whole(K, h))

(* The first node of a chain is one of its nodes. *)
LEMMA ChainFirst ==
    ASSUME NEW M, NEW c, NEW q, Chain(c, q, M)
    PROVE  q[1] \in ToSet(q) /\ q[1] \in M /\ ToSet(q) \subseteq M
<1>1. q \in Seq(M) /\ Len(q) \in Nat \ {0}
  BY DEF Chain
<1> QED
  BY <1>1, ToSetSeq

(* The owner of no node has a whole list: the empty one. *)
LEMMA ListedNone ==
    ASSUME NEW c, NEW whole PROVE Listed({}, Null, c, whole)
<1>1. Chains({}, {}, Null, c) /\ Whole({}, Null)
  BY DEF Chains, Whole
<1> QED
  BY <1>1 DEF Listed

(* Other nodes may change. *)
LEMMA ListedFrame ==
    ASSUME NEW M, NEW h, NEW c, NEW c2, NEW w \in BOOLEAN, NEW w2 \in BOOLEAN,
           Listed(M, h, c, w), \A y \in M : c2[y] = c[y], w2 => w
    PROVE  Listed(M, h, c2, w2)
<1>1. PICK K : Chains(K, M, h, c) /\ (w => Whole(K, h))
  BY DEF Listed
<1>2. ASSUME NEW q \in K PROVE Chain(c2, q, M)
  <2>1. Chain(c, q, M)
    BY <1>1 DEF Chains
  <2>2. ToSet(q) \subseteq M
    BY <2>1, ChainFirst
  <2> QED
    BY <2>1, <2>2, ChainFrame
<1>3. Chains(K, M, h, c2)
  BY <1>1, <1>2 DEF Chains
<1> QED
  BY <1>1, <1>3 DEF Listed

(* An empty list that is whole has no node. *)
LEMMA ListedEmpty ==
    ASSUME NEW M, Null \notin M, NEW c, Listed(M, Null, c, TRUE)
    PROVE  M = {}
<1>1. PICK K : Chains(K, M, Null, c) /\ Whole(K, Null)
  BY DEF Listed
<1>2. ASSUME NEW q \in K PROVE FALSE
  <2>1. Chain(c, q, M) /\ q[1] = Null
    BY <1>1 DEF Chains, Whole
  <2> QED
    BY <2>1, ChainFirst
<1> QED
  BY <1>1, <1>2 DEF Chains

(* The head is one of the nodes. *)
LEMMA ListedHead ==
    ASSUME NEW M, NEW h, NEW c, NEW w, Listed(M, h, c, w), h # Null
    PROVE  h \in M
<1>1. PICK K : Chains(K, M, h, c)
  BY DEF Listed
<1>2. PICK q \in K : h = q[1]
  BY <1>1 DEF Chains
<1>3. Chain(c, q, M)
  BY <1>1 DEF Chains
<1> QED
  BY <1>2, <1>3, ChainFirst

(* The chains of Q give way to the one chain of R, or to none: the nodes of *)
(* the others stay as they are.                                             *)
Swap(K, M, c, Q, R, M2, h2, c2) ==
    /\ Q \subseteq K
    /\ \A r \in R : Chain(c2, r, M2)
    /\ \A r1, r2 \in R : r1 = r2
    /\ \A y \in M2 : y \in M \/ \E r \in R : y \in ToSet(r)
    /\ \A y \in M : (\E q \in Q : y \in ToSet(q)) \/ (y \in M2 /\ c2[y] = c[y])
    /\ \A y \in M2, q \in Q : y \in ToSet(q) => \E r \in R : y \in ToSet(r)
    /\ \A y \in M, r \in R : y \in ToSet(r) => \E q \in Q : y \in ToSet(q)
    /\ h2 = Null \/ \E q \in (K \ Q) \cup R : h2 = q[1]

LEMMA ChainsSwap ==
    ASSUME NEW K, NEW M, NEW h, NEW c, NEW Q, NEW R, NEW M2, NEW h2, NEW c2,
           Chains(K, M, h, c), Swap(K, M, c, Q, R, M2, h2, c2)
    PROVE  Chains((K \ Q) \cup R, M2, h2, c2)
<1> DEFINE K2 == (K \ Q) \cup R
<1>1. ASSUME NEW q \in K \ Q
      PROVE  /\ Chain(c2, q, M2)
             /\ \A q1 \in Q : ToSet(q) \cap ToSet(q1) = {}
             /\ \A r \in R : ToSet(q) \cap ToSet(r) = {}
  <2>1. \A q1 \in Q : ToSet(q) \cap ToSet(q1) = {}
    BY <1>1 DEF Chains, Swap
  <2>2. Chain(c, q, M)
    BY <1>1 DEF Chains
  <2>3. \A y \in ToSet(q) : y \in M /\ y \in M2 /\ c2[y] = c[y]
    BY <2>1, <2>2, ChainFirst DEF Swap
  <2>4. Chain(c2, q, M2)
    BY <2>2, <2>3, ChainFrame
  <2> QED
    BY <2>1, <2>3, <2>4, <2>2, ChainFirst DEF Swap
<1>2. \A q \in K2 : Chain(c2, q, M2)
  BY <1>1 DEF Swap
<1>3. ASSUME NEW q1 \in K2, NEW q2 \in K2, q1 # q2
      PROVE  ToSet(q1) \cap ToSet(q2) = {}
  <2>1. CASE q1 \in K \ Q /\ q2 \in K \ Q
    BY <1>3, <2>1 DEF Chains
  <2>2. CASE q1 \in K \ Q /\ q2 \in R
    BY <1>1, <2>2
  <2>3. CASE q1 \in R /\ q2 \in K \ Q
    BY <1>1, <2>3
  <2>4. CASE q1 \in R /\ q2 \in R
    BY <1>3, <2>4 DEF Swap
  <2> QED
    BY <1>3, <2>1, <2>2, <2>3, <2>4
<1>4. ASSUME NEW y \in M2
      PROVE  \E q \in K2 : y \in ToSet(q)
  <2>1. CASE \E r \in R : y \in ToSet(r)
    BY <2>1
  <2>2. CASE ~\E r \in R : y \in ToSet(r)
    <3>1. y \in M /\ \A q \in Q : y \notin ToSet(q)
      BY <1>4, <2>2 DEF Swap
    <3>2. PICK q \in K : y \in ToSet(q)
      BY <3>1 DEF Chains
    <3> QED
      BY <3>1, <3>2
  <2> QED
    BY <2>1, <2>2
<1> QED
  BY <1>2, <1>3, <1>4 DEF Chains, Swap

(* A node that leads nowhere adds a chain of its own: the list is not whole. *)
LEMMA ListedApart ==
    ASSUME NEW M, NEW n \in M, NEW h, NEW c, NEW w, Listed(M \ {n}, h, c, w),
           c[n].next = Null, c[n].prev = Null
    PROVE  Listed(M, h, c, FALSE)
<1>1. PICK K : Chains(K, M \ {n}, h, c)
  BY DEF Listed
<1> DEFINE s == <<n>>
<1>2. Chain(c, s, M) /\ ToSet(s) = {n}
  BY AloneChain
<1> HIDE DEF s
<1>3. h = Null \/ \E q \in K : h = q[1]
  BY <1>1 DEF Chains
<1> DEFINE Q == {}
         R == {s}
<1>4. Swap(K, M \ {n}, c, Q, R, M, h, c)
  BY <1>2, <1>3 DEF Swap
<1> HIDE DEF Q, R
<1>5. Chains((K \ Q) \cup R, M, h, c)
  BY <1>1, <1>4, ChainsSwap
<1> QED
  BY <1>5 DEF Listed

(* A chain that holds the head is the only one of a whole list. *)
LEMMA WholeChain ==
    ASSUME NEW K, NEW M, NEW h, NEW c, NEW q \in K, Chains(K, M, h, c), Whole(K, h)
    PROVE  K = {q} /\ h = q[1]
<1>1. ASSUME NEW q2 \in K PROVE q2 = q
  <2>1. q2[1] = h /\ q[1] = h /\ Chain(c, q, M) /\ Chain(c, q2, M)
    BY DEF Chains, Whole
  <2>2. h \in ToSet(q) /\ h \in ToSet(q2)
    BY <2>1, ChainFirst
  <2> QED
    BY <2>2 DEF Chains
<1> QED
  BY <1>1 DEF Whole

(* Pushing keeps the nodes on chains, and a whole list whole. *)
LEMMA ListedPush ==
    ASSUME NEW N, Null \notin N, NEW c \in Linked(N), NEW n \in N,
           NEW M \in SUBSET (N \ {n}), NEW l, NEW w \in BOOLEAN,
           Listed(M, l.head, c, w),
           NEW M2, M2 = M \cup {n}, NEW l2, l2 = ListPush(l, c, n)
    PROVE  /\ Listed(M2, n, l2.coord, w)
           /\ l2.coord \in Linked(N)
           /\ \A y \in N \ M2 : l2.coord[y] = c[y]
<1> DEFINE c2 == l2.coord
<1>1. PICK K : Chains(K, M, l.head, c) /\ (w => Whole(K, l.head))
  BY DEF Listed
<1>2. l.head \in (N \ {n}) \cup {Null} /\ l.head \in M \cup {Null}
  BY ListedHead
<1>3. /\ c2 \in Linked(N)
      /\ c2[n].next = l.head /\ c2[n].prev = Null
      /\ \A y \in N \ {n, l.head} : c2[y] = c[y]
  BY <1>2, PushLinks
<1>4. Listed(M2, n, c2, w)
  <2>1. CASE l.head = Null
    <3> DEFINE s == <<n>>
    <3> HIDE DEF c2
    <3>1. Chain(c2, s, M2) /\ ToSet(s) = {n} /\ s[1] = n
      BY <1>3, <2>1, AloneChain
    <3>2. \A y \in M : y \in M2 /\ c2[y] = c[y]
      BY <1>3, <2>1
    <3>3. w => K = {}
      <4>1. ASSUME w, NEW q \in K PROVE FALSE
        <5>1. Chain(c, q, M) /\ q[1] = Null
          BY <1>1, <2>1, <4>1 DEF Chains, Whole
        <5> QED
          BY <5>1, ChainFirst
      <4> QED
        BY <4>1
    <3> HIDE DEF s
    <3> DEFINE Q == {}
             R == {s}
    <3>4. Swap(K, M, c, Q, R, M2, n, c2)
      BY <3>1, <3>2, <3>3 DEF Swap
    <3>5. w => Whole((K \ Q) \cup R, n)
      BY <3>1, <3>3 DEF Whole
    <3> HIDE DEF Q, R
    <3>6. Chains((K \ Q) \cup R, M2, n, c2)
      BY <1>1, <3>4, ChainsSwap
    <3> QED
      BY <3>5, <3>6 DEF Listed
  <2>2. CASE l.head # Null
    <3>1. PICK q \in K : l.head = q[1]
      BY <1>1, <2>2 DEF Chains
    <3>2. Chain(c, q, M)
      BY <1>1 DEF Chains
    <3>3. ToSet(q) \subseteq M /\ q[1] \in ToSet(q) /\ q \in Seq(N) /\ Distinct(q)
      BY <3>2, ChainFirst DEF Chain
    <3>4. Chain(c, q, N)
      BY <3>2, <3>3, ChainFrame
    <3> DEFINE r == <<n>> \o q
    <3>5. Chain(c2, r, N)
      BY <3>1, <3>3, <3>4, PushedChain
    <3>6. ToSet(r) = ToSet(q) \cup {n} /\ r[1] = n
      BY <3>3, ConsSeq
    <3> HIDE DEF c2, r
    <3>7. Chain(c2, r, M2)
      BY <3>3, <3>5, <3>6, ChainFrame
    <3>8. \A y \in M : y \in ToSet(q) \/ (y \in M2 /\ c2[y] = c[y])
      BY <1>3, <3>1, <3>3
    <3>9. w => K = {q}
      BY <1>1, <3>1, WholeChain
    <3>10. \A y \in M2 : y \in M \/ y \in ToSet(r)
      BY <3>6
    <3>11. \A y \in M : y \in ToSet(r) => y \in ToSet(q)
      BY <3>6
    <3> DEFINE Q == {q}
             R == {r}
    <3>12. Swap(K, M, c, Q, R, M2, n, c2)
      BY <3>3, <3>6, <3>7, <3>8, <3>9, <3>10, <3>11 DEF Swap
    <3>13. w => Whole((K \ Q) \cup R, n)
      BY <3>6, <3>9 DEF Whole
    <3> HIDE DEF Q, R
    <3>14. Chains((K \ Q) \cup R, M2, n, c2)
      BY <1>1, <3>12, ChainsSwap
    <3> QED
      BY <3>13, <3>14 DEF Listed
  <2> QED
    BY <2>1, <2>2
<1> QED
  BY <1>2, <1>3, <1>4

(* Node n has no links left; nodes that are not of the same owner stay.     *)
Freed(N, M, n, c, c2) == /\ c2 \in Linked(N)
                         /\ c2[n].next = Null /\ c2[n].prev = Null
                         /\ \A y \in N \ M : c2[y] = c[y]

(* Removing takes a node off its chain; a whole list stays whole. *)
LEMMA ListedRemove ==
    ASSUME NEW N, Null \notin N, NEW c \in Linked(N), NEW M \in SUBSET N, NEW n \in M,
           NEW l, NEW w \in BOOLEAN, Listed(M, l.head, c, w),
           NEW M2, M2 = M \ {n}, NEW l2, l2 = ListRemove(l, c, n)
    PROVE  /\ Listed(M2, l2.head, l2.coord, w)
           /\ Freed(N, M, n, c, l2.coord)
<1> DEFINE c2 == Skip(c, n)
           h  == l.head
           h2 == IF c[n].prev = Null THEN c[n].next ELSE h
<1>1. l2.head = h2 /\ l2.coord = c2
  BY DEF ListRemove
<1>2. PICK K : Chains(K, M, h, c) /\ (w => Whole(K, h))
  BY DEF Listed
<1>3. PICK q \in K : n \in ToSet(q)
  BY <1>2 DEF Chains
<1>4. Chain(c, q, M)
  BY <1>2 DEF Chains
<1>5. ToSet(q) \subseteq M /\ q[1] \in ToSet(q)
  BY <1>4, ChainFirst
<1>6. Chain(c, q, N)
  BY <1>4, <1>5, ChainFrame
<1> DEFINE r == Without(q, n)
<1>7. /\ n \in N /\ c2 \in Linked(N) /\ c2[n] = Alone
      /\ \A y \in N \ ToSet(q) : c2[y] = c[y]
      /\ r # <<>> => Chain(c2, r, N)
      /\ ToSet(r) = ToSet(q) \ {n}
      /\ r = <<>> => ToSet(q) = {n}
      /\ q[1] = n => /\ c[n].prev = Null
                     /\ c[n].next = IF r = <<>> THEN Null ELSE r[1]
      /\ q[1] # n => c[n].prev # Null /\ r # <<>> /\ r[1] = q[1]
  BY <1>3, <1>6, RemovedChain
<1> HIDE DEF c2, h, r
<1>8. \A y \in M : y \in ToSet(q) \/ (y \in M2 /\ c2[y] = c[y])
  BY <1>3, <1>7
<1>9. w => K = {q} /\ h = q[1]
  BY <1>2, <1>3, WholeChain
<1>10. h = Null \/ \E p \in K : h = p[1]
  BY <1>2 DEF Chains
<1>11. Listed(M2, h2, c2, w)
  <2>1. CASE r = <<>>
    <3>1. q[1] = n /\ h2 = Null /\ ToSet(q) = {n}
      BY <1>7, <2>1
    <3> DEFINE Q == {q}
             R == {}
    <3>2. Swap(K, M, c, Q, R, M2, h2, c2)
      BY <1>8, <1>9, <3>1 DEF Swap
    <3>3. w => Whole((K \ Q) \cup R, h2)
      BY <1>9, <3>1 DEF Whole
    <3> HIDE DEF Q, R, h2
    <3>4. Chains((K \ Q) \cup R, M2, h2, c2)
      BY <1>2, <3>2, ChainsSwap
    <3> QED
      BY <3>3, <3>4 DEF Listed
  <2>2. CASE r # <<>>
    <3>1. Chain(c2, r, M2)
      BY <1>5, <1>7, <2>2, ChainFrame
    <3>2. h2 = Null \/ \E p \in (K \ {q}) \cup {r} : h2 = p[1]
      <4>1. CASE q[1] = n
        BY <1>7, <2>2, <4>1
      <4>2. CASE q[1] # n
        BY <1>7, <1>10, <4>2
      <4> QED
        BY <4>1, <4>2
    <3>3. w => \A p \in (K \ {q}) \cup {r} : h2 = p[1]
      <4>1. CASE q[1] = n
        BY <1>7, <1>9, <2>2, <4>1
      <4>2. CASE q[1] # n
        BY <1>7, <1>9, <4>2
      <4> QED
        BY <4>1, <4>2
    <3>4. \A y \in M2 : y \in M /\ (y \in ToSet(q) => y \in ToSet(r))
      BY <1>7
    <3>5. \A y \in M : y \in ToSet(r) => y \in ToSet(q)
      BY <1>7
    <3> DEFINE Q == {q}
             R == {r}
    <3>6. Swap(K, M, c, Q, R, M2, h2, c2)
      BY <1>8, <3>1, <3>2, <3>3, <3>4, <3>5 DEF Swap
    <3>7. w => Whole((K \ Q) \cup R, h2)
      BY <3>3 DEF Whole
    <3> HIDE DEF Q, R, h2
    <3>8. Chains((K \ Q) \cup R, M2, h2, c2)
      BY <1>2, <3>6, ChainsSwap
    <3> QED
      BY <3>7, <3>8 DEF Listed
  <2> QED
    BY <2>1, <2>2
<1> QED
  BY <1>1, <1>5, <1>7, <1>11 DEF h, Alone, Freed

-----------------------------------------------------------------------------
(* The ledgers *)

Mine(g) == {c \in Caches : owner[c] = g}

AnyGlob == [at : {"unmapped", "live", "dying", "leaked"}, uid : Uids \cup {Null},
            head : Caches \cup {Null}, tail : Caches \cup {Null}, failed : BOOLEAN]

GlobsTyped ==
    /\ glob \in [Globs -> AnyGlob]
    /\ \A g \in Globs : IF glob[g].at = "unmapped" THEN glob[g] = NoGlob
                                                  ELSE glob[g].uid \in Uids

Typed ==
    /\ glob_epoch \in Uids
    /\ creating \in [Threads -> (0 .. MaxnGlobs - 2) \cup {Null}]
    /\ GlobsTyped
    /\ always_off \in [Uids -> BOOLEAN]
    /\ owner \in [Caches -> Globs \cup {Null}]
    /\ coord \in Linked(Caches)
    /\ tlocal_bcache \in [Threads -> [Uids -> Caches \cup {Null}]]
    /\ isoff \in [Threads -> [Uids -> BOOLEAN]]
    /\ failures \in Nat
    /\ raced \in BOOLEAN /\ crashed \in BOOLEAN

Ledgers == \A g \in Globs : Listed(Mine(g), glob[g].head, coord, failures = 0)

-----------------------------------------------------------------------------
(* What an operation on the ledger of one allocator does to all of them *)

(* A call that leaves owners, links and heads alone *)
LEMMA LedgersStay ==
    ASSUME Ledgers, owner' = owner, coord' = coord, failures' = 0 => failures = 0,
           \A g \in Globs : glob'[g].head = glob[g].head
    PROVE  Ledgers'
<1> SUFFICES ASSUME NEW g \in Globs
             PROVE  Listed(Mine(g)', glob'[g].head, coord', failures' = 0)
  BY DEF Ledgers
<1> DEFINE w == failures = 0
           w2 == failures' = 0
<1>1. Listed(Mine(g), glob[g].head, coord, w)
  BY DEF Ledgers
<1>2. w \in BOOLEAN /\ w2 \in BOOLEAN /\ (w2 => w)
  OBVIOUS
<1>3. Mine(g)' = Mine(g)
  BY DEF Mine
<1> HIDE DEF w, w2
<1>4. Listed(Mine(g), glob[g].head, coord', w2)
  BY <1>1, <1>2, ListedFrame
<1> QED
  BY <1>3, <1>4 DEF w2

(* A cache is mapped and pushed. *)
LEMMA LedgersPush ==
    ASSUME GlobAssumption, Typed, Ledgers, NEW o \in Globs, NEW n \in Caches \ Mapped,
           owner' = [owner EXCEPT ![n] = o], failures' = failures,
           coord' = ListPush(glob[o], [coord EXCEPT ![n] = NoLinks], n).coord,
           glob'[o].head = ListPush(glob[o], [coord EXCEPT ![n] = NoLinks], n).head,
           \A g \in Globs \ {o} : glob'[g].head = glob[g].head
    PROVE  Ledgers' /\ coord' \in Linked(Caches)
<1> DEFINE c1 == [coord EXCEPT ![n] = NoLinks]
           M  == Mine(o)
           l  == glob[o]
           w  == failures = 0
<1>1. Null \notin Caches /\ Null \notin Globs
  BY DEF GlobAssumption
<1>2. c1 \in Linked(Caches) /\ \A y \in Caches \ {n} : c1[y] = coord[y]
  BY DEF Typed, Linked, NoLinks
<1>3. owner[n] = Null /\ M \in SUBSET (Caches \ {n})
  BY <1>1 DEF Mapped, Mine
<1>4. w \in BOOLEAN /\ Listed(M, l.head, coord, w)
  BY DEF Ledgers
<1> DEFINE M2 == M \cup {n}
           l2 == ListPush(l, c1, n)
<1> HIDE DEF c1, M, l, w
<1>5. Listed(M, l.head, c1, w)
  BY <1>2, <1>3, <1>4, ListedFrame
<1>6. /\ Listed(M2, n, l2.coord, w) /\ l2.coord \in Linked(Caches)
      /\ \A y \in Caches \ M2 : l2.coord[y] = c1[y]
  <2>1. c1 \in Linked(Caches) /\ n \in Caches /\ M2 = M \cup {n} /\ l2 = ListPush(l, c1, n)
    BY <1>2
  <2> HIDE DEF M2, l2
  <2> QED
    BY <1>1, <1>3, <1>4, <1>5, <2>1, ListedPush
<1>7. coord' = l2.coord /\ glob'[o].head = n
  BY DEF ListPush, l, c1
<1>8. /\ Mine(o)' = M2 /\ n \in M2
      /\ \A g \in Globs \ {o} : Mine(g)' = Mine(g) /\ \A y \in Mine(g) : y \in Caches \ M2
  BY <1>1, <1>3 DEF Typed, Mine, M
<1> HIDE DEF M2, l2
<1>9. Listed(Mine(o)', glob'[o].head, coord', w)
  BY <1>6, <1>7, <1>8
<1>10. ASSUME NEW g \in Globs \ {o}
       PROVE  Listed(Mine(g)', glob'[g].head, coord', w)
  <2>1. Listed(Mine(g), glob[g].head, coord, w)
    BY DEF Ledgers, w
  <2>2. \A y \in Mine(g) : coord'[y] = coord[y]
    BY <1>2, <1>6, <1>7, <1>8
  <2>3. w \in BOOLEAN /\ (w => w)
    BY <1>4
  <2>4. Listed(Mine(g), glob[g].head, coord', w)
    BY ONLY <2>1, <2>2, <2>3, ListedFrame
  <2> QED
    BY <1>8, <2>4
<1> QED
  BY <1>6, <1>7, <1>9, <1>10 DEF Ledgers, w

(* A cache is removed, and unmapped unless that fails. *)
LEMMA LedgersRemove ==
    ASSUME GlobAssumption, Typed, Ledgers, NEW o \in Globs, NEW n \in Mine(o),
           \/ owner' = [owner EXCEPT ![n] = Null] /\ failures' = failures
           \/ owner' = owner /\ failures' = failures + 1,
           coord' = ListRemove(glob[o], coord, n).coord,
           glob'[o].head = ListRemove(glob[o], coord, n).head,
           \A g \in Globs \ {o} : glob'[g].head = glob[g].head
    PROVE  Ledgers' /\ coord' \in Linked(Caches)
<1> DEFINE M  == Mine(o)
           l  == glob[o]
           w  == failures = 0
           w2 == failures' = 0
<1>1. Null \notin Caches /\ Null \notin Globs /\ coord \in Linked(Caches) /\ failures \in Nat
  BY DEF GlobAssumption, Typed
<1>2. M \in SUBSET Caches /\ n \in M /\ owner[n] = o /\ n \in Caches
  BY DEF Mine
<1>3. w \in BOOLEAN /\ w2 \in BOOLEAN /\ (w2 => w) /\ Listed(M, l.head, coord, w)
  BY <1>1 DEF Ledgers
<1> DEFINE M2 == M \ {n}
           l2 == ListRemove(l, coord, n)
<1> HIDE DEF M, l, w, w2
<1>4. /\ Listed(M2, l2.head, l2.coord, w)
      /\ l2.coord \in Linked(Caches) /\ l2.coord[n].next = Null /\ l2.coord[n].prev = Null
      /\ \A y \in Caches \ M : l2.coord[y] = coord[y]
  <2>1. M2 = M \ {n} /\ l2 = ListRemove(l, coord, n)
    OBVIOUS
  <2> HIDE DEF M2, l2
  <2>2. Null \notin Caches /\ coord \in Linked(Caches)
    BY <1>1
  <2>3. M \in SUBSET Caches /\ n \in M
    BY <1>2
  <2>4. w \in BOOLEAN /\ Listed(M, l.head, coord, w)
    BY <1>3
  <2>5. Listed(M2, l2.head, l2.coord, w)
    BY ONLY <2>1, <2>2, <2>3, <2>4, ListedRemove
  <2>6. Freed(Caches, M, n, coord, l2.coord)
    BY ONLY <2>1, <2>2, <2>3, <2>4, ListedRemove
  <2> QED
    BY <2>5, <2>6 DEF Freed
<1>5. coord' = l2.coord /\ glob'[o].head = l2.head
  BY DEF l
<1> HIDE DEF l2
<1>6. /\ coord' \in Linked(Caches)
      /\ Listed(M \ {n}, glob'[o].head, coord', w)
      /\ coord'[n].next = Null /\ coord'[n].prev = Null
      /\ \A y \in Caches \ M : coord'[y] = coord[y]
  BY <1>4, <1>5
<1>7. \A g \in Globs \ {o} : Mine(g)' = Mine(g) /\ \A y \in Mine(g) : y \in Caches \ M
  BY <1>1, <1>2 DEF Typed, Mine, M
<1>8. Listed(Mine(o)', glob'[o].head, coord', w2)
  <2>1. CASE owner' = [owner EXCEPT ![n] = Null] /\ failures' = failures
    <3>1. Mine(o)' = M \ {n} /\ w2 = w
      BY <1>1, <1>2, <2>1 DEF Typed, Mine, M, w, w2
    <3> QED
      BY <1>6, <3>1
  <2>2. CASE owner' = owner /\ failures' = failures + 1
    <3>1. Mine(o)' = M /\ w2 = FALSE
      BY <1>1, <2>2 DEF Mine, M, w2
    <3>2. Listed(M, glob'[o].head, coord', FALSE)
      BY <1>2, <1>6, ListedApart
    <3> QED
      BY <3>1, <3>2
  <2> QED
    BY <2>1, <2>2
<1>9. ASSUME NEW g \in Globs \ {o}
      PROVE  Listed(Mine(g)', glob'[g].head, coord', w2)
  <2>1. Listed(Mine(g), glob[g].head, coord, w)
    BY DEF Ledgers, w
  <2>2. \A y \in Mine(g) : coord'[y] = coord[y]
    BY <1>6, <1>7
  <2>3. Listed(Mine(g), glob[g].head, coord', w2)
    BY <1>3, <2>1, <2>2, ListedFrame
  <2> QED
    BY <1>7, <2>3
<1> QED
  BY <1>6, <1>8, <1>9 DEF Ledgers, w2

(* The allocator whose ledger was set, and the others *)
LEMMA SetLedgerGlobs ==
    ASSUME GlobsTyped, NEW g \in Globs, glob[g].at # "unmapped", NEW l,
           l.head \in Caches \cup {Null}, l.tail \in Caches \cup {Null},
           NEW f \in BOOLEAN, SetLedger(g, l, f)
    PROVE  /\ GlobsTyped' /\ coord' = l.coord
           /\ glob'[g].head = l.head /\ glob'[g].failed = f
           /\ \A h \in Globs : glob'[h].at = glob[h].at /\ glob'[h].uid = glob[h].uid
           /\ \A h \in Globs \ {g} : glob'[h] = glob[h]
<1> DEFINE hd == l.head
           tl == l.tail
           r  == [glob[g] EXCEPT !.head = hd, !.tail = tl, !.failed = f]
<1>1. glob' = [glob EXCEPT ![g] = r] /\ coord' = l.coord
  BY DEF SetLedger
<1>2. hd \in Caches \cup {Null} /\ tl \in Caches \cup {Null}
  OBVIOUS
<1>3. glob \in [Globs -> AnyGlob] /\ glob[g] \in AnyGlob /\ glob[g].uid \in Uids
  BY DEF GlobsTyped
<1> HIDE DEF hd, tl
<1>4. /\ r \in AnyGlob /\ r.head = hd /\ r.failed = f
      /\ r.at = glob[g].at /\ r.uid = glob[g].uid
  BY <1>2, <1>3 DEF AnyGlob
<1> HIDE DEF r
<1>5. glob' \in [Globs -> AnyGlob] /\ glob'[g] = r /\ \A h \in Globs \ {g} : glob'[h] = glob[h]
  BY <1>1, <1>3, <1>4
<1>6. GlobsTyped'
  BY <1>3, <1>4, <1>5 DEF GlobsTyped
<1> QED
  BY <1>1, <1>4, <1>5, <1>6 DEF hd

LEMMA PushTyped ==
    ASSUME Typed, NEW g \in Globs, NEW c \in Caches
    PROVE  LET l == ListPush(glob[g], [coord EXCEPT ![c] = NoLinks], c)
           IN  l.head \in Caches \cup {Null} /\ l.tail \in Caches \cup {Null}
  BY DEF ListPush, Typed, GlobsTyped, AnyGlob

LEMMA RemoveTyped ==
    ASSUME Typed, NEW g \in Globs, NEW c \in Caches
    PROVE  LET l == ListRemove(glob[g], coord, c)
           IN  l.head \in Caches \cup {Null} /\ l.tail \in Caches \cup {Null}
  BY DEF ListRemove, Typed, GlobsTyped, AnyGlob, Linked

LEMMA NoGlobTyped == NoGlob \in AnyGlob /\ NoGlob.at = "unmapped" /\ NoGlob.head = Null
  BY DEF NoGlob, AnyGlob

LEMMA UidFacts ==
    ASSUME GlobAssumption
    PROVE  /\ 0 \in Uids /\ Uids \subseteq Nat /\ Null \notin Uids
           /\ 0 .. MaxnGlobs - 2 \subseteq Uids
           /\ \A u \in 0 .. MaxnGlobs - 2 : u + 1 \in Uids
  BY DEF GlobAssumption, Uids

(* An allocator passes to another stage of its life. *)
LEMMA StageTyped ==
    ASSUME GlobsTyped, NEW g \in Globs, glob[g].at # "unmapped",
           NEW s \in {"live", "dying", "leaked"}, glob' = [glob EXCEPT ![g].at = s]
    PROVE  /\ GlobsTyped' /\ glob'[g].at = s
           /\ \A h \in Globs : /\ glob'[h].head = glob[h].head /\ glob'[h].uid = glob[h].uid
                               /\ glob'[h].failed = glob[h].failed
           /\ \A h \in Globs \ {g} : glob'[h] = glob[h]
<1> DEFINE r == [glob[g] EXCEPT !.at = s]
<1>1. glob \in [Globs -> AnyGlob] /\ glob[g] \in AnyGlob /\ glob[g].uid \in Uids
  BY DEF GlobsTyped
<1>2. glob' = [glob EXCEPT ![g] = r]
  BY <1>1
<1>3. /\ r \in AnyGlob /\ r.at = s /\ r.uid = glob[g].uid /\ r.head = glob[g].head
      /\ r.failed = glob[g].failed /\ s # "unmapped"
  BY <1>1 DEF AnyGlob
<1> HIDE DEF r
<1>4. glob' \in [Globs -> AnyGlob] /\ glob'[g] = r /\ \A h \in Globs \ {g} : glob'[h] = glob[h]
  BY <1>1, <1>2, <1>3
<1>5. GlobsTyped'
  BY <1>1, <1>3, <1>4 DEF GlobsTyped
<1> QED
  BY <1>3, <1>4, <1>5

-----------------------------------------------------------------------------
(* The inductive invariant of the ledgers *)

LEMMA LedgersInit == ASSUME GlobAssumption, Init PROVE Typed /\ Ledgers
<1>1. Typed
  BY UidFacts, NoGlobTyped DEF Typed, Init, GlobsTyped, Linked, NoLinks
<1>2. ASSUME NEW g \in Globs PROVE Listed(Mine(g), glob[g].head, coord, failures = 0)
  <2>1. Mine(g) = {} /\ glob[g].head = Null
    BY NoGlobTyped DEF Init, Mine, GlobAssumption
  <2> QED
    BY <2>1, ListedNone
<1> QED
  BY <1>1, <1>2 DEF Ledgers

LEMMA LedgersNext ==
    ASSUME GlobAssumption, Typed, Ledgers, [Next]_vars
    PROVE  Typed' /\ Ledgers'
<1>1. ASSUME NEW t \in Threads, CreateBegin(t)
      PROVE  Typed' /\ Ledgers'
  <2>1. glob' = glob /\ owner' = owner /\ coord' = coord /\ failures' = failures
    BY <1>1 DEF CreateBegin, cacheVars
  <2>2. creating' \in [Threads -> (0 .. MaxnGlobs - 2) \cup {Null}]
    BY <1>1 DEF CreateBegin, Typed, Uids, GlobAssumption
  <2>3. Typed'
    BY <1>1, <2>1, <2>2 DEF CreateBegin, Typed, GlobsTyped, cacheVars
  <2> QED
    BY <2>1, <2>3, LedgersStay
<1>2. ASSUME NEW t \in Threads, CreateFails(t)
      PROVE  Typed' /\ Ledgers'
  <2>1. glob' = glob /\ owner' = owner /\ coord' = coord /\ failures' = failures + 1
    BY <1>2 DEF CreateFails, Fail, cacheVars
  <2>2. Typed'
    BY <1>2, <2>1 DEF CreateFails, Typed, GlobsTyped, cacheVars
  <2>3. failures' # 0
    BY <2>1 DEF Typed
  <2> QED
    BY <2>1, <2>2, <2>3, LedgersStay
<1>3. ASSUME NEW t \in Threads, NEW g \in Globs, NEW off \in BOOLEAN, CreateEnd(t, g, off)
      PROVE  Typed' /\ Ledgers'
  <2>1. /\ owner' = owner /\ coord' = coord /\ failures' = failures
        /\ creating[t] \in 0 .. MaxnGlobs - 2
        /\ glob' = [glob EXCEPT ![g] = [NoGlob EXCEPT !.at = "live", !.uid = creating[t]]]
        /\ glob[g].at = "unmapped"
    BY <1>3 DEF CreateEnd, Typed
  <2> DEFINE u == creating[t]
             r == [NoGlob EXCEPT !.at = "live", !.uid = u]
  <2>2. u \in Uids /\ u + 1 \in Uids
    BY <2>1, UidFacts
  <2> HIDE DEF u
  <2>3. r \in AnyGlob /\ r.at = "live" /\ r.uid = u /\ r.head = Null
    BY <2>2 DEF NoGlob, AnyGlob
  <2>4. glob' = [glob EXCEPT ![g] = r]
    BY <2>1 DEF u
  <2> HIDE DEF r
  <2>5. GlobsTyped' /\ glob[g].head = Null
    <3>1. glob[g] = NoGlob /\ glob \in [Globs -> AnyGlob]
      BY <2>1 DEF Typed, GlobsTyped
    <3>2. glob' \in [Globs -> AnyGlob] /\ \A h \in Globs : glob'[h] = IF h = g THEN r ELSE glob[h]
      BY <2>3, <2>4, <3>1
    <3> QED
      <4>1. GlobsTyped'
        <5> SUFFICES ASSUME NEW h \in Globs
                     PROVE  IF glob'[h].at = "unmapped" THEN glob'[h] = NoGlob
                                                       ELSE glob'[h].uid \in Uids
          BY <3>2 DEF GlobsTyped
        <5>1. CASE h = g
          BY <2>2, <2>3, <3>2, <5>1
        <5>2. CASE h # g
          BY <3>2, <5>2 DEF Typed, GlobsTyped
        <5> QED
          BY <5>1, <5>2
      <4> QED
        BY <3>1, <4>1, NoGlobTyped
  <2>6. \A h \in Globs : glob'[h].head = glob[h].head
    <3> SUFFICES ASSUME NEW h \in Globs PROVE glob'[h].head = glob[h].head
      OBVIOUS
    <3>1. glob'[h] = IF h = g THEN r ELSE glob[h]
      BY <2>4 DEF Typed, GlobsTyped
    <3> QED
      BY <2>3, <2>5, <3>1
  <2>7. glob_epoch' \in Uids /\ always_off' \in [Uids -> BOOLEAN] /\ raced' \in BOOLEAN
    BY <1>3, <2>2 DEF CreateEnd, NextUid, Typed, u
  <2>8. Typed'
    BY <1>3, <2>5, <2>7 DEF CreateEnd, Typed
  <2> QED
    BY <2>1, <2>6, <2>8, LedgersStay
<1>4. ASSUME NEW t \in Threads, NEW g \in Globs, CreateCache(t, g)
      PROVE  Typed' /\ Ledgers'
  <2>1. PICK c \in Caches \ Mapped :
           /\ owner' = [owner EXCEPT ![c] = g]
           /\ SetLedger(g, ListPush(glob[g], [coord EXCEPT ![c] = NoLinks], c), FALSE)
           /\ tlocal_bcache' = [tlocal_bcache EXCEPT ![t][glob[g].uid] = c]
    BY <1>4 DEF CreateCache
  <2> DEFINE l == ListPush(glob[g], [coord EXCEPT ![c] = NoLinks], c)
  <2>2. glob[g].at = "live" /\ glob[g].uid \in Uids /\ GlobsTyped /\ failures' = failures
    BY <1>4 DEF CreateCache, Live, Typed, GlobsTyped
  <2>3. /\ GlobsTyped' /\ coord' = l.coord /\ glob'[g].head = l.head
        /\ \A h \in Globs \ {g} : glob'[h] = glob[h]
    <3>1. l.head \in Caches \cup {Null} /\ l.tail \in Caches \cup {Null}
      BY PushTyped
    <3>2. SetLedger(g, l, FALSE)
      BY <2>1
    <3> HIDE DEF l
    <3> QED
      BY <2>2, <3>1, <3>2, SetLedgerGlobs
  <2>4. Ledgers' /\ coord' \in Linked(Caches)
    BY <2>1, <2>2, <2>3, LedgersPush
  <2>5. owner' \in [Caches -> Globs \cup {Null}]
    BY <2>1 DEF Typed
  <2>6. tlocal_bcache' \in [Threads -> [Uids -> Caches \cup {Null}]]
    BY <2>1, <2>2 DEF Typed
  <2>7. Typed'
    BY <1>4, <2>3, <2>4, <2>5, <2>6 DEF CreateCache, uidVars, Typed
  <2> QED
    BY <2>4, <2>7
<1>5. ASSUME NEW t \in Threads, NEW g \in Globs, UseCache(t, g)
      PROVE  Typed' /\ Ledgers'
  <2>1. Typed'
    BY <1>5 DEF UseCache, uidVars, cacheVars, Typed, GlobsTyped
  <2>2. owner' = owner /\ coord' = coord /\ failures' = failures /\ glob' = glob
    BY <1>5 DEF UseCache, cacheVars
  <2> QED
    BY <2>1, <2>2, LedgersStay
<1>6. ASSUME NEW t \in Threads, NEW g \in Globs, TurnOn(t, g) \/ TurnOffBare(t, g)
      PROVE  Typed' /\ Ledgers'
  <2> DEFINE u == glob[g].uid
  <2>1. /\ u \in Uids
        /\ \/ isoff' = [isoff EXCEPT ![t][u] = FALSE]
           \/ isoff' = [isoff EXCEPT ![t][u] = TRUE]
    BY <1>6 DEF TurnOn, TurnOffBare, Live, Typed, GlobsTyped
  <2> HIDE DEF u
  <2>2. isoff' \in [Threads -> [Uids -> BOOLEAN]]
    <3>1. isoff \in [Threads -> [Uids -> BOOLEAN]]
      BY DEF Typed
    <3>2. CASE isoff' = [isoff EXCEPT ![t][u] = FALSE]
      BY <2>1, <3>1, <3>2
    <3>3. CASE isoff' = [isoff EXCEPT ![t][u] = TRUE]
      BY <2>1, <3>1, <3>3
    <3> QED
      BY <2>1, <3>2, <3>3
  <2>3. Typed'
    BY <1>6, <2>2 DEF TurnOn, TurnOffBare, uidVars, cacheVars, Typed, GlobsTyped
  <2>4. owner' = owner /\ coord' = coord /\ failures' = failures /\ glob' = glob
    BY <1>6 DEF TurnOn, TurnOffBare, cacheVars
  <2> QED
    BY <2>3, <2>4, LedgersStay
<1>7. ASSUME NEW t \in Threads, NEW g \in Globs, TurnOff(t, g)
      PROVE  Typed' /\ Ledgers'
  <2> DEFINE u == glob[g].uid
             c == tlocal_bcache[t][u]
  <2>1. u \in Uids /\ c \in Caches
    <3>1. g \in Live /\ c # Null
      BY <1>7 DEF TurnOff
    <3> QED
      BY <3>1 DEF Live, Typed, GlobsTyped
  <2>2. CASE ~Usable(c)
    <3>1. crashed' = TRUE /\ UNCHANGED <<cacheVars, tlocal_bcache, isoff, failures, uidVars>>
      BY <1>7, <2>2 DEF TurnOff
    <3>2. Typed'
      BY <3>1 DEF uidVars, cacheVars, Typed, GlobsTyped
    <3>3. owner' = owner /\ coord' = coord /\ failures' = failures /\ glob' = glob
      BY <3>1 DEF cacheVars
    <3> QED
      BY <3>2, <3>3, LedgersStay
  <2>3. CASE Usable(c)
    <3> DEFINE o == owner[c]
               l == ListRemove(glob[o], coord, c)
    <3>1. /\ SetLedger(o, l, FALSE) /\ UNCHANGED <<crashed, uidVars>>
          /\ \/ /\ owner' = [owner EXCEPT ![c] = Null]
                /\ tlocal_bcache' = [tlocal_bcache EXCEPT ![t][u] = Null]
                /\ isoff' = [isoff EXCEPT ![t][u] = TRUE]
                /\ UNCHANGED failures
             \/ Fail /\ UNCHANGED <<owner, tlocal_bcache, isoff>>
      BY <1>7, <2>3 DEF TurnOff, Deregistered
    <3> HIDE DEF u, c
    <3>2. o \in Globs /\ glob[o].at # "unmapped" /\ c \in Mine(o) /\ GlobsTyped
      BY <2>1, <2>3 DEF Usable, Mapped, Typed, Mine
    <3> HIDE DEF o
    <3>3. /\ GlobsTyped' /\ coord' = l.coord /\ glob'[o].head = l.head
          /\ \A h \in Globs \ {o} : glob'[h] = glob[h]
      <4>1. l.head \in Caches \cup {Null} /\ l.tail \in Caches \cup {Null}
        BY <2>1, <3>2, RemoveTyped
      <4> HIDE DEF l
      <4> QED
        BY <3>1, <3>2, <4>1, SetLedgerGlobs
    <3>4. \/ owner' = [owner EXCEPT ![c] = Null] /\ failures' = failures
          \/ owner' = owner /\ failures' = failures + 1
      BY <3>1 DEF Fail
    <3>5. Ledgers' /\ coord' \in Linked(Caches)
      BY <3>2, <3>3, <3>4, LedgersRemove
    <3>6. /\ owner' \in [Caches -> Globs \cup {Null}]
          /\ tlocal_bcache' \in [Threads -> [Uids -> Caches \cup {Null}]]
          /\ isoff' \in [Threads -> [Uids -> BOOLEAN]]
          /\ failures' \in Nat
      <4>1. CASE /\ owner' = [owner EXCEPT ![c] = Null]
                 /\ tlocal_bcache' = [tlocal_bcache EXCEPT ![t][u] = Null]
                 /\ isoff' = [isoff EXCEPT ![t][u] = TRUE]
                 /\ UNCHANGED failures
        BY <2>1, <4>1 DEF Typed
      <4>2. CASE Fail /\ UNCHANGED <<owner, tlocal_bcache, isoff>>
        BY <4>2 DEF Fail, Typed
      <4> QED
        BY <3>1, <4>1, <4>2
    <3>7. /\ glob_epoch' = glob_epoch /\ creating' = creating /\ always_off' = always_off
          /\ raced' = raced /\ crashed' = crashed
      BY <3>1 DEF uidVars
    <3>8. Typed'
      BY <3>3, <3>5, <3>6, <3>7 DEF Typed
    <3> QED
      BY <3>5, <3>8
  <2> QED
    BY <2>2, <2>3
<1>8. ASSUME NEW t \in Threads, Exit(t)
      PROVE  Typed' /\ Ledgers'
  <2>1. /\ tlocal_bcache' \in [Threads -> [Uids -> Caches \cup {Null}]]
        /\ isoff' \in [Threads -> [Uids -> BOOLEAN]]
    BY <1>8 DEF Exit, Typed
  <2>2. Typed'
    BY <1>8, <2>1 DEF Exit, uidVars, cacheVars, Typed, GlobsTyped
  <2>3. owner' = owner /\ coord' = coord /\ failures' = failures /\ glob' = glob
    BY <1>8 DEF Exit, cacheVars
  <2> QED
    BY <2>2, <2>3, LedgersStay
<1>9. ASSUME NEW g \in Globs, DestroyBegin(g)
      PROVE  Typed' /\ Ledgers'
  <2>1. /\ glob' = [glob EXCEPT ![g].at = "dying"] /\ glob[g].at = "live"
        /\ owner' = owner /\ coord' = coord /\ failures' = failures
    BY <1>9 DEF DestroyBegin, Live
  <2>2. GlobsTyped' /\ \A h \in Globs : glob'[h].head = glob[h].head
    BY <2>1, StageTyped DEF Typed
  <2>3. Typed'
    BY <1>9, <2>2 DEF DestroyBegin, uidVars, Typed
  <2> QED
    BY <2>1, <2>2, <2>3, LedgersStay
<1>10. ASSUME NEW g \in Globs, DestroyCache(g)
       PROVE  Typed' /\ Ledgers'
  <2> DEFINE c == glob[g].head
             l == ListRemove(glob[g], coord, c)
  <2>1. /\ glob[g].at = "dying" /\ c # Null /\ UNCHANGED <<uidVars, tlocal_bcache, isoff, crashed>>
        /\ \/ /\ SetLedger(g, l, glob[g].failed)
              /\ owner' = [owner EXCEPT ![c] = Null]
              /\ UNCHANGED failures
           \/ SetLedger(g, l, TRUE) /\ Fail /\ UNCHANGED owner
    BY <1>10 DEF DestroyCache, Dying
  <2>2. Listed(Mine(g), c, coord, failures = 0)
    BY DEF Ledgers
  <2> HIDE DEF c
  <2>3. c \in Mine(g) /\ c \in Caches
    <3>1. c \in Mine(g)
      BY <2>1, <2>2, ListedHead
    <3> QED
      BY <3>1 DEF Mine
  <2>4. GlobsTyped /\ glob[g].failed \in BOOLEAN /\ glob[g].at # "unmapped"
    BY <2>1 DEF Typed, GlobsTyped, AnyGlob
  <2>5. l.head \in Caches \cup {Null} /\ l.tail \in Caches \cup {Null}
    BY <2>3, RemoveTyped
  <2>6. /\ GlobsTyped' /\ coord' = l.coord /\ glob'[g].head = l.head
        /\ \A h \in Globs \ {g} : glob'[h] = glob[h]
    <3> HIDE DEF l
    <3>1. CASE SetLedger(g, l, glob[g].failed)
      BY <2>4, <2>5, <3>1, SetLedgerGlobs
    <3>2. CASE SetLedger(g, l, TRUE)
      BY <2>4, <2>5, <3>2, SetLedgerGlobs
    <3> QED
      BY <2>1, <3>1, <3>2
  <2>7. \/ owner' = [owner EXCEPT ![c] = Null] /\ failures' = failures
        \/ owner' = owner /\ failures' = failures + 1
    BY <2>1 DEF Fail
  <2>8. Ledgers' /\ coord' \in Linked(Caches)
    BY <2>3, <2>6, <2>7, LedgersRemove
  <2>9. owner' \in [Caches -> Globs \cup {Null}] /\ failures' \in Nat
    BY <2>3, <2>7 DEF Typed
  <2>10. Typed'
    BY <2>1, <2>6, <2>8, <2>9 DEF uidVars, Typed
  <2> QED
    BY <2>8, <2>10
<1>11. ASSUME NEW g \in Globs, DestroyEnd(g)
       PROVE  Typed' /\ Ledgers'
  <2>1. /\ UNCHANGED <<uidVars, owner, coord, tlocal_bcache, isoff>>
        /\ glob[g].at = "dying" /\ glob[g].head = Null
        /\ glob' = [glob EXCEPT ![g] = NoGlob] \/ glob' = [glob EXCEPT ![g].at = "leaked"]
        /\ failures' = failures \/ failures' = failures + 1
        /\ crashed' \in BOOLEAN
    BY <1>11 DEF DestroyEnd, Dying, Fail, Typed, GlobsTyped, AnyGlob
  <2>2. GlobsTyped' /\ \A h \in Globs : glob'[h].head = glob[h].head
    <3>1. CASE glob' = [glob EXCEPT ![g] = NoGlob]
      BY <2>1, <3>1, NoGlobTyped DEF Typed, GlobsTyped
    <3>2. CASE glob' = [glob EXCEPT ![g].at = "leaked"]
      BY <2>1, <3>2, StageTyped DEF Typed
    <3> QED
      BY <2>1, <3>1, <3>2
  <2>3. failures' \in Nat /\ (failures' = 0 => failures = 0)
    BY <2>1 DEF Typed
  <2>4. Typed'
    BY <2>1, <2>2, <2>3 DEF uidVars, Typed
  <2> QED
    BY <2>1, <2>2, <2>3, <2>4, LedgersStay
<1>12. ASSUME UNCHANGED vars
       PROVE  Typed' /\ Ledgers'
  <2>1. Typed'
    BY <1>12 DEF vars, Typed, GlobsTyped
  <2>2. owner' = owner /\ coord' = coord /\ failures' = failures /\ glob' = glob
    BY <1>12 DEF vars
  <2> QED
    BY <2>1, <2>2, LedgersStay
<1> QED
  BY <1>1, <1>2, <1>3, <1>4, <1>5, <1>6, <1>7, <1>8, <1>9, <1>10, <1>11, <1>12
  DEF Next, Crashed

-----------------------------------------------------------------------------
(* The ledgers lead to the caches. *)

(* A sequence of distinct elements of S is one of the permutations of a     *)
(* subset of S.                                                             *)
LEMMA DistinctPermutes ==
    ASSUME NEW S, NEW q \in Seq(S), Distinct(q)
    PROVE  q \in SetToAllKPermutations(S)
<1> DEFINE T == ToSet(q)
<1>1. /\ Len(q) \in Nat /\ q \in [1 .. Len(q) -> S]
      /\ T = {q[i] : i \in 1 .. Len(q)} /\ T \subseteq S
  BY ToSetSeq
<1> HIDE DEF T
<1>2. q \in [1 .. Len(q) -> T] /\ \A y \in T : \E i \in 1 .. Len(q) : q[i] = y
  BY <1>1
<1>3. \A i, j \in 1 .. Len(q) : i # j => q[i] # q[j]
  BY DEF Distinct
<1>4. ExistsBijection(1 .. Len(q), T)
  BY <1>2, <1>3 DEF ExistsBijection, Bijection, Injection, Surjection, IsInjective
<1>5. Cardinality(T) = Len(q)
  BY <1>1, <1>4, FS_CountingElements
<1>6. q \in SetToSeqs(T)
  BY <1>2, <1>3, <1>5 DEF SetToSeqs
<1> QED
  BY <1>1, <1>6 DEF SetToAllKPermutations

LEMMA LedgersReach ==
    ASSUME GlobAssumption, Ledgers PROVE LedgerReachesAll
<1>1. Null \notin Caches
  BY DEF GlobAssumption
<1> SUFFICES ASSUME NEW g \in Globs
             PROVE  \E q \in SetToAllKPermutations(Mine(g)) :
                        /\ Spells(glob[g].head, coord, q)
                        /\ failures = 0 => ToSet(q) = Mine(g)
  BY DEF LedgerReachesAll, Mine
<1> DEFINE h == glob[g].head
           M == Mine(g)
<1>2. Null \notin M
  BY <1>1 DEF Mine
<1>3. Listed(M, h, coord, failures = 0)
  BY DEF Ledgers
<1> HIDE DEF h, M
<1>4. PICK K : Chains(K, M, h, coord) /\ (failures = 0 => Whole(K, h))
  BY <1>3 DEF Listed
<1>5. CASE h = Null
  <2> DEFINE q == <<>>
  <2>1. q \in Seq(M) /\ Len(q) = 0 /\ q = <<>>
    OBVIOUS
  <2> HIDE DEF q
  <2>2. ToSet(q) = {} /\ Distinct(q)
    <3>1. 1 .. Len(q) = {}
      BY <2>1
    <3>2. q \in Seq(M)
      BY <2>1
    <3>3. ToSet(q) = {q[i] : i \in 1 .. Len(q)}
      BY ONLY <3>2, ToSetSeq
    <3> QED
      BY <3>1, <3>3 DEF Distinct
  <2>3. q \in SetToAllKPermutations(M)
    BY <2>1, <2>2, DistinctPermutes
  <2>4. Spells(h, coord, q)
    BY <1>5, <2>1 DEF Spells, NextLinks
  <2>5. ASSUME failures = 0 PROVE M = {}
    <3>1. ASSUME NEW p \in K PROVE FALSE
      <4>1. Chain(coord, p, M) /\ p[1] = Null
        BY <1>4, <1>5, <2>5 DEF Chains, Whole
      <4> QED
        BY <1>2, <4>1, ChainFirst
    <3> QED
      BY <1>4, <3>1 DEF Chains
  <2> QED
    BY <2>2, <2>3, <2>4, <2>5 DEF h, M
<1>6. CASE h # Null
  <2>1. PICK q \in K : h = q[1]
    BY <1>4, <1>6 DEF Chains
  <2>2. Chain(coord, q, M)
    BY <1>4 DEF Chains
  <2>3. q \in SetToAllKPermutations(M) /\ ToSet(q) \subseteq M
    BY <2>2, DistinctPermutes, ChainFirst DEF Chain
  <2>4. Spells(h, coord, q)
    BY <2>1, <2>2 DEF Chain, Spells
  <2>5. ASSUME failures = 0 PROVE ToSet(q) = M
    <3>1. K = {q}
      BY <1>4, <2>5, WholeChain
    <3> QED
      BY <1>4, <2>3, <3>1 DEF Chains
  <2>6. \E p \in SetToAllKPermutations(M) :
           Spells(h, coord, p) /\ (failures = 0 => ToSet(p) = M)
    BY <2>3, <2>4, <2>5
  <2> QED
    BY <2>6 DEF h, M
<1> QED
  BY <1>5, <1>6

(* Whoever made or left them, and whatever failed or raced, glob_destroy    *)
(* finds only mapped caches of its allocator in the ledger, each once; and  *)
(* all of them if no call failed (glob.c:372).                              *)
THEOREM LedgersReachCaches == Spec => []LedgerReachesAll
<1>1. Init => Typed /\ Ledgers
  BY GlobAssumption, LedgersInit
<1>2. Typed /\ Ledgers /\ [Next]_vars => Typed' /\ Ledgers'
  BY GlobAssumption, LedgersNext
<1>3. Ledgers => LedgerReachesAll
  BY GlobAssumption, LedgersReach
<1> QED
  BY <1>1, <1>2, <1>3, PTL DEF Spec

-----------------------------------------------------------------------------
(* The uids and what threads keep under them, unless creates raced *)

Has(t, g) == tlocal_bcache[t][glob[g].uid]

UidsOwn ==
    \A g, h \in Globs :
        (glob[g].at # "unmapped" /\ glob[h].at # "unmapped" /\ glob[g].uid = glob[h].uid) => g = h

UidsPast == \A g \in Globs : glob[g].at # "unmapped" => glob[g].uid < glob_epoch

FutureBare ==
    \A t \in Threads, u \in Uids : u >= glob_epoch => tlocal_bcache[t][u] = Null

CachesOwn ==
    \A t \in Threads, g \in Globs :
        (glob[g].at = "live" /\ Has(t, g) # Null) =>
            /\ owner[Has(t, g)] = g
            /\ \A t2 \in Threads : Has(t2, g) = Has(t, g) => t2 = t

FailsFirst == (crashed \/ \E g \in Globs : glob[g].failed) => failures > 0

Serves == ~raced => UidsOwn /\ UidsPast /\ FutureBare /\ CachesOwn /\ FailsFirst

LEMMA ServesOwner ==
    ASSUME GlobAssumption, Typed, Serves PROVE CacheServesOwner
<1> SUFFICES ASSUME ~raced
             PROVE  /\ \A t \in Threads, g \in Live :
                          Has(t, g) # Null => owner[Has(t, g)] = g /\ Installed(Has(t, g)) = {t}
                    /\ crashed => failures > 0
  BY DEF CacheServesOwner, Has
<1>1. UidsOwn /\ CachesOwn /\ FailsFirst
  BY DEF Serves
<1>2. ASSUME NEW t \in Threads, NEW g \in Live, Has(t, g) # Null
      PROVE  owner[Has(t, g)] = g /\ Installed(Has(t, g)) = {t}
  <2>1. g \in Globs /\ glob[g].at = "live"
    BY DEF Live
  <2>2. owner[Has(t, g)] = g
    BY <1>1, <1>2, <2>1 DEF CachesOwn
  <2>3. t \in Installed(Has(t, g))
    BY DEF Installed, Has
  <2>4. ASSUME NEW t2 \in Installed(Has(t, g)) PROVE t2 = t
    <3>1. PICK g2 \in Live : Has(t, g) = Has(t2, g2) /\ t2 \in Threads
      BY DEF Installed, Has
    <3>2. g2 \in Globs /\ glob[g2].at = "live"
      BY DEF Live
    <3>3. owner[Has(t2, g2)] = g2
      BY <1>1, <1>2, <3>1, <3>2 DEF CachesOwn
    <3>4. g2 = g
      BY <2>2, <3>1, <3>3
    <3> QED
      BY <1>1, <1>2, <2>1, <3>1, <3>4 DEF CachesOwn
  <2> QED
    BY <2>2, <2>3, <2>4
<1> QED
  BY <1>1, <1>2 DEF FailsFirst

LEMMA ServesInit == ASSUME Init PROVE Serves
<1>1. \A g \in Globs : glob[g] = NoGlob
  BY DEF Init
<1>2. NoGlob.at = "unmapped" /\ NoGlob.failed = FALSE
  BY DEF NoGlob
<1> QED
  BY <1>1, <1>2 DEF Init, Serves, UidsOwn, UidsPast, FutureBare, CachesOwn, FailsFirst

(* A call that leaves allocators and caches alone, and crashes only after a *)
(* failure                                                                  *)
LEMMA ServesStay ==
    ASSUME Serves, failures \in Nat, failures' \in Nat, failures' >= failures,
           glob' = glob, owner' = owner, tlocal_bcache' = tlocal_bcache,
           glob_epoch' = glob_epoch, raced' = raced, crashed' = crashed
    PROVE  Serves'
<1> SUFFICES ASSUME ~raced
             PROVE  UidsOwn' /\ UidsPast' /\ FutureBare' /\ CachesOwn' /\ FailsFirst'
  BY DEF Serves
<1>1. UidsOwn /\ UidsPast /\ FutureBare /\ CachesOwn /\ FailsFirst
  BY DEF Serves
<1>2. UidsOwn'
  BY <1>1 DEF UidsOwn
<1>3. UidsPast' /\ FutureBare'
  BY <1>1 DEF UidsPast, FutureBare
<1>4. CachesOwn'
  BY <1>1 DEF CachesOwn, Has
<1>5. FailsFirst'
  BY <1>1 DEF FailsFirst
<1> QED
  BY <1>2, <1>3, <1>4, <1>5

LEMMA ServesNext ==
    ASSUME GlobAssumption, Typed, Typed', Ledgers, Serves, [Next]_vars
    PROVE  Serves'
<1>1. failures \in Nat /\ failures' \in Nat
  BY DEF Typed
<1>2. ASSUME NEW t \in Threads, CreateBegin(t)
      PROVE  Serves'
  BY <1>1, <1>2, ServesStay DEF CreateBegin, cacheVars
<1>3. ASSUME NEW t \in Threads, CreateFails(t)
      PROVE  Serves'
  BY <1>1, <1>3, ServesStay DEF CreateFails, Fail, cacheVars
<1>4. ASSUME NEW t \in Threads, NEW g \in Globs, NEW off \in BOOLEAN, CreateEnd(t, g, off)
      PROVE  Serves'
  <2> SUFFICES ASSUME ~raced'
               PROVE  UidsOwn' /\ UidsPast' /\ FutureBare' /\ CachesOwn' /\ FailsFirst'
    BY DEF Serves
  <2> DEFINE r == [NoGlob EXCEPT !.at = "live", !.uid = glob_epoch]
  <2>1. /\ ~raced /\ glob_epoch = creating[t] /\ glob[g].at = "unmapped"
        /\ glob_epoch' = glob_epoch + 1
        /\ glob' = [glob EXCEPT ![g] = r]
        /\ UNCHANGED <<owner, coord, tlocal_bcache, isoff, failures, crashed>>
    BY <1>4 DEF CreateEnd, NextUid, Typed
  <2>2. UidsOwn /\ UidsPast /\ FutureBare /\ CachesOwn /\ FailsFirst
    BY <2>1 DEF Serves
  <2>3. r.at = "live" /\ r.uid = glob_epoch /\ r.failed = FALSE
    BY DEF NoGlob
  <2> HIDE DEF r
  <2>4. glob'[g] = r /\ \A h \in Globs \ {g} : glob'[h] = glob[h]
    BY <2>1 DEF Typed, GlobsTyped
  <2>5. glob_epoch \in Uids /\ Uids \subseteq Nat
    BY UidFacts DEF Typed
  <2>6. \A h \in Globs : glob[h].at # "unmapped" => glob[h].uid \in Uids /\ glob[h].uid < glob_epoch
    BY <2>2 DEF UidsPast, Typed, GlobsTyped
  <2>7. UidsOwn'
    <3> SUFFICES ASSUME NEW h \in Globs, NEW k \in Globs,
                        glob'[h].at # "unmapped", glob'[k].at # "unmapped",
                        glob'[h].uid = glob'[k].uid
                 PROVE  h = k
      BY DEF UidsOwn
    <3>1. CASE h # g /\ k # g
      BY <2>2, <2>4, <3>1 DEF UidsOwn
    <3>2. CASE h = g /\ k # g
      BY <2>3, <2>4, <2>5, <2>6, <3>2
    <3>3. CASE h # g /\ k = g
      BY <2>3, <2>4, <2>5, <2>6, <3>3
    <3> QED
      BY <3>1, <3>2, <3>3
  <2>8. UidsPast'
    <3> SUFFICES ASSUME NEW h \in Globs, glob'[h].at # "unmapped"
                 PROVE  glob'[h].uid < glob_epoch + 1
      BY <2>1 DEF UidsPast
    <3>1. CASE h = g
      BY <2>3, <2>4, <2>5, <3>1
    <3>2. CASE h # g
      <4>1. glob'[h].uid \in Nat /\ glob_epoch \in Nat /\ glob'[h].uid < glob_epoch
        BY <2>4, <2>5, <2>6, <3>2
      <4> QED
        BY <4>1
    <3> QED
      BY <3>1, <3>2
  <2>9. FutureBare'
    <3>1. \A u \in Uids : u >= glob_epoch + 1 => u >= glob_epoch
      BY <2>5
    <3> QED
      BY <2>1, <2>2, <3>1 DEF FutureBare
  <2>10. CachesOwn'
    <3> SUFFICES ASSUME NEW s \in Threads, NEW h \in Globs,
                        glob'[h].at = "live", Has(s, h)' # Null
                 PROVE  /\ owner[Has(s, h)'] = h
                        /\ \A t2 \in Threads : Has(t2, h)' = Has(s, h)' => t2 = s
      BY <2>1 DEF CachesOwn
    <3>1. CASE h = g
      <4>1. Has(s, h)' = tlocal_bcache[s][glob_epoch]
        BY <2>1, <2>3, <2>4, <3>1 DEF Has
      <4>2. glob_epoch >= glob_epoch
        BY <2>5
      <4>3. Has(s, h)' = Null
        BY <2>2, <2>5, <4>1, <4>2 DEF FutureBare
      <4> QED
        BY <4>3
    <3>2. CASE h # g
      <4>1. glob'[h] = glob[h] /\ \A s2 \in Threads : Has(s2, h)' = Has(s2, h)
        BY <2>1, <2>4, <3>2 DEF Has
      <4> QED
        BY <2>2, <4>1 DEF CachesOwn
    <3> QED
      BY <3>1, <3>2
  <2>11. FailsFirst'
    <3>1. ASSUME NEW h \in Globs, glob'[h].failed PROVE glob[h].failed
      BY <2>3, <2>4, <3>1
    <3> QED
      BY <2>1, <2>2, <3>1 DEF FailsFirst
  <2> QED
    BY <2>7, <2>8, <2>9, <2>10, <2>11
<1>5. ASSUME NEW t \in Threads, NEW g \in Globs, CreateCache(t, g)
      PROVE  Serves'
  <2> SUFFICES ASSUME ~raced
               PROVE  UidsOwn' /\ UidsPast' /\ FutureBare' /\ CachesOwn' /\ FailsFirst'
    BY <1>5 DEF Serves, CreateCache, uidVars
  <2> DEFINE u == glob[g].uid
  <2>1. PICK c \in Caches \ Mapped :
           /\ owner' = [owner EXCEPT ![c] = g]
           /\ SetLedger(g, ListPush(glob[g], [coord EXCEPT ![c] = NoLinks], c), FALSE)
           /\ tlocal_bcache' = [tlocal_bcache EXCEPT ![t][u] = c]
    BY <1>5 DEF CreateCache
  <2>2. /\ glob[g].at = "live" /\ GlobsTyped /\ u \in Uids
        /\ UNCHANGED <<uidVars, failures, crashed>> /\ owner[c] = Null
    BY <1>5, <2>1 DEF CreateCache, Live, Typed, GlobsTyped, Mapped
  <2>3. UidsOwn /\ UidsPast /\ FutureBare /\ CachesOwn /\ FailsFirst
    BY DEF Serves
  <2>4. /\ glob'[g].failed = FALSE
        /\ \A h \in Globs : glob'[h].at = glob[h].at /\ glob'[h].uid = glob[h].uid
        /\ \A h \in Globs \ {g} : glob'[h] = glob[h]
    <3> DEFINE l == ListPush(glob[g], [coord EXCEPT ![c] = NoLinks], c)
    <3>1. l.head \in Caches \cup {Null} /\ l.tail \in Caches \cup {Null}
      BY PushTyped
    <3>2. SetLedger(g, l, FALSE) /\ glob[g].at # "unmapped"
      BY <2>1, <2>2
    <3> HIDE DEF l
    <3> QED
      BY <2>2, <3>1, <3>2, SetLedgerGlobs
  <2> HIDE DEF u
  <2>5. /\ tlocal_bcache'[t][u] = c
        /\ \A s \in Threads, v \in Uids :
              s # t \/ v # u => tlocal_bcache'[s][v] = tlocal_bcache[s][v]
    BY <2>1, <2>2 DEF Typed
  <2>6. UidsOwn' /\ UidsPast'
    BY <2>2, <2>3, <2>4 DEF UidsOwn, UidsPast, uidVars
  <2>7. FutureBare'
    <3> SUFFICES ASSUME NEW s \in Threads, NEW v \in Uids, v >= glob_epoch
                 PROVE  tlocal_bcache'[s][v] = Null
      BY <2>2 DEF FutureBare, uidVars
    <3>1. u < glob_epoch
      BY <2>2, <2>3 DEF UidsPast, u
    <3>2. v # u
      BY <2>2, <3>1, UidFacts DEF Typed
    <3> QED
      BY <2>3, <2>5, <3>2 DEF FutureBare
  <2>8. \A s \in Threads, h \in Globs :
           glob[h].at = "live" /\ (s # t \/ h # g) => Has(s, h)' = Has(s, h) /\ Has(s, h) # c
    <3> SUFFICES ASSUME NEW s \in Threads, NEW h \in Globs, glob[h].at = "live", s # t \/ h # g
                 PROVE  Has(s, h)' = Has(s, h) /\ Has(s, h) # c
      OBVIOUS
    <3>1. glob[h].uid \in Uids /\ (h # g => glob[h].uid # u)
      BY <2>2, <2>3 DEF UidsOwn, GlobsTyped, u
    <3>2. Has(s, h)' = Has(s, h)
      BY <2>4, <2>5, <3>1 DEF Has
    <3>3. Has(s, h) # Null => owner[Has(s, h)] = h
      BY <2>3 DEF CachesOwn
    <3>4. c # Null /\ h # Null
      BY DEF GlobAssumption
    <3> QED
      BY <2>2, <3>2, <3>3, <3>4
  <2>9. Has(t, g)' = c
    BY <2>4, <2>5 DEF Has, u
  <2>10. CachesOwn'
    <3> SUFFICES ASSUME NEW s \in Threads, NEW h \in Globs, glob[h].at = "live", Has(s, h)' # Null
                 PROVE  /\ owner'[Has(s, h)'] = h
                        /\ \A t2 \in Threads : Has(t2, h)' = Has(s, h)' => t2 = s
      BY <2>4 DEF CachesOwn
    <3>1. CASE s = t /\ h = g
      <4>1. owner'[c] = g
        BY <2>1 DEF Typed
      <4> QED
        BY <2>2, <2>8, <2>9, <3>1, <4>1
    <3>2. CASE s # t \/ h # g
      <4>1. Has(s, h)' = Has(s, h) /\ Has(s, h) # c
        BY <2>8, <3>2
      <4>2. owner[Has(s, h)] = h /\ \A t2 \in Threads : Has(t2, h) = Has(s, h) => t2 = s
        BY <2>3, <4>1 DEF CachesOwn
      <4>3. owner'[Has(s, h)] = h
        <5>1. Has(s, h) \in Caches
          BY <2>2, <4>1 DEF Has, Typed, GlobsTyped
        <5> QED
          BY <2>1, <4>1, <4>2, <5>1 DEF Typed
      <4>4. \A t2 \in Threads : Has(t2, h)' = Has(t2, h) \/ Has(t2, h)' = c
        BY <2>8, <2>9
      <4> QED
        BY <4>1, <4>2, <4>3, <4>4
    <3> QED
      BY <3>1, <3>2
  <2>11. FailsFirst'
    <3>1. ASSUME NEW h \in Globs, glob'[h].failed PROVE glob[h].failed
      BY <2>4, <3>1
    <3> QED
      BY <2>2, <2>3, <3>1 DEF FailsFirst
  <2> QED
    BY <2>6, <2>7, <2>10, <2>11
<1>6. ASSUME NEW t \in Threads, NEW g \in Globs, UseCache(t, g)
      PROVE  Serves'
  <2> SUFFICES ASSUME ~raced PROVE FALSE
    BY <1>6 DEF Serves, UseCache, uidVars
  <2>1. Has(t, g) # Null /\ ~Usable(Has(t, g)) /\ glob[g].at = "live" /\ glob[g].uid \in Uids
    BY <1>6 DEF UseCache, Has, Live, Typed, GlobsTyped
  <2>2. owner[Has(t, g)] = g /\ Has(t, g) \in Caches /\ g # Null
    BY <2>1 DEF Serves, CachesOwn, Has, Typed, GlobAssumption
  <2> QED
    BY <2>1, <2>2 DEF Usable, Mapped
<1>7. ASSUME NEW t \in Threads, NEW g \in Globs, TurnOn(t, g) \/ TurnOffBare(t, g)
      PROVE  Serves'
  BY <1>1, <1>7, ServesStay DEF TurnOn, TurnOffBare, uidVars, cacheVars
<1>8. ASSUME NEW t \in Threads, NEW g \in Globs, TurnOff(t, g)
      PROVE  Serves'
  <2> SUFFICES ASSUME ~raced
               PROVE  UidsOwn' /\ UidsPast' /\ FutureBare' /\ CachesOwn' /\ FailsFirst'
    BY <1>8 DEF Serves, TurnOff, uidVars
  <2>1. UidsOwn /\ UidsPast /\ FutureBare /\ CachesOwn /\ FailsFirst
    BY DEF Serves
  <2> DEFINE u == glob[g].uid
             c == tlocal_bcache[t][u]
             l == ListRemove(glob[g], coord, c)
  <2>2. /\ glob[g].at = "live" /\ c # Null /\ u \in Uids /\ c \in Caches /\ GlobsTyped
    <3>1. glob[g].at = "live" /\ c # Null
      BY <1>8 DEF TurnOff, Live
    <3> QED
      BY <3>1 DEF Typed, GlobsTyped
  <2>3. owner[c] = g /\ \A t2 \in Threads : Has(t2, g) = c => t2 = t
    BY <2>1, <2>2 DEF CachesOwn, Has
  <2>4. Usable(c)
    BY <2>2, <2>3 DEF Usable, Mapped, GlobAssumption
  <2>5. /\ SetLedger(g, l, FALSE) /\ UNCHANGED <<crashed, uidVars>>
        /\ \/ /\ owner' = [owner EXCEPT ![c] = Null]
              /\ tlocal_bcache' = [tlocal_bcache EXCEPT ![t][u] = Null]
              /\ UNCHANGED failures
           \/ Fail /\ UNCHANGED <<owner, tlocal_bcache>>
    BY <1>8, <2>3, <2>4 DEF TurnOff, Deregistered
  <2>6. /\ glob'[g].failed = FALSE
        /\ \A h \in Globs : glob'[h].at = glob[h].at /\ glob'[h].uid = glob[h].uid
        /\ \A h \in Globs \ {g} : glob'[h] = glob[h]
    <3>1. l.head \in Caches \cup {Null} /\ l.tail \in Caches \cup {Null}
      BY <2>2, RemoveTyped
    <3> HIDE DEF l
    <3> QED
      BY <2>2, <2>5, <3>1, SetLedgerGlobs
  <2> HIDE DEF u, c
  <2>7. UidsOwn' /\ UidsPast'
    BY <2>1, <2>5, <2>6 DEF UidsOwn, UidsPast, uidVars
  <2>8. FailsFirst'
    <3>1. ASSUME NEW h \in Globs, glob'[h].failed PROVE glob[h].failed
      BY <2>6, <3>1
    <3>2. failures \in Nat /\ (failures' = failures \/ failures' = failures + 1)
      BY <1>1, <2>5 DEF Fail
    <3> QED
      BY <2>1, <2>5, <3>1, <3>2 DEF FailsFirst
  <2>9. CASE Fail /\ UNCHANGED <<owner, tlocal_bcache>>
    <3>1. FutureBare'
      BY <2>1, <2>5, <2>9 DEF FutureBare, uidVars
    <3>2. \A s \in Threads, h \in Globs : Has(s, h)' = Has(s, h)
      BY <2>6, <2>9 DEF Has
    <3>3. CachesOwn'
      BY <2>1, <2>6, <2>9, <3>2 DEF CachesOwn
    <3> QED
      BY <2>7, <2>8, <3>1, <3>3
  <2>10. CASE /\ owner' = [owner EXCEPT ![c] = Null]
              /\ tlocal_bcache' = [tlocal_bcache EXCEPT ![t][u] = Null]
    <3>1. /\ tlocal_bcache'[t][u] = Null
          /\ \A s \in Threads, v \in Uids :
                s # t \/ v # u => tlocal_bcache'[s][v] = tlocal_bcache[s][v]
      BY <2>2, <2>10 DEF Typed
    <3>2. FutureBare'
      BY <2>1, <2>5, <3>1 DEF FutureBare, uidVars
    <3>3. Has(t, g)' = Null
      BY <2>6, <3>1 DEF Has, u
    <3>4. \A s \in Threads, h \in Globs :
             glob[h].at = "live" /\ (s # t \/ h # g) =>
                /\ Has(s, h)' = Has(s, h)
                /\ Has(s, h) # Null => Has(s, h) # c /\ Has(s, h) \in Caches
      <4> SUFFICES ASSUME NEW s \in Threads, NEW h \in Globs, glob[h].at = "live", s # t \/ h # g
                   PROVE  /\ Has(s, h)' = Has(s, h)
                          /\ Has(s, h) # Null => Has(s, h) # c /\ Has(s, h) \in Caches
        OBVIOUS
      <4>1. glob[h].uid \in Uids /\ (h # g => glob[h].uid # u)
        BY <2>1, <2>2 DEF UidsOwn, GlobsTyped, u
      <4>2. Has(s, h)' = Has(s, h)
        BY <2>6, <3>1, <4>1 DEF Has
      <4>3. Has(s, h) # Null => owner[Has(s, h)] = h /\ Has(s, h) \in Caches
        BY <2>1, <4>1 DEF CachesOwn, Has, Typed
      <4> QED
        BY <2>3, <4>2, <4>3
    <3>5. CachesOwn'
      <4> SUFFICES ASSUME NEW s \in Threads, NEW h \in Globs, glob[h].at = "live", Has(s, h)' # Null
                   PROVE  /\ owner'[Has(s, h)'] = h
                          /\ \A t2 \in Threads : Has(t2, h)' = Has(s, h)' => t2 = s
        BY <2>6 DEF CachesOwn
      <4>1. s # t \/ h # g
        BY <3>3
      <4>2. Has(s, h)' = Has(s, h) /\ Has(s, h) # c /\ Has(s, h) \in Caches
        BY <3>4, <4>1
      <4>3. owner[Has(s, h)] = h /\ \A t2 \in Threads : Has(t2, h) = Has(s, h) => t2 = s
        BY <2>1, <4>2 DEF CachesOwn
      <4>4. owner'[Has(s, h)] = h
        BY <2>10, <4>2, <4>3 DEF Typed
      <4>5. \A t2 \in Threads : Has(t2, h)' = Has(t2, h) \/ Has(t2, h)' = Null
        BY <3>3, <3>4
      <4> QED
        BY <4>2, <4>3, <4>4, <4>5
    <3> QED
      BY <2>7, <2>8, <3>2, <3>5
  <2> QED
    BY <2>5, <2>9, <2>10
<1>9. ASSUME NEW t \in Threads, Exit(t)
      PROVE  Serves'
  <2> SUFFICES ASSUME ~raced
               PROVE  UidsOwn' /\ UidsPast' /\ FutureBare' /\ CachesOwn' /\ FailsFirst'
    BY <1>9 DEF Serves, Exit, uidVars
  <2>1. UidsOwn /\ UidsPast /\ FutureBare /\ CachesOwn /\ FailsFirst
    BY DEF Serves
  <2>2. /\ glob' = glob /\ owner' = owner /\ glob_epoch' = glob_epoch
        /\ failures' = failures /\ crashed' = crashed
        /\ tlocal_bcache' = [tlocal_bcache EXCEPT ![t] = [u \in Uids |-> Null]]
    BY <1>9 DEF Exit, uidVars, cacheVars
  <2>3. \A s \in Threads, u \in Uids :
           tlocal_bcache'[s][u] = IF s = t THEN Null ELSE tlocal_bcache[s][u]
    BY <2>2 DEF Typed
  <2>4. UidsOwn' /\ UidsPast' /\ FailsFirst'
    BY <2>1, <2>2 DEF UidsOwn, UidsPast, FailsFirst
  <2>5. FutureBare'
    BY <2>1, <2>2, <2>3 DEF FutureBare
  <2>6. \A s \in Threads, h \in Globs :
           glob[h].at = "live" => Has(s, h)' = IF s = t THEN Null ELSE Has(s, h)
    BY <2>2, <2>3 DEF Has, Typed, GlobsTyped
  <2>7. CachesOwn'
    BY <2>1, <2>2, <2>6 DEF CachesOwn
  <2> QED
    BY <2>4, <2>5, <2>7
<1>10. ASSUME NEW g \in Globs, DestroyBegin(g)
       PROVE  Serves'
  <2> SUFFICES ASSUME ~raced
               PROVE  UidsOwn' /\ UidsPast' /\ FutureBare' /\ CachesOwn' /\ FailsFirst'
    BY <1>10 DEF Serves, DestroyBegin, uidVars
  <2>1. UidsOwn /\ UidsPast /\ FutureBare /\ CachesOwn /\ FailsFirst
    BY DEF Serves
  <2>2. /\ glob' = [glob EXCEPT ![g].at = "dying"] /\ glob[g].at = "live"
        /\ UNCHANGED <<uidVars, owner, tlocal_bcache, failures, crashed>>
    BY <1>10 DEF DestroyBegin, Live
  <2>3. /\ glob'[g].at = "dying"
        /\ \A h \in Globs : glob'[h].uid = glob[h].uid /\ glob'[h].failed = glob[h].failed
        /\ \A h \in Globs \ {g} : glob'[h] = glob[h]
    BY <2>2, StageTyped DEF Typed
  <2>4. \A h \in Globs : /\ glob'[h].at = "unmapped" <=> glob[h].at = "unmapped"
                         /\ glob'[h].at = "live" => glob[h].at = "live"
    BY <2>2, <2>3
  <2>5. UidsOwn' /\ UidsPast' /\ FutureBare' /\ FailsFirst'
    BY <2>1, <2>2, <2>3, <2>4 DEF UidsOwn, UidsPast, FutureBare, FailsFirst, uidVars
  <2>6. \A s \in Threads, h \in Globs : Has(s, h)' = Has(s, h)
    BY <2>2, <2>3 DEF Has
  <2>7. CachesOwn'
    BY <2>1, <2>2, <2>4, <2>6 DEF CachesOwn
  <2> QED
    BY <2>5, <2>7
<1>11. ASSUME NEW g \in Globs, DestroyCache(g)
       PROVE  Serves'
  <2> SUFFICES ASSUME ~raced
               PROVE  UidsOwn' /\ UidsPast' /\ FutureBare' /\ CachesOwn' /\ FailsFirst'
    BY <1>11 DEF Serves, DestroyCache, uidVars
  <2>1. UidsOwn /\ UidsPast /\ FutureBare /\ CachesOwn /\ FailsFirst
    BY DEF Serves
  <2> DEFINE c == glob[g].head
             l == ListRemove(glob[g], coord, c)
  <2>2. /\ glob[g].at = "dying" /\ c # Null /\ UNCHANGED <<uidVars, tlocal_bcache, crashed>>
        /\ \/ /\ SetLedger(g, l, glob[g].failed)
              /\ owner' = [owner EXCEPT ![c] = Null]
              /\ UNCHANGED failures
           \/ SetLedger(g, l, TRUE) /\ Fail /\ UNCHANGED owner
    BY <1>11 DEF DestroyCache, Dying
  <2>3. Listed(Mine(g), c, coord, failures = 0)
    BY DEF Ledgers
  <2> HIDE DEF c
  <2>4. c \in Mine(g)
    BY <2>2, <2>3, ListedHead
  <2>5. c \in Caches /\ owner[c] = g
    BY <2>4 DEF Mine
  <2>6. /\ l.head \in Caches \cup {Null} /\ l.tail \in Caches \cup {Null}
        /\ GlobsTyped /\ glob[g].failed \in BOOLEAN /\ glob[g].at # "unmapped"
    BY <2>2, <2>5, RemoveTyped DEF Typed, GlobsTyped, AnyGlob
  <2> HIDE DEF l
  <2>7. /\ \A h \in Globs : glob'[h].at = glob[h].at /\ glob'[h].uid = glob[h].uid
        /\ \A h \in Globs \ {g} : glob'[h] = glob[h]
        /\ glob'[g].failed = glob[g].failed \/ failures' = failures + 1
    <3>1. CASE SetLedger(g, l, glob[g].failed)
      BY <2>6, <3>1, SetLedgerGlobs
    <3>2. CASE SetLedger(g, l, TRUE) /\ Fail
      BY <2>6, <3>2, SetLedgerGlobs DEF Fail
    <3> QED
      BY <2>2, <3>1, <3>2
  <2>8. UidsOwn' /\ UidsPast' /\ FutureBare'
    BY <2>1, <2>2, <2>7 DEF UidsOwn, UidsPast, FutureBare, uidVars
  <2>9. FailsFirst'
    <3>1. failures' = failures \/ failures' = failures + 1
      BY <2>2 DEF Fail
    <3>2. CASE failures' = failures + 1
      BY <1>1, <3>2 DEF FailsFirst
    <3>3. CASE failures' = failures
      <4>1. failures' # failures + 1
        BY <1>1, <3>3
      <4>2. ASSUME NEW h \in Globs, glob'[h].failed PROVE glob[h].failed
        BY <2>7, <4>1, <4>2
      <4> QED
        BY <2>1, <2>2, <3>3, <4>2 DEF FailsFirst
    <3> QED
      BY <3>1, <3>2, <3>3
  <2>10. \A s \in Threads, h \in Globs : Has(s, h)' = Has(s, h)
    BY <2>2, <2>7 DEF Has
  <2>11. CachesOwn'
    <3> SUFFICES ASSUME NEW s \in Threads, NEW h \in Globs, glob[h].at = "live", Has(s, h) # Null
                 PROVE  /\ owner'[Has(s, h)] = h
                        /\ \A t2 \in Threads : Has(t2, h) = Has(s, h) => t2 = s
      BY <2>7, <2>10 DEF CachesOwn
    <3>1. owner[Has(s, h)] = h /\ \A t2 \in Threads : Has(t2, h) = Has(s, h) => t2 = s
      BY <2>1 DEF CachesOwn
    <3>2. h # g /\ Has(s, h) \in Caches
      BY <2>2 DEF Has, Typed, GlobsTyped
    <3>3. Has(s, h) # c
      BY <2>5, <3>1, <3>2
    <3>4. owner'[Has(s, h)] = h
      BY <2>2, <3>1, <3>2, <3>3 DEF Typed
    <3> QED
      BY <3>1, <3>4
  <2> QED
    BY <2>8, <2>9, <2>11
<1>12. ASSUME NEW g \in Globs, DestroyEnd(g)
       PROVE  Serves'
  <2> SUFFICES ASSUME ~raced
               PROVE  UidsOwn' /\ UidsPast' /\ FutureBare' /\ CachesOwn' /\ FailsFirst'
    BY <1>12 DEF Serves, DestroyEnd, uidVars
  <2>1. UidsOwn /\ UidsPast /\ FutureBare /\ CachesOwn /\ FailsFirst
    BY DEF Serves
  <2>2. /\ UNCHANGED <<uidVars, owner, tlocal_bcache>> /\ glob[g].at = "dying"
        /\ glob' = [glob EXCEPT ![g] = NoGlob] \/ glob' = [glob EXCEPT ![g].at = "leaked"]
        /\ \/ failures' = failures /\ crashed' = glob[g].failed
           \/ failures' = failures + 1
           \/ failures' = failures /\ crashed' = crashed
    BY <1>12 DEF DestroyEnd, Dying, Fail
  <2>3. /\ \A h \in Globs \ {g} : glob'[h] = glob[h]
        /\ glob'[g].at \in {"unmapped", "leaked"}
        /\ glob'[g].at = "leaked" => glob'[g].uid = glob[g].uid
        /\ glob'[g].failed => glob[g].failed
    <3>1. CASE glob' = [glob EXCEPT ![g] = NoGlob]
      <4>1. NoGlob.at = "unmapped" /\ NoGlob.failed = FALSE
        BY DEF NoGlob
      <4> QED
        BY <3>1, <4>1 DEF Typed, GlobsTyped
    <3>2. CASE glob' = [glob EXCEPT ![g].at = "leaked"]
      BY <2>2, <3>2, StageTyped DEF Typed
    <3> QED
      BY <2>2, <3>1, <3>2
  <2>4. \A h \in Globs : /\ glob'[h].at # "unmapped" => /\ glob[h].at # "unmapped"
                                                        /\ glob'[h].uid = glob[h].uid
                         /\ glob'[h].at = "live" => glob[h].at = "live"
                         /\ glob'[h].failed => glob[h].failed
    BY <2>2, <2>3
  <2>5. UidsOwn' /\ UidsPast' /\ FutureBare'
    BY <2>1, <2>2, <2>4 DEF UidsOwn, UidsPast, FutureBare, uidVars
  <2>6. FailsFirst'
    BY <1>1, <2>1, <2>2, <2>4 DEF FailsFirst
  <2>7. \A s \in Threads, h \in Globs :
           glob'[h].at = "live" => glob[h].at = "live" /\ Has(s, h)' = Has(s, h)
    BY <2>2, <2>4 DEF Has
  <2>8. CachesOwn'
    BY <2>1, <2>2, <2>7 DEF CachesOwn
  <2> QED
    BY <2>5, <2>6, <2>8
<1>13. ASSUME UNCHANGED vars
       PROVE  Serves'
  BY <1>1, <1>13, ServesStay DEF vars
<1> QED
  BY <1>2, <1>3, <1>4, <1>5, <1>6, <1>7, <1>8, <1>9, <1>10, <1>11, <1>12, <1>13
  DEF Next, Crashed

(* Unless creates raced, a thread finds under the uid of a live allocator   *)
(* only a mapped cache of that allocator which no other thread has, and     *)
(* touches unmapped memory only after a call failed (glob.c:229).           *)
THEOREM CachesServe == Spec => []CacheServesOwner
<1>1. Init => Typed /\ Ledgers /\ Serves
  BY GlobAssumption, LedgersInit, ServesInit
<1>2. Typed /\ Ledgers /\ Serves /\ [Next]_vars => Typed' /\ Ledgers' /\ Serves'
  <2> SUFFICES ASSUME Typed, Ledgers, Serves, [Next]_vars
               PROVE  Typed' /\ Ledgers' /\ Serves'
    OBVIOUS
  <2>1. Typed' /\ Ledgers'
    BY GlobAssumption, LedgersNext
  <2> QED
    BY GlobAssumption, <2>1, ServesNext
<1>3. Typed /\ Serves => CacheServesOwner
  BY GlobAssumption, ServesOwner
<1> QED
  BY <1>1, <1>2, <1>3, PTL DEF Spec
=============================================================================
