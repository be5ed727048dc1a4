-------------------------- MODULE PageTrieProofs ---------------------------
(***************************************************************************)
(* Proofs about PageTrie for any number of threads, fan and node bound: the *)
(* nodes are always a tree, in which no two pages share a slot, and every   *)
(* step of an operation is, on the map from pages to data that the tree     *)
(* spells, either invisible, the store of one page, or the clearing of one; *)
(* a lookup returns what that map holds in the step it returns.             *)
(***************************************************************************)
EXTENDS PageTrie, TLAPS

Kid(i) == node[Root][i]

LeafAt(i, j) == IF Kid(i) = Null THEN Null ELSE node[Kid(i)][j]

Slot(i, j, k) == IF LeafAt(i, j) = Null THEN Null ELSE node[LeafAt(i, j)][k]

(* What a page maps to *)
Entry(p) == Slot(Idx1(p), Idx2(p), Idx3(p))

-----------------------------------------------------------------------------
(* The indices *)

(* Quotient and remainder *)
LEMMA Divided ==
    ASSUME NEW n \in Nat, NEW d \in Nat \ {0}
    PROVE  /\ n \div d \in Nat /\ n % d \in 0 .. d - 1
           /\ n = d * (n \div d) + (n % d)
  OBVIOUS

(* Every index is below the fan. *)
LEMMA IdxInSlots == ASSUME NEW p \in Nat
    PROVE Idx1(p) \in Slots /\ Idx2(p) \in Slots /\ Idx3(p) \in Slots
<1>1. Fan \in Nat \ {0} /\ Fan * Fan \in Nat \ {0}
  BY PageTrieAssumption
<1>2. p \div (Fan * Fan) \in Nat /\ p \div Fan \in Nat
  BY <1>1, Divided
<1> QED
  BY <1>1, <1>2, Divided DEF Idx1, Idx2, Idx3, Slots

(* There is only one quotient and remainder. *)
LEMMA Division ==
    ASSUME NEW d \in Nat \ {0}, NEW q \in Nat, NEW r \in Nat, NEW q2 \in Nat, NEW r2 \in Nat,
           r < d, r2 < d, d * q + r = d * q2 + r2
    PROVE  q = q2 /\ r = r2
<1>1. ~(q < q2)
  <2> SUFFICES ASSUME q < q2 PROVE FALSE
    OBVIOUS
  <2>1. q2 - q \in Nat \ {0} /\ q2 = q + (q2 - q)
    OBVIOUS
  <2> DEFINE k == q2 - q
  <2> HIDE DEF k
  <2>2. k \in Nat \ {0} /\ q2 = q + k
    BY <2>1 DEF k
  <2>3. d * q2 = d * q + d * k
    BY <2>2
  <2>4. d * k >= d
    BY <2>2
  <2>5. d * q \in Nat /\ d * k \in Nat
    BY <2>2
  <2> QED
    BY <2>3, <2>4, <2>5
<1>2. ~(q2 < q)
  <2> SUFFICES ASSUME q2 < q PROVE FALSE
    OBVIOUS
  <2>1. q - q2 \in Nat \ {0} /\ q = q2 + (q - q2)
    OBVIOUS
  <2> DEFINE k == q - q2
  <2> HIDE DEF k
  <2>2. k \in Nat \ {0} /\ q = q2 + k
    BY <2>1 DEF k
  <2>3. d * q = d * q2 + d * k
    BY <2>2
  <2>4. d * k >= d
    BY <2>2
  <2>5. d * q2 \in Nat /\ d * k \in Nat
    BY <2>2
  <2> QED
    BY <2>3, <2>4, <2>5
<1>3. q = q2
  BY <1>1, <1>2
<1> QED
  BY <1>3

(* A page is its three indices. *)
LEMMA PageIsIdx ==
    ASSUME NEW p \in Pages, NEW q \in Pages,
           Idx1(p) = Idx1(q), Idx2(p) = Idx2(q), Idx3(p) = Idx3(q)
    PROVE  p = q
<1> DEFINE F == Fan
           top(n) == n \div (F * F)
           mid(n) == n \div F
<1>1. F \in Nat \ {0} /\ F * F \in Nat \ {0} /\ p \in Nat /\ q \in Nat
      /\ p < F * F * F /\ q < F * F * F
  BY PageTrieAssumption DEF Pages
<1> HIDE DEF F
<1>2. ASSUME NEW n \in Nat, n < F * F * F
      PROVE  /\ top(n) \in 0 .. F - 1 /\ mid(n) \in Nat
             /\ mid(n) = F * top(n) + (mid(n) % F)
             /\ n = F * mid(n) + (n % F)
             /\ mid(n) % F \in 0 .. F - 1 /\ n % F \in 0 .. F - 1
  <2> DEFINE t == top(n)
             m == mid(n)
             r == n % (F * F)
             a == m \div F
             b == m % F
             c == n % F
  <2>1. t \in Nat /\ r \in 0 .. F * F - 1 /\ n = (F * F) * t + r
    BY <1>1, <1>2, Divided
  <2>2. m \in Nat /\ c \in 0 .. F - 1 /\ n = F * m + c
    BY <1>1, <1>2, Divided
  <2>3. a \in Nat /\ b \in 0 .. F - 1 /\ m = F * a + b
    BY <1>1, <2>2, Divided
  <2> HIDE DEF t, m, r, a, b, c
  <2>4. F * b + c \in 0 .. F * F - 1
    <3>1. F * b \in Nat /\ F * b <= F * (F - 1) /\ F * (F - 1) = F * F - F
      BY <1>1, <2>3
    <3> QED
      BY <1>1, <2>2, <3>1
  <2>5. n = (F * F) * a + (F * b + c)
    <3>1. F * m = F * (F * a) + F * b /\ F * (F * a) = (F * F) * a
      BY <1>1, <2>2, <2>3
    <3>2. F * m \in Nat /\ F * b \in Nat /\ (F * F) * a \in Nat
      BY <1>1, <2>2, <2>3
    <3> QED
      BY <1>2, <2>2, <3>1, <3>2
  <2>6. t = a
    <3> DEFINE s == F * b + c
               D == F * F
    <3>1. D \in Nat \ {0} /\ s \in Nat /\ s < D /\ r \in Nat /\ r < D /\ D * t + r = D * a + s
      BY <1>1, <2>1, <2>4, <2>5
    <3> HIDE DEF s, D
    <3> QED
      BY <2>1, <2>3, <3>1, Division
  <2>7. t < F
    <3> SUFFICES ASSUME t >= F PROVE FALSE
      BY <1>1, <2>1
    <3>1. (F * F) * t >= (F * F) * F
      BY <1>1, <2>1
    <3>2. (F * F) * F = F * F * F /\ (F * F) * t \in Nat
      BY <1>1, <2>1
    <3> QED
      BY <1>1, <1>2, <2>1, <3>1, <3>2
  <2>8. t \in 0 .. F - 1
    BY <1>1, <2>1, <2>7
  <2> QED
    BY <2>2, <2>3, <2>6, <2>8 DEF t, m, b, c, a
<1>3. \A x \in 0 .. F - 1 : x % F = x
  BY <1>1
<1>4. top(p) = top(q)
  BY <1>1, <1>2, <1>3 DEF Idx1, F
<1>5. mid(p) = mid(q)
  BY <1>1, <1>2, <1>4 DEF Idx2, F
<1> QED
  BY <1>1, <1>2, <1>5 DEF Idx3, F

-----------------------------------------------------------------------------
(* The tree *)

NodesTyped ==
    /\ nnodes \in 1 .. MaxNodes
    /\ node \in [0 .. MaxNodes - 1 -> [Slots -> Data \cup Nat \cup {Null}]]

FreshEmpty == \A n \in nnodes .. MaxNodes - 1 : node[n] = EmptyNode

KidsApart ==
    \A i \in Slots : Kid(i) # Null =>
        /\ Kid(i) \in 1 .. nnodes - 1
        /\ \A j \in Slots : Kid(j) = Kid(i) => j = i

LeavesApart ==
    \A i, j \in Slots : LeafAt(i, j) # Null =>
        /\ LeafAt(i, j) \in 1 .. nnodes - 1
        /\ \A k \in Slots : LeafAt(i, j) # Kid(k)
        /\ \A k, l \in Slots : LeafAt(k, l) = LeafAt(i, j) => k = i /\ l = j
        /\ node[LeafAt(i, j)] \in [Slots -> Data \cup {Null}]

(* The nodes are a tree of three levels: no node has two parents, and those *)
(* not yet taken from the pool are empty.                                   *)
TrieTree == NodesTyped /\ FreshEmpty /\ KidsApart /\ LeavesApart

NodesStay == /\ \A i \in Slots : Kid(i)' = Kid(i)
             /\ \A i, j \in Slots : LeafAt(i, j)' = LeafAt(i, j)

SlotSet(i, j, k, v) ==
    /\ Slot(i, j, k)' = v
    /\ \A a, b, c \in Slots : <<a, b, c>> # <<i, j, k>> => Slot(a, b, c)' = Slot(a, b, c)

(* A store in a leaf changes that slot only. *)
LEMMA StoreInLeaf ==
    ASSUME TrieTree, NEW i \in Slots, NEW j \in Slots, NEW k \in Slots,
           NEW v \in Data \cup {Null}, LeafAt(i, j) # Null,
           node' = [node EXCEPT ![LeafAt(i, j)][k] = v], nnodes' = nnodes
    PROVE  TrieTree' /\ NodesStay /\ SlotSet(i, j, k, v)
<1> DEFINE l == LeafAt(i, j)
<1>1. /\ l \in 1 .. nnodes - 1 /\ nnodes \in 1 .. MaxNodes /\ l # Root
      /\ \A a \in Slots : l # Kid(a)
      /\ \A a, b \in Slots : LeafAt(a, b) = l => a = i /\ b = j
      /\ node[l] \in [Slots -> Data \cup {Null}]
  BY DEF TrieTree, LeavesApart, NodesTyped, Root
<1>2. MaxNodes \in Nat \ {0}
  BY PageTrieAssumption
<1>3. /\ l \in 0 .. MaxNodes - 1
      /\ node \in [0 .. MaxNodes - 1 -> [Slots -> Data \cup Nat \cup {Null}]]
      /\ Null \notin 0 .. MaxNodes - 1
  BY <1>1, <1>2, PageTrieAssumption DEF TrieTree, NodesTyped
<1> HIDE DEF l
<1>4. /\ \A n \in 0 .. MaxNodes - 1 : n # l => node'[n] = node[n]
      /\ node'[l] = [node[l] EXCEPT ![k] = v]
      /\ node' \in [0 .. MaxNodes - 1 -> [Slots -> Data \cup Nat \cup {Null}]]
  BY <1>1, <1>3 DEF l
<1>5. \A a \in Slots : Kid(a)' = Kid(a) /\ (Kid(a) # Null => Kid(a) \in 0 .. MaxNodes - 1 /\ Kid(a) # l)
  BY <1>1, <1>2, <1>4 DEF Kid, Root, TrieTree, KidsApart
<1>6. \A a, b \in Slots : LeafAt(a, b)' = LeafAt(a, b)
  BY <1>4, <1>5 DEF LeafAt
<1>7. \A a, b \in Slots : LeafAt(a, b) # Null => LeafAt(a, b) \in 0 .. MaxNodes - 1
  BY <1>1, <1>2 DEF TrieTree, LeavesApart
<1>8. Slot(i, j, k)' = v
  BY <1>1, <1>4, <1>6 DEF Slot, l
<1>9. \A a, b, c \in Slots : <<a, b, c>> # <<i, j, k>> => Slot(a, b, c)' = Slot(a, b, c)
  <2> SUFFICES ASSUME NEW a \in Slots, NEW b \in Slots, NEW c \in Slots, <<a, b, c>> # <<i, j, k>>
               PROVE  Slot(a, b, c)' = Slot(a, b, c)
    OBVIOUS
  <2>1. CASE LeafAt(a, b) = l
    BY <1>1, <1>4, <1>6, <2>1 DEF Slot
  <2>2. CASE LeafAt(a, b) # l
    BY <1>4, <1>6, <1>7, <2>2 DEF Slot
  <2> QED
    BY <2>1, <2>2
<1>10. NodesTyped'
  BY <1>1, <1>4 DEF NodesTyped
<1>11. FreshEmpty'
  <2> SUFFICES ASSUME NEW m \in nnodes .. MaxNodes - 1 PROVE node'[m] = EmptyNode
    BY DEF FreshEmpty, EmptyNode, Slots
  <2>1. m \in 0 .. MaxNodes - 1 /\ m # l
    BY <1>1, <1>2
  <2> QED
    BY <1>4, <2>1 DEF TrieTree, FreshEmpty
<1>12. KidsApart'
  BY <1>5 DEF KidsApart, TrieTree
<1>13. LeavesApart'
  <2>1. \A a, b \in Slots : LeafAt(a, b) # Null => node'[LeafAt(a, b)] \in [Slots -> Data \cup {Null}]
    BY <1>1, <1>4, <1>7 DEF LeavesApart, TrieTree
  <2>2. \A a, b \in Slots : LeafAt(a, b) # Null =>
          /\ LeafAt(a, b) \in 1 .. nnodes' - 1
          /\ \A c \in Slots : LeafAt(a, b) # Kid(c)
          /\ \A c, d \in Slots : LeafAt(c, d) = LeafAt(a, b) => c = a /\ d = b
    BY DEF LeavesApart, TrieTree
  <2> SUFFICES ASSUME NEW a \in Slots, NEW b \in Slots, LeafAt(a, b)' # Null
               PROVE  /\ LeafAt(a, b)' \in 1 .. nnodes' - 1
                      /\ \A c \in Slots : LeafAt(a, b)' # Kid(c)'
                      /\ \A c, d \in Slots : LeafAt(c, d)' = LeafAt(a, b)' => c = a /\ d = b
                      /\ node'[LeafAt(a, b)'] \in [Slots -> Data \cup {Null}]
    BY DEF LeavesApart
  <2>3. LeafAt(a, b)' = LeafAt(a, b) /\ LeafAt(a, b) # Null
    BY <1>6
  <2> QED
    BY ONLY <1>5, <1>6, <2>1, <2>2, <2>3
<1> QED
  BY <1>5, <1>6, <1>8, <1>9, <1>10, <1>11, <1>12, <1>13 DEF TrieTree, NodesStay, SlotSet

(* A new child of the root takes an empty node and changes no slot. *)
LEMMA NewChild ==
    ASSUME TrieTree, NEW i \in Slots, Kid(i) = Null, nnodes < MaxNodes,
           node' = [node EXCEPT ![Root][i] = nnodes], nnodes' = nnodes + 1
    PROVE  /\ TrieTree'
           /\ Kid(i)' = nnodes /\ nnodes # Null
           /\ \A a \in Slots : a # i => Kid(a)' = Kid(a)
           /\ \A a, b \in Slots : LeafAt(a, b)' = LeafAt(a, b)
           /\ \A a, b, c \in Slots : Slot(a, b, c)' = Slot(a, b, c)
<1> DEFINE n == nnodes
           Nodes == 0 .. MaxNodes - 1
<1>1. /\ MaxNodes \in Nat \ {0} /\ n \in 1 .. MaxNodes - 1 /\ n \in Nodes /\ n # Root /\ Root \in Nodes
      /\ node \in [Nodes -> [Slots -> Data \cup Nat \cup {Null}]]
      /\ Null \notin Nat /\ n \in Nat
  BY PageTrieAssumption DEF TrieTree, NodesTyped, Root
<1> HIDE DEF n, Nodes
<1>2. /\ \A m \in Nodes : m # Root => node'[m] = node[m]
      /\ node'[Root] = [node[Root] EXCEPT ![i] = n]
      /\ node' \in [Nodes -> [Slots -> Data \cup Nat \cup {Null}]]
  BY <1>1 DEF n
<1>3. Kid(i)' = n /\ n # Null /\ \A a \in Slots : a # i => Kid(a)' = Kid(a)
  BY <1>1, <1>2 DEF Kid
<1>4. node[n] = EmptyNode
  BY <1>1 DEF TrieTree, FreshEmpty, n
<1>5. \A a \in Slots : Kid(a) # Null => Kid(a) \in 1 .. n - 1 /\ Kid(a) \in Nodes /\ Kid(a) # Root
  BY <1>1 DEF TrieTree, KidsApart, Nodes, Root, n
<1>6. \A a, b \in Slots : LeafAt(a, b) # Null =>
         LeafAt(a, b) \in 1 .. n - 1 /\ LeafAt(a, b) \in Nodes /\ LeafAt(a, b) # Root
  BY <1>1 DEF TrieTree, LeavesApart, Nodes, Root, n
<1>7. \A a, b \in Slots : LeafAt(a, b)' = LeafAt(a, b)
  <2> SUFFICES ASSUME NEW a \in Slots, NEW b \in Slots PROVE LeafAt(a, b)' = LeafAt(a, b)
    OBVIOUS
  <2>1. CASE a = i
    BY <1>1, <1>2, <1>3, <1>4, <2>1 DEF LeafAt, EmptyNode
  <2>2. CASE a # i
    BY <1>2, <1>3, <1>5, <2>2 DEF LeafAt
  <2> QED
    BY <2>1, <2>2
<1>8. \A a, b, c \in Slots : Slot(a, b, c)' = Slot(a, b, c)
  BY <1>2, <1>6, <1>7 DEF Slot
<1>9. NodesTyped'
  BY <1>1, <1>2 DEF NodesTyped, Nodes, n
<1>10. FreshEmpty'
  <2> SUFFICES ASSUME NEW m \in n + 1 .. MaxNodes - 1 PROVE node'[m] = EmptyNode
    BY DEF FreshEmpty, n, EmptyNode, Slots
  <2>1. m \in n .. MaxNodes - 1 /\ m \in Nodes /\ m # Root
    BY <1>1 DEF Nodes, Root
  <2> QED
    BY <1>2, <2>1 DEF TrieTree, FreshEmpty, n
<1>11. KidsApart'
  <2>1. \A a, b \in Slots : Kid(a) # Null /\ Kid(b) = Kid(a) => b = a
    BY DEF TrieTree, KidsApart
  <2> SUFFICES ASSUME NEW a \in Slots, Kid(a)' # Null
               PROVE  Kid(a)' \in 1 .. n /\ \A b \in Slots : Kid(b)' = Kid(a)' => b = a
    BY <1>1 DEF KidsApart, n
  <2>2. CASE a = i
    BY <1>1, <1>3, <1>5, <2>2
  <2>3. CASE a # i
    BY <1>1, <1>3, <1>5, <2>1, <2>3
  <2> QED
    BY <2>2, <2>3
<1>12. LeavesApart'
  <2>1. \A a, b \in Slots : LeafAt(a, b) # Null =>
          /\ \A c \in Slots : LeafAt(a, b) # Kid(c)
          /\ \A c, d \in Slots : LeafAt(c, d) = LeafAt(a, b) => c = a /\ d = b
          /\ node[LeafAt(a, b)] \in [Slots -> Data \cup {Null}]
    BY DEF TrieTree, LeavesApart
  <2> SUFFICES ASSUME NEW a \in Slots, NEW b \in Slots, LeafAt(a, b)' # Null
               PROVE  /\ LeafAt(a, b)' \in 1 .. nnodes' - 1
                      /\ \A c \in Slots : LeafAt(a, b)' # Kid(c)'
                      /\ \A c, d \in Slots : LeafAt(c, d)' = LeafAt(a, b)' => c = a /\ d = b
                      /\ node'[LeafAt(a, b)'] \in [Slots -> Data \cup {Null}]
    BY DEF LeavesApart, Slots
  <2>2. LeafAt(a, b)' = LeafAt(a, b) /\ LeafAt(a, b) # Null /\ LeafAt(a, b) \in 1 .. n - 1
    BY <1>6, <1>7
  <2>3. LeafAt(a, b) \in 1 .. nnodes' - 1 /\ LeafAt(a, b) # n
    BY <1>1, <2>2 DEF n
  <2>4. node'[LeafAt(a, b)] = node[LeafAt(a, b)]
    BY <1>2, <1>6, <2>2
  <2>5. \A c \in Slots : LeafAt(a, b)' # Kid(c)'
    BY <1>3, <2>1, <2>2, <2>3
  <2> QED
    BY <1>7, <2>1, <2>2, <2>3, <2>4, <2>5
<1> QED
  BY <1>3, <1>7, <1>8, <1>9, <1>10, <1>11, <1>12 DEF TrieTree, n

(* A new leaf takes an empty node and changes no slot. *)
LEMMA NewLeaf ==
    ASSUME TrieTree, NEW i \in Slots, NEW j \in Slots, Kid(i) # Null, LeafAt(i, j) = Null,
           nnodes < MaxNodes,
           node' = [node EXCEPT ![Kid(i)][j] = nnodes], nnodes' = nnodes + 1
    PROVE  /\ TrieTree'
           /\ \A a \in Slots : Kid(a)' = Kid(a)
           /\ LeafAt(i, j)' = nnodes /\ nnodes # Null
           /\ \A a, b \in Slots : <<a, b>> # <<i, j>> => LeafAt(a, b)' = LeafAt(a, b)
           /\ \A a, b, c \in Slots : Slot(a, b, c)' = Slot(a, b, c)
<1> DEFINE n == nnodes
           k == Kid(i)
           Nodes == 0 .. MaxNodes - 1
<1>1. /\ MaxNodes \in Nat \ {0} /\ n \in 1 .. MaxNodes - 1 /\ n \in Nodes /\ n # Root /\ Root \in Nodes
      /\ node \in [Nodes -> [Slots -> Data \cup Nat \cup {Null}]]
      /\ Null \notin Nat /\ n \in Nat
  BY PageTrieAssumption DEF TrieTree, NodesTyped, Root
<1>2. k \in 1 .. n - 1
  BY DEF TrieTree, KidsApart
<1>3. k \in Nodes /\ k # Root /\ k # n /\ k # Null
  BY <1>1, <1>2 DEF Root
<1> HIDE DEF n, Nodes, k
<1>4. /\ \A m \in Nodes : m # k => node'[m] = node[m]
      /\ node'[k] = [node[k] EXCEPT ![j] = n]
      /\ node' \in [Nodes -> [Slots -> Data \cup Nat \cup {Null}]]
  BY <1>1, <1>3 DEF n, k
<1>5. node[n] = EmptyNode /\ node'[n] = EmptyNode
  BY <1>1, <1>3, <1>4 DEF TrieTree, FreshEmpty, n
<1>6. \A a \in Slots : Kid(a)' = Kid(a)
  BY <1>1, <1>3, <1>4 DEF Kid
<1>7. \A a \in Slots : Kid(a) # Null =>
         /\ Kid(a) \in 1 .. n - 1 /\ Kid(a) \in Nodes /\ Kid(a) # n
         /\ (Kid(a) = k => a = i)
  BY <1>1 DEF TrieTree, KidsApart, Nodes, n, k
<1>8. \A a, b \in Slots : LeafAt(a, b) # Null =>
         /\ LeafAt(a, b) \in 1 .. n - 1 /\ LeafAt(a, b) \in Nodes
         /\ LeafAt(a, b) # k /\ LeafAt(a, b) # n
  BY <1>1 DEF TrieTree, LeavesApart, Nodes, n, k
<1>9. LeafAt(i, j)' = n /\ n # Null
  BY <1>1, <1>3, <1>4, <1>6 DEF LeafAt, k
<1>10. \A a, b \in Slots : <<a, b>> # <<i, j>> => LeafAt(a, b)' = LeafAt(a, b)
  <2> SUFFICES ASSUME NEW a \in Slots, NEW b \in Slots, <<a, b>> # <<i, j>>
               PROVE  LeafAt(a, b)' = LeafAt(a, b)
    OBVIOUS
  <2>1. CASE Kid(a) = k
    <3>1. a = i /\ b # j
      BY <1>3, <1>7, <2>1
    <3>2. node'[k][b] = node[k][b]
      BY <1>1, <1>3, <1>4, <3>1
    <3> QED
      BY <1>3, <1>6, <2>1, <3>2 DEF LeafAt
  <2>2. CASE Kid(a) # k
    BY <1>4, <1>6, <1>7, <2>2 DEF LeafAt
  <2> QED
    BY <2>1, <2>2
<1>11. \A a, b, c \in Slots : Slot(a, b, c)' = Slot(a, b, c)
  <2> SUFFICES ASSUME NEW a \in Slots, NEW b \in Slots, NEW c \in Slots
               PROVE  Slot(a, b, c)' = Slot(a, b, c)
    OBVIOUS
  <2>1. CASE a = i /\ b = j
    BY <1>5, <1>9, <2>1 DEF Slot, EmptyNode
  <2>2. CASE <<a, b>> # <<i, j>>
    <3>1. LeafAt(a, b)' = LeafAt(a, b)
      BY <1>10, <2>2
    <3> QED
      BY <1>4, <1>8, <3>1 DEF Slot
  <2> QED
    BY <2>1, <2>2
<1>12. NodesTyped'
  BY <1>1, <1>4 DEF NodesTyped, Nodes, n
<1>13. FreshEmpty'
  <2> SUFFICES ASSUME NEW m \in n + 1 .. MaxNodes - 1 PROVE node'[m] = EmptyNode
    BY DEF FreshEmpty, n, EmptyNode, Slots
  <2>1. m \in n .. MaxNodes - 1 /\ m \in Nodes /\ m # k
    BY <1>1, <1>2 DEF Nodes
  <2> QED
    BY <1>4, <2>1 DEF TrieTree, FreshEmpty, n
<1>14. KidsApart'
  <2>1. \A a, b \in Slots : Kid(a) # Null /\ Kid(b) = Kid(a) => b = a
    BY DEF TrieTree, KidsApart
  <2> SUFFICES ASSUME NEW a \in Slots, Kid(a)' # Null
               PROVE  Kid(a)' \in 1 .. n /\ \A b \in Slots : Kid(b)' = Kid(a)' => b = a
    BY <1>1 DEF KidsApart, n
  <2> QED
    BY <1>1, <1>6, <1>7, <2>1
<1>15. LeavesApart'
  <2>1. \A a, b \in Slots : LeafAt(a, b) # Null =>
          /\ \A c \in Slots : LeafAt(a, b) # Kid(c)
          /\ \A c, d \in Slots : LeafAt(c, d) = LeafAt(a, b) => c = a /\ d = b
          /\ node[LeafAt(a, b)] \in [Slots -> Data \cup {Null}]
    BY DEF TrieTree, LeavesApart
  <2> SUFFICES ASSUME NEW a \in Slots, NEW b \in Slots, LeafAt(a, b)' # Null
               PROVE  /\ LeafAt(a, b)' \in 1 .. nnodes' - 1
                      /\ \A c \in Slots : LeafAt(a, b)' # Kid(c)'
                      /\ \A c, d \in Slots : LeafAt(c, d)' = LeafAt(a, b)' => c = a /\ d = b
                      /\ node'[LeafAt(a, b)'] \in [Slots -> Data \cup {Null}]
    BY DEF LeavesApart, Slots
  <2>2. CASE a = i /\ b = j
    <3>1. n \in 1 .. nnodes' - 1
      BY <1>1 DEF n
    <3>2. \A c \in Slots : n # Kid(c)
      BY <1>1, <1>7
    <3>3. \A c, d \in Slots : LeafAt(c, d)' = n => c = i /\ d = j
      BY <1>1, <1>8, <1>10
    <3>4. node'[n] \in [Slots -> Data \cup {Null}]
      BY <1>5 DEF EmptyNode
    <3> QED
      BY <1>6, <1>9, <2>2, <3>1, <3>2, <3>3, <3>4
  <2>3. CASE <<a, b>> # <<i, j>>
    <3>1. LeafAt(a, b)' = LeafAt(a, b) /\ LeafAt(a, b) # Null
      BY <1>10, <2>3
    <3>2. LeafAt(a, b) \in 1 .. nnodes' - 1
      BY <1>1, <1>8, <3>1 DEF n
    <3>3. \A c \in Slots : LeafAt(a, b) # Kid(c)'
      BY <1>6, <2>1, <3>1
    <3>4. \A c, d \in Slots : LeafAt(c, d)' = LeafAt(a, b) => c = a /\ d = b
      BY <1>8, <1>9, <1>10, <2>1, <3>1
    <3>5. node'[LeafAt(a, b)] \in [Slots -> Data \cup {Null}]
      BY <1>4, <1>8, <2>1, <3>1
    <3> QED
      BY <3>1, <3>2, <3>3, <3>4, <3>5
  <2> QED
    BY <2>2, <2>3
<1> QED
  BY <1>6, <1>9, <1>10, <1>11, <1>12, <1>13, <1>14, <1>15 DEF TrieTree, n

-----------------------------------------------------------------------------
(* The operations *)

IsOp(o) == o = [f \in DOMAIN NoOp |-> o[f]]

OpsTyped == op = [t \in Threads |-> op[t]] /\ \A t \in Threads : IsOp(op[t])

(* The node an operation is at is the one on the way to its page. *)
OpPath(t) ==
    LET p == op[t].page
    IN  /\ op[t].at \in {"level2", "load2"} =>
              /\ p \in Pages
              /\ Kid(Idx1(p)) # Null /\ op[t].node = Kid(Idx1(p))
        /\ op[t].at \in {"store", "load3"} =>
              /\ p \in Pages
              /\ LeafAt(Idx1(p), Idx2(p)) # Null /\ op[t].node = LeafAt(Idx1(p), Idx2(p))

TrieInv == TrieTree /\ OpsTyped /\ \A t \in Threads : OpPath(t)

(* Nodes stay where they are. *)
Grows == /\ \A i \in Slots : Kid(i) # Null => Kid(i)' = Kid(i)
         /\ \A i, j \in Slots : LeafAt(i, j) # Null => LeafAt(i, j)' = LeafAt(i, j)

EntriesStay == \A p \in Pages : Entry(p)' = Entry(p)

EntrySet(p, v) == Entry(p)' = v /\ \A q \in Pages \ {p} : Entry(q)' = Entry(q)

Inserts == {"lock", "level1", "level2", "store"}

Loads == {"load1", "load2", "load3"}

(* The indices of a page are slots. *)
LEMMA PageIdx == ASSUME NEW p \in Pages
    PROVE Idx1(p) \in Slots /\ Idx2(p) \in Slots /\ Idx3(p) \in Slots
<1>1. p \in Nat
  BY PageTrieAssumption DEF Pages
<1> QED
  BY <1>1, IdxInSlots

(* A page whose leaf is written gets that entry, the others keep theirs. *)
LEMMA StorePage ==
    ASSUME TrieTree, NEW p \in Pages, NEW v \in Data \cup {Null},
           LeafAt(Idx1(p), Idx2(p)) # Null,
           node' = [node EXCEPT ![LeafAt(Idx1(p), Idx2(p))][Idx3(p)] = v], nnodes' = nnodes
    PROVE  TrieTree' /\ Grows /\ EntrySet(p, v)
<1> DEFINE i == Idx1(p)
           j == Idx2(p)
           k == Idx3(p)
<1>1. i \in Slots /\ j \in Slots /\ k \in Slots
  BY PageIdx
<1>2. \A q \in Pages \ {p} : <<Idx1(q), Idx2(q), Idx3(q)>> # <<i, j, k>>
  BY PageIsIdx
<1>3. \A q \in Pages : Idx1(q) \in Slots /\ Idx2(q) \in Slots /\ Idx3(q) \in Slots
  BY PageIdx
<1> HIDE DEF i, j, k
<1>4. /\ LeafAt(i, j) # Null /\ node' = [node EXCEPT ![LeafAt(i, j)][k] = v]
      /\ TrieTree /\ nnodes' = nnodes /\ v \in Data \cup {Null}
  BY DEF i, j, k
<1>5. TrieTree' /\ NodesStay /\ SlotSet(i, j, k, v)
  BY ONLY <1>1, <1>4, StoreInLeaf
<1>6. Entry(p)' = v
  BY <1>5 DEF SlotSet, Entry, i, j, k, Idx1, Idx2, Idx3
<1>7. \A q \in Pages \ {p} : Entry(q)' = Entry(q)
  <2> SUFFICES ASSUME NEW q \in Pages \ {p} PROVE Entry(q)' = Entry(q)
    OBVIOUS
  <2>1. Slot(Idx1(q), Idx2(q), Idx3(q))' = Slot(Idx1(q), Idx2(q), Idx3(q))
    BY <1>2, <1>3, <1>5 DEF SlotSet
  <2> QED
    BY <2>1 DEF Entry
<1> QED
  BY <1>5, <1>6, <1>7 DEF Grows, NodesStay, EntrySet

(* Where a slot does not change neither does an entry. *)
LEMMA SlotsStay ==
    ASSUME \A a, b, c \in Slots : Slot(a, b, c)' = Slot(a, b, c) PROVE EntriesStay
<1> SUFFICES ASSUME NEW q \in Pages PROVE Entry(q)' = Entry(q)
  BY DEF EntriesStay
<1>1. Idx1(q) \in Slots /\ Idx2(q) \in Slots /\ Idx3(q) \in Slots
  BY PageIdx
<1>2. Slot(Idx1(q), Idx2(q), Idx3(q))' = Slot(Idx1(q), Idx2(q), Idx3(q))
  BY <1>1
<1> QED
  BY <1>2 DEF Entry

(* Nothing moves in the tree while its nodes stay. *)
LEMMA TreeStays ==
    ASSUME TrieTree, UNCHANGED <<node, nnodes>>
    PROVE  TrieTree' /\ Grows /\ EntriesStay
<1>1. \A i \in Slots : Kid(i)' = Kid(i)
  BY DEF Kid
<1>2. \A i, j \in Slots : LeafAt(i, j)' = LeafAt(i, j)
  BY <1>1 DEF LeafAt
<1>3. \A i, j, k \in Slots : Slot(i, j, k)' = Slot(i, j, k)
  BY <1>2 DEF Slot
<1>4. NodesTyped' /\ FreshEmpty'
  BY DEF TrieTree, NodesTyped, FreshEmpty, EmptyNode, Slots
<1>5. KidsApart'
  BY <1>1 DEF TrieTree, KidsApart
<1>6. LeavesApart'
  BY <1>1, <1>2 DEF TrieTree, LeavesApart
<1> QED
  BY <1>1, <1>2, <1>3, <1>4, <1>5, <1>6, SlotsStay DEF TrieTree, Grows

(* The operation of one thread moves on, the tree grows: all stay on their way. *)
LEMMA PathsStay ==
    ASSUME TrieInv, TrieTree', Grows, NEW t \in Threads, NEW o,
           op' = [op EXCEPT ![t] = o], IsOp(o), OpPath(t)'
    PROVE  TrieInv'
<1>1. OpsTyped'
  BY DEF TrieInv, OpsTyped, IsOp, NoOp
<1>2. ASSUME NEW u \in Threads, u # t PROVE OpPath(u)'
  <2>1. op'[u] = op[u]
    BY <1>2 DEF TrieInv, OpsTyped
  <2> DEFINE p == op[u].page
  <2>2. CASE op[u].at \in {"level2", "load2"}
    <3>1. p \in Pages /\ Kid(Idx1(p)) # Null /\ op[u].node = Kid(Idx1(p))
      BY <2>2 DEF TrieInv, OpPath
    <3>2. Kid(Idx1(p))' = Kid(Idx1(p))
      BY <2>1, <3>1, PageIdx DEF Grows
    <3> QED
      BY <2>1, <2>2, <3>1, <3>2 DEF OpPath, Pages, Slots
  <2>3. CASE op[u].at \in {"store", "load3"}
    <3>1. p \in Pages /\ LeafAt(Idx1(p), Idx2(p)) # Null /\ op[u].node = LeafAt(Idx1(p), Idx2(p))
      BY <2>3 DEF TrieInv, OpPath
    <3>2. LeafAt(Idx1(p), Idx2(p))' = LeafAt(Idx1(p), Idx2(p))
      BY <2>1, <3>1, PageIdx DEF Grows
    <3> QED
      BY <2>1, <2>3, <3>1, <3>2 DEF OpPath, Pages, Slots
  <2> QED
    BY <2>1, <2>2, <2>3 DEF OpPath
<1> QED
  BY <1>1, <1>2 DEF TrieInv

(* What a step of an operation does to the map and to its task *)
Only(t) == op' = [op EXCEPT ![t] = op'[t]] /\ IsOp(op'[t])

SameTask(t) == /\ op'[t].first = op[t].first /\ op'[t].last = op[t].last
               /\ op'[t].data = op[t].data /\ op'[t].ok = op[t].ok

Advances(t) == /\ op[t].at \in Inserts /\ op'[t].at \in Inserts /\ op'[t].page = op[t].page
               /\ SameTask(t) /\ EntriesStay

StoresPage(t) ==
    /\ op[t].at \in Inserts
    /\ \E p \in Pages : p = op[t].page /\ EntrySet(p, op[t].data)
    /\ \/ op[t].page = op[t].last /\ op'[t].at = "returned" /\ op'[t].ok
       \/ /\ op[t].page # op[t].last /\ op'[t].at \in Inserts /\ op'[t].page = op[t].page + 1
          /\ SameTask(t)

GivesUp(t) ==
    /\ op[t].at \in Inserts /\ Entry(op[t].page) = Null /\ EntriesStay
    /\ op'[t].at = "rollback" /\ op'[t].page = op[t].first /\ op'[t].last = op[t].page - 1
    /\ op'[t].first = op[t].first

TakesBack(t) ==
    /\ op[t].at = "rollback"
    /\ \/ op[t].page > op[t].last /\ EntriesStay /\ op'[t].at = "returned" /\ ~op'[t].ok
       \/ /\ op[t].page <= op[t].last
          /\ \E p \in Pages : p = op[t].page /\ EntrySet(p, Null)
          /\ op'[t].at = "rollback" /\ op'[t].page = op[t].page + 1 /\ SameTask(t)

LooksUp(t) == /\ op[t].at \in Loads /\ EntriesStay
              /\ \/ op'[t].at \in Loads /\ op'[t].page = op[t].page /\ op'[t].ok = op[t].ok
                 \/ op'[t].at = "returned" /\ op'[t].data = Entry(op[t].page) /\ op'[t].ok

(* What the caller owes: pages of the tree and data for it, and a rollback  *)
(* of pages that are there                                                  *)
TaskOK(t) ==
    /\ op[t].at \in Inserts => op[t].page \in Pages /\ op[t].data \in Data
    /\ op[t].at \in Loads => op[t].page \in Pages
    /\ op[t].at = "rollback" =>
          /\ op[t].page \in Int /\ op[t].last \in Int
          /\ op[t].page <= op[t].last => op[t].page \in Pages /\ Entry(op[t].page) # Null

Does(t) == Advances(t) \/ StoresPage(t) \/ GivesUp(t) \/ TakesBack(t) \/ LooksUp(t)

(* The lock, and a fresh start from the root *)
LEMMA LockDoes ==
    ASSUME TrieInv, NEW t \in Threads, TaskOK(t), InsertLock(t)
    PROVE  TrieInv' /\ Only(t) /\ Does(t)
<1>1. /\ op[t].at = "lock" /\ op' = [op EXCEPT ![t].at = "level1"]
      /\ UNCHANGED <<node, nnodes>>
  BY DEF InsertLock, Step
<1>2. IsOp(op[t]) /\ op = [u \in Threads |-> op[u]]
  BY DEF TrieInv, OpsTyped
<1>3. /\ Only(t) /\ SameTask(t) /\ op'[t].at = "level1" /\ op'[t].page = op[t].page
  BY <1>1, <1>2 DEF Only, SameTask, IsOp, NoOp
<1>4. TrieTree' /\ Grows /\ EntriesStay
  BY <1>1, TreeStays DEF TrieInv
<1>5. OpPath(t)'
  BY <1>3 DEF OpPath
<1>6. TrieInv'
  BY <1>3, <1>4, <1>5, PathsStay DEF Only
<1> QED
  BY <1>1, <1>3, <1>4, <1>6 DEF Does, Advances, Inserts

(* A level of an insert: the child is there, or made, or cannot be made. *)
LEMMA Level1Does ==
    ASSUME TrieInv, NEW t \in Threads, TaskOK(t), InsertLevel1(t)
    PROVE  TrieInv' /\ Only(t) /\ Does(t)
<1>0. PICK p \in Pages : p = op[t].page
  BY DEF InsertLevel1, TaskOK, Inserts
<1> DEFINE i == Idx1(p)
<1>1. op[t].at = "level1" /\ p = op[t].page /\ i \in Slots /\ op[t].at \in Inserts
  BY <1>0, PageIdx DEF InsertLevel1, Inserts
<1>2. IsOp(op[t]) /\ op = [u \in Threads |-> op[u]] /\ TrieTree
  BY DEF TrieInv, OpsTyped
<1>3. ASSUME NEW n, op' = [op EXCEPT ![t].at = "level2", ![t].node = n]
      PROVE  /\ Only(t) /\ SameTask(t) /\ op'[t].at = "level2" /\ op'[t].page = p
             /\ op'[t].node = n /\ op'[t].at \in Inserts
  BY <1>1, <1>2, <1>3 DEF Only, SameTask, IsOp, NoOp, Inserts
<1>4. CASE /\ node[Root][i] # Null
           /\ GoTo(t, "level2", node[Root][i]) /\ UNCHANGED <<node, nnodes, failures>>
  <2>1. TrieTree' /\ Grows /\ EntriesStay
    BY <1>2, <1>4, TreeStays
  <2>2. op' = [op EXCEPT ![t].at = "level2", ![t].node = Kid(i)] /\ Kid(i) # Null /\ Kid(i)' = Kid(i)
    BY <1>1, <1>4, <2>1 DEF GoTo, Kid, Grows
  <2>3. OpPath(t)'
    BY <1>1, <1>3, <2>2 DEF OpPath, Pages, Idx1
  <2>4. TrieInv'
    BY <1>3, <2>1, <2>2, <2>3, PathsStay DEF Only
  <2> QED
    BY <1>1, <1>3, <2>1, <2>2, <2>4 DEF Does, Advances
<1>5. CASE /\ node[Root][i] = Null /\ nnodes < MaxNodes
           /\ node' = [node EXCEPT ![Root][i] = nnodes] /\ nnodes' = nnodes + 1
           /\ GoTo(t, "level2", nnodes)
  <2>1. Kid(i) = Null
    BY <1>5 DEF Kid
  <2>2. /\ TrieTree'
        /\ Kid(i)' = nnodes /\ nnodes # Null
        /\ \A a \in Slots : a # i => Kid(a)' = Kid(a)
        /\ \A a, b \in Slots : LeafAt(a, b)' = LeafAt(a, b)
        /\ \A a, b, c \in Slots : Slot(a, b, c)' = Slot(a, b, c)
    BY <1>1, <1>2, <1>5, <2>1, NewChild
  <2>3. Grows /\ EntriesStay
    BY <2>1, <2>2, SlotsStay DEF Grows
  <2>4. op' = [op EXCEPT ![t].at = "level2", ![t].node = Kid(i)'] /\ Kid(i)' # Null
    BY <1>5, <2>2 DEF GoTo
  <2>5. OpPath(t)'
    BY <1>1, <1>3, <2>4 DEF OpPath, Pages, Idx1
  <2>6. TrieInv'
    BY <1>3, <2>2, <2>3, <2>4, <2>5, PathsStay DEF Only
  <2> QED
    BY <1>1, <1>3, <2>3, <2>4, <2>6 DEF Does, Advances
<1>6. CASE /\ node[Root][i] = Null
           /\ op' = [op EXCEPT ![t].at = "rollback", ![t].page = op[t].first,
                               ![t].last = op[t].page - 1]
           /\ UNCHANGED <<node, nnodes>>
  <2>1. TrieTree' /\ Grows /\ EntriesStay
    BY <1>2, <1>6, TreeStays
  <2>2. /\ Only(t) /\ op'[t].at = "rollback" /\ op'[t].page = op[t].first
        /\ op'[t].last = op[t].page - 1 /\ op'[t].first = op[t].first
    BY <1>2, <1>6 DEF Only, IsOp, NoOp
  <2>3. OpPath(t)'
    BY <2>2 DEF OpPath
  <2>4. TrieInv'
    BY <2>1, <2>2, <2>3, PathsStay DEF Only
  <2>5. Entry(p) = Null
    BY <1>6 DEF Entry, Slot, LeafAt, Kid
  <2> QED
    BY <1>1, <2>1, <2>2, <2>4, <2>5 DEF Does, GivesUp
<1> QED
  BY <1>0, <1>4, <1>5, <1>6 DEF InsertLevel1, Descend
(* The same one level down *)
LEMMA Level2Does ==
    ASSUME TrieInv, NEW t \in Threads, TaskOK(t), InsertLevel2(t)
    PROVE  TrieInv' /\ Only(t) /\ Does(t)
<1>0. PICK p \in Pages : p = op[t].page
  BY DEF InsertLevel2, TaskOK, Inserts
<1> DEFINE i == Idx1(p)
           j == Idx2(p)
<1>1. op[t].at = "level2" /\ p = op[t].page /\ i \in Slots /\ j \in Slots /\ op[t].at \in Inserts
  BY <1>0, PageIdx DEF InsertLevel2, Inserts
<1>2. IsOp(op[t]) /\ op = [u \in Threads |-> op[u]] /\ TrieTree
  BY DEF TrieInv, OpsTyped
<1>7. Kid(i) # Null /\ op[t].node = Kid(i) /\ LeafAt(i, j) = node[Kid(i)][j]
  BY <1>1 DEF TrieInv, OpPath, LeafAt
<1>3. ASSUME NEW n, op' = [op EXCEPT ![t].at = "store", ![t].node = n]
      PROVE  /\ Only(t) /\ SameTask(t) /\ op'[t].at = "store" /\ op'[t].page = p
             /\ op'[t].node = n /\ op'[t].at \in Inserts
  BY <1>1, <1>2, <1>3 DEF Only, SameTask, IsOp, NoOp, Inserts
<1>4. CASE /\ node[Kid(i)][j] # Null
           /\ GoTo(t, "store", node[Kid(i)][j]) /\ UNCHANGED <<node, nnodes, failures>>
  <2>1. TrieTree' /\ Grows /\ EntriesStay
    BY <1>2, <1>4, TreeStays
  <2>2. op' = [op EXCEPT ![t].at = "store", ![t].node = LeafAt(i, j)] /\ LeafAt(i, j) # Null
        /\ LeafAt(i, j)' = LeafAt(i, j)
    BY <1>1, <1>4, <1>7, <2>1 DEF GoTo, Grows
  <2>3. OpPath(t)'
    BY <1>1, <1>3, <2>2 DEF OpPath, Pages, Idx1, Idx2
  <2>4. TrieInv'
    BY <1>3, <2>1, <2>2, <2>3, PathsStay DEF Only
  <2> QED
    BY <1>1, <1>3, <2>1, <2>2, <2>4 DEF Does, Advances
<1>5. CASE /\ node[Kid(i)][j] = Null /\ nnodes < MaxNodes
           /\ node' = [node EXCEPT ![Kid(i)][j] = nnodes] /\ nnodes' = nnodes + 1
           /\ GoTo(t, "store", nnodes)
  <2>1. LeafAt(i, j) = Null
    BY <1>5, <1>7
  <2>2. /\ TrieTree'
        /\ \A a \in Slots : Kid(a)' = Kid(a)
        /\ LeafAt(i, j)' = nnodes /\ nnodes # Null
        /\ \A a, b \in Slots : <<a, b>> # <<i, j>> => LeafAt(a, b)' = LeafAt(a, b)
        /\ \A a, b, c \in Slots : Slot(a, b, c)' = Slot(a, b, c)
    BY <1>1, <1>2, <1>5, <1>7, <2>1, NewLeaf
  <2>3. Grows /\ EntriesStay
    BY <2>1, <2>2, SlotsStay DEF Grows
  <2>4. op' = [op EXCEPT ![t].at = "store", ![t].node = LeafAt(i, j)'] /\ LeafAt(i, j)' # Null
    BY <1>5, <2>2 DEF GoTo
  <2>5. OpPath(t)'
    BY <1>1, <1>3, <2>4 DEF OpPath, Pages, Idx1, Idx2
  <2>6. TrieInv'
    BY <1>3, <2>2, <2>3, <2>4, <2>5, PathsStay DEF Only
  <2> QED
    BY <1>1, <1>3, <2>3, <2>4, <2>6 DEF Does, Advances
<1>6. CASE /\ node[Kid(i)][j] = Null
           /\ op' = [op EXCEPT ![t].at = "rollback", ![t].page = op[t].first,
                               ![t].last = op[t].page - 1]
           /\ UNCHANGED <<node, nnodes>>
  <2>1. TrieTree' /\ Grows /\ EntriesStay
    BY <1>2, <1>6, TreeStays
  <2>2. /\ Only(t) /\ op'[t].at = "rollback" /\ op'[t].page = op[t].first
        /\ op'[t].last = op[t].page - 1 /\ op'[t].first = op[t].first
    BY <1>2, <1>6 DEF Only, IsOp, NoOp
  <2>3. OpPath(t)'
    BY <2>2 DEF OpPath
  <2>4. TrieInv'
    BY <2>1, <2>2, <2>3, PathsStay DEF Only
  <2>5. Entry(p) = Null
    BY <1>6, <1>7 DEF Entry, Slot
  <2> QED
    BY <1>1, <2>1, <2>2, <2>4, <2>5 DEF Does, GivesUp
<1> QED
  BY <1>0, <1>4, <1>5, <1>6, <1>7 DEF InsertLevel2, Descend

(* The store of a page, and on to the next one *)
LEMMA StoreDoes ==
    ASSUME TrieInv, NEW t \in Threads, TaskOK(t), InsertStore(t)
    PROVE  TrieInv' /\ Only(t) /\ Does(t)
<1>0. PICK p \in Pages : p = op[t].page
  BY DEF InsertStore, TaskOK, Inserts
<1>1. /\ op[t].at = "store" /\ op[t].data \in Data /\ op[t].at \in Inserts
      /\ IsOp(op[t]) /\ op = [u \in Threads |-> op[u]] /\ TrieTree
  BY DEF InsertStore, TaskOK, Inserts, TrieInv, OpsTyped
<1>2. LeafAt(Idx1(p), Idx2(p)) # Null /\ op[t].node = LeafAt(Idx1(p), Idx2(p))
  BY <1>0, <1>1 DEF TrieInv, OpPath
<1>3. /\ node' = [node EXCEPT ![LeafAt(Idx1(p), Idx2(p))][Idx3(p)] = op[t].data]
      /\ nnodes' = nnodes
  BY <1>0, <1>2 DEF InsertStore
<1>4. TrieTree' /\ Grows /\ EntrySet(p, op[t].data)
  <2> DEFINE v == op[t].data
  <2>1. PICK w \in Data \cup {Null} : w = v
    BY <1>1
  <2>2. TrieTree' /\ Grows /\ EntrySet(p, w)
    BY <1>1, <1>2, <1>3, <2>1, StorePage
  <2> QED
    BY <2>1, <2>2 DEF EntrySet
<1>5. CASE p = op[t].last
  <2>0. op' = [op EXCEPT ![t] = [NoOp EXCEPT !.at = "returned", !.data = Null, !.ok = TRUE]]
    BY <1>0, <1>5 DEF InsertStore, Return, NoOp
  <2>1. Only(t) /\ op'[t].at = "returned" /\ op'[t].ok
    BY <1>1, <2>0 DEF Only, IsOp, NoOp
  <2>2. OpPath(t)'
    BY <2>1 DEF OpPath
  <2>3. TrieInv'
    BY <1>4, <2>1, <2>2, PathsStay DEF Only
  <2> QED
    BY <1>0, <1>1, <1>4, <1>5, <2>1, <2>3 DEF Does, StoresPage
<1>6. CASE p # op[t].last
  <2>0. op' = [op EXCEPT ![t].at = "level1", ![t].page = op[t].page + 1]
    BY <1>0, <1>6 DEF InsertStore
  <2>1. /\ Only(t) /\ op'[t].at = "level1" /\ op'[t].page = op[t].page + 1 /\ SameTask(t)
    BY <1>1, <2>0 DEF Only, SameTask, IsOp, NoOp
  <2>2. OpPath(t)'
    BY <2>1 DEF OpPath
  <2>3. TrieInv'
    BY <1>4, <2>1, <2>2, PathsStay DEF Only
  <2> QED
    BY <1>0, <1>1, <1>4, <1>6, <2>1, <2>3 DEF Does, StoresPage, Inserts
<1> QED
  BY <1>5, <1>6

(* A rollback clears a page, or is done. *)
LEMMA RollbackDoes ==
    ASSUME TrieInv, NEW t \in Threads, TaskOK(t), Rollback(t)
    PROVE  TrieInv' /\ Only(t) /\ Does(t)
<1>1. /\ op[t].at = "rollback" /\ op[t].page \in Int /\ op[t].last \in Int
      /\ IsOp(op[t]) /\ op = [u \in Threads |-> op[u]] /\ TrieTree
  BY DEF Rollback, TaskOK, TrieInv, OpsTyped
<1>2. CASE op[t].page > op[t].last
  <2>0. /\ op' = [op EXCEPT ![t] = [NoOp EXCEPT !.at = "returned", !.data = Null, !.ok = FALSE]]
        /\ UNCHANGED <<node, nnodes>>
    BY <1>2 DEF Rollback, Return, NoOp
  <2>1. Only(t) /\ op'[t].at = "returned" /\ ~op'[t].ok /\ UNCHANGED <<node, nnodes>>
    BY <1>1, <2>0 DEF Only, IsOp, NoOp
  <2>2. TrieTree' /\ Grows /\ EntriesStay
    BY <1>1, <2>1, TreeStays
  <2>3. OpPath(t)'
    BY <2>1 DEF OpPath
  <2>4. TrieInv'
    BY <2>1, <2>2, <2>3, PathsStay DEF Only
  <2> QED
    BY <1>1, <1>2, <2>1, <2>2, <2>4 DEF Does, TakesBack
<1>3. CASE ~(op[t].page > op[t].last)
  <2>0. PICK p \in Pages : p = op[t].page
    BY <1>1, <1>3 DEF TaskOK
  <2>1. /\ Only(t) /\ op'[t].at = "rollback" /\ op'[t].page = op[t].page + 1 /\ SameTask(t)
    BY <1>1, <1>3 DEF Rollback, Only, SameTask, IsOp, NoOp
  <2>2. Entry(p) # Null
    BY <1>1, <1>3, <2>0 DEF TaskOK
  <2>3. LeafAt(Idx1(p), Idx2(p)) # Null /\ LeafOf(p) = LeafAt(Idx1(p), Idx2(p))
    BY <2>2 DEF Entry, Slot, LeafAt, Kid, LeafOf
  <2>4. /\ node' = [node EXCEPT ![LeafAt(Idx1(p), Idx2(p))][Idx3(p)] = Null]
        /\ nnodes' = nnodes
    BY <1>3, <2>0, <2>3 DEF Rollback
  <2>5. TrieTree' /\ Grows /\ EntrySet(p, Null)
    <3>1. PICK w \in Data \cup {Null} : w = Null
      OBVIOUS
    <3>2. TrieTree' /\ Grows /\ EntrySet(p, w)
      BY <1>1, <2>3, <2>4, <3>1, StorePage
    <3> QED
      BY <3>1, <3>2
  <2>6. OpPath(t)'
    BY <2>1 DEF OpPath
  <2>7. TrieInv'
    BY <2>1, <2>5, <2>6, PathsStay DEF Only
  <2>8. op[t].page <= op[t].last
    BY <1>1, <1>3
  <2> QED
    BY <1>1, <2>0, <2>1, <2>5, <2>7, <2>8 DEF Does, TakesBack
<1> QED
  BY <1>2, <1>3

(* A lookup goes one level down, or returns what its page maps to now. *)
LEMMA LoadDoes ==
    ASSUME TrieInv, NEW t \in Threads, TaskOK(t), Load1(t) \/ Load2(t) \/ Load3(t)
    PROVE  TrieInv' /\ Only(t) /\ Does(t)
<1>0. op[t].at \in Loads
  BY DEF Load1, Load2, Load3, Loads
<1>1. PICK p \in Pages : p = op[t].page
  BY <1>0 DEF TaskOK
<1> DEFINE i == Idx1(p)
           j == Idx2(p)
<1>2. /\ IsOp(op[t]) /\ op = [u \in Threads |-> op[u]] /\ TrieTree
      /\ i \in Slots /\ j \in Slots
  BY PageIdx DEF TrieInv, OpsTyped
<1>3. UNCHANGED <<node, nnodes>>
  BY DEF Load1, Load2, Load3, Load
<1>4. TrieTree' /\ Grows /\ EntriesStay
  BY <1>2, <1>3, TreeStays
<1>5. ASSUME NEW v, op' = [op EXCEPT ![t] = [NoOp EXCEPT !.at = "returned", !.data = v, !.ok = TRUE]],
             v = Entry(p)
      PROVE  TrieInv' /\ Only(t) /\ Does(t)
  <2>1. Only(t) /\ op'[t].at = "returned" /\ op'[t].ok /\ op'[t].data = v
    BY <1>2, <1>5 DEF Only, IsOp, NoOp
  <2>2. OpPath(t)'
    BY <2>1 DEF OpPath
  <2>3. TrieInv'
    BY <1>4, <2>1, <2>2, PathsStay DEF Only
  <2> QED
    BY <1>0, <1>1, <1>4, <1>5, <2>1, <2>3 DEF Does, LooksUp
<1>6. ASSUME NEW at \in {"load2", "load3"}, NEW n, op' = [op EXCEPT ![t].at = at, ![t].node = n],
             IF at = "load2" THEN Kid(i) # Null /\ n = Kid(i) ELSE LeafAt(i, j) # Null /\ n = LeafAt(i, j)
      PROVE  TrieInv' /\ Only(t) /\ Does(t)
  <2>1. /\ Only(t) /\ op'[t].at = at /\ op'[t].page = p /\ op'[t].node = n
        /\ op'[t].ok = op[t].ok
    BY <1>1, <1>2, <1>6 DEF Only, IsOp, NoOp
  <2>2. (Kid(i) # Null => Kid(i)' = Kid(i)) /\ (LeafAt(i, j) # Null => LeafAt(i, j)' = LeafAt(i, j))
    BY <1>2, <1>4 DEF Grows
  <2>3. OpPath(t)'
    BY <1>6, <2>1, <2>2 DEF OpPath, Pages, Idx1, Idx2
  <2>4. TrieInv'
    BY <1>4, <2>1, <2>3, PathsStay DEF Only
  <2>5. at \in Loads
    BY DEF Loads
  <2> QED
    BY <1>0, <1>1, <1>4, <2>1, <2>4, <2>5 DEF Does, LooksUp
<1>7. CASE Load1(t)
  <2>1. CASE Kid(i) = Null
    <3>1. Entry(p) = Null
      BY <2>1 DEF Entry, Slot, LeafAt
    <3>2. op' = [op EXCEPT ![t] = [NoOp EXCEPT !.at = "returned", !.data = Null, !.ok = TRUE]]
      BY <1>1, <1>7, <2>1 DEF Load1, Load, Return, Kid, NoOp
    <3> QED
      BY <1>5, <3>1, <3>2
  <2>2. CASE Kid(i) # Null
    <3>1. op' = [op EXCEPT ![t].at = "load2", ![t].node = Kid(i)]
      BY <1>1, <1>7, <2>2 DEF Load1, Load, GoTo, Kid
    <3> QED
      BY <1>6, <2>2, <3>1
  <2> QED
    BY <2>1, <2>2
<1>8. CASE Load2(t)
  <2>0. op[t].node = Kid(i) /\ Kid(i) # Null /\ LeafAt(i, j) = node[Kid(i)][j]
    BY <1>1, <1>8 DEF Load2, TrieInv, OpPath, LeafAt
  <2>1. CASE LeafAt(i, j) = Null
    <3>1. Entry(p) = Null
      BY <2>1 DEF Entry, Slot
    <3>2. op' = [op EXCEPT ![t] = [NoOp EXCEPT !.at = "returned", !.data = Null, !.ok = TRUE]]
      BY <1>1, <1>8, <2>0, <2>1 DEF Load2, Load, Return, NoOp
    <3> QED
      BY <1>5, <3>1, <3>2
  <2>2. CASE LeafAt(i, j) # Null
    <3>1. op' = [op EXCEPT ![t].at = "load3", ![t].node = LeafAt(i, j)]
      BY <1>1, <1>8, <2>0, <2>2 DEF Load2, Load, GoTo
    <3> QED
      BY <1>6, <2>2, <3>1
  <2> QED
    BY <2>1, <2>2
<1>9. CASE Load3(t)
  <2>1. LeafAt(i, j) # Null /\ op[t].node = LeafAt(i, j)
    BY <1>1, <1>9 DEF Load3, TrieInv, OpPath
  <2>2. Entry(p) = node[LeafAt(i, j)][Idx3(p)]
    BY <2>1 DEF Entry, Slot
  <2>3. op' = [op EXCEPT ![t] = [NoOp EXCEPT !.at = "returned", !.data = Entry(p), !.ok = TRUE]]
    BY <1>1, <1>9, <2>1, <2>2 DEF Load3, Return, NoOp
  <2> QED
    BY <1>5, <2>3
<1> QED
  BY <1>7, <1>8, <1>9

(* Each step of an operation is one of these. *)
LEMMA TrieDoes ==
    ASSUME TrieInv, NEW t \in Threads, TaskOK(t), TrieStep(t)
    PROVE  TrieInv' /\ Only(t) /\ Does(t)
  BY LockDoes, Level1Does, Level2Does, StoreDoes, RollbackDoes, LoadDoes DEF TrieStep
=============================================================================
