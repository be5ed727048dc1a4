---------------------------- MODULE DistinctSeqs ----------------------------
(***************************************************************************)
(* What the proofs need to know of sequences of distinct elements: columns *)
(* of blocks, registries of slabs, ledgers of caches.                      *)
(***************************************************************************)
EXTENDS Integers, SequencesExt, TLAPS

Distinct(q) == \A i, j \in 1 .. Len(q) : q[i] = q[j] => i = j

Without(q, s) == RemoveAt(q, CHOOSE i \in DOMAIN q : q[i] = s)

(* The elements of a sequence are those at its positions. *)
LEMMA ToSetSeq == ASSUME NEW S, NEW q \in Seq(S)
                  PROVE  ToSet(q) = {q[i] : i \in 1 .. Len(q)} /\ ToSet(q) \subseteq S
  BY DEF ToSet

(* One element more at the front *)
LEMMA ConsSeq ==
    ASSUME NEW S, NEW q \in Seq(S), Distinct(q), NEW s \in S, s \notin ToSet(q)
    PROVE  /\ <<s>> \o q \in Seq(S) /\ Distinct(<<s>> \o q)
           /\ ToSet(<<s>> \o q) = ToSet(q) \cup {s}
           /\ <<s>> \o q # <<>> /\ Head(<<s>> \o q) = s /\ Tail(<<s>> \o q) = q
           /\ Len(<<s>> \o q) = Len(q) + 1
           /\ (<<s>> \o q)[1] = s /\ \A i \in 1 .. Len(q) : (<<s>> \o q)[i + 1] = q[i]
<1> DEFINE r == <<s>> \o q
<1>1. /\ r \in Seq(S) /\ Len(r) = Len(q) + 1 /\ Len(q) \in Nat
      /\ r[1] = s /\ \A i \in 1 .. Len(q) : r[i + 1] = q[i]
  OBVIOUS
<1>2. Head(r) = s /\ Tail(r) = q /\ r # <<>>
  <2>1. Head(r) = s /\ r # <<>>
    BY <1>1
  <2>2. Tail(r) \in Seq(S) /\ Len(Tail(r)) = Len(q) /\ \A i \in 1 .. Len(q) : Tail(r)[i] = q[i]
    BY <1>1, <2>1
  <2> HIDE DEF r
  <2>3. Tail(r) = q
    BY <2>2
  <2> QED
    BY <2>1, <2>3
<1> HIDE DEF r
<1>3. \A i \in 1 .. Len(r) : i = 1 \/ (i - 1 \in 1 .. Len(q) /\ r[i] = q[i - 1])
  <2> SUFFICES ASSUME NEW i \in 1 .. Len(r), i # 1
               PROVE  i - 1 \in 1 .. Len(q) /\ r[i] = q[i - 1]
    OBVIOUS
  <2>1. i - 1 \in 1 .. Len(q) /\ (i - 1) + 1 = i
    BY <1>1
  <2> QED
    BY <1>1, <2>1
<1>4. \A i \in 1 .. Len(q) : q[i] # s
  BY ToSetSeq
<1>5. Distinct(r)
  <2> SUFFICES ASSUME NEW i \in 1 .. Len(r), NEW j \in 1 .. Len(r), r[i] = r[j] PROVE i = j
    BY DEF Distinct
  <2>1. CASE i = 1 \/ j = 1
    BY <1>1, <1>3, <1>4, <2>1
  <2>2. CASE i # 1 /\ j # 1
    <3>1. i - 1 \in 1 .. Len(q) /\ j - 1 \in 1 .. Len(q) /\ q[i - 1] = q[j - 1]
      BY <1>3, <2>2
    <3>2. i - 1 = j - 1
      BY <3>1 DEF Distinct
    <3> QED
      BY <3>2, <1>1
  <2> QED
    BY <2>1, <2>2
<1>6. ToSet(r) = ToSet(q) \cup {s}
  <2>1. ToSet(r) = {r[i] : i \in 1 .. Len(r)} /\ ToSet(q) = {q[i] : i \in 1 .. Len(q)}
    BY <1>1, ToSetSeq
  <2>2. ToSet(r) \subseteq ToSet(q) \cup {s}
    BY <1>1, <1>3, <2>1
  <2>3. 1 \in 1 .. Len(r) /\ \A i \in 1 .. Len(q) : i + 1 \in 1 .. Len(r)
    BY <1>1
  <2>4. ToSet(q) \cup {s} \subseteq ToSet(r)
    BY <1>1, <2>1, <2>3
  <2> QED
    BY <2>2, <2>4
<1> QED
  BY <1>1, <1>2, <1>5, <1>6 DEF r

(* One element more at the end *)
LEMMA AppendSeq ==
    ASSUME NEW S, NEW q \in Seq(S), Distinct(q), NEW s \in S, s \notin ToSet(q)
    PROVE  /\ Append(q, s) \in Seq(S) /\ Len(Append(q, s)) = Len(q) + 1
           /\ Distinct(Append(q, s))
           /\ ToSet(Append(q, s)) = ToSet(q) \cup {s}
<1> DEFINE r == Append(q, s)
<1>1. /\ r \in Seq(S) /\ Len(r) = Len(q) + 1 /\ Len(q) \in Nat
      /\ r[Len(q) + 1] = s /\ \A i \in 1 .. Len(q) : r[i] = q[i]
  OBVIOUS
<1> HIDE DEF r
<1>2. ToSet(r) = {r[i] : i \in 1 .. Len(q) + 1} /\ ToSet(q) = {q[i] : i \in 1 .. Len(q)}
  BY <1>1, ToSetSeq
<1>3. 1 .. Len(q) + 1 = (1 .. Len(q)) \cup {Len(q) + 1}
  BY <1>1
<1>4. Distinct(r)
  BY <1>1, <1>2, <1>3 DEF Distinct
<1>5. ToSet(r) = ToSet(q) \cup {s}
  BY <1>1, <1>2, <1>3
<1> QED
  BY <1>1, <1>4, <1>5 DEF r

(* The sequence without its head *)
LEMMA TailSeq ==
    ASSUME NEW S, NEW q \in Seq(S), Distinct(q), q # <<>>
    PROVE  /\ Head(q) \in ToSet(q) /\ Tail(q) \in Seq(S) /\ Distinct(Tail(q))
           /\ ToSet(Tail(q)) = ToSet(q) \ {Head(q)}
<1> DEFINE r == Tail(q)
<1>1. /\ r \in Seq(S) /\ Len(q) \in Nat \ {0} /\ Len(r) = Len(q) - 1
      /\ \A i \in 1 .. Len(q) - 1 : r[i] = q[i + 1]
      /\ Head(q) = q[1]
  OBVIOUS
<1> HIDE DEF r
<1>2. ToSet(r) = {r[i] : i \in 1 .. Len(q) - 1} /\ ToSet(q) = {q[i] : i \in 1 .. Len(q)}
  BY <1>1, ToSetSeq
<1>3. Distinct(r)
  <2> SUFFICES ASSUME NEW i \in 1 .. Len(q) - 1, NEW j \in 1 .. Len(q) - 1, r[i] = r[j]
               PROVE  i = j
    BY <1>1 DEF Distinct
  <2>1. i + 1 \in 1 .. Len(q) /\ j + 1 \in 1 .. Len(q) /\ q[i + 1] = q[j + 1]
    BY <1>1
  <2>2. i + 1 = j + 1
    BY <2>1 DEF Distinct
  <2> QED
    BY <2>2
<1>4. Head(q) \in ToSet(q)
  BY <1>1, <1>2
<1>5. \A i \in 1 .. Len(q) - 1 : r[i] \in ToSet(q) \ {Head(q)}
  <2> SUFFICES ASSUME NEW i \in 1 .. Len(q) - 1 PROVE r[i] \in ToSet(q) \ {Head(q)}
    OBVIOUS
  <2>1. i + 1 \in 1 .. Len(q) /\ 1 \in 1 .. Len(q) /\ i + 1 # 1 /\ r[i] = q[i + 1]
    BY <1>1
  <2>2. q[i + 1] # q[1]
    BY <2>1 DEF Distinct
  <2> QED
    BY <1>1, <1>2, <2>1, <2>2
<1>6. \A i \in 1 .. Len(q) : i # 1 => q[i] \in ToSet(r)
  <2> SUFFICES ASSUME NEW i \in 1 .. Len(q), i # 1 PROVE q[i] \in ToSet(r)
    OBVIOUS
  <2>1. i - 1 \in 1 .. Len(q) - 1 /\ (i - 1) + 1 = i
    BY <1>1
  <2> QED
    BY <1>1, <1>2, <2>1
<1>7. ToSet(r) = ToSet(q) \ {Head(q)}
  <2>1. ToSet(r) \subseteq ToSet(q) \ {Head(q)}
    BY <1>2, <1>5
  <2>2. ToSet(q) \ {Head(q)} \subseteq ToSet(r)
    BY <1>1, <1>2, <1>6
  <2> QED
    BY <2>1, <2>2
<1> QED
  BY <1>1, <1>3, <1>4, <1>7 DEF r

(* Where the elements of a sequence are once one of them has left *)
LEMMA WithoutAt ==
    ASSUME NEW S, NEW q \in Seq(S), NEW s \in ToSet(q)
    PROVE  /\ Without(q, s) \in Seq(S)
           /\ \E k \in 1 .. Len(q) :
                 /\ q[k] = s /\ Len(Without(q, s)) = Len(q) - 1
                 /\ \A i \in 1 .. Len(q) - 1 :
                       Without(q, s)[i] = IF i < k THEN q[i] ELSE q[i + 1]
<1> DEFINE k == CHOOSE i \in DOMAIN q : q[i] = s
           r == RemoveAt(q, k)
<1>1. k \in 1 .. Len(q) /\ q[k] = s /\ Len(q) \in Nat
  BY DEF ToSet
<1> HIDE DEF k
<1>2. /\ r \in Seq(S) /\ Len(r) = Len(q) - 1
      /\ \A i \in 1 .. Len(q) - 1 : r[i] = IF i < k THEN q[i] ELSE q[i + 1]
  <2> DEFINE lo == SubSeq(q, 1, k - 1)
             hi == SubSeq(q, k + 1, Len(q))
  <2>1. lo \in Seq(S) /\ Len(lo) = k - 1 /\ \A i \in 1 .. k - 1 : lo[i] = q[i]
    BY <1>1
  <2>2. hi \in Seq(S) /\ Len(hi) = Len(q) - k /\ \A i \in 1 .. Len(q) - k : hi[i] = q[k + i]
    BY <1>1
  <2>3. r = lo \o hi
    BY DEF RemoveAt
  <2> HIDE DEF lo, hi, r
  <2>4. /\ r \in Seq(S) /\ Len(r) = Len(q) - 1
        /\ \A i \in 1 .. k - 1 : r[i] = lo[i]
        /\ \A i \in 1 .. Len(q) - k : r[k - 1 + i] = hi[i]
    <3>1. /\ r \in Seq(S) /\ Len(r) = Len(lo) + Len(hi)
          /\ \A i \in 1 .. Len(lo) : r[i] = lo[i]
          /\ \A i \in 1 .. Len(hi) : r[Len(lo) + i] = hi[i]
      <4>1. lo \in Seq(S) /\ hi \in Seq(S)
        BY <2>1, <2>2
      <4>2. lo \o hi \in Seq(S) /\ Len(lo \o hi) = Len(lo) + Len(hi)
        BY <4>1
      <4>3. \A i \in 1 .. Len(lo) : (lo \o hi)[i] = lo[i]
        BY <4>1
      <4>4. \A i \in 1 .. Len(hi) : (lo \o hi)[Len(lo) + i] = hi[i]
        BY <4>1
      <4> QED
        BY <2>3, <4>2, <4>3, <4>4
    <3> QED
      BY <1>1, <2>1, <2>2, <3>1
  <2>5. ASSUME NEW i \in 1 .. Len(q) - 1
        PROVE  r[i] = IF i < k THEN q[i] ELSE q[i + 1]
    <3>1. CASE i < k
      BY <1>1, <2>1, <2>4, <3>1
    <3>2. CASE ~(i < k)
      <4>1. PICK j \in 1 .. Len(q) - k : k - 1 + j = i /\ k + j = i + 1
        <5>1. /\ i - k + 1 \in 1 .. Len(q) - k /\ k - 1 + (i - k + 1) = i
              /\ k + (i - k + 1) = i + 1
          BY <1>1, <3>2
        <5> QED
          BY <5>1
      <4> QED
        BY <2>2, <2>4, <3>2, <4>1
    <3> QED
      BY <3>1, <3>2
  <2> QED
    BY <2>4, <2>5
<1>3. Without(q, s) = r
  BY DEF Without, k
<1> HIDE DEF r
<1> QED
  BY <1>1, <1>2, <1>3

(* The sequence without one of its elements *)
LEMMA WithoutSeq ==
    ASSUME NEW S, NEW q \in Seq(S), Distinct(q), NEW s \in ToSet(q)
    PROVE  /\ Without(q, s) \in Seq(S) /\ Distinct(Without(q, s))
           /\ ToSet(Without(q, s)) = ToSet(q) \ {s}
<1> DEFINE r == Without(q, s)
<1>1. PICK k \in 1 .. Len(q) :
         /\ q[k] = s /\ Len(r) = Len(q) - 1
         /\ \A i \in 1 .. Len(q) - 1 : r[i] = IF i < k THEN q[i] ELSE q[i + 1]
  BY WithoutAt
<1>2. r \in Seq(S) /\ Len(q) \in Nat
  BY WithoutAt
<1> HIDE DEF r
<1> DEFINE at(i) == IF i < k THEN i ELSE i + 1
<1>3. \A i \in 1 .. Len(q) - 1 : at(i) \in 1 .. Len(q) /\ at(i) # k /\ r[i] = q[at(i)]
  BY <1>1, <1>2
<1>4. Distinct(r)
  <2> SUFFICES ASSUME NEW i \in 1 .. Len(q) - 1, NEW j \in 1 .. Len(q) - 1, r[i] = r[j]
               PROVE  i = j
    BY <1>1 DEF Distinct
  <2>1. at(i) = at(j)
    <3> HIDE DEF at
    <3> QED
      BY <1>3 DEF Distinct
  <2> QED
    BY <1>1, <2>1
<1>5. ToSet(r) = {r[i] : i \in 1 .. Len(q) - 1} /\ ToSet(q) = {q[i] : i \in 1 .. Len(q)}
  BY <1>1, <1>2, ToSetSeq
<1>6. ToSet(r) \subseteq ToSet(q) \ {s}
  <2> SUFFICES ASSUME NEW i \in 1 .. Len(q) - 1 PROVE r[i] \in ToSet(q) \ {s}
    BY <1>5
  <2> HIDE DEF at
  <2>1. q[at(i)] # q[k]
    BY <1>1, <1>3 DEF Distinct
  <2> QED
    BY <1>1, <1>3, <1>5, <2>1
<1>7. ToSet(q) \ {s} \subseteq ToSet(r)
  <2> SUFFICES ASSUME NEW j \in 1 .. Len(q), q[j] # s PROVE q[j] \in ToSet(r)
    BY <1>5
  <2> DEFINE i == IF j < k THEN j ELSE j - 1
  <2>1. i \in 1 .. Len(q) - 1 /\ at(i) = j
    BY <1>1
  <2> HIDE DEF at, i
  <2> QED
    BY <1>3, <1>5, <2>1
<1> QED
  BY <1>2, <1>4, <1>6, <1>7 DEF r

(* A sequence cut in two: each element is on one side of the cut. *)
LEMMA CutSeq ==
    ASSUME NEW S, NEW s \in Seq(S), Distinct(s), NEW k \in 0 .. Len(s)
    PROVE  /\ SubSeq(s, 1, k) \in Seq(S) /\ Len(SubSeq(s, 1, k)) = k
           /\ \A i \in 1 .. k : SubSeq(s, 1, k)[i] = s[i]
           /\ Distinct(SubSeq(s, 1, k))
           /\ ToSet(SubSeq(s, 1, k)) \cup ToSet(SubSeq(s, k + 1, Len(s))) = ToSet(s)
           /\ ToSet(SubSeq(s, 1, k)) \cap ToSet(SubSeq(s, k + 1, Len(s))) = {}
<1> DEFINE lo == SubSeq(s, 1, k)
           up == SubSeq(s, k + 1, Len(s))
<1>1. Len(s) \in Nat /\ k \in Nat /\ k <= Len(s)
  OBVIOUS
<1>2. lo \in Seq(S) /\ Len(lo) = k /\ \A i \in 1 .. k : lo[i] = s[i]
  BY <1>1
<1>3. up \in Seq(S) /\ Len(up) = Len(s) - k /\ \A i \in 1 .. Len(s) - k : up[i] = s[k + i]
  BY <1>1
<1>4. ToSet(lo) = {s[i] : i \in 1 .. k}
  <2>1. ToSet(lo) = {lo[i] : i \in 1 .. k}
    <3> HIDE DEF lo
    <3> QED
      BY <1>2, ToSetSeq
  <2> HIDE DEF lo
  <2> QED
    BY <2>1, <1>2
<1>5. ToSet(up) = {s[i] : i \in k + 1 .. Len(s)}
  <2>1. ToSet(up) = {up[i] : i \in 1 .. Len(s) - k}
    <3> HIDE DEF up
    <3> QED
      BY <1>3, ToSetSeq
  <2>2. \A i \in 1 .. Len(s) - k : k + i \in k + 1 .. Len(s) /\ up[i] = s[k + i]
    BY <1>1, <1>3
  <2>3. \A j \in k + 1 .. Len(s) : j - k \in 1 .. Len(s) - k /\ s[j] = up[j - k]
    BY <1>1, <1>3
  <2> HIDE DEF up
  <2> QED
    BY <2>1, <2>2, <2>3
<1>6. ToSet(s) = {s[i] : i \in 1 .. Len(s)}
  BY ToSetSeq
<1>7. Distinct(lo)
  BY <1>1, <1>2 DEF Distinct
<1>8. ToSet(lo) \cup ToSet(up) = ToSet(s)
  <2>1. 1 .. Len(s) = (1 .. k) \cup (k + 1 .. Len(s))
    BY <1>1
  <2> HIDE DEF lo, up
  <2> QED
    BY <2>1, <1>4, <1>5, <1>6
<1>9. ToSet(lo) \cap ToSet(up) = {}
  <2>1. \A i \in 1 .. k, j \in k + 1 .. Len(s) : s[i] # s[j]
    BY <1>1 DEF Distinct
  <2> HIDE DEF lo, up
  <2> QED
    BY <2>1, <1>4, <1>5
<1> QED
  BY <1>2, <1>7, <1>8, <1>9

(* The sequence without its last element *)
LEMMA FrontSeq ==
    ASSUME NEW S, NEW s \in Seq(S), Distinct(s), s # <<>>
    PROVE  /\ Len(s) \in Nat \ {0}
           /\ Front(s) \in Seq(S) /\ Len(Front(s)) = Len(s) - 1
           /\ \A i \in 1 .. Len(s) - 1 : Front(s)[i] = s[i]
           /\ Distinct(Front(s))
           /\ Last(s) \in ToSet(s)
           /\ ToSet(Front(s)) = ToSet(s) \ {Last(s)}
<1>1. Len(s) \in Nat /\ Len(s) # 0 /\ Len(s) - 1 \in 0 .. Len(s)
  OBVIOUS
<1>2. ToSet(SubSeq(s, Len(s) - 1 + 1, Len(s))) = {s[Len(s)]}
  <2> DEFINE up == SubSeq(s, Len(s) - 1 + 1, Len(s))
  <2>1. up \in Seq(S) /\ Len(up) = 1 /\ up[1] = s[Len(s)]
    BY <1>1
  <2> HIDE DEF up
  <2>2. ToSet(up) = {up[i] : i \in 1 .. 1}
    BY <2>1, ToSetSeq
  <2> QED
    BY <2>1, <2>2 DEF up
<1>3. Last(s) \in ToSet(s)
  BY <1>1, ToSetSeq DEF Last
<1>4. /\ ToSet(Front(s)) \cup {Last(s)} = ToSet(s)
      /\ ToSet(Front(s)) \cap {Last(s)} = {}
  BY <1>1, <1>2, CutSeq DEF Front, Last
<1>5. /\ Front(s) \in Seq(S) /\ Len(Front(s)) = Len(s) - 1
      /\ \A i \in 1 .. Len(s) - 1 : Front(s)[i] = s[i]
  <2>1. PICK n \in 0 .. Len(s) : n = Len(s) - 1
    BY <1>1
  <2>2. SubSeq(s, 1, n) \in Seq(S)
    BY <2>1
  <2>3. Len(SubSeq(s, 1, n)) = n
    BY <2>1
  <2>4. \A i \in 1 .. n : SubSeq(s, 1, n)[i] = s[i]
    BY <2>1
  <2> QED
    BY <2>1, <2>2, <2>3, <2>4 DEF Front
<1>6. Distinct(Front(s))
  BY <1>1, <1>5 DEF Distinct
<1> QED
  BY <1>1, <1>3, <1>4, <1>5, <1>6
=============================================================================
