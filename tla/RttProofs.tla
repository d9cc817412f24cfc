------------------------------- MODULE RttProofs -------------------------------
(***************************************************************************)
(* Theorems about what executes on RT-Thread: its scheduler, its thread    *)
(* timers and the nested external interrupts, for any number of threads,   *)
(* objects and priorities, any tick width, and any applications that leave *)
(* the management of threads to what the threads do themselves.            *)
(***************************************************************************)
EXTENDS RttMessages, RttPlic, FiniteSetTheorems, SequenceTheorems, WellFoundedInduction, TLAPS

-----------------------------------------------------------------------------
\* Lists.

\* Every set of numbers that is not empty has a least one.
LEMMA LeastNumber ==
  ASSUME NEW S \in SUBSET Nat, S # {}
  PROVE  \E n \in S : \A i \in S : n <= i
  <1>1. PICK n \in S : \A i \in S : ~ (<<i, n>> \in OpToRel(<, Nat))
    BY NatLessThanWellFounded, WFMin
  <1>2. \A i \in S : ~ (i < n)
    BY <1>1 DEF OpToRel
  <1>. QED
    BY <1>2

\* Nothing is in the list twice; what is in s is in w, in the same order.
NoneTwice(s) == \A i, j \in 1 .. Len(s) : s[i] = s[j] => i = j
Sublist(s, w) ==
  \A i, j \in 1 .. Len(s) : i < j =>
    \E a, b \in 1 .. Len(w) : a < b /\ s[i] = w[a] /\ s[j] = w[b]

LEMMA ListDomain ==
  ASSUME NEW S, NEW w \in Seq(S)
  PROVE  /\ DOMAIN w = 1 .. Len(w) /\ Len(w) \in Nat
         /\ Elems(w) = {w[i] : i \in 1 .. Len(w)} /\ Elems(w) \subseteq S
         /\ \A i \in 1 .. Len(w) : w[i] \in S /\ w[i] \in Elems(w)
         /\ w = <<>> <=> Len(w) = 0
         /\ w = <<>> <=> Elems(w) = {}
  <1>1. DOMAIN w = 1 .. Len(w) /\ Len(w) \in Nat /\ (w = <<>> <=> Len(w) = 0)
    BY LenProperties, EmptySeq
  <1>2. \A i \in 1 .. Len(w) : w[i] \in S
    BY <1>1, ElementOfSeq
  <1>3. Elems(w) = {} <=> Len(w) = 0
    <2>1. Len(w) = 0 => 1 .. Len(w) = {}
      BY <1>1
    <2>2. Len(w) # 0 => 1 \in 1 .. Len(w)
      BY <1>1
    <2>. QED
      BY <1>1, <2>1, <2>2 DEF Elems
  <1>. QED
    BY <1>1, <1>2, <1>3 DEF Elems

LEMMA SublistOnce ==
  ASSUME NEW S, NEW w \in Seq(S), NEW s \in Seq(S), Sublist(s, w), NoneTwice(w)
  PROVE  NoneTwice(s)
  <1>. SUFFICES ASSUME NEW i \in 1 .. Len(s), NEW j \in 1 .. Len(s), s[i] = s[j], i < j
                PROVE  FALSE
    <2>1. Len(s) \in Nat
      BY ListDomain
    <2>. QED
      BY <2>1 DEF NoneTwice
  <1>1. PICK a \in 1 .. Len(w), b \in 1 .. Len(w) : a < b /\ s[i] = w[a] /\ s[j] = w[b]
    BY DEF Sublist
  <1>2. Len(w) \in Nat
    BY ListDomain
  <1>3. a \in Int /\ b \in Int /\ w[a] = w[b]
    <2>1. a \in Int /\ b \in Int
      BY <1>2
    <2>2. w[a] = w[b]
      BY <1>1, Zenon
    <2>. QED
      BY <2>1, <2>2
  <1>4. a = b
    BY <1>3 DEF NoneTwice
  <1>. QED
    BY <1>1, <1>3, <1>4

\* The places picked are gone through in order.
LEMMA RankFacts ==
  ASSUME NEW I, IsFiniteSet(I), I \subseteq Nat,
         NEW rank, rank = [i \in Nat |-> Cardinality({j \in I : j < i})]
  PROVE  /\ \A i \in Nat : rank[i] \in Nat /\ rank[i] <= Cardinality(I)
         /\ rank[0] = 0
         /\ \A i \in I : rank[i + 1] = rank[i] + 1 /\ rank[i] < Cardinality(I)
         /\ \A i \in Nat \ I : rank[i + 1] = rank[i]
         /\ \A i, k \in Nat : i <= k => rank[i] <= rank[k]
  <1>. DEFINE Below(i) == {j \in I : j < i}
  <1>0. \A j \in I : j \in Nat
    OBVIOUS
  <1>1. ASSUME NEW i \in Nat
        PROVE  IsFiniteSet(Below(i)) /\ rank[i] = Cardinality(Below(i)) /\ rank[i] \in Nat
               /\ rank[i] <= Cardinality(I)
    <2>1. Below(i) \subseteq I
      OBVIOUS
    <2>. HIDE DEF Below
    <2>2. IsFiniteSet(Below(i)) /\ Cardinality(Below(i)) <= Cardinality(I)
      BY <2>1, FS_Subset
    <2>3. Cardinality(Below(i)) \in Nat
      BY <2>2, FS_CardinalityType
    <2>4. rank[i] = Cardinality(Below(i))
      BY DEF Below
    <2>. QED
      BY <2>2, <2>3, <2>4
  <1>2. rank[0] = 0
    <2>1. \A j \in I : ~(j < 0)
      BY <1>0
    <2>2. Below(0) = {}
      BY <2>1
    <2>. HIDE DEF Below
    <2>3. rank[0] = Cardinality({})
      BY <1>1, <2>2
    <2>. QED
      BY <2>3, FS_EmptySet
  <1>3. ASSUME NEW i \in I PROVE rank[i + 1] = rank[i] + 1 /\ rank[i] < Cardinality(I)
    <2>1. /\ i \in Nat /\ i + 1 \in Nat /\ Below(i + 1) = Below(i) \cup {i}
          /\ i \notin Below(i)
      <3>1. i \in Nat /\ i + 1 \in Nat /\ ~(i < i) /\ i < i + 1
        BY <1>0
      <3>2. \A j \in I : j < i + 1 <=> j < i \/ j = i
        BY <1>0
      <3>. QED
        BY <3>1, <3>2
    <2>. HIDE DEF Below
    <2>2. Cardinality(Below(i + 1)) = Cardinality(Below(i)) + 1
      BY <1>1, <2>1, FS_AddElement
    <2>3. rank[i + 1] <= Cardinality(I) /\ rank[i + 1] = rank[i] + 1
      BY <1>1, <2>1, <2>2
    <2>4. rank[i] \in Nat /\ Cardinality(I) \in Nat
      BY <1>1, <2>1, FS_CardinalityType
    <2>. QED
      BY <2>3, <2>4
  <1>4. ASSUME NEW i \in Nat \ I PROVE rank[i + 1] = rank[i]
    <2>1. i + 1 \in Nat /\ \A j \in I : j < i + 1 <=> j < i
      BY <1>0
    <2>2. Below(i + 1) = Below(i)
      BY <2>1
    <2>. HIDE DEF Below
    <2>. QED
      BY <1>1, <2>1, <2>2
  <1>5. ASSUME NEW i \in Nat, NEW k \in Nat, i <= k PROVE rank[i] <= rank[k]
    <2>0. \A j \in I : j < i => j < k
      BY <1>0, <1>5
    <2>1. Below(i) \subseteq Below(k)
      BY <2>0
    <2>2. IsFiniteSet(Below(k)) /\ rank[i] = Cardinality(Below(i))
          /\ rank[k] = Cardinality(Below(k))
      BY <1>1
    <2>. HIDE DEF Below
    <2>. QED
      BY <2>1, <2>2, FS_Subset
  <1>. QED
    BY <1>1, <1>2, <1>3, <1>4, <1>5

LEMMA PickedFacts ==
  ASSUME NEW S, NEW w \in Seq(S), NEW I \in SUBSET (1 .. Len(w))
  PROVE  /\ Picked(w, I) \in Seq(S)
         /\ Elems(Picked(w, I)) = {w[i] : i \in I}
         /\ Sublist(Picked(w, I), w)
  <1>. DEFINE n == Cardinality(I)
              rank == [i \in Nat |-> Cardinality({j \in I : j < i})]
              s == Picked(w, I)
              at(k) == CHOOSE i \in I : Cardinality({j \in I : j < i}) = k - 1
  <1>0. /\ IsFiniteSet(I) /\ I \subseteq Nat /\ n \in Nat /\ Len(w) \in Nat
        /\ \A i \in 1 .. Len(w) : w[i] \in S
    <2>1. Len(w) \in Nat /\ \A i \in 1 .. Len(w) : w[i] \in S
      BY ListDomain
    <2>2. IsFiniteSet(1 .. Len(w)) /\ I \subseteq 1 .. Len(w)
      BY <2>1, FS_Interval
    <2>3. IsFiniteSet(I)
      BY <2>2, FS_Subset
    <2>. QED
      BY <2>1, <2>3, FS_CardinalityType
  <1>1. /\ \A i \in Nat : rank[i] \in Nat /\ rank[i] <= n
        /\ rank[0] = 0
        /\ \A i \in I : rank[i + 1] = rank[i] + 1 /\ rank[i] < n
        /\ \A i \in Nat \ I : rank[i + 1] = rank[i]
        /\ \A i, k \in Nat : i <= k => rank[i] <= rank[k]
    BY <1>0, RankFacts
  <1>2. \A i \in I : rank[i] = Cardinality({j \in I : j < i})
    BY <1>0
  <1>. HIDE DEF rank
  <1>3. ASSUME NEW k \in 1 .. n PROVE \E i \in I : rank[i] = k - 1
    <2>. DEFINE T == {i \in Nat : rank[i] >= k}
    <2>1. Len(w) + 1 \in T
      <3>1. rank[Len(w) + 1] = n
        <4>. HIDE DEF rank
        <4>1. \A j \in I : j \in 1 .. Len(w) /\ j < Len(w) + 1
          BY <1>0
        <4>2. {j \in I : j < Len(w) + 1} = I
          BY <4>1
        <4>. QED
          BY <1>0, <4>2 DEF rank
      <3>. QED
        BY <1>0, <3>1
    <2>2. PICK i \in T : \A j \in T : i <= j
      <3>. HIDE DEF T
      <3>1. T \subseteq Nat
        BY DEF T
      <3>. QED
        BY <2>1, <3>1, LeastNumber
    <2>3. i \in Nat /\ rank[i] >= k /\ i # 0 /\ i - 1 \in Nat /\ rank[i - 1] < k
      <3>1. i \in Nat /\ rank[i] >= k /\ k \in Nat /\ k >= 1
        BY <1>0
      <3>2. i # 0
        BY <1>1, <3>1
      <3>3. i - 1 \in Nat /\ i - 1 \notin T
        BY <2>2, <3>1, <3>2
      <3>4. rank[i - 1] \in Nat
        BY <1>1, <3>3
      <3>. QED
        BY <3>1, <3>2, <3>3, <3>4
    <2>4. (i - 1) + 1 = i
      BY <2>3
    <2>5. i - 1 \in I
      BY <1>1, <2>3, <2>4
    <2>6. rank[i - 1] \in Nat /\ rank[i] = rank[i - 1] + 1 /\ k \in Nat
      BY <1>0, <1>1, <2>3, <2>4, <2>5
    <2>. QED
      BY <2>3, <2>5, <2>6
  <1>4. \A k \in 1 .. n : at(k) \in I /\ rank[at(k)] = k - 1
    <2>. SUFFICES ASSUME NEW k \in 1 .. n PROVE at(k) \in I /\ rank[at(k)] = k - 1
      OBVIOUS
    <2>1. \E i \in I : Cardinality({j \in I : j < i}) = k - 1
      BY <1>2, <1>3
    <2>2. at(k) \in I /\ Cardinality({j \in I : j < at(k)}) = k - 1
      BY <2>1
    <2>. QED
      BY <1>2, <2>2
  <1>5. s = [k \in 1 .. n |-> w[at(k)]]
    BY DEF Picked
  <1>. HIDE DEF at
  <1>6. s \in Seq(S) /\ Len(s) = n /\ \A k \in 1 .. n : s[k] = w[at(k)]
    <2>1. \A k \in 1 .. n : w[at(k)] \in S
      BY <1>0, <1>4
    <2>2. s \in [1 .. n -> S]
      BY <1>5, <2>1
    <2>. HIDE DEF s, n
    <2>3. s \in Seq(S) /\ DOMAIN s = 1 .. n
      BY <1>0, <2>2, IsASeq
    <2>4. Len(s) = n
      BY <1>0, <2>3, LenProperties
    <2>. QED
      BY <1>5, <2>3, <2>4
  <1>. HIDE DEF s
  <1>7. \A i \in I : rank[i] + 1 \in 1 .. n /\ at(rank[i] + 1) = i
    <2>. SUFFICES ASSUME NEW i \in I PROVE rank[i] + 1 \in 1 .. n /\ at(rank[i] + 1) = i
      OBVIOUS
    <2>1. i \in Nat /\ rank[i] \in Nat /\ rank[i] < n /\ rank[i] + 1 \in 1 .. n
      BY <1>0, <1>1
    <2>. DEFINE k == rank[i] + 1
    <2>a. at(k) \in I /\ rank[at(k)] = k - 1
      BY <1>4, <2>1
    <2>b. (rank[i] + 1) - 1 = rank[i]
      BY <2>1
    <2>2. PICK j \in I : j = at(rank[i] + 1) /\ rank[j] = rank[i]
      BY <2>a, <2>b
    <2>3. j \in Nat /\ rank[j + 1] = rank[j] + 1 /\ rank[i + 1] = rank[i] + 1 /\ rank[j] \in Nat
      BY <1>0, <1>1
    <2>4. ~(j < i)
      <3>1. j + 1 <= i => rank[j + 1] <= rank[i]
        BY <1>1, <2>1, <2>3
      <3>. QED
        BY <2>1, <2>2, <2>3, <3>1
    <2>5. ~(i < j)
      <3>1. i + 1 <= j => rank[i + 1] <= rank[j]
        BY <1>1, <2>1, <2>3
      <3>. QED
        BY <2>1, <2>2, <2>3, <3>1
    <2>. QED
      BY <2>1, <2>2, <2>3, <2>4, <2>5
  <1>8. Elems(s) = {w[i] : i \in I}
    <2>1. Elems(s) = {s[k] : k \in 1 .. n}
      BY <1>6, ListDomain
    <2>2. \A k \in 1 .. n : s[k] \in {w[i] : i \in I}
      BY <1>4, <1>6
    <2>3. \A i \in I : w[i] \in {s[k] : k \in 1 .. n}
      BY <1>6, <1>7
    <2>. QED
      BY <2>1, <2>2, <2>3
  <1>9. Sublist(s, w)
    <2>. SUFFICES ASSUME NEW i \in 1 .. n, NEW j \in 1 .. n, i < j
                  PROVE  \E a, b \in 1 .. Len(w) : a < b /\ s[i] = w[a] /\ s[j] = w[b]
      BY <1>6 DEF Sublist
    <2>1. /\ at(i) \in I /\ at(j) \in I /\ rank[at(i)] = i - 1 /\ rank[at(j)] = j - 1
          /\ at(i) \in Nat /\ at(j) \in Nat
      BY <1>0, <1>4
    <2>2. ~(at(j) <= at(i))
      <3>1. at(j) <= at(i) => j - 1 <= i - 1
        BY <1>1, <2>1
      <3>. QED
        BY <1>0, <3>1
    <2>3. at(i) < at(j) /\ at(i) \in 1 .. Len(w) /\ at(j) \in 1 .. Len(w)
      BY <2>1, <2>2
    <2>. QED
      BY <1>6, <2>3
  <1>. QED
    BY <1>6, <1>8, <1>9 DEF s

\* w with x after the first k; what is in s is in w, in the same order, but for x.
Spliced(w, k, x) == SubSeq(w, 1, k) \o <<x>> \o SubSeq(w, k + 1, Len(w))
PutIn(s, w, x, k) ==
  \A i, j \in 1 .. Len(s) : i < j =>
    \/ \E a, b \in 1 .. Len(w) : a < b /\ s[i] = w[a] /\ s[j] = w[b]
    \/ s[i] = x /\ \E b \in k + 1 .. Len(w) : s[j] = w[b]
    \/ s[j] = x /\ \E a \in 1 .. k : s[i] = w[a]

LEMMA PutInFacts ==
  ASSUME NEW S, NEW w \in Seq(S), NEW x \in S, NEW k \in 0 .. Len(w)
  PROVE  /\ Spliced(w, k, x) \in Seq(S) /\ Elems(Spliced(w, k, x)) = Elems(w) \cup {x}
         /\ PutIn(Spliced(w, k, x), w, x, k)
  <1>. DEFINE a == SubSeq(w, 1, k)
              b == SubSeq(w, k + 1, Len(w))
              c == a \o <<x>>
              s == c \o b
  <1>0. Len(w) \in Nat /\ \A i \in 1 .. Len(w) : w[i] \in S
    BY ListDomain
  <1>1. a \in Seq(S) /\ Len(a) = k /\ \A i \in 1 .. k : a[i] = w[i]
    BY <1>0, SubSeqProperties
  <1>2. b \in Seq(S) /\ Len(b) = Len(w) - k /\ \A i \in 1 .. Len(w) - k : b[i] = w[k + i]
    BY <1>0, SubSeqProperties
  <1>3. /\ c \in Seq(S) /\ Len(c) = k + 1
        /\ \A i \in 1 .. k + 1 : c[i] = IF i <= k THEN w[i] ELSE x
    <2>1. <<x>> \in Seq(S) /\ Len(<<x>>) = 1 /\ <<x>>[1] = x
      OBVIOUS
    <2>. HIDE DEF a
    <2>. QED
      BY <1>1, <2>1, ConcatProperties
  <1>. HIDE DEF a, b, c, s
  <1>n. /\ Len(w) \in Nat /\ k \in Nat /\ k <= Len(w) /\ Len(c) + Len(b) = Len(w) + 1
        /\ Len(c) = k + 1
    BY <1>0, <1>2, <1>3
  <1>4. Spliced(w, k, x) = s
    BY DEF a, b, c, s, Spliced
  <1>5. s \in Seq(S) /\ Len(s) = Len(w) + 1
    <2>1. c \in Seq(S) /\ b \in Seq(S)
      BY <1>2, <1>3
    <2>2. s \in Seq(S) /\ Len(s) = Len(c) + Len(b)
      BY <2>1, ConcatProperties DEF s
    <2>. QED
      BY <2>2, <1>n
  <1>6. \A i \in 1 .. Len(w) + 1 : s[i] = IF i <= k + 1 THEN c[i] ELSE b[i - (k + 1)]
    BY <1>2, <1>3, <1>n, ConcatProperties DEF s
  <1>7. /\ \A i \in 1 .. Len(w) + 1 : i <= k => s[i] = w[i] /\ i \in 1 .. k /\ i \in 1 .. Len(w)
        /\ s[k + 1] = x
        /\ \A i \in 1 .. Len(w) + 1 : i > k + 1 =>
             s[i] = w[i - 1] /\ i - 1 \in k + 1 .. Len(w) /\ i - 1 \in 1 .. Len(w)
    <2>1. ASSUME NEW i \in 1 .. Len(w) + 1, i <= k + 1
          PROVE  s[i] = IF i <= k THEN w[i] ELSE x
      <3>1. i \in 1 .. k + 1 /\ s[i] = c[i]
        BY <1>6, <1>n, <2>1
      <3>. QED
        BY <1>3, <3>1
    <2>2. ASSUME NEW i \in 1 .. Len(w) + 1, i > k + 1
          PROVE  s[i] = w[i - 1]
      <3>1. i - (k + 1) \in 1 .. Len(w) - k /\ k + (i - (k + 1)) = i - 1
        BY <1>n, <2>2
      <3>2. s[i] = b[i - (k + 1)]
        BY <1>6, <1>n, <2>2
      <3>. QED
        BY SMTT(30), <1>2, <1>n, <2>2, <3>1, <3>2
    <2>. QED
      BY <1>n, <2>1, <2>2
  <1>8. Elems(s) = Elems(w) \cup {x}
    <2>1. \A i \in 1 .. Len(s) : s[i] \in Elems(w) \cup {x}
      <3>1. \A i \in 1 .. Len(s) : i = k + 1 \/ i <= k \/ i > k + 1
        BY <1>5, <1>n
      <3>2. \A i \in 1 .. Len(w) : w[i] \in Elems(w)
        BY ListDomain
      <3>. QED
        BY <1>5, <1>7, <3>1, <3>2
    <2>2. \A i \in 1 .. Len(w) : w[i] = s[i] \/ w[i] = s[i + 1]
      <3>. SUFFICES ASSUME NEW i \in 1 .. Len(w) PROVE w[i] = s[i] \/ w[i] = s[i + 1]
        OBVIOUS
      <3>1. i \in 1 .. Len(w) + 1 /\ i + 1 \in 1 .. Len(w) + 1 /\ (i <= k \/ i + 1 > k + 1)
            /\ (i + 1) - 1 = i
        BY <1>n
      <3>. QED
        BY <1>7, <3>1
    <2>3. \A i \in 1 .. Len(w) : i \in 1 .. Len(s) /\ i + 1 \in 1 .. Len(s)
      BY <1>5, <1>n
    <2>4. k + 1 \in 1 .. Len(s)
      BY <1>5, <1>n
    <2>5. Elems(s) = {s[i] : i \in 1 .. Len(s)} /\ Elems(w) = {w[i] : i \in 1 .. Len(w)}
      BY <1>5, ListDomain
    <2>6. Elems(w) \subseteq Elems(s)
      BY <2>2, <2>3, <2>5
    <2>7. x \in Elems(s)
      BY <1>7, <2>4, <2>5
    <2>8. Elems(s) \subseteq Elems(w) \cup {x}
      BY <2>1, <2>5
    <2>. QED
      BY <2>6, <2>7, <2>8
  <1>9. PutIn(s, w, x, k)
    <2>. SUFFICES ASSUME NEW i \in 1 .. Len(w) + 1, NEW j \in 1 .. Len(w) + 1, i < j
                  PROVE  \/ \E p, q \in 1 .. Len(w) : p < q /\ s[i] = w[p] /\ s[j] = w[q]
                         \/ s[i] = x /\ \E q \in k + 1 .. Len(w) : s[j] = w[q]
                         \/ s[j] = x /\ \E p \in 1 .. k : s[i] = w[p]
      BY <1>5 DEF PutIn
    <2>0. i \in Int /\ j \in Int
      BY <1>n
    <2>1. CASE i = k + 1
      <3>1. j > k + 1
        BY <2>0, <2>1
      <3>. QED
        BY <1>7, <2>1, <3>1
    <2>2. CASE j = k + 1
      <3>1. i <= k
        BY <1>n, <2>0, <2>2
      <3>. QED
        BY <1>7, <2>2, <3>1
    <2>3. CASE i <= k /\ j <= k
      BY <1>7, <2>3
    <2>4. CASE i <= k /\ j > k + 1
      <3>1. i < j - 1
        BY <1>n, <2>0, <2>4
      <3>. QED
        BY <1>7, <2>4, <3>1
    <2>5. CASE i > k + 1 /\ j > k + 1
      <3>1. i - 1 < j - 1
        BY <1>n, <2>0, <2>5
      <3>. QED
        BY <1>7, <2>5, <3>1
    <2>. QED
      BY <1>n, <2>0, <2>1, <2>2, <2>3, <2>4, <2>5
  <1>. QED
    BY <1>4, <1>5, <1>8, <1>9

LEMMA PutInOnce ==
  ASSUME NEW S, NEW w \in Seq(S), NEW s \in Seq(S), NEW x, NEW k \in 0 .. Len(w),
         PutIn(s, w, x, k), NoneTwice(w), x \notin Elems(w)
  PROVE  NoneTwice(s)
  <1>0. Len(s) \in Nat /\ Len(w) \in Nat /\ \A i \in 1 .. Len(w) : w[i] # x
    BY ListDomain
  <1>1. ASSUME NEW i \in 1 .. Len(s), NEW j \in 1 .. Len(s), i < j, s[i] = s[j]
        PROVE  FALSE
    <2>1. k + 1 .. Len(w) \subseteq 1 .. Len(w) /\ 1 .. k \subseteq 1 .. Len(w)
      BY <1>0
    <2>2. \E a, b \in 1 .. Len(w) : a < b /\ s[i] = w[a] /\ s[j] = w[b]
      BY <1>0, <1>1, <2>1 DEF PutIn
    <2>3. PICK a \in 1 .. Len(w), b \in 1 .. Len(w) : a < b /\ s[i] = w[a] /\ s[j] = w[b]
      BY <2>2
    <2>4. w[a] = w[b]
      BY <1>1, <2>3, Zenon
    <2>5. a = b
      BY <2>4 DEF NoneTwice
    <2>. QED
      BY <1>0, <2>3, <2>5
  <1>2. \A i, j \in 1 .. Len(s) : i < j \/ j < i \/ i = j
    BY <1>0
  <1>. QED
    BY <1>1, <1>2 DEF NoneTwice

LEMMA SublistSelf ==
  ASSUME NEW S, NEW w \in Seq(S)
  PROVE  Sublist(w, w)
  BY DEF Sublist

LEMMA WithoutFacts ==
  ASSUME NEW S, NEW w \in Seq(S), NEW R
  PROVE  /\ Without(w, R) \in Seq(S)
         /\ Elems(Without(w, R)) = Elems(w) \ R
         /\ Sublist(Without(w, R), w)
         /\ NoneTwice(w) => NoneTwice(Without(w, R))
  <1>1. CASE Elems(w) \cap R = {}
    BY <1>1, SublistSelf DEF Without
  <1>2. CASE Elems(w) \cap R # {}
    <2>. DEFINE I == {i \in 1 .. Len(w) : w[i] \notin R}
    <2>0. DOMAIN w = 1 .. Len(w) /\ Elems(w) = {w[i] : i \in 1 .. Len(w)}
      BY ListDomain
    <2>1. Without(w, R) = Picked(w, I)
      BY <1>2, <2>0 DEF Without
    <2>2. {w[i] : i \in I} = {w[i] : i \in 1 .. Len(w)} \ R
      OBVIOUS
    <2>3. I \in SUBSET (1 .. Len(w))
      OBVIOUS
    <2>. HIDE DEF I
    <2>4. Picked(w, I) \in Seq(S) /\ Elems(Picked(w, I)) = {w[i] : i \in I}
          /\ Sublist(Picked(w, I), w)
      BY <2>3, PickedFacts
    <2>5. NoneTwice(w) => NoneTwice(Picked(w, I))
      BY <2>4, SublistOnce
    <2>. QED
      BY <2>0, <2>1, <2>2, <2>4, <2>5
  <1>. QED
    BY <1>1, <1>2

LEMMA AppendFacts ==
  ASSUME NEW S, NEW w \in Seq(S), NEW x \in S
  PROVE  /\ Append(w, x) \in Seq(S) /\ Append(w, x) # <<>>
         /\ Elems(Append(w, x)) = Elems(w) \cup {x}
         /\ NoneTwice(w) /\ x \notin Elems(w) => NoneTwice(Append(w, x))
  <1>. DEFINE s == Append(w, x)
  <1>0. Len(w) \in Nat /\ \A i \in 1 .. Len(w) : w[i] \in Elems(w)
    BY ListDomain
  <1>1. /\ s \in Seq(S) /\ Len(s) = Len(w) + 1 /\ s[Len(w) + 1] = x
        /\ \A i \in 1 .. Len(w) : s[i] = w[i]
    BY AppendProperties
  <1>2. /\ Elems(s) = {s[i] : i \in 1 .. Len(w) + 1} /\ s # <<>>
        /\ Elems(w) = {w[i] : i \in 1 .. Len(w)}
    <2>. HIDE DEF s
    <2>1. Elems(s) = {s[i] : i \in 1 .. Len(s)} /\ (s = <<>> <=> Len(s) = 0)
          /\ Elems(w) = {w[i] : i \in 1 .. Len(w)}
      BY <1>1, ListDomain
    <2>. QED
      BY <1>0, <1>1, <2>1
  <1>. HIDE DEF s
  <1>3. /\ \A i \in 1 .. Len(w) + 1 : i = Len(w) + 1 \/ i \in 1 .. Len(w)
        /\ 1 .. Len(w) \subseteq 1 .. Len(w) + 1 /\ Len(w) + 1 \in 1 .. Len(w) + 1
    BY <1>0
  <1>4. Elems(s) = Elems(w) \cup {x}
    <2>1. \A i \in 1 .. Len(w) + 1 : s[i] \in Elems(w) \cup {x}
      BY <1>0, <1>1, <1>3
    <2>2. \A i \in 1 .. Len(w) : w[i] \in Elems(s)
      BY <1>1, <1>2, <1>3
    <2>3. x \in Elems(s)
      BY <1>1, <1>2, <1>3
    <2>. QED
      BY <1>2, <2>1, <2>2, <2>3
  <1>5. ASSUME NoneTwice(w), x \notin Elems(w) PROVE NoneTwice(s)
    <2>1. \A i, j \in 1 .. Len(w) + 1 : s[i] = s[j] => i = j
      BY <1>0, <1>1, <1>3, <1>5 DEF NoneTwice
    <2>. QED
      BY <1>1, <2>1 DEF NoneTwice
  <1>. QED
    BY <1>1, <1>2, <1>4, <1>5 DEF s

LEMMA ConcatFacts ==
  ASSUME NEW S, NEW a \in Seq(S), NEW b \in Seq(S)
  PROVE  /\ a \o b \in Seq(S) /\ (a \o b = <<>> <=> a = <<>> /\ b = <<>>)
         /\ Elems(a \o b) = Elems(a) \cup Elems(b)
         /\ NoneTwice(a) /\ NoneTwice(b) /\ Elems(a) \cap Elems(b) = {} => NoneTwice(a \o b)
  <1>. DEFINE s == a \o b
  <1>0. /\ Len(a) \in Nat /\ \A i \in 1 .. Len(a) : a[i] \in Elems(a)
        /\ Len(b) \in Nat /\ \A i \in 1 .. Len(b) : b[i] \in Elems(b)
        /\ a = <<>> <=> Len(a) = 0
        /\ b = <<>> <=> Len(b) = 0
        /\ Elems(a) = {a[i] : i \in 1 .. Len(a)} /\ Elems(b) = {b[i] : i \in 1 .. Len(b)}
    BY ListDomain
  <1>1. /\ s \in Seq(S) /\ Len(s) = Len(a) + Len(b)
        /\ \A i \in 1 .. Len(a) + Len(b) : s[i] = IF i <= Len(a) THEN a[i] ELSE b[i - Len(a)]
    BY ConcatProperties
  <1>. HIDE DEF s
  <1>2. /\ Elems(s) = {s[i] : i \in 1 .. Len(s)}
        /\ s = <<>> <=> Len(s) = 0
    BY <1>1, ListDomain
  <1>3. /\ \A i \in 1 .. Len(s) : i \in 1 .. Len(a) \/ i - Len(a) \in 1 .. Len(b)
        /\ \A i \in 1 .. Len(a) : i \in 1 .. Len(s) /\ s[i] = a[i]
        /\ \A i \in 1 .. Len(s) : i \notin 1 .. Len(a) => s[i] = b[i - Len(a)]
        /\ \A i \in 1 .. Len(b) : i + Len(a) \in 1 .. Len(s) /\ s[i + Len(a)] = b[i]
    <2>1. \A i \in 1 .. Len(b) : (i + Len(a)) - Len(a) = i /\ ~(i + Len(a) <= Len(a))
      BY <1>0
    <2>. QED
      BY <1>0, <1>1, <2>1
  <1>4. Elems(s) = Elems(a) \cup Elems(b)
    <2>1. \A i \in 1 .. Len(s) : s[i] \in Elems(a) \cup Elems(b)
      BY <1>0, <1>3
    <2>2. \A i \in 1 .. Len(a) : a[i] \in Elems(s)
      BY <1>2, <1>3
    <2>3. \A i \in 1 .. Len(b) : b[i] \in Elems(s)
      BY <1>2, <1>3
    <2>4. Elems(s) \subseteq Elems(a) \cup Elems(b)
      BY <1>2, <2>1
    <2>5. Elems(a) \subseteq Elems(s) /\ Elems(b) \subseteq Elems(s)
      BY <1>0, <2>2, <2>3
    <2>. QED
      BY <2>4, <2>5
  <1>5. ASSUME NoneTwice(a), NoneTwice(b), Elems(a) \cap Elems(b) = {} PROVE NoneTwice(s)
    <2>. SUFFICES ASSUME NEW i \in 1 .. Len(s), NEW j \in 1 .. Len(s), s[i] = s[j]
                  PROVE  i = j
      BY DEF NoneTwice
    <2>1. CASE i \in 1 .. Len(a) /\ j \in 1 .. Len(a)
      BY <1>3, <1>5, <2>1 DEF NoneTwice
    <2>2. CASE i \notin 1 .. Len(a) /\ j \notin 1 .. Len(a)
      <3>1. i - Len(a) \in 1 .. Len(b) /\ j - Len(a) \in 1 .. Len(b)
            /\ b[i - Len(a)] = b[j - Len(a)]
        BY <1>3, <2>2
      <3>2. i - Len(a) = j - Len(a)
        BY <1>5, <3>1 DEF NoneTwice
      <3>. QED
        BY <1>0, <1>1, <3>2
    <2>3. CASE i \in 1 .. Len(a) /\ j \notin 1 .. Len(a)
      BY <1>0, <1>3, <1>5, <2>3
    <2>4. CASE i \notin 1 .. Len(a) /\ j \in 1 .. Len(a)
      BY <1>0, <1>3, <1>5, <2>4
    <2>. QED
      BY <2>1, <2>2, <2>3, <2>4
  <1>6. s = <<>> <=> a = <<>> /\ b = <<>>
    BY <1>0, <1>1, <1>2
  <1>. QED
    BY <1>1, <1>4, <1>5, <1>6 DEF s

LEMMA TailFacts ==
  ASSUME NEW S, NEW w \in Seq(S), w # <<>>
  PROVE  /\ Tail(w) \in Seq(S) /\ Head(w) \in S /\ Head(w) \in Elems(w) /\ Head(w) = w[1]
         /\ Elems(w) = Elems(Tail(w)) \cup {Head(w)}
         /\ Sublist(Tail(w), w)
         /\ NoneTwice(w) => NoneTwice(Tail(w)) /\ Elems(Tail(w)) = Elems(w) \ {Head(w)}
  <1>0. Len(w) \in Nat /\ Len(w) # 0 /\ \A i \in 1 .. Len(w) : w[i] \in S /\ w[i] \in Elems(w)
    BY ListDomain
  <1>1. /\ Head(w) = w[1] /\ Tail(w) \in Seq(S)
        /\ Len(Tail(w)) = Len(w) - 1 /\ \A i \in 1 .. Len(w) - 1 : Tail(w)[i] = w[i + 1]
    BY HeadTailProperties
  <1>2. Elems(w) = {w[i] : i \in 1 .. Len(w)}
        /\ Elems(Tail(w)) = {Tail(w)[i] : i \in 1 .. Len(w) - 1}
    <2>1. Elems(w) = {w[i] : i \in 1 .. Len(w)}
      BY ListDomain
    <2>2. Elems(Tail(w)) = {Tail(w)[i] : i \in 1 .. Len(Tail(w))}
      BY <1>1, ListDomain
    <2>. QED
      BY <1>1, <2>1, <2>2
  <1>3. /\ 1 \in 1 .. Len(w)
        /\ \A i \in 1 .. Len(w) : i = 1 \/ i - 1 \in 1 .. Len(w) - 1
        /\ \A i \in 1 .. Len(w) - 1 : i + 1 \in 1 .. Len(w) /\ i + 1 # 1
        /\ \A i \in 1 .. Len(w) : i - 1 \in 1 .. Len(w) - 1 => Tail(w)[i - 1] = w[i]
    BY <1>0, <1>1
  <1>4. Elems(w) = Elems(Tail(w)) \cup {Head(w)}
    <2>1. \A i \in 1 .. Len(w) : w[i] \in Elems(Tail(w)) \cup {Head(w)}
      BY <1>1, <1>2, <1>3
    <2>2. \A i \in 1 .. Len(w) - 1 : Tail(w)[i] \in Elems(w)
      BY <1>0, <1>1, <1>3
    <2>. QED
      BY <1>0, <1>1, <1>2, <1>3, <2>1, <2>2
  <1>5. Sublist(Tail(w), w)
    <2>1. \A i, j \in 1 .. Len(w) - 1 : i < j => i + 1 < j + 1
      BY <1>0
    <2>. QED
      BY <1>1, <1>3, <2>1 DEF Sublist
  <1>6. ASSUME NoneTwice(w) PROVE NoneTwice(Tail(w)) /\ Elems(Tail(w)) = Elems(w) \ {Head(w)}
    <2>1. NoneTwice(Tail(w))
      BY <1>1, <1>5, <1>6, SublistOnce
    <2>2. \A i \in 1 .. Len(w) - 1 : Tail(w)[i] # Head(w)
      BY <1>1, <1>3, <1>6 DEF NoneTwice
    <2>. QED
      BY <1>2, <1>4, <2>1, <2>2
  <1>. QED
    BY <1>0, <1>1, <1>3, <1>4, <1>5, <1>6

LEMMA FrontFacts ==
  ASSUME NEW S, NEW w \in Seq(S), NEW x \in S
  PROVE  /\ <<x>> \o w \in Seq(S) /\ Elems(<<x>> \o w) = Elems(w) \cup {x}
         /\ NoneTwice(w) /\ x \notin Elems(w) => NoneTwice(<<x>> \o w)
  <1>. DEFINE v == <<x>>
  <1>1. v \in Seq(S) /\ Len(v) = 1 /\ v[1] = x
    OBVIOUS
  <1>. HIDE DEF v
  <1>2. Elems(v) = {x}
    <2>1. Elems(v) = {v[i] : i \in 1 .. 1}
      BY <1>1, ListDomain
    <2>. QED
      BY <1>1, <2>1
  <1>3. NoneTwice(v)
    BY <1>1 DEF NoneTwice
  <1>4. /\ v \o w \in Seq(S) /\ Elems(v \o w) = Elems(w) \cup {x}
        /\ NoneTwice(w) /\ x \notin Elems(w) => NoneTwice(v \o w)
    BY <1>1, <1>2, <1>3, ConcatFacts
  <1>. QED
    BY <1>4 DEF v

\* The first of n places that is in P, or the end.
LEMMA FirstPlace ==
  ASSUME NEW n \in Nat, NEW P
  PROVE  \E k \in 0 .. n : (\A i \in 1 .. k : i \notin P) /\ (k < n => k + 1 \in P)
  <1>. DEFINE Q == {i \in 1 .. n : i \in P}
  <1>1. CASE Q = {}
    <2>1. \A i \in 1 .. n : i \notin P
      BY <1>1
    <2>. QED
      BY <2>1
  <1>2. CASE Q # {}
    <2>1. Q \in SUBSET Nat
      OBVIOUS
    <2>2. PICK q \in Q : \A i \in Q : q <= i
      <3>. HIDE DEF Q
      <3>. QED
        BY <1>2, <2>1, LeastNumber
    <2>3. q \in 1 .. n /\ q \in P /\ q - 1 \in 0 .. n /\ (q - 1) + 1 = q
      OBVIOUS
    <2>4. \A i \in 1 .. q - 1 : i \notin P
      BY <2>2, <2>3
    <2>. QED
      BY <2>3, <2>4
  <1>. QED
    BY <1>1, <1>2
-----------------------------------------------------------------------------
\* Timers and suspend lists.

TimerSet == [thread : Threads, due : Ticks]
RunningOnce(tm) == \A i, j \in 1 .. Len(tm) : tm[i].thread = tm[j].thread => i = j
Timed(tm) == {e.thread : e \in Elems(tm)}

LEMMA TimedDomain ==
  ASSUME NEW tm \in Seq(TimerSet)
  PROVE  /\ Len(tm) \in Nat /\ DOMAIN tm = 1 .. Len(tm)
         /\ \A i \in 1 .. Len(tm) : /\ tm[i].thread \in Threads /\ tm[i].due \in Ticks
                                    /\ tm[i].thread \in Timed(tm)
         /\ \A t \in Timed(tm) : \E i \in 1 .. Len(tm) : tm[i].thread = t
         /\ Timed(tm) \subseteq Threads
  <1>1. /\ Len(tm) \in Nat /\ DOMAIN tm = 1 .. Len(tm) /\ Elems(tm) = {tm[i] : i \in 1 .. Len(tm)}
        /\ \A i \in 1 .. Len(tm) : tm[i] \in TimerSet /\ tm[i] \in Elems(tm)
    BY ListDomain
  <1>2. \A e \in TimerSet : e.thread \in Threads /\ e.due \in Ticks
    BY DEF TimerSet
  <1>. QED
    BY <1>1, <1>2 DEF Timed

LEMMA SublistTimers ==
  ASSUME NEW tm \in Seq(TimerSet), NEW s \in Seq(TimerSet), Sublist(s, tm), RunningOnce(tm)
  PROVE  RunningOnce(s)
  <1>0. Len(s) \in Nat /\ Len(tm) \in Nat
    BY TimedDomain
  <1>1. ASSUME NEW i \in 1 .. Len(s), NEW j \in 1 .. Len(s), i < j,
               s[i].thread = s[j].thread
        PROVE  FALSE
    <2>1. PICK a \in 1 .. Len(tm), b \in 1 .. Len(tm) : a < b /\ s[i] = tm[a] /\ s[j] = tm[b]
      BY <1>1 DEF Sublist
    <2>2. tm[a].thread = tm[b].thread
      BY <1>1, <2>1
    <2>3. a = b
      BY <2>2, <1>1 DEF RunningOnce
    <2>. QED
      BY <1>0, <2>1, <2>3
  <1>2. \A i, j \in 1 .. Len(s) : i < j \/ j < i \/ i = j
    BY <1>0
  <1>. QED
    BY <1>1, <1>2 DEF RunningOnce

\* _rt_timer_remove() leaves the others, in their order.
LEMMA StoppedFacts ==
  ASSUME NEW tm \in Seq(TimerSet), NEW R
  PROVE  /\ Stopped(tm, R) \in Seq(TimerSet)
         /\ Elems(Stopped(tm, R)) = {e \in Elems(tm) : e.thread \notin R}
         /\ Timed(Stopped(tm, R)) = Timed(tm) \ R
         /\ Sublist(Stopped(tm, R), tm)
         /\ RunningOnce(tm) => RunningOnce(Stopped(tm, R))
  <1>. DEFINE s == Stopped(tm, R)
  <1>0. DOMAIN tm = 1 .. Len(tm) /\ Elems(tm) = {tm[i] : i \in 1 .. Len(tm)}
    BY ListDomain
  <1>1. /\ s \in Seq(TimerSet) /\ Sublist(s, tm)
        /\ Elems(s) = {e \in Elems(tm) : e.thread \notin R}
    <2>1. CASE \A i \in DOMAIN tm : tm[i].thread \notin R
      <3>1. s = tm /\ Sublist(tm, tm)
        BY <2>1, SublistSelf DEF Stopped
      <3>2. \A e \in Elems(tm) : e.thread \notin R
        BY <1>0, <2>1
      <3>. QED
        BY <3>1, <3>2
    <2>2. CASE \E i \in DOMAIN tm : tm[i].thread \in R
      <3>. DEFINE I == {i \in 1 .. Len(tm) : tm[i].thread \notin R}
      <3>1. s = Picked(tm, I)
        BY <1>0, <2>2 DEF Stopped
      <3>2. {tm[i] : i \in I} = {e \in Elems(tm) : e.thread \notin R}
        BY <1>0
      <3>3. I \in SUBSET (1 .. Len(tm))
        OBVIOUS
      <3>. HIDE DEF I, s
      <3>. QED
        BY <3>1, <3>2, <3>3, PickedFacts
    <2>. QED
      BY <2>1, <2>2
  <1>. HIDE DEF s
  <1>2. Timed(s) = Timed(tm) \ R
    BY <1>1 DEF Timed
  <1>. QED
    BY <1>1, <1>2, SublistTimers DEF s

\* rt_timer_start() puts the timer before the first one that is due later.
DueAt(n) == (tick + n) % TickMod
DuePlace(w, n, k) == /\ \A i \in 1 .. k : ~IsLater(w[i].due, DueAt(n))
                     /\ k < Len(w) => IsLater(w[k + 1].due, DueAt(n))

LEMMA StartedFacts ==
  ASSUME NEW tm \in Seq(TimerSet), NEW t \in Threads, NEW n \in Int, tick \in Ticks
  PROVE  LET w == Stopped(tm, {t})
             e == [thread |-> t, due |-> DueAt(n)]
         IN /\ Started(tm, t, n) \in Seq(TimerSet)
            /\ Elems(Started(tm, t, n)) = Elems(w) \cup {e}
            /\ Timed(Started(tm, t, n)) = Timed(tm) \cup {t}
            /\ \E k \in 0 .. Len(w) : PutIn(Started(tm, t, n), w, e, k) /\ DuePlace(w, n, k)
            /\ RunningOnce(tm) => RunningOnce(Started(tm, t, n))
  <1>. DEFINE w == Stopped(tm, {t})
              due == DueAt(n)
              e == [thread |-> t, due |-> due]
              k0 == CHOOSE k \in 0 .. Len(w) :
                      /\ \A i \in 1 .. k : ~IsLater(w[i].due, due)
                      /\ k < Len(w) => IsLater(w[k + 1].due, due)
              s == Spliced(w, k0, e)
  <1>0. Started(tm, t, n) = s
    BY DEF Started, Spliced, DueAt
  <1>1. /\ w \in Seq(TimerSet) /\ Timed(w) = Timed(tm) \ {t}
        /\ RunningOnce(tm) => RunningOnce(w)
    BY StoppedFacts
  <1>2. e \in TimerSet
    <2>1. TickMod \in Nat /\ TickMod > 0 /\ tick \in Int
      BY KernelAssumption DEF Ticks
    <2>2. due \in Ticks
      BY <2>1 DEF DueAt, Ticks
    <2>. QED
      BY <2>2 DEF TimerSet
  <1>. HIDE DEF w
  <1>. DEFINE P == {i \in 1 .. Len(w) : IsLater(w[i].due, due)}
  <1>3. Len(w) \in Nat
    BY <1>1, ListDomain
  <1>4. \E k \in 0 .. Len(w) : (\A i \in 1 .. k : i \notin P) /\ (k < Len(w) => k + 1 \in P)
    <2>. HIDE DEF P
    <2>. QED
      BY <1>3, FirstPlace
  <1>5. \E k \in 0 .. Len(w) : /\ \A i \in 1 .. k : ~IsLater(w[i].due, due)
                               /\ k < Len(w) => IsLater(w[k + 1].due, due)
    <2>1. PICK k \in 0 .. Len(w) : (\A i \in 1 .. k : i \notin P) /\ (k < Len(w) => k + 1 \in P)
      BY <1>4
    <2>2. \A i \in 1 .. k : i \in 1 .. Len(w)
      BY <1>3
    <2>. QED
      BY <2>1, <2>2
  <1>6. k0 \in 0 .. Len(w) /\ DuePlace(w, n, k0)
    BY <1>5 DEF DuePlace
  <1>. HIDE DEF k0, e, P
  <1>7. s \in Seq(TimerSet) /\ Elems(s) = Elems(w) \cup {e} /\ PutIn(s, w, e, k0)
    BY <1>1, <1>2, <1>6, PutInFacts
  <1>. HIDE DEF s, due
  <1>8. e.thread = t
    BY DEF e
  <1>9. Timed(s) = Timed(tm) \cup {t}
    <2>1. Timed(s) = Timed(w) \cup {t}
      BY <1>7, <1>8 DEF Timed
    <2>2. t \in Timed(tm) \/ t \notin Timed(tm)
      OBVIOUS
    <2>. QED
      BY <1>1, <2>1
  <1>10. ASSUME RunningOnce(tm) PROVE RunningOnce(s)
    <2>0. Len(s) \in Nat /\ \A i \in 1 .. Len(w) : w[i].thread # e.thread
      BY <1>1, <1>7, <1>8, TimedDomain
    <2>1. ASSUME NEW i \in 1 .. Len(s), NEW j \in 1 .. Len(s), i < j,
                 s[i].thread = s[j].thread
          PROVE  FALSE
      <3>1. k0 + 1 .. Len(w) \subseteq 1 .. Len(w) /\ 1 .. k0 \subseteq 1 .. Len(w)
        BY <1>3, <1>6
      <3>2. \E a, b \in 1 .. Len(w) : a < b /\ s[i] = w[a] /\ s[j] = w[b]
        BY <1>7, <2>0, <2>1, <3>1 DEF PutIn
      <3>3. PICK a \in 1 .. Len(w), b \in 1 .. Len(w) : a < b /\ s[i] = w[a] /\ s[j] = w[b]
        BY <3>2
      <3>4. w[a].thread = w[b].thread
        BY <2>1, <3>3
      <3>5. a = b
        BY <3>4, <1>1, <1>10 DEF RunningOnce
      <3>. QED
        BY <1>3, <3>3, <3>5
    <2>2. \A i, j \in 1 .. Len(s) : i < j \/ j < i \/ i = j
      BY <2>0
    <2>. QED
      BY <2>1, <2>2 DEF RunningOnce
  <1>. QED
    BY <1>0, <1>6, <1>7, <1>9, <1>10 DEF w, e, due

\* rt_ipc_list_suspend() puts the thread at the end of a list, or, if it is kept by
\* priority, before the first thread that is less urgent.
UrgencyPlace(w, t, k) == /\ \A i \in 1 .. k : priority[w[i]] <= priority[t]
                         /\ k < Len(w) => priority[w[k + 1]] > priority[t]

LEMMA EnlistedFacts ==
  ASSUME NEW l \in Lists, NEW t \in Threads, waitList[l] \in Seq(Threads),
         priority \in [Threads -> Prios]
  PROVE  /\ Enlisted(l, t) \in Seq(Threads)
         /\ Elems(Enlisted(l, t)) = Elems(waitList[l]) \cup {t}
         /\ NoneTwice(waitList[l]) /\ t \notin Elems(waitList[l]) => NoneTwice(Enlisted(l, t))
         /\ \E k \in 0 .. Len(waitList[l]) :
              /\ PutIn(Enlisted(l, t), waitList[l], t, k)
              /\ l \notin FifoLists => UrgencyPlace(waitList[l], t, k)
  <1>. DEFINE w == waitList[l]
              k0 == IF l \in FifoLists THEN Len(w)
                    ELSE CHOOSE k \in 0 .. Len(w) :
                           /\ \A i \in 1 .. k : priority[w[i]] <= priority[t]
                           /\ k < Len(w) => priority[w[k + 1]] > priority[t]
              P == {i \in 1 .. Len(w) : priority[w[i]] > priority[t]}
              s == Spliced(w, k0, t)
  <1>0. Enlisted(l, t) = s
    BY DEF Enlisted, Spliced
  <1>1. w \in Seq(Threads)
    OBVIOUS
  <1>. HIDE DEF w
  <1>2. Len(w) \in Nat /\ \A i \in 1 .. Len(w) : w[i] \in Threads
    BY <1>1, ListDomain
  <1>3. \E k \in 0 .. Len(w) : (\A i \in 1 .. k : i \notin P) /\ (k < Len(w) => k + 1 \in P)
    <2>. HIDE DEF P
    <2>. QED
      BY <1>2, FirstPlace
  <1>4. \E k \in 0 .. Len(w) : /\ \A i \in 1 .. k : priority[w[i]] <= priority[t]
                               /\ k < Len(w) => priority[w[k + 1]] > priority[t]
    <2>1. PICK k \in 0 .. Len(w) : (\A i \in 1 .. k : i \notin P) /\ (k < Len(w) => k + 1 \in P)
      BY <1>3
    <2>2. \A i \in 1 .. k : i \in 1 .. Len(w)
      BY <1>2
    <2>3. \A u \in Threads : priority[u] \in Nat
      BY KernelAssumption DEF Prios
    <2>. QED
      BY <1>2, <2>1, <2>2, <2>3
  <1>5. k0 \in 0 .. Len(w) /\ (l \notin FifoLists => UrgencyPlace(w, t, k0))
    BY <1>2, <1>4 DEF UrgencyPlace
  <1>. HIDE DEF k0, P
  <1>6. s \in Seq(Threads) /\ Elems(s) = Elems(w) \cup {t} /\ PutIn(s, w, t, k0)
    BY <1>1, <1>5, PutInFacts
  <1>. HIDE DEF s
  <1>7. NoneTwice(w) /\ t \notin Elems(w) => NoneTwice(s)
    BY <1>1, <1>5, <1>6, PutInOnce
  <1>. QED
    BY <1>0, <1>5, <1>6, <1>7 DEF w
-----------------------------------------------------------------------------
\* The ready lists: a thread st says is ready is once in the list of its priority in
\* pr, and the group names the lists that are not empty.

Stats == {"init", "ready", "suspend", "close"}
ReadyType == [list : [Prios -> Seq(Threads)], group : SUBSET Prios]
ReadyRight(r, st, pr) ==
  /\ r \in ReadyType
  /\ \A p \in Prios : NoneTwice(r.list[p]) /\ (p \in r.group <=> r.list[p] # <<>>)
  /\ \A p \in Prios, t \in Threads :
       t \in Elems(r.list[p]) <=> st[t] = "ready" /\ pr[t] = p

LEMMA ReadyTypes ==
  ASSUME NEW r \in ReadyType
  PROVE  /\ r = [list |-> r.list, group |-> r.group]
         /\ r.list \in [Prios -> Seq(Threads)] /\ r.group \in SUBSET Prios
         /\ \A p \in Prios : r.list[p] \in Seq(Threads)
  BY DEF ReadyType

LEMMA MadeReady ==
  ASSUME NEW l \in [Prios -> Seq(Threads)], NEW g \in SUBSET Prios
  PROVE  /\ [list |-> l, group |-> g] \in ReadyType
         /\ [list |-> l, group |-> g].list = l /\ [list |-> l, group |-> g].group = g
  BY DEF ReadyType

\* rt_schedule_insert_thread() of a thread that gets ready.
LEMMA InsertKeeps ==
  ASSUME NEW st \in [Threads -> Stats], NEW pr \in [Threads -> Prios],
         NEW r, ReadyRight(r, st, pr), NEW t \in Threads, st[t] # "ready"
  PROVE  ReadyRight(Insert(r, t, pr[t]), [st EXCEPT ![t] = "ready"], pr)
  <1>. DEFINE p == pr[t]
              s == [st EXCEPT ![t] = "ready"]
              l == [r.list EXCEPT ![p] = Append(@, t)]
              g == r.group \cup {p}
              i == [list |-> l, group |-> g]
  <1>0. p \in Prios /\ Insert(r, t, pr[t]) = i
    BY DEF Insert
  <1>1. /\ r \in ReadyType /\ r.list \in [Prios -> Seq(Threads)] /\ r.group \in SUBSET Prios
        /\ \A q \in Prios : r.list[q] \in Seq(Threads)
    BY ReadyTypes DEF ReadyRight
  <1>2. /\ Append(r.list[p], t) \in Seq(Threads) /\ Append(r.list[p], t) # <<>>
        /\ Elems(Append(r.list[p], t)) = Elems(r.list[p]) \cup {t}
        /\ NoneTwice(Append(r.list[p], t))
    <2>1. t \notin Elems(r.list[p]) /\ NoneTwice(r.list[p])
      BY <1>0 DEF ReadyRight
    <2>2. r.list[p] \in Seq(Threads)
      BY <1>0, <1>1
    <2>. HIDE DEF p
    <2>. QED
      BY <2>1, <2>2, AppendFacts
  <1>3. /\ l \in [Prios -> Seq(Threads)] /\ g \in SUBSET Prios
        /\ l[p] = Append(r.list[p], t) /\ \A q \in Prios \ {p} : l[q] = r.list[q]
    BY <1>0, <1>1, <1>2
  <1>4. /\ s[t] = "ready" /\ \A u \in Threads \ {t} : s[u] = st[u]
    OBVIOUS
  <1>. HIDE DEF s, l, g
  <1>5. i \in ReadyType /\ i.list = l /\ i.group = g
    BY <1>3, MadeReady
  <1>. HIDE DEF i
  <1>6. ASSUME NEW q \in Prios
        PROVE  NoneTwice(i.list[q]) /\ (q \in i.group <=> i.list[q] # <<>>)
    BY <1>0, <1>2, <1>3, <1>5 DEF ReadyRight, g
  <1>7. ASSUME NEW q \in Prios, NEW u \in Threads
        PROVE  u \in Elems(i.list[q]) <=> s[u] = "ready" /\ pr[u] = q
    <2>1. u \in Elems(r.list[q]) <=> st[u] = "ready" /\ pr[u] = q
      BY DEF ReadyRight
    <2>2. u \in Elems(i.list[q]) <=> u \in Elems(r.list[q]) \/ (u = t /\ q = p)
      BY <1>2, <1>3, <1>5
    <2>. HIDE DEF p
    <2>3. CASE u = t
      BY <2>1, <2>2, <2>3, <1>4 DEF p
    <2>4. CASE u # t
      BY <2>1, <2>2, <2>4, <1>4
    <2>. QED
      BY <2>3, <2>4
  <1>. QED
    BY <1>0, <1>5, <1>6, <1>7 DEF ReadyRight, s

\* rt_schedule_remove_thread() of a thread that is ready no more.
LEMMA RemoveKeeps ==
  ASSUME NEW st \in [Threads -> Stats], NEW pr \in [Threads -> Prios],
         NEW r, ReadyRight(r, st, pr), NEW t \in Threads, NEW x \in Stats, x # "ready"
  PROVE  ReadyRight(Remove(r, t, pr[t]), [st EXCEPT ![t] = x], pr)
  <1>. DEFINE p == pr[t]
              s == [st EXCEPT ![t] = x]
              w == Without(r.list[p], {t})
              l == [r.list EXCEPT ![p] = w]
              g == IF w = <<>> THEN r.group \ {p} ELSE r.group
              i == [list |-> l, group |-> g]
  <1>0. p \in Prios /\ Remove(r, t, pr[t]) = i
    BY DEF Remove
  <1>1. /\ r \in ReadyType /\ r.list \in [Prios -> Seq(Threads)] /\ r.group \in SUBSET Prios
        /\ \A q \in Prios : r.list[q] \in Seq(Threads)
    BY ReadyTypes DEF ReadyRight
  <1>2. /\ w \in Seq(Threads) /\ Elems(w) = Elems(r.list[p]) \ {t} /\ NoneTwice(w)
        /\ w = <<>> <=> Elems(w) = {}
    <2>1. NoneTwice(r.list[p])
      BY <1>0 DEF ReadyRight
    <2>2. /\ w \in Seq(Threads) /\ Elems(w) = Elems(r.list[p]) \ {t} /\ NoneTwice(w)
      BY <1>0, <1>1, <2>1, WithoutFacts
    <2>. HIDE DEF w
    <2>. QED
      BY <2>2, ListDomain
  <1>. HIDE DEF w
  <1>3. /\ l \in [Prios -> Seq(Threads)] /\ g \in SUBSET Prios
        /\ l[p] = w /\ \A q \in Prios \ {p} : l[q] = r.list[q]
    BY <1>0, <1>1, <1>2
  <1>4. /\ s[t] = x /\ \A u \in Threads \ {t} : s[u] = st[u]
    OBVIOUS
  <1>a. p \in g <=> w # <<>>
    <2>1. Elems(w) # {} => p \in r.group
      <3>1. Elems(w) # {} => Elems(r.list[p]) # {}
        BY <1>2
      <3>2. r.list[p] = <<>> <=> Elems(r.list[p]) = {}
        <4>1. r.list[p] \in Seq(Threads)
          BY <1>0, <1>1
        <4>. HIDE DEF p
        <4>. QED
          BY <4>1, ListDomain
      <3>3. p \in r.group <=> r.list[p] # <<>>
        BY <1>0 DEF ReadyRight
      <3>. QED
        BY <3>1, <3>2, <3>3
    <2>. QED
      BY <1>2, <2>1
  <1>b. \A q \in Prios \ {p} : q \in g <=> q \in r.group
    OBVIOUS
  <1>. HIDE DEF s, l, g
  <1>5. i \in ReadyType /\ i.list = l /\ i.group = g
    BY <1>3, MadeReady
  <1>. HIDE DEF i
  <1>6. ASSUME NEW q \in Prios
        PROVE  NoneTwice(i.list[q]) /\ (q \in i.group <=> i.list[q] # <<>>)
    BY <1>0, <1>2, <1>3, <1>5, <1>a, <1>b DEF ReadyRight
  <1>7. ASSUME NEW q \in Prios, NEW u \in Threads
        PROVE  u \in Elems(i.list[q]) <=> s[u] = "ready" /\ pr[u] = q
    <2>1. u \in Elems(r.list[q]) <=> st[u] = "ready" /\ pr[u] = q
      BY DEF ReadyRight
    <2>2. u \in Elems(i.list[q]) <=> u \in Elems(r.list[q]) /\ ~(u = t /\ q = p)
      BY <1>2, <1>3, <1>5
    <2>3. CASE u = t
      BY <2>1, <2>2, <2>3, <1>4
    <2>4. CASE u # t
      BY <2>1, <2>2, <2>4, <1>4
    <2>. QED
      BY <2>3, <2>4
  <1>. QED
    BY <1>0, <1>5, <1>6, <1>7 DEF ReadyRight, s

\* RT_THREAD_CTRL_CHANGE_PRIORITY of a thread, ready or not.
LEMMA ReprioritizedKeeps ==
  ASSUME stat \in [Threads -> Stats], priority \in [Threads -> Prios],
         ReadyRight(ready, stat, priority), NEW t \in Threads, NEW p \in Prios
  PROVE  ReadyRight(Reprioritized(ready, t, p), stat, [priority EXCEPT ![t] = p])
  <1>. DEFINE pr == [priority EXCEPT ![t] = p]
              st == [stat EXCEPT ![t] = "suspend"]
              r == Remove(ready, t, priority[t])
  <1>0. /\ pr \in [Threads -> Prios] /\ pr[t] = p
        /\ \A u \in Threads \ {t} : pr[u] = priority[u]
    OBVIOUS
  <1>1. CASE stat[t] = "ready"
    <2>1. ReadyRight(r, st, priority)
      <3>1. "suspend" \in Stats /\ "suspend" # "ready"
        BY DEF Stats
      <3>. QED
        BY <3>1, RemoveKeeps
    <2>2. st \in [Threads -> Stats] /\ st[t] = "suspend" /\ [st EXCEPT ![t] = "ready"] = stat
      <3>1. st \in [Threads -> Stats] /\ st[t] = "suspend"
        BY DEF Stats
      <3>2. [st EXCEPT ![t] = "ready"] \in [Threads -> Stats]
        BY <3>1 DEF Stats
      <3>3. \A u \in Threads : [st EXCEPT ![t] = "ready"][u] = stat[u]
        BY <1>1
      <3>. QED
        BY <3>1, <3>2, <3>3
    <2>. HIDE DEF r, st, pr
    <2>3. ReadyRight(r, st, pr)
      BY <1>0, <2>1, <2>2 DEF ReadyRight
    <2>4. ReadyRight(Insert(r, t, pr[t]), [st EXCEPT ![t] = "ready"], pr)
      BY <1>0, <2>2, <2>3, InsertKeeps
    <2>5. Reprioritized(ready, t, p) = Insert(r, t, pr[t])
      BY <1>0, <1>1 DEF Reprioritized, r
    <2>. QED
      BY <2>2, <2>4, <2>5 DEF pr
  <1>2. CASE stat[t] # "ready"
    <2>1. Reprioritized(ready, t, p) = ready
      BY <1>2 DEF Reprioritized
    <2>. HIDE DEF pr
    <2>2. ReadyRight(ready, stat, pr)
      BY <1>0, <1>2 DEF ReadyRight
    <2>. QED
      BY <2>1, <2>2 DEF pr
  <1>. QED
    BY <1>1, <1>2

\* rt_thread_yield() of a thread.
LEMMA RotatedKeeps ==
  ASSUME stat \in [Threads -> Stats], priority \in [Threads -> Prios],
         ReadyRight(ready, stat, priority), NEW t \in Threads, stat[t] = "ready"
  PROVE  ReadyRight(Rotated(t), stat, priority)
  <1>. DEFINE p == priority[t]
              w == Without(ready.list[p], {t})
              v == Append(w, t)
              l == [ready.list EXCEPT ![p] = v]
              i == [list |-> l, group |-> ready.group]
  <1>0. p \in Prios /\ Rotated(t) = i
    BY DEF Rotated
  <1>1. /\ ready \in ReadyType /\ ready.list \in [Prios -> Seq(Threads)]
        /\ ready.group \in SUBSET Prios
        /\ \A q \in Prios : ready.list[q] \in Seq(Threads)
    BY ReadyTypes DEF ReadyRight
  <1>2. /\ w \in Seq(Threads) /\ Elems(w) = Elems(ready.list[p]) \ {t} /\ NoneTwice(w)
    <2>1. NoneTwice(ready.list[p])
      BY <1>0 DEF ReadyRight
    <2>. QED
      BY <1>0, <1>1, <2>1, WithoutFacts
  <1>. HIDE DEF w
  <1>3. v \in Seq(Threads) /\ Elems(v) = Elems(ready.list[p]) /\ NoneTwice(v) /\ v # <<>>
    <2>1. t \in Elems(ready.list[p])
      BY <1>0 DEF ReadyRight
    <2>2. /\ v \in Seq(Threads) /\ Elems(v) = Elems(w) \cup {t} /\ v # <<>>
          /\ t \notin Elems(w) => NoneTwice(v)
      BY <1>2, AppendFacts
    <2>. HIDE DEF v
    <2>. QED
      BY <1>2, <2>1, <2>2
  <1>. HIDE DEF v
  <1>4. /\ l \in [Prios -> Seq(Threads)]
        /\ l[p] = v /\ \A q \in Prios \ {p} : l[q] = ready.list[q]
    BY <1>0, <1>1, <1>3
  <1>. HIDE DEF l
  <1>5. i \in ReadyType /\ i.list = l /\ i.group = ready.group
    BY <1>1, <1>4, MadeReady
  <1>. HIDE DEF i
  <1>6. p \in ready.group
    <2>1. t \in Elems(ready.list[p]) /\ (p \in ready.group <=> ready.list[p] # <<>>)
      BY <1>0 DEF ReadyRight
    <2>2. ready.list[p] \in Seq(Threads)
      BY <1>0, <1>1
    <2>. HIDE DEF p
    <2>. QED
      BY <2>1, <2>2, ListDomain
  <1>7. ASSUME NEW q \in Prios
        PROVE  NoneTwice(i.list[q]) /\ (q \in i.group <=> i.list[q] # <<>>)
    BY <1>0, <1>3, <1>4, <1>5, <1>6 DEF ReadyRight
  <1>8. ASSUME NEW q \in Prios, NEW u \in Threads
        PROVE  u \in Elems(i.list[q]) <=> stat[u] = "ready" /\ priority[u] = q
    <2>1. u \in Elems(ready.list[q]) <=> stat[u] = "ready" /\ priority[u] = q
      BY DEF ReadyRight
    <2>. QED
      BY <1>3, <1>4, <1>5, <2>1
  <1>. QED
    BY <1>0, <1>5, <1>7, <1>8 DEF ReadyRight

\* rt_thread_timeout() of threads that are not ready.
Readied(st, R) == [t \in Threads |-> IF t \in R THEN "ready" ELSE st[t]]

LEMMA TimedOutKeeps ==
  ASSUME priority \in [Threads -> Prios],
         NEW st, NEW r, ReadyRight(r, st, priority),
         NEW e \in Seq(Threads), NoneTwice(e), \A t \in Elems(e) : st[t] # "ready"
  PROVE  ReadyRight(TimedOut(r, e), Readied(st, Elems(e)), priority)
  <1>. DEFINE s == Readied(st, Elems(e))
              l == [p \in Prios |-> r.list[p] \o OfPriority(e, p)]
              g == r.group \cup {priority[t] : t \in Elems(e)}
              i == [list |-> l, group |-> g]
  <1>0. TimedOut(r, e) = i
    BY DEF TimedOut
  <1>1. /\ r \in ReadyType /\ r.list \in [Prios -> Seq(Threads)] /\ r.group \in SUBSET Prios
        /\ \A q \in Prios : r.list[q] \in Seq(Threads)
    BY ReadyTypes DEF ReadyRight
  <1>2. ASSUME NEW p \in Prios
        PROVE  /\ OfPriority(e, p) \in Seq(Threads)
               /\ Elems(OfPriority(e, p)) = {t \in Elems(e) : priority[t] = p}
               /\ NoneTwice(OfPriority(e, p))
    <2>. DEFINE I == {k \in 1 .. Len(e) : priority[e[k]] = p}
    <2>1. DOMAIN e = 1 .. Len(e) /\ Elems(e) = {e[k] : k \in 1 .. Len(e)}
      BY ListDomain
    <2>2. OfPriority(e, p) = Picked(e, I)
      BY <2>1 DEF OfPriority
    <2>3. I \in SUBSET (1 .. Len(e)) /\ {e[k] : k \in I} = {t \in Elems(e) : priority[t] = p}
      BY <2>1
    <2>. HIDE DEF I
    <2>4. /\ Picked(e, I) \in Seq(Threads) /\ Elems(Picked(e, I)) = {e[k] : k \in I}
          /\ Sublist(Picked(e, I), e)
      BY <2>3, PickedFacts
    <2>5. NoneTwice(Picked(e, I))
      BY <2>4, SublistOnce
    <2>. QED
      BY <2>2, <2>3, <2>4, <2>5
  <1>3. ASSUME NEW p \in Prios
        PROVE  /\ r.list[p] \o OfPriority(e, p) \in Seq(Threads)
               /\ Elems(r.list[p] \o OfPriority(e, p))
                    = Elems(r.list[p]) \cup {t \in Elems(e) : priority[t] = p}
               /\ NoneTwice(r.list[p] \o OfPriority(e, p))
               /\ r.list[p] \o OfPriority(e, p) = <<>>
                    <=> r.list[p] = <<>> /\ OfPriority(e, p) = <<>>
    <2>1. NoneTwice(r.list[p]) /\ Elems(e) \subseteq Threads
      BY ListDomain DEF ReadyRight
    <2>2. Elems(r.list[p]) \cap Elems(OfPriority(e, p)) = {}
      BY <1>2, <2>1 DEF ReadyRight
    <2>. QED
      BY <1>1, <1>2, <2>1, <2>2, ConcatFacts
  <1>4. Elems(e) \subseteq Threads
    BY ListDomain
  <1>5. /\ l \in [Prios -> Seq(Threads)] /\ g \in SUBSET Prios
        /\ \A p \in Prios : l[p] = r.list[p] \o OfPriority(e, p)
    BY <1>1, <1>3, <1>4
  <1>6. \A t \in Threads : s[t] = IF t \in Elems(e) THEN "ready" ELSE st[t]
    BY DEF Readied
  <1>7. \A p \in Prios : p \in g <=> p \in r.group \/ \E t \in Elems(e) : priority[t] = p
    OBVIOUS
  <1>. HIDE DEF l, g, s
  <1>8. i \in ReadyType /\ i.list = l /\ i.group = g
    BY <1>5, MadeReady
  <1>. HIDE DEF i
  <1>9. ASSUME NEW p \in Prios
        PROVE  NoneTwice(i.list[p]) /\ (p \in i.group <=> i.list[p] # <<>>)
    <2>1. p \in r.group <=> r.list[p] # <<>>
      BY DEF ReadyRight
    <2>2. OfPriority(e, p) # <<>> <=> \E t \in Elems(e) : priority[t] = p
      <3>1. OfPriority(e, p) = <<>> <=> Elems(OfPriority(e, p)) = {}
        BY <1>2, ListDomain
      <3>. QED
        BY <1>2, <3>1
    <2>. QED
      BY <1>3, <1>5, <1>7, <1>8, <2>1, <2>2
  <1>10. ASSUME NEW p \in Prios, NEW u \in Threads
         PROVE  u \in Elems(i.list[p]) <=> s[u] = "ready" /\ priority[u] = p
    <2>1. u \in Elems(r.list[p]) <=> st[u] = "ready" /\ priority[u] = p
      BY DEF ReadyRight
    <2>2. u \in Elems(i.list[p])
            <=> u \in Elems(r.list[p]) \/ (u \in Elems(e) /\ priority[u] = p)
      BY <1>3, <1>5, <1>8
    <2>. QED
      BY <1>6, <2>1, <2>2
  <1>. QED
    BY <1>0, <1>8, <1>9, <1>10 DEF ReadyRight, s

\* rt_schedule() finds a ready thread, or goes on with the one that locked it.
LEMMA ChosenFacts ==
  ASSUME NEW st, NEW pr \in [Threads -> Prios], NEW r, ReadyRight(r, st, pr),
         NEW t \in Threads, st[t] = "ready"
  PROVE  IF lockNest > 0 THEN Chosen(r) = current
         ELSE Chosen(r) \in Threads /\ st[Chosen(r)] = "ready"
  <1>1. CASE lockNest > 0
    BY <1>1 DEF Chosen
  <1>2. CASE ~(lockNest > 0)
    <2>. DEFINE p == CHOOSE p \in r.group : \A q \in r.group : p <= q
    <2>1. /\ r \in ReadyType /\ r.group \in SUBSET Prios
          /\ \A q \in Prios : r.list[q] \in Seq(Threads)
      BY ReadyTypes DEF ReadyRight
    <2>2. r.group # {} /\ r.group \in SUBSET Nat
      <3>1. t \in Elems(r.list[pr[t]]) /\ pr[t] \in Prios
        BY DEF ReadyRight
      <3>2. r.list[pr[t]] # <<>>
        BY <2>1, <3>1, ListDomain
      <3>3. pr[t] \in r.group
        BY <3>1, <3>2 DEF ReadyRight
      <3>4. Prios \subseteq Nat
        BY DEF Prios
      <3>. QED
        BY <2>1, <3>3, <3>4
    <2>3. p \in r.group
      BY <2>2, LeastNumber
    <2>4. Chosen(r) = IF r.list[p] = <<>> THEN NoThread ELSE Head(r.list[p])
      BY <1>2 DEF Chosen
    <2>. HIDE DEF p
    <2>5. p \in Prios /\ r.list[p] # <<>> /\ r.list[p] \in Seq(Threads)
      BY <2>1, <2>3 DEF ReadyRight
    <2>6. Head(r.list[p]) \in Elems(r.list[p]) /\ Head(r.list[p]) \in Threads
      BY <2>5, TailFacts
    <2>. QED
      BY <1>2, <2>4, <2>5, <2>6 DEF ReadyRight
  <1>. QED
    BY <1>1, <1>2

-----------------------------------------------------------------------------
\* The threads whose timers rt_timer_check() finds expired, and the timers it leaves.

LEMMA ExpiredFacts ==
  ASSUME timers \in Seq(TimerSet), NEW now
  PROVE  LET e == Expired(now)
             rest == SubSeq(timers, Len(e) + 1, Len(timers))
         IN /\ e \in Seq(Threads) /\ Len(e) \in 0 .. Len(timers)
            /\ \A i \in 1 .. Len(e) : e[i] = timers[i].thread /\ IsDue(i, now)
            /\ Len(e) < Len(timers) => ~IsDue(Len(e) + 1, now)
            /\ Elems(e) \subseteq Timed(timers)
            /\ rest \in Seq(TimerSet) /\ Sublist(rest, timers)
            /\ Elems(rest) = {timers[i] : i \in Len(e) + 1 .. Len(timers)}
            /\ RunningOnce(timers) =>
                 /\ NoneTwice(e) /\ RunningOnce(rest)
                 /\ Timed(rest) = Timed(timers) \ Elems(e)
  <1>. DEFINE N == {k \in DOMAIN timers : \A i \in 1 .. k : IsDue(i, now)}
              P == {i \in 1 .. Len(timers) : ~IsDue(i, now)}
              e == Expired(now)
              rest == SubSeq(timers, Len(e) + 1, Len(timers))
  <1>0. /\ Len(timers) \in Nat /\ DOMAIN timers = 1 .. Len(timers)
        /\ \A i \in 1 .. Len(timers) : /\ timers[i].thread \in Threads /\ timers[i] \in TimerSet
                                       /\ timers[i].thread \in Timed(timers)
        /\ \A t \in Timed(timers) : \E i \in 1 .. Len(timers) : timers[i].thread = t
    BY TimedDomain, ListDomain
  <1>1. \E k \in 0 .. Len(timers) : (\A i \in 1 .. k : i \notin P)
                                    /\ (k < Len(timers) => k + 1 \in P)
    <2>. HIDE DEF P
    <2>. QED
      BY <1>0, FirstPlace
  <1>2. PICK k \in 0 .. Len(timers) : (\A i \in 1 .. k : i \notin P)
                                      /\ (k < Len(timers) => k + 1 \in P)
    BY <1>1
  <1>3. (\A i \in 1 .. k : IsDue(i, now)) /\ (k < Len(timers) => ~IsDue(k + 1, now)) /\ k \in Nat
    BY <1>0, <1>2
  <1>4. N = 1 .. k
    <2>1. \A j \in 1 .. Len(timers) : j \in N <=> j <= k
      <3>. SUFFICES ASSUME NEW j \in 1 .. Len(timers) PROVE j \in N <=> j <= k
        OBVIOUS
      <3>1. CASE j <= k
        BY <1>0, <1>3, <3>1
      <3>2. CASE j > k
        <4>1. k + 1 \in 1 .. j /\ k < Len(timers)
          BY <1>0, <1>3, <3>2
        <4>. QED
          BY <1>0, <1>3, <3>2, <4>1
      <3>. QED
        BY <1>0, <1>3, <3>1, <3>2
    <2>2. N \subseteq 1 .. Len(timers)
      BY <1>0
    <2>. HIDE DEF N
    <2>3. \A j \in 1 .. Len(timers) : j \in 1 .. k <=> j <= k
      BY <1>0, <1>3
    <2>4. 1 .. k \subseteq 1 .. Len(timers)
      BY <1>0, <1>2
    <2>. QED
      BY <2>1, <2>2, <2>3, <2>4
  <1>5. Cardinality(N) = k
    <2>1. Cardinality(1 .. k) = IF 1 > k THEN 0 ELSE k - 1 + 1
      BY <1>3, FS_Interval
    <2>. HIDE DEF N
    <2>. QED
      BY <1>3, <1>4, <2>1
  <1>6. e = [i \in 1 .. k |-> timers[i].thread]
    BY <1>5 DEF Expired
  <1>. HIDE DEF N, P, e
  <1>7. \A i \in 1 .. k : i \in 1 .. Len(timers) /\ e[i] = timers[i].thread /\ e[i] \in Threads
    BY <1>0, <1>2, <1>6
  <1>8. e \in Seq(Threads) /\ Len(e) = k
    <2>1. e \in [1 .. k -> Threads]
      BY <1>6, <1>7
    <2>. QED
      BY <1>3, <2>1, IsASeq, LenProperties
  <1>9. Elems(e) = {e[i] : i \in 1 .. k}
    BY <1>8, ListDomain
  <1>10. Elems(e) \subseteq Timed(timers)
    BY <1>0, <1>7, <1>9
  <1>11. /\ rest \in Seq(TimerSet) /\ Len(rest) = Len(timers) - k
         /\ \A i \in 1 .. Len(timers) - k : rest[i] = timers[k + i]
    <2>1. rest = SubSeq(timers, k + 1, Len(timers))
      BY <1>8
    <2>. HIDE DEF rest
    <2>2. \A i \in k + 1 .. Len(timers) : i \in 1 .. Len(timers) /\ timers[i] \in TimerSet
      BY <1>0, <1>3
    <2>3. /\ rest \in Seq(TimerSet)
          /\ Len(rest) = IF k + 1 <= Len(timers) THEN Len(timers) - (k + 1) + 1 ELSE 0
          /\ \A i \in 1 .. Len(timers) - (k + 1) + 1 : rest[i] = timers[(k + 1) + i - 1]
      <3>1. k + 1 \in Int /\ Len(timers) \in Int
        BY <1>0, <1>3
      <3>. QED
        BY <2>1, <2>2, <3>1, SubSeqProperties
    <2>4. /\ Len(timers) - (k + 1) + 1 = Len(timers) - k
          /\ \A i \in 1 .. Len(timers) - k : (k + 1) + i - 1 = k + i
      BY <1>0, <1>3
    <2>5. k \in Nat /\ k <= Len(timers) /\ Len(timers) \in Nat
      BY <1>0, <1>2
    <2>6. Len(rest) = Len(timers) - k
      BY <2>3, <2>5
    <2>7. \A i \in 1 .. Len(timers) - k : rest[i] = timers[k + i]
      BY <2>3, <2>4
    <2>. QED
      BY <2>3, <2>6, <2>7
  <1>. HIDE DEF rest
  <1>12. /\ \A i \in 1 .. Len(timers) - k : k + i \in k + 1 .. Len(timers)
         /\ \A i \in k + 1 .. Len(timers) : i - k \in 1 .. Len(timers) - k /\ k + (i - k) = i
         /\ \A i \in k + 1 .. Len(timers) : i \in 1 .. Len(timers)
    BY <1>0, <1>3
  <1>13. Elems(rest) = {timers[i] : i \in k + 1 .. Len(timers)}
    <2>1. Elems(rest) = {rest[i] : i \in 1 .. Len(timers) - k}
      BY <1>11, ListDomain
    <2>2. \A i \in 1 .. Len(timers) - k : rest[i] \in {timers[j] : j \in k + 1 .. Len(timers)}
      BY <1>11, <1>12
    <2>3. \A i \in k + 1 .. Len(timers) : timers[i] = rest[i - k]
      BY <1>11, <1>12
    <2>4. \A i \in k + 1 .. Len(timers) : timers[i] \in Elems(rest)
      BY <1>12, <2>1, <2>3
    <2>. QED
      BY <2>1, <2>2, <2>4
  <1>14. Sublist(rest, timers)
    <2>1. \A i, j \in 1 .. Len(timers) - k : i < j => k + i < k + j
      BY <1>0, <1>3
    <2>. QED
      BY <1>11, <1>12, <2>1 DEF Sublist
  <1>15. ASSUME RunningOnce(timers)
         PROVE  /\ NoneTwice(e) /\ RunningOnce(rest)
                /\ Timed(rest) = Timed(timers) \ Elems(e)
    <2>1. NoneTwice(e)
      BY <1>7, <1>8, <1>15 DEF NoneTwice, RunningOnce
    <2>2. RunningOnce(rest)
      BY <1>11, <1>14, <1>15, SublistTimers
    <2>3. Timed(rest) = {timers[i].thread : i \in k + 1 .. Len(timers)}
      BY <1>13 DEF Timed
    <2>4. \A i \in k + 1 .. Len(timers), j \in 1 .. k : timers[i].thread # timers[j].thread
      <3>1. \A i \in k + 1 .. Len(timers), j \in 1 .. k : i # j /\ j \in 1 .. Len(timers)
        BY <1>0, <1>3, <1>7
      <3>. QED
        BY <1>12, <1>15, <3>1 DEF RunningOnce
    <2>5. \A i \in 1 .. Len(timers) : i \in 1 .. k \/ i \in k + 1 .. Len(timers)
      BY <1>0, <1>3
    <2>6. Timed(rest) \subseteq Timed(timers) \ Elems(e)
      BY <1>0, <1>7, <1>9, <1>12, <2>3, <2>4
    <2>7. Timed(timers) \ Elems(e) \subseteq Timed(rest)
      BY <1>0, <1>7, <1>9, <2>3, <2>5
    <2>. QED
      BY <2>1, <2>2, <2>6, <2>7
  <1>. QED
    BY <1>2, <1>3, <1>7, <1>8, <1>10, <1>11, <1>13, <1>14, <1>15 DEF e, rest
-----------------------------------------------------------------------------
\* rt_event_send(): the threads it resumes, each with what it got of the bits it waits
\* for, and what it leaves of them in the event.

WantedType == [bits : SUBSET Bits, all : BOOLEAN, clear : BOOLEAN]
Content(t, g) == /\ g \subseteq wanted[t].bits /\ (wanted[t].all => g = wanted[t].bits)
                 /\ g = {} => wanted[t].bits = {}

\* How far the walk through the list w has come, from the bits s, after i threads.
PassedRight(w, s, i, a) ==
  /\ a = [set |-> a.set, resumed |-> a.resumed]
  /\ a.set \subseteq s /\ a.resumed \in Seq(Threads \X SUBSET Bits)
  /\ \A k \in 1 .. Len(a.resumed) : /\ \E j \in 1 .. i : a.resumed[k][1] = w[j]
                                    /\ Content(a.resumed[k][1], a.resumed[k][2])
  /\ \A k, n \in 1 .. Len(a.resumed) : k < n =>
       \E j, m \in 1 .. i : j < m /\ a.resumed[k][1] = w[j] /\ a.resumed[n][1] = w[m]
  /\ \A j \in 1 .. i : \/ \E k \in 1 .. Len(a.resumed) : a.resumed[k][1] = w[j]
                       \/ ~Met(w[j], a.set)

\* One more thread.
PassedOne(u, p) ==
  IF ~Met(u, p.set) THEN p
  ELSE [set |-> IF wanted[u].clear THEN p.set \ Got(u, p.set) ELSE p.set,
        resumed |-> Append(p.resumed, <<u, Got(u, p.set)>>)]

LEMMA PassedStep ==
  ASSUME wanted \in [Threads -> WantedType], NEW s \in SUBSET Bits,
         NEW w \in Seq(Threads), NEW i \in 1 .. Len(w),
         NEW p, PassedRight(w, s, i - 1, p)
  PROVE  PassedRight(w, s, i, PassedOne(w[i], p))
  <1>. DEFINE u == w[i]
              g == Got(u, p.set)
              left1 == IF wanted[u].clear THEN p.set \ g ELSE p.set
              more == Append(p.resumed, <<u, g>>)
              a == [set |-> left1, resumed |-> more]
              n == Len(p.resumed)
  <1>0. /\ Len(w) \in Nat /\ i \in Nat /\ \A j \in 1 .. Len(w) : w[j] \in Threads
        /\ u \in Threads /\ i - 1 \in Nat
        /\ \A t \in Threads : /\ wanted[t].bits \in SUBSET Bits /\ wanted[t].all \in BOOLEAN
                              /\ wanted[t].clear \in BOOLEAN
    <2>1. \A t \in Threads : wanted[t] \in WantedType
      OBVIOUS
    <2>2. \A x \in WantedType : x.bits \in SUBSET Bits /\ x.all \in BOOLEAN /\ x.clear \in BOOLEAN
      BY DEF WantedType
    <2>. QED
      BY <2>1, <2>2, ListDomain
  <1>1. /\ p = [set |-> p.set, resumed |-> p.resumed]
        /\ p.set \subseteq s /\ p.resumed \in Seq(Threads \X SUBSET Bits)
        /\ \A k \in 1 .. n : /\ \E j \in 1 .. i - 1 : p.resumed[k][1] = w[j]
                             /\ Content(p.resumed[k][1], p.resumed[k][2])
        /\ \A k, m \in 1 .. n : k < m =>
             \E j, h \in 1 .. i - 1 : j < h /\ p.resumed[k][1] = w[j] /\ p.resumed[m][1] = w[h]
        /\ \A j \in 1 .. i - 1 : \/ \E k \in 1 .. n : p.resumed[k][1] = w[j]
                                 \/ ~Met(w[j], p.set)
    BY DEF PassedRight
  <1>2. /\ \A j \in 1 .. i : j \in 1 .. i - 1 \/ j = i
        /\ \A j \in 1 .. i - 1 : j \in 1 .. i /\ j < i
        /\ i \in 1 .. i
    BY <1>0
  <1>3. CASE ~Met(u, p.set)
    <2>1. PassedOne(u, p) = p
      BY <1>3 DEF PassedOne
    <2>2. \A j \in 1 .. i : \/ \E k \in 1 .. n : p.resumed[k][1] = w[j]
                            \/ ~Met(w[j], p.set)
      BY <1>1, <1>2, <1>3
    <2>3. \A k \in 1 .. n : \E j \in 1 .. i : p.resumed[k][1] = w[j]
      BY <1>1, <1>2
    <2>4. \A k, m \in 1 .. n : k < m =>
             \E j, h \in 1 .. i : j < h /\ p.resumed[k][1] = w[j] /\ p.resumed[m][1] = w[h]
      <3>. SUFFICES ASSUME NEW k \in 1 .. n, NEW m \in 1 .. n, k < m
                    PROVE  \E j, h \in 1 .. i : /\ j < h /\ p.resumed[k][1] = w[j]
                                                /\ p.resumed[m][1] = w[h]
        OBVIOUS
      <3>1. PICK j \in 1 .. i - 1, h \in 1 .. i - 1 :
              j < h /\ p.resumed[k][1] = w[j] /\ p.resumed[m][1] = w[h]
        BY <1>1
      <3>. QED
        BY <1>2, <3>1
    <2>5. \A k \in 1 .. n : Content(p.resumed[k][1], p.resumed[k][2])
      BY <1>1
    <2>6. p = [set |-> p.set, resumed |-> p.resumed] /\ p.set \subseteq s
          /\ p.resumed \in Seq(Threads \X SUBSET Bits)
      BY <1>1
    <2>7. PassedRight(w, s, i, p)
      BY <2>2, <2>3, <2>4, <2>5, <2>6 DEF PassedRight
    <2>. QED
      BY <2>1, <2>7
  <1>4. CASE Met(u, p.set)
    <2>1. PassedOne(u, p) = a
      BY <1>4 DEF PassedOne
    <2>2. /\ g \in SUBSET Bits /\ Content(u, g)
      BY <1>0, <1>1, <1>4 DEF Met, Got, Content
    <2>3. left1 \subseteq p.set
      OBVIOUS
    <2>4. \A t \in Threads : Met(t, left1) => Met(t, p.set)
      <3>. HIDE DEF left1
      <3>. QED
        BY <2>3 DEF Met
    <2>. HIDE DEF g, left1
    <2>5. <<u, g>> \in Threads \X SUBSET Bits
      BY <1>0, <2>2
    <2>6. /\ more \in Seq(Threads \X SUBSET Bits) /\ Len(more) = n + 1 /\ more[n + 1] = <<u, g>>
          /\ \A k \in 1 .. n : more[k] = p.resumed[k]
      BY <1>1, <2>5, AppendProperties
    <2>7. /\ n \in Nat
          /\ \A k \in 1 .. n + 1 : k \in 1 .. n \/ k = n + 1
          /\ \A k \in 1 .. n : k \in 1 .. n + 1
          /\ n + 1 \in 1 .. n + 1
          /\ \A k, m \in 1 .. n + 1 : k < m => k \in 1 .. n
      BY <1>1, LenProperties
    <2>8. /\ more[n + 1][1] = u /\ more[n + 1][2] = g
          /\ \A k \in 1 .. n : more[k][1] = p.resumed[k][1] /\ more[k][2] = p.resumed[k][2]
      BY <2>6
    <2>9. a = [set |-> a.set, resumed |-> a.resumed] /\ a.set = left1 /\ a.resumed = more
      OBVIOUS
    <2>. HIDE DEF more, a, n
    <2>10. \A k \in 1 .. n + 1 : /\ \E j \in 1 .. i : more[k][1] = w[j]
                                 /\ Content(more[k][1], more[k][2])
      <3>1. \A k \in 1 .. n : /\ \E j \in 1 .. i : more[k][1] = w[j]
                              /\ Content(more[k][1], more[k][2])
        BY <1>1, <1>2, <2>8
      <3>2. /\ \E j \in 1 .. i : more[n + 1][1] = w[j]
            /\ Content(more[n + 1][1], more[n + 1][2])
        BY <1>2, <2>2, <2>8
      <3>. QED
        BY <2>7, <3>1, <3>2
    <2>11. ASSUME NEW k \in 1 .. n + 1, NEW m \in 1 .. n + 1, k < m
           PROVE  \E j, h \in 1 .. i : j < h /\ more[k][1] = w[j] /\ more[m][1] = w[h]
      <3>1. k \in 1 .. n
        BY <2>7, <2>11
      <3>2. CASE m \in 1 .. n
        <4>1. PICK j \in 1 .. i - 1, h \in 1 .. i - 1 :
                j < h /\ p.resumed[k][1] = w[j] /\ p.resumed[m][1] = w[h]
          BY <1>1, <2>11, <3>1, <3>2
        <4>. QED
          BY <1>2, <2>8, <3>1, <3>2, <4>1
      <3>3. CASE m = n + 1
        BY <1>1, <1>2, <2>8, <3>1, <3>3
      <3>. QED
        BY <2>7, <3>2, <3>3
    <2>12. ASSUME NEW j \in 1 .. i
           PROVE  \/ \E k \in 1 .. n + 1 : more[k][1] = w[j]
                  \/ ~Met(w[j], left1)
      <3>1. CASE j = i
        BY <2>7, <2>8, <3>1
      <3>2. CASE j \in 1 .. i - 1
        <4>1. w[j] \in Threads
          BY <1>0, <3>2
        <4>. QED
          BY <1>1, <2>4, <2>7, <2>8, <3>2, <4>1
      <3>. QED
        BY <1>2, <3>1, <3>2
    <2>13. left1 \subseteq s
      BY <1>1, <2>3
    <2>14. Len(a.resumed) = n + 1 /\ a.resumed \in Seq(Threads \X SUBSET Bits)
      BY <2>6, <2>9
    <2>15. /\ \A k \in 1 .. n + 1 : /\ \E j \in 1 .. i : a.resumed[k][1] = w[j]
                                    /\ Content(a.resumed[k][1], a.resumed[k][2])
           /\ \A j \in 1 .. i : \/ \E k \in 1 .. n + 1 : a.resumed[k][1] = w[j]
                                \/ ~Met(w[j], a.set)
           /\ a.set \subseteq s
      BY <2>9, <2>10, <2>12, <2>13
    <2>16. \A k, m \in 1 .. n + 1 : k < m =>
             \E j, h \in 1 .. i : j < h /\ a.resumed[k][1] = w[j] /\ a.resumed[m][1] = w[h]
      BY <2>9, <2>11
    <2>. QED
      BY <2>1, <2>9, <2>14, <2>15, <2>16 DEF PassedRight
  <1>. QED
    BY <1>3, <1>4

LEMMA PassedFacts ==
  ASSUME wanted \in [Threads -> WantedType], NEW s \in SUBSET Bits,
         waitList[Event] \in Seq(Threads)
  PROVE  PassedRight(waitList[Event], s, Len(waitList[Event]), Passed(s))
  <1>. DEFINE w == waitList[Event]
              start == [set |-> s, resumed |-> <<>>]
              F(m, f) == [i \in 0 .. m |-> IF i = 0 THEN start ELSE PassedOne(w[i], f[i - 1])]
              after == CHOOSE f : f = F(Len(w), f)
  <1>1. Passed(s) = after[Len(w)]
    BY DEF Passed, PassedOne
  <1>2. w \in Seq(Threads) /\ Len(w) \in Nat
    BY ListDomain
  <1>. HIDE DEF w
  <1>3. \A m \in Nat : \E f : f = F(m, f)
    <2>. DEFINE Bad == {m \in Nat : ~\E f : f = F(m, f)}
    <2>. SUFFICES ASSUME Bad # {} PROVE FALSE
      OBVIOUS
    <2>1. PICK m \in Bad : \A q \in Bad : m <= q
      <3>1. Bad \in SUBSET Nat
        OBVIOUS
      <3>. HIDE DEF Bad
      <3>. QED
        BY <3>1, LeastNumber
    <2>2. m \in Nat /\ ~\E f : f = F(m, f)
      OBVIOUS
    <2>3. m # 0
      <3>1. SUFFICES ASSUME m = 0 PROVE \E f : f = F(m, f)
        BY <2>2
      <3>. DEFINE f0 == [i \in 0 .. 0 |-> start]
      <3>2. f0 = F(0, f0)
        OBVIOUS
      <3>. QED
        BY <3>1, <3>2
    <2>4. m - 1 \in Nat /\ m - 1 \notin Bad
      <3>. HIDE DEF Bad
      <3>. QED
        BY <2>1, <2>2, <2>3
    <2>5. PICK f : f = F(m - 1, f)
      BY <2>4
    <2>. DEFINE g == [i \in 0 .. m |-> IF i = 0 THEN start ELSE PassedOne(w[i], f[i - 1])]
    <2>6. \A i \in 0 .. m - 1 : g[i] = f[i]
      BY <2>2, <2>5
    <2>7. g = F(m, g)
      <3>1. \A i \in 0 .. m : i = 0 \/ i - 1 \in 0 .. m - 1
        BY <2>2
      <3>2. \A i \in 0 .. m : g[i] = IF i = 0 THEN start ELSE PassedOne(w[i], g[i - 1])
        BY <2>6, <3>1
      <3>. QED
        BY <3>2
    <2>. QED
      BY <2>2, <2>7
  <1>4. after = F(Len(w), after)
    <2>1. \E f : f = F(Len(w), f)
      BY <1>2, <1>3
    <2>. QED
      BY <2>1
  <1>. HIDE DEF after
  <1>5. /\ after[0] = start
        /\ \A i \in 1 .. Len(w) : after[i] = PassedOne(w[i], after[i - 1])
    <2>1. \A i \in 0 .. Len(w) : after[i] = IF i = 0 THEN start
                                            ELSE PassedOne(w[i], after[i - 1])
      BY <1>4
    <2>2. 0 \in 0 .. Len(w) /\ \A i \in 1 .. Len(w) : i \in 0 .. Len(w) /\ i # 0
      BY <1>2
    <2>. HIDE DEF start
    <2>. QED
      BY <2>1, <2>2
  <1>6. \A i \in Nat : i <= Len(w) => PassedRight(w, s, i, after[i])
    <2>. DEFINE Bad == {i \in Nat : i <= Len(w) /\ ~PassedRight(w, s, i, after[i])}
    <2>. SUFFICES ASSUME Bad # {} PROVE FALSE
      OBVIOUS
    <2>1. PICK m \in Bad : \A q \in Bad : m <= q
      <3>1. Bad \in SUBSET Nat
        OBVIOUS
      <3>. HIDE DEF Bad
      <3>. QED
        BY <3>1, LeastNumber
    <2>2. m \in Nat /\ m <= Len(w) /\ ~PassedRight(w, s, m, after[m])
      OBVIOUS
    <2>3. PassedRight(w, s, 0, start)
      <3>1. start.set = s /\ start.resumed = <<>> /\ Len(<<>>) = 0
        OBVIOUS
      <3>2. start = [set |-> start.set, resumed |-> start.resumed]
        OBVIOUS
      <3>3. <<>> \in Seq(Threads \X SUBSET Bits)
        OBVIOUS
      <3>. HIDE DEF start
      <3>. QED
        BY <3>1, <3>2, <3>3 DEF PassedRight
    <2>4. m # 0
      BY <1>5, <2>2, <2>3
    <2>5. m - 1 \in Nat /\ m - 1 <= Len(w) /\ m - 1 \notin Bad /\ m \in 1 .. Len(w)
      BY <1>2, <2>1, <2>2, <2>4
    <2>6. PassedRight(w, s, m - 1, after[m - 1])
      BY <2>5
    <2>. HIDE DEF Bad
    <2>7. PassedRight(w, s, m, PassedOne(w[m], after[m - 1]))
      BY <1>2, <2>5, <2>6, PassedStep
    <2>. QED
      BY <1>5, <2>2, <2>5, <2>7
  <1>. QED
    BY <1>1, <1>2, <1>6 DEF w

-----------------------------------------------------------------------------
\* The applications the theorems are about: the idle thread makes no calls, and no thread
\* suspends, detaches or reprioritizes others, which reads their state with interrupts
\* enabled and acts on it later.
Unmanaged == \A e \in does : e[1] # Idle /\ e[2] \notin {"suspend", "detach", "priority"}

\* The sections that follow a wait, those that follow none, and the calls they make up.
Sch == <<"schedule">>
IsEnd(e) ==
  \/ e = <<"slept">>
  \/ e \in {"sem_end"} \X Sems \/ e \in {"mutex_end"} \X Mutexes
  \/ e \in {"event_end"} \X SUBSET Bits
  \/ e \in {"send_again"} \X Msgs \X Int
  \/ e \in {"recv_again", "mq_again", "mp_woken"} \X Int
IsWork(e) == e[1] \in {"mq_send", "mq_urgent", "mq_copy"} \/ e \in {"mp_again"} \X Int
Starts(c, u) ==
  \/ c = <<<<"unlink", u>>, <<"insert", u>>, Sch>>
  \/ c = <<<<"insert", u>>, Sch>>
IsCall(c) ==
  \/ c = <<>> \/ c = <<Sch>>
  \/ c = <<c[1]>> /\ (IsEnd(c[1]) \/ IsWork(c[1]))
  \/ c = <<Sch, c[2]>> /\ IsEnd(c[2])
  \/ \E u \in Threads : Starts(c, u)

\* The call c waits, or may yet, and waits in the list l.
Waiting(c)  == c # <<>> /\ IsEnd(c[Len(c)])
Blocking(c) == c # <<>> /\ (IsEnd(c[Len(c)]) \/ c[Len(c)][1] = "mp_again")
EndIn(e, l) ==
  \/ e[1] \in {"sem_end", "mutex_end"} /\ e[2] = l
  \/ e[1] = "event_end" /\ l = Event
  \/ e[1] = "send_again" /\ l = Senders
  \/ e[1] = "recv_again" /\ l = Receivers
  \/ e[1] = "mq_again" /\ l = Queue
  \/ e[1] = "mp_woken" /\ l = Pool
WaitingIn(c, l) == Waiting(c) /\ EndIn(c[Len(c)], l)
-----------------------------------------------------------------------------
\* The invariant behind ThreadsListed.

KernelTypes ==
  /\ stat \in [Threads -> Stats] /\ priority \in [Threads -> Prios]
  /\ lockNest \in Nat /\ tick \in Ticks /\ timers \in Seq(TimerSet)
  /\ waitList \in [Lists -> Seq(Threads)]
  /\ spent \in [Threads -> Int]
  /\ wanted \in [Threads -> WantedType] /\ set \in SUBSET Bits
  /\ value \in [Objects -> Nat] /\ owner \in [Mutexes -> Threads \cup {NoThread}]
  /\ original \in [Mutexes -> 0 .. Never]

\* What each thread executes.
CallsRight ==
  /\ todo = [t \in Threads |-> todo[t]] /\ \A t \in Threads : IsCall(todo[t])
  /\ \A t \in Threads : stat[t] = "init" => todo[t] = <<>>
  /\ stat[Idle] = "ready" /\ todo[Idle] \in {<<>>, <<Sch>>}

\* A thread that is being started is suspended, by one other thread, and waits for nothing.
StartsRight ==
  \A x, u \in Threads : Starts(todo[x], u) =>
    /\ stat[u] = "suspend" /\ todo[u] = <<>>
    /\ \A y \in Threads : Starts(todo[y], u) => y = x

\* The thread that runs is ready, or about to call rt_schedule().
CurrentRight ==
  /\ current \in Threads
  /\ stat[current] = "ready" \/ (todo[current] # <<>> /\ todo[current][1] = Sch)
  /\ lockNest > 0 => stat[current] = "ready" /\ ~Blocking(todo[current])

\* Those in a suspend list, and those with a timer, wait.
ListsRight ==
  \A l \in Lists : NoneTwice(waitList[l]) /\ \A t \in Elems(waitList[l]) :
                     stat[t] = "suspend" /\ WaitingIn(todo[t], l)
TimedRight ==
  RunningOnce(timers) /\ \A t \in Timed(timers) : stat[t] = "suspend" /\ Waiting(todo[t])

\* A mutex that is not free has an owner, with a priority to go back to.
OwnersRight ==
  \A m \in Mutexes : \/ owner[m] \in Threads /\ original[m] \in Prios /\ value[m] = 0
                     \/ owner[m] = NoThread /\ value[m] = 1

ListInv ==
  /\ ReadyRight(ready, stat, priority)
  /\ CallsRight /\ StartsRight /\ CurrentRight /\ ListsRight /\ TimedRight
ThreadInv == Unmanaged /\ KernelTypes /\ ListInv /\ OwnersRight

\* The shapes of calls.
LEMMA CallFacts ==
  /\ IsCall(<<>>) /\ ~Blocking(<<>>) /\ ~Waiting(<<>>) /\ \A u : ~Starts(<<>>, u)
  /\ IsCall(<<Sch>>) /\ ~Blocking(<<Sch>>) /\ ~Waiting(<<Sch>>) /\ \A u : ~Starts(<<Sch>>, u)
  /\ \A e : IsEnd(e) =>
       /\ IsCall(<<e>>) /\ IsCall(<<Sch, e>>)
       /\ Blocking(<<e>>) /\ Blocking(<<Sch, e>>) /\ Waiting(<<e>>) /\ Waiting(<<Sch, e>>)
       /\ \A u : ~Starts(<<e>>, u) /\ ~Starts(<<Sch, e>>, u)
       /\ \A l : WaitingIn(<<e>>, l) <=> EndIn(e, l)
       /\ \A l : WaitingIn(<<Sch, e>>, l) <=> EndIn(e, l)
  /\ \A e : IsWork(e) => /\ IsCall(<<e>>) /\ ~Waiting(<<e>>) /\ \A u : ~Starts(<<e>>, u)
                         /\ Blocking(<<e>>) => e[1] = "mp_again"
  <1>1. /\ IsCall(<<>>) /\ ~Blocking(<<>>) /\ ~Waiting(<<>>) /\ \A u : ~Starts(<<>>, u)
    <2>1. \A u : <<>> # <<<<"unlink", u>>, <<"insert", u>>, Sch>> /\ <<>> # <<<<"insert", u>>, Sch>>
      OBVIOUS
    <2>. QED
      BY <2>1 DEF IsCall, Blocking, Waiting, Starts
  <1>2. ~IsEnd(Sch)
    <2>1. Len(Sch) = 1 /\ Sch[1] = "schedule"
      BY DEF Sch
    <2>. QED
      BY <2>1 DEF IsEnd
  <1>3. /\ IsCall(<<Sch>>) /\ ~Blocking(<<Sch>>) /\ ~Waiting(<<Sch>>)
        /\ \A u : ~Starts(<<Sch>>, u)
    <2>1. Len(<<Sch>>) = 1 /\ <<Sch>>[1] = Sch /\ Sch[1] = "schedule"
      BY DEF Sch
    <2>2. \A u : /\ Len(<<<<"unlink", u>>, <<"insert", u>>, Sch>>) = 3
                 /\ Len(<<<<"insert", u>>, Sch>>) = 2
      OBVIOUS
    <2>. QED
      BY <1>2, <2>1, <2>2 DEF IsCall, Blocking, Waiting, Starts
  <1>4. ASSUME NEW e
        PROVE  /\ <<e>>[1] = e /\ Len(<<e>>) = 1 /\ <<e>> # <<>>
               /\ <<Sch, e>>[1] = Sch /\ <<Sch, e>>[2] = e /\ Len(<<Sch, e>>) = 2
               /\ <<Sch, e>> # <<>>
               /\ \A u : ~Starts(<<e>>, u) /\ ~Starts(<<Sch, e>>, u)
    <2>1. \A u : /\ Len(<<<<"unlink", u>>, <<"insert", u>>, Sch>>) = 3
                 /\ Len(<<<<"insert", u>>, Sch>>) = 2
                 /\ <<<<"insert", u>>, Sch>>[1] = <<"insert", u>>
                 /\ <<"insert", u>>[1] = "insert"
      OBVIOUS
    <2>2. Sch[1] = "schedule"
      BY DEF Sch
    <2>3. Len(<<e>>) = 1 /\ Len(<<Sch, e>>) = 2 /\ <<Sch, e>>[1] = Sch
      OBVIOUS
    <2>4. \A u : ~Starts(<<e>>, u) /\ ~Starts(<<Sch, e>>, u)
      BY <2>1, <2>2, <2>3 DEF Starts
    <2>. QED
      BY <2>4
  <1>5. ASSUME NEW e, IsEnd(e)
        PROVE  /\ IsCall(<<e>>) /\ IsCall(<<Sch, e>>)
               /\ Blocking(<<e>>) /\ Blocking(<<Sch, e>>) /\ Waiting(<<e>>) /\ Waiting(<<Sch, e>>)
               /\ \A l : WaitingIn(<<e>>, l) <=> EndIn(e, l)
               /\ \A l : WaitingIn(<<Sch, e>>, l) <=> EndIn(e, l)
    BY <1>4, <1>5 DEF IsCall, Blocking, Waiting, WaitingIn
  <1>6. ASSUME NEW e, IsWork(e)
        PROVE  /\ IsCall(<<e>>) /\ ~Waiting(<<e>>)
               /\ Blocking(<<e>>) => e[1] = "mp_again"
    <2>1. /\ e[1] \in {"mq_send", "mq_urgent", "mq_copy", "mp_again"}
      BY <1>6 DEF IsWork
    <2>2. ~IsEnd(e)
      <3>1. <<"slept">>[1] = "slept"
        OBVIOUS
      <3>. QED
        BY <2>1, <3>1 DEF IsEnd
    <2>. QED
      BY <1>4, <1>6, <2>2 DEF IsCall, Waiting, Blocking
  <1>. QED
    BY <1>1, <1>3, <1>4, <1>5, <1>6

EndNames  == {"slept", "sem_end", "mutex_end", "event_end", "send_again", "recv_again",
              "mq_again", "mp_woken"}
WorkNames == {"mq_send", "mq_urgent", "mq_copy", "mp_again"}

LEMMA HeadFacts ==
  ASSUME NEW c, IsCall(c), c # <<>>
  PROVE  /\ Head(c) = c[1]
         /\ c[1][1] = "schedule" => c = <<Sch>> \/ \E e : IsEnd(e) /\ c = <<Sch, e>>
         /\ c[1][1] \in EndNames => c = <<c[1]>> /\ IsEnd(c[1])
         /\ c[1][1] \in WorkNames => c = <<c[1]>> /\ IsWork(c[1])
         /\ c[1][1] = "unlink" =>
              \E u \in Threads : c = <<<<"unlink", u>>, <<"insert", u>>, Sch>>
         /\ c[1][1] = "insert" => \E u \in Threads : c = <<<<"insert", u>>, Sch>>
         /\ c[1][1] \notin {"suspend", "remove", "stop", "close"}
  <1>1. \A e : /\ IsEnd(e) => e[1] \in EndNames
               /\ IsWork(e) => e[1] \in WorkNames
    <2>1. <<"slept">>[1] = "slept"
      OBVIOUS
    <2>. QED
      BY <2>1 DEF IsEnd, IsWork, EndNames, WorkNames
  <1>2. Sch[1] = "schedule"
    BY DEF Sch
  <1>3. CASE c = <<Sch>>
    <2>1. Head(c) = Sch /\ c[1] = Sch
      BY <1>3
    <2>. QED
      BY <1>2, <1>3, <2>1 DEF EndNames, WorkNames
  <1>4. CASE c = <<c[1]>> /\ (IsEnd(c[1]) \/ IsWork(c[1]))
    <2>1. Head(c) = c[1]
      BY <1>4
    <2>. QED
      BY <1>1, <1>4, <2>1 DEF EndNames, WorkNames
  <1>5. CASE c = <<Sch, c[2]>> /\ IsEnd(c[2])
    <2>1. Head(c) = Sch /\ c[1] = Sch
      BY <1>5
    <2>. QED
      BY <1>2, <1>5, <2>1 DEF EndNames, WorkNames
  <1>6. ASSUME NEW u \in Threads, c = <<<<"unlink", u>>, <<"insert", u>>, Sch>>
        PROVE  Head(c) = c[1] /\ c[1][1] = "unlink"
    BY <1>6
  <1>7. ASSUME NEW u \in Threads, c = <<<<"insert", u>>, Sch>>
        PROVE  Head(c) = c[1] /\ c[1][1] = "insert"
    BY <1>7
  <1>8. CASE \E u \in Threads : Starts(c, u)
    <2>1. PICK u \in Threads : Starts(c, u)
      BY <1>8
    <2>2. CASE c = <<<<"unlink", u>>, <<"insert", u>>, Sch>>
      BY <1>6, <2>2 DEF EndNames, WorkNames
    <2>3. CASE c = <<<<"insert", u>>, Sch>>
      BY <1>7, <2>3 DEF EndNames, WorkNames
    <2>. QED
      BY <2>1, <2>2, <2>3 DEF Starts
  <1>. QED
    BY <1>3, <1>4, <1>5, <1>8 DEF IsCall

LEMMA RestFacts ==
  /\ <<>> \o <<>> = <<>>
  /\ \A e : Tail(<<e>>) = <<>> /\ <<e>> \o <<>> = <<e>> /\ <<>> \o <<e>> = <<e>>
  /\ \A e : Tail(<<Sch, e>>) = <<e>>
  /\ \A d, e : Tail(<<d, e, Sch>>) = <<e, Sch>> /\ <<>> \o <<d, e>> = <<d, e>>
  OBVIOUS
-----------------------------------------------------------------------------
\* What steps do to the lists.

\* The threads R, which wait, are resumed or timed out.
Resumes(R) ==
  /\ stat' = Readied(stat, R) /\ ReadyRight(ready', stat', priority')
  /\ waitList' \in [Lists -> Seq(Threads)]
  /\ \A l \in Lists : NoneTwice(waitList'[l]) /\ Elems(waitList'[l]) \subseteq Elems(waitList[l]) \ R
  /\ timers' \in Seq(TimerSet) /\ RunningOnce(timers') /\ Timed(timers') \subseteq Timed(timers) \ R
Waiters == {t \in Threads : stat[t] = "suspend" /\ Waiting(todo[t])}

\* The thread that runs goes on with the call c; or an interrupt handler may switch to
\* another.
GoesOnWith(c) ==
  /\ IsCall(c) /\ \A u : Starts(c, u) => Starts(todo[current], u)
  /\ Blocking(c) => Blocking(todo[current]) /\ lockNest' = lockNest
  /\ current = Idle => c \in {<<>>, <<Sch>>}
Moves ==
  \/ todo' = todo /\ lockNest' = lockNest /\ current' \in {current, Chosen(ready')}
  \/ /\ stat[current] = "ready" /\ current' = current
     /\ \E c : todo' = [todo EXCEPT ![current] = c] /\ GoesOnWith(c)

\* The threads that are started wait for nothing.
LEMMA StartedAlone ==
  ASSUME KernelTypes, ListInv, NEW x \in Threads, NEW u \in Threads, Starts(todo[x], u)
  PROVE  /\ stat[u] = "suspend" /\ ~Waiting(todo[u]) /\ u \notin Timed(timers)
         /\ \A l \in Lists : u \notin Elems(waitList[l])
         /\ x # u
  <1>1. stat[u] = "suspend" /\ todo[u] = <<>>
    BY DEF ListInv, StartsRight
  <1>2. ~Waiting(todo[u]) /\ \A v : ~Starts(todo[u], v)
    BY <1>1, CallFacts
  <1>. QED
    BY <1>1, <1>2 DEF ListInv, ListsRight, TimedRight, WaitingIn

LEMMA MovesKeep ==
  ASSUME KernelTypes, ListInv, priority' \in [Threads -> Prios],
         NEW R \in SUBSET Waiters, Resumes(R), Moves
  PROVE  ListInv' /\ stat' \in [Threads -> Stats]
  <1>. USE DEF Waiters
  <1>0. /\ current \in Threads /\ Idle \in Threads /\ stat[Idle] = "ready"
        /\ stat \in [Threads -> Stats] /\ lockNest \in Nat
    BY KernelAssumption DEF KernelTypes, ListInv, CurrentRight, CallsRight
  <1>1. /\ stat' \in [Threads -> Stats]
        /\ \A t \in Threads : stat'[t] = IF t \in R THEN "ready" ELSE stat[t]
    BY <1>0 DEF Resumes, Readied, Stats
  <1>2. ASSUME NEW t \in Threads
        PROVE  todo'[t] = todo[t] \/ (t = current /\ stat[current] = "ready")
    BY DEF Moves, ListInv, CallsRight
  <1>3. /\ todo' = [t \in Threads |-> todo'[t]]
        /\ \A t \in Threads : IsCall(todo'[t])
        /\ \A t \in Threads : \A u : Starts(todo'[t], u) => Starts(todo[t], u)
        /\ todo'[Idle] \in {<<>>, <<Sch>>}
    <2>1. todo = [t \in Threads |-> todo[t]] /\ (\A t \in Threads : IsCall(todo[t]))
          /\ todo[Idle] \in {<<>>, <<Sch>>}
      BY DEF ListInv, CallsRight
    <2>2. CASE todo' = todo
      BY <2>1, <2>2
    <2>3. ASSUME NEW c, todo' = [todo EXCEPT ![current] = c], GoesOnWith(c)
          PROVE  /\ todo' = [t \in Threads |-> todo'[t]]
                 /\ \A t \in Threads : IsCall(todo'[t])
                 /\ \A t \in Threads : \A u : Starts(todo'[t], u) => Starts(todo[t], u)
                 /\ todo'[Idle] \in {<<>>, <<Sch>>}
      <3>1. \A t \in Threads : todo'[t] = IF t = current THEN c ELSE todo[t]
        BY <1>0, <2>1, <2>3
      <3>2. todo' = [t \in Threads |-> todo'[t]]
        BY <2>1, <2>3
      <3>. QED
        BY <1>0, <2>1, <2>3, <3>1, <3>2 DEF GoesOnWith
    <2>. QED
      BY <2>2, <2>3 DEF Moves
  <1>4. CallsRight'
    <2>1. ASSUME NEW t \in Threads, stat'[t] = "init" PROVE todo'[t] = <<>>
      <3>1. stat[t] = "init"
        BY <1>1, <2>1
      <3>2. todo[t] = <<>> /\ todo'[t] = todo[t]
        BY <1>2, <3>1 DEF ListInv, CallsRight
      <3>. QED
        BY <3>2
    <2>2. stat'[Idle] = "ready"
      BY <1>0, <1>1
    <2>. QED
      BY <1>3, <2>1, <2>2 DEF CallsRight
  <1>5. StartsRight'
    <2>. SUFFICES ASSUME NEW x \in Threads, NEW u \in Threads, Starts(todo'[x], u)
                  PROVE  /\ stat'[u] = "suspend" /\ todo'[u] = <<>>
                         /\ \A y \in Threads : Starts(todo'[y], u) => y = x
      BY DEF StartsRight
    <2>1. Starts(todo[x], u)
      BY <1>3
    <2>2. stat[u] = "suspend" /\ u \notin R
      BY <2>1, StartedAlone
    <2>3. todo'[u] = todo[u] /\ todo[u] = <<>>
      BY <1>2, <2>1, <2>2 DEF ListInv, StartsRight
    <2>. QED
      BY <1>1, <1>3, <2>1, <2>2, <2>3 DEF ListInv, StartsRight
  <1>6. \A t \in Threads : stat'[t] = "suspend" => stat[t] = "suspend" /\ todo'[t] = todo[t]
    BY <1>1, <1>2
  <1>7. ListsRight'
    <2>. SUFFICES ASSUME NEW l \in Lists
                  PROVE  NoneTwice(waitList'[l]) /\ \A t \in Elems(waitList'[l]) :
                           stat'[t] = "suspend" /\ WaitingIn(todo'[t], l)
      BY DEF ListsRight
    <2>1. NoneTwice(waitList'[l]) /\ Elems(waitList'[l]) \subseteq Elems(waitList[l]) \ R
      BY DEF Resumes
    <2>2. \A t \in Elems(waitList[l]) : t \in Threads /\ stat[t] = "suspend" /\ WaitingIn(todo[t], l)
      <3>1. waitList[l] \in Seq(Threads)
        BY DEF KernelTypes
      <3>. QED
        BY <3>1, ListDomain DEF ListInv, ListsRight
    <2>. QED
      BY <1>1, <1>2, <2>1, <2>2
  <1>8. TimedRight'
    <2>1. \A t \in Timed(timers) : t \in Threads /\ stat[t] = "suspend" /\ Waiting(todo[t])
      BY TimedDomain DEF ListInv, TimedRight, KernelTypes
    <2>2. RunningOnce(timers') /\ Timed(timers') \subseteq Timed(timers) \ R
      BY DEF Resumes
    <2>3. \A t \in Timed(timers') : stat'[t] = "suspend" /\ Waiting(todo'[t])
      BY <1>1, <1>2, <2>1, <2>2
    <2>. QED
      BY <2>2, <2>3 DEF TimedRight, Timed
  <1>9. CurrentRight'
    <2>1. CASE todo' = todo /\ lockNest' = lockNest /\ current' = current
      BY <1>0, <1>1, <2>1 DEF ListInv, CurrentRight
    <2>2. CASE todo' = todo /\ lockNest' = lockNest /\ current' = Chosen(ready')
      <3>1. ReadyRight(ready', stat', priority') /\ stat'[Idle] = "ready"
        BY <1>0, <1>1 DEF Resumes
      <3>2. IF lockNest > 0 THEN Chosen(ready') = current
            ELSE Chosen(ready') \in Threads /\ stat'[Chosen(ready')] = "ready"
        BY <1>0, <3>1, ChosenFacts
      <3>3. CASE lockNest > 0
        BY <1>0, <1>1, <2>2, <3>2, <3>3 DEF ListInv, CurrentRight
      <3>4. CASE ~(lockNest > 0)
        BY <2>2, <3>2, <3>4 DEF CurrentRight
      <3>. QED
        BY <3>3, <3>4
    <2>3. ASSUME NEW c, stat[current] = "ready", current' = current,
                 todo' = [todo EXCEPT ![current] = c], GoesOnWith(c)
          PROVE  CurrentRight'
      <3>1. todo'[current] = c /\ stat'[current] = "ready"
        BY <1>0, <1>1, <2>3 DEF ListInv, CallsRight
      <3>2. lockNest' > 0 => ~Blocking(c)
        BY <2>3 DEF GoesOnWith, ListInv, CurrentRight
      <3>. QED
        BY <1>0, <2>3, <3>1, <3>2 DEF CurrentRight
    <2>. QED
      BY <2>1, <2>2, <2>3 DEF Moves
  <1>. QED
    BY <1>1, <1>4, <1>5, <1>7, <1>8, <1>9 DEF ListInv, Resumes

\* The thread that runs is suspended, or exits, and is about to call rt_schedule().
Leaves(x, c) ==
  /\ stat[current] = "ready" /\ current # Idle /\ current' = current
  /\ lockNest = 0 /\ lockNest' = lockNest
  /\ x \in {"suspend", "close"} /\ stat' = [stat EXCEPT ![current] = x]
  /\ ReadyRight(ready', stat', priority')
  /\ IsCall(c) /\ c # <<>> /\ c[1] = Sch /\ (\A u : ~Starts(c, u))
  /\ todo' = [todo EXCEPT ![current] = c]
  /\ waitList' \in [Lists -> Seq(Threads)]
  /\ \A l \in Lists : /\ NoneTwice(waitList'[l])
                      /\ \A t \in Elems(waitList'[l]) :
                           \/ t \in Elems(waitList[l])
                           \/ t = current /\ x = "suspend" /\ WaitingIn(c, l)
  /\ timers' \in Seq(TimerSet) /\ RunningOnce(timers')
  /\ \A t \in Timed(timers') : \/ t \in Timed(timers)
                               \/ t = current /\ x = "suspend" /\ Waiting(c)

LEMMA LeavesKeeps ==
  ASSUME KernelTypes, ListInv, NEW x, NEW c, Leaves(x, c)
  PROVE  ListInv' /\ stat' \in [Threads -> Stats]
  <1>0. /\ current \in Threads /\ Idle \in Threads /\ stat[Idle] = "ready"
        /\ stat \in [Threads -> Stats]
    BY KernelAssumption DEF KernelTypes, ListInv, CurrentRight, CallsRight
  <1>1. /\ stat' \in [Threads -> Stats]
        /\ \A t \in Threads : stat'[t] = IF t = current THEN x ELSE stat[t]
    BY <1>0 DEF Leaves, Stats
  <1>2. /\ todo' = [t \in Threads |-> todo'[t]]
        /\ \A t \in Threads : todo'[t] = IF t = current THEN c ELSE todo[t]
    BY <1>0 DEF Leaves, ListInv, CallsRight
  <1>3. \A t \in Threads : \A u : Starts(todo'[t], u) => Starts(todo[t], u)
    BY <1>2 DEF Leaves
  <1>4. CallsRight'
    <2>1. \A t \in Threads : IsCall(todo'[t])
      BY <1>2 DEF Leaves, ListInv, CallsRight
    <2>2. \A t \in Threads : stat'[t] = "init" => todo'[t] = <<>>
      BY <1>1, <1>2 DEF Leaves, ListInv, CallsRight
    <2>3. stat'[Idle] = "ready" /\ todo'[Idle] \in {<<>>, <<Sch>>}
      BY <1>0, <1>1, <1>2 DEF Leaves, ListInv, CallsRight
    <2>. QED
      BY <1>2, <2>1, <2>2, <2>3 DEF CallsRight
  <1>5. StartsRight'
    <2>. SUFFICES ASSUME NEW y \in Threads, NEW u \in Threads, Starts(todo'[y], u)
                  PROVE  /\ stat'[u] = "suspend" /\ todo'[u] = <<>>
                         /\ \A z \in Threads : Starts(todo'[z], u) => z = y
      BY DEF StartsRight
    <2>1. Starts(todo[y], u) /\ stat[u] = "suspend" /\ todo[u] = <<>>
      BY <1>3 DEF ListInv, StartsRight
    <2>2. u # current
      BY <2>1 DEF Leaves
    <2>. QED
      BY <1>1, <1>2, <1>3, <2>1, <2>2 DEF ListInv, StartsRight
  <1>6. ListsRight'
    <2>. SUFFICES ASSUME NEW l \in Lists
                  PROVE  NoneTwice(waitList'[l]) /\ \A t \in Elems(waitList'[l]) :
                           stat'[t] = "suspend" /\ WaitingIn(todo'[t], l)
      BY DEF ListsRight
    <2>1. \A t \in Elems(waitList[l]) : /\ t \in Threads /\ stat[t] = "suspend"
                                        /\ WaitingIn(todo[t], l)
      <3>1. waitList[l] \in Seq(Threads)
        BY DEF KernelTypes
      <3>. QED
        BY <3>1, ListDomain DEF ListInv, ListsRight
    <2>2. \A t \in Elems(waitList[l]) : t # current
      BY <2>1 DEF Leaves
    <2>. QED
      BY <1>0, <1>1, <1>2, <2>1, <2>2 DEF Leaves
  <1>7. TimedRight'
    <2>1. \A t \in Timed(timers) : /\ t \in Threads /\ stat[t] = "suspend" /\ Waiting(todo[t])
                                   /\ t # current
      BY TimedDomain DEF ListInv, TimedRight, KernelTypes, Leaves
    <2>2. \A t \in Timed(timers') : stat'[t] = "suspend" /\ Waiting(todo'[t])
      BY <1>0, <1>1, <1>2, <2>1 DEF Leaves
    <2>. QED
      BY <2>2 DEF TimedRight, Timed, Leaves
  <1>8. CurrentRight'
    BY <1>0, <1>2 DEF CurrentRight, Leaves
  <1>. QED
    BY <1>1, <1>4, <1>5, <1>6, <1>7, <1>8 DEF ListInv, Leaves

\* rt_schedule().
LEMMA ScheduleKeeps ==
  ASSUME KernelTypes, ListInv, Schedule
  PROVE  ListInv' /\ stat' \in [Threads -> Stats]
  <1>. DEFINE c == todo[current]
  <1>0. /\ current \in Threads /\ Idle \in Threads /\ stat[Idle] = "ready"
        /\ stat \in [Threads -> Stats] /\ priority \in [Threads -> Prios] /\ IsCall(c)
    BY KernelAssumption DEF KernelTypes, ListInv, CurrentRight, CallsRight
  <1>1. /\ current' = Chosen(ready) /\ todo' = [todo EXCEPT ![current] = <<>> \o Tail(@)]
        /\ UNCHANGED <<stat, priority, ready, lockNest, timers, waitList>>
        /\ c # <<>> /\ Head(c)[1] = "schedule"
    BY DEF Schedule, At, Then, schedVars
  <1>. HIDE DEF c
  <1>2. c = <<Sch>> \/ \E e : IsEnd(e) /\ c = <<Sch, e>>
    BY <1>0, <1>1, HeadFacts
  <1>. DEFINE d == <<>> \o Tail(c)
  <1>3. /\ IsCall(d) /\ (\A u : ~Starts(d, u)) /\ (\A u : ~Starts(c, u))
        /\ Waiting(c) <=> Waiting(d)
        /\ \A l : WaitingIn(c, l) <=> WaitingIn(d, l)
        /\ ~Blocking(c) => d = <<>>
        /\ c = <<Sch>> => d = <<>>
    <2>1. CASE c = <<Sch>>
      <3>1. d = <<>>
        BY <2>1, RestFacts
      <3>. QED
        BY <2>1, <3>1, CallFacts DEF WaitingIn
    <2>2. ASSUME NEW e, IsEnd(e), c = <<Sch, e>>
          PROVE  /\ IsCall(d) /\ (\A u : ~Starts(d, u)) /\ (\A u : ~Starts(c, u))
                 /\ Waiting(c) <=> Waiting(d)
                 /\ \A l : WaitingIn(c, l) <=> WaitingIn(d, l)
                 /\ ~Blocking(c) => d = <<>>
                 /\ c = <<Sch>> => d = <<>>
      <3>1. d = <<e>> /\ c # <<Sch>>
        BY <2>2, RestFacts
      <3>. HIDE DEF d
      <3>. QED
        BY <2>2, <3>1, CallFacts
    <2>. QED
      BY <1>2, <2>1, <2>2
  <1>. HIDE DEF d
  <1>4. /\ todo' = [t \in Threads |-> todo'[t]]
        /\ \A t \in Threads : todo'[t] = IF t = current THEN d ELSE todo[t]
    BY <1>0, <1>1 DEF ListInv, CallsRight, d, c
  <1>5. \A t \in Threads : /\ Waiting(todo'[t]) <=> Waiting(todo[t])
                           /\ \A l : WaitingIn(todo'[t], l) <=> WaitingIn(todo[t], l)
                           /\ \A u : Starts(todo'[t], u) <=> Starts(todo[t], u)
    BY <1>3, <1>4 DEF c
  <1>6. CallsRight'
    <2>1. todo'[Idle] \in {<<>>, <<Sch>>}
      <3>1. CASE Idle = current
        <4>1. c \in {<<>>, <<Sch>>}
          BY <3>1 DEF ListInv, CallsRight, c
        <4>2. d = <<>>
          BY <1>1, <1>3, <4>1
        <4>. QED
          BY <1>0, <1>4, <3>1, <4>2
      <3>2. CASE Idle # current
        BY <1>0, <1>4, <3>2 DEF ListInv, CallsRight
      <3>. QED
        BY <3>1, <3>2
    <2>2. \A t \in Threads : IsCall(todo'[t])
      BY <1>3, <1>4 DEF ListInv, CallsRight
    <2>3. \A t \in Threads : stat[t] = "init" => todo'[t] = <<>>
      BY <1>1, <1>4 DEF ListInv, CallsRight, c
    <2>. QED
      BY <1>0, <1>1, <1>4, <2>1, <2>2, <2>3 DEF CallsRight
  <1>7. StartsRight'
    <2>1. \A u \in Threads : todo[u] = <<>> => todo'[u] = <<>>
      BY <1>1, <1>4 DEF c
    <2>. QED
      BY <1>1, <1>5, <2>1 DEF ListInv, StartsRight
  <1>8. ListsRight'
    <2>1. \A l \in Lists : Elems(waitList[l]) \subseteq Threads
      BY ListDomain DEF KernelTypes
    <2>2. \A l \in Lists : NoneTwice(waitList'[l]) /\ \A t \in Elems(waitList'[l]) :
                     stat'[t] = "suspend" /\ WaitingIn(todo'[t], l)
      BY <1>1, <1>5, <2>1 DEF ListInv, ListsRight
    <2>. QED
      BY <2>2 DEF ListsRight
  <1>9. TimedRight'
    <2>1. Timed(timers) \subseteq Threads
      BY TimedDomain DEF KernelTypes
    <2>2. RunningOnce(timers') /\ \A t \in Timed(timers') : stat'[t] = "suspend" /\ Waiting(todo'[t])
      BY <1>1, <1>5, <2>1 DEF ListInv, TimedRight
    <2>. QED
      BY <2>2 DEF TimedRight, Timed
  <1>10. CurrentRight'
    <2>1. IF lockNest > 0 THEN Chosen(ready) = current
          ELSE Chosen(ready) \in Threads /\ stat[Chosen(ready)] = "ready"
      BY <1>0, ChosenFacts DEF ListInv
    <2>2. CASE lockNest > 0
      <3>1. stat[current] = "ready" /\ ~Blocking(c)
        BY <2>2 DEF ListInv, CurrentRight, c
      <3>2. d = <<>> /\ ~Blocking(d)
        BY <1>3, <3>1, CallFacts
      <3>3. todo'[current'] = d
        BY <1>0, <1>1, <1>4, <2>1, <2>2
      <3>. QED
        BY <1>0, <1>1, <2>1, <2>2, <3>1, <3>2, <3>3 DEF CurrentRight
    <2>3. CASE ~(lockNest > 0)
      BY <1>1, <2>1, <2>3 DEF CurrentRight
    <2>. QED
      BY <2>2, <2>3
  <1>11. ReadyRight(ready', stat', priority')
    BY <1>1 DEF ListInv
  <1>. QED
    BY <1>0, <1>1, <1>6, <1>7, <1>8, <1>9, <1>10, <1>11 DEF ListInv

\* rt_thread_startup() of a thread, and the last section of its rt_thread_resume().
LEMMA StartupKeeps ==
  ASSUME KernelTypes, ListInv, NEW u \in Threads, Startup(u), current # Idle
  PROVE  ListInv' /\ stat' \in [Threads -> Stats]
  <1>. DEFINE c == <<<<"unlink", u>>, <<"insert", u>>, Sch>>
  <1>0. /\ current \in Threads /\ Idle \in Threads /\ stat[Idle] = "ready"
        /\ stat \in [Threads -> Stats] /\ todo[current] = <<>> /\ stat[u] = "init"
        /\ stat[current] = "ready" /\ todo[u] = <<>>
    BY KernelAssumption
       DEF KernelTypes, ListInv, CurrentRight, CallsRight, Startup, AboutThread, Calls
  <1>1. /\ todo' = [todo EXCEPT ![current] = c] /\ stat' = [stat EXCEPT ![u] = "suspend"]
        /\ UNCHANGED <<current, priority, ready, lockNest, timers, waitList>>
    BY DEF Startup, AboutThread, Goes, Sch
  <1>2. /\ stat' \in [Threads -> Stats]
        /\ \A t \in Threads : stat'[t] = IF t = u THEN "suspend" ELSE stat[t]
    BY <1>0, <1>1 DEF Stats
  <1>3. Starts(c, u) /\ IsCall(c) /\ ~Blocking(c) /\ ~Waiting(c)
        /\ \A v : Starts(c, v) => v = u
    <2>1. Len(c) = 3 /\ c[3] = Sch /\ c # <<>> /\ c[1] = <<"unlink", u>>
      OBVIOUS
    <2>2. Starts(c, u)
      BY DEF Starts
    <2>3. \A v : Starts(c, v) => <<"unlink", v>> = <<"unlink", u>>
      BY DEF Starts
    <2>4. \A v : <<"unlink", v>>[2] = v
      OBVIOUS
    <2>. HIDE DEF c
    <2>5. ~IsEnd(Sch) /\ Sch[1] = "schedule"
      BY CallFacts DEF Waiting, Sch
    <2>. QED
      BY <2>1, <2>2, <2>3, <2>4, <2>5 DEF IsCall, Blocking, Waiting
  <1>. HIDE DEF c
  <1>4. /\ todo' = [t \in Threads |-> todo'[t]]
        /\ \A t \in Threads : todo'[t] = IF t = current THEN c ELSE todo[t]
        /\ u # current
    BY <1>0, <1>1 DEF ListInv, CallsRight
  <1>5. \A t \in Threads : stat[t] = "suspend" => stat'[t] = "suspend" /\ todo'[t] = todo[t]
    BY <1>0, <1>2, <1>4
  <1>6. CallsRight'
    <2>1. \A t \in Threads : IsCall(todo'[t])
      BY <1>3, <1>4 DEF ListInv, CallsRight
    <2>2. \A t \in Threads : stat'[t] = "init" => todo'[t] = <<>>
      BY <1>0, <1>2, <1>4 DEF ListInv, CallsRight
    <2>3. stat'[Idle] = "ready" /\ todo'[Idle] \in {<<>>, <<Sch>>}
      BY <1>0, <1>2, <1>4 DEF ListInv, CallsRight
    <2>. QED
      BY <1>4, <2>1, <2>2, <2>3 DEF CallsRight
  <1>7. StartsRight'
    <2>. SUFFICES ASSUME NEW x \in Threads, NEW v \in Threads, Starts(todo'[x], v)
                  PROVE  /\ stat'[v] = "suspend" /\ todo'[v] = <<>>
                         /\ \A y \in Threads : Starts(todo'[y], v) => y = x
      BY DEF StartsRight
    <2>1. CASE v = u
      <3>1. \A y \in Threads : ~Starts(todo[y], u)
        BY <1>0 DEF ListInv, StartsRight
      <3>. QED
        BY <1>0, <1>2, <1>4, <2>1, <3>1
    <2>2. CASE v # u
      <3>1. \A y \in Threads : Starts(todo'[y], v) => Starts(todo[y], v)
        BY <1>3, <1>4, <2>2
      <3>. QED
        BY <1>5, <3>1 DEF ListInv, StartsRight
    <2>. QED
      BY <2>1, <2>2
  <1>8. ListsRight'
    <2>1. \A l \in Lists : Elems(waitList[l]) \subseteq Threads
      BY ListDomain DEF KernelTypes
    <2>2. \A l \in Lists : NoneTwice(waitList'[l]) /\ \A t \in Elems(waitList'[l]) :
                     stat'[t] = "suspend" /\ WaitingIn(todo'[t], l)
      BY <1>1, <1>5, <2>1 DEF ListInv, ListsRight
    <2>. QED
      BY <2>2 DEF ListsRight
  <1>9. TimedRight'
    <2>1. Timed(timers) \subseteq Threads
      BY TimedDomain DEF KernelTypes
    <2>2. RunningOnce(timers') /\ \A t \in Timed(timers') : stat'[t] = "suspend" /\ Waiting(todo'[t])
      BY <1>1, <1>5, <2>1 DEF ListInv, TimedRight
    <2>. QED
      BY <2>2 DEF TimedRight, Timed
  <1>10. CurrentRight'
    BY <1>0, <1>1, <1>2, <1>3, <1>4 DEF CurrentRight
  <1>11. ReadyRight(ready', stat', priority')
    <2>1. \A t \in Threads : stat'[t] = "ready" <=> stat[t] = "ready"
      BY <1>0, <1>2
    <2>. QED
      BY <1>1, <2>1 DEF ListInv, ReadyRight
  <1>. QED
    BY <1>2, <1>6, <1>7, <1>8, <1>9, <1>10, <1>11 DEF ListInv

LEMMA InsertNowKeeps ==
  ASSUME KernelTypes, ListInv, InsertNow
  PROVE  ListInv' /\ stat' \in [Threads -> Stats]
  <1>. DEFINE c == todo[current]
  <1>0. /\ current \in Threads /\ Idle \in Threads /\ stat[Idle] = "ready"
        /\ stat \in [Threads -> Stats] /\ priority \in [Threads -> Prios] /\ IsCall(c)
    BY KernelAssumption DEF KernelTypes, ListInv, CurrentRight, CallsRight
  <1>1. /\ stat' = [stat EXCEPT ![Subject] = "ready"]
        /\ ready' = Insert(ready, Subject, priority[Subject])
        /\ todo' = [todo EXCEPT ![current] = <<>> \o Tail(@)]
        /\ UNCHANGED <<current, priority, lockNest, timers, waitList>>
        /\ c # <<>> /\ Head(c)[1] = "insert"
    BY DEF InsertNow, At, Then
  <1>. HIDE DEF c
  <1>2. PICK u \in Threads : c = <<<<"insert", u>>, Sch>>
    <2>1. Head(c) = c[1]
      BY <1>0, <1>1, HeadFacts
    <2>. QED
      BY <1>0, <1>1, <2>1, HeadFacts
  <1>3. Subject = u /\ Starts(c, u) /\ c[1][1] = "insert" /\ <<>> \o Tail(c) = <<Sch>>
    <2>1. Head(c) = <<"insert", u>> /\ c[1] = <<"insert", u>>
      BY <1>2
    <2>2. <<>> \o Tail(c) = <<Sch>>
      BY <1>2
    <2>. QED
      BY <1>2, <2>1, <2>2 DEF Subject, Starts, c
  <1>4. /\ stat[u] = "suspend" /\ todo[u] = <<>> /\ u # current /\ ~Waiting(todo[u])
        /\ u \notin Timed(timers)
        /\ \A l \in Lists : u \notin Elems(waitList[l])
        /\ \A y \in Threads : Starts(todo[y], u) => y = current
    BY <1>0, <1>3, StartedAlone DEF c, ListInv, StartsRight
  <1>5. stat[current] = "ready"
    <2>1. c[1] # Sch
      BY <1>3 DEF Sch
    <2>. QED
      BY <2>1 DEF ListInv, CurrentRight, c
  <1>6. /\ stat' \in [Threads -> Stats]
        /\ \A t \in Threads : stat'[t] = IF t = u THEN "ready" ELSE stat[t]
    BY <1>0, <1>1, <1>3 DEF Stats
  <1>7. /\ todo' = [t \in Threads |-> todo'[t]]
        /\ \A t \in Threads : todo'[t] = IF t = current THEN <<Sch>> ELSE todo[t]
    BY <1>0, <1>1, <1>3 DEF ListInv, CallsRight, c
  <1>8. ReadyRight(ready', stat', priority')
    <2>1. ready' = Insert(ready, u, priority[u]) /\ stat' = [stat EXCEPT ![u] = "ready"]
          /\ priority' = priority
      BY <1>1, <1>3
    <2>2. ReadyRight(Insert(ready, u, priority[u]), [stat EXCEPT ![u] = "ready"], priority)
      BY <1>0, <1>4, InsertKeeps DEF ListInv
    <2>. QED
      BY <2>1, <2>2
  <1>9. CallsRight'
    <2>1. \A t \in Threads : IsCall(todo'[t])
      BY <1>7, CallFacts DEF ListInv, CallsRight
    <2>2. \A t \in Threads : stat'[t] = "init" => todo'[t] = <<>>
      BY <1>5, <1>6, <1>7 DEF ListInv, CallsRight
    <2>3. stat'[Idle] = "ready" /\ todo'[Idle] \in {<<>>, <<Sch>>}
      BY <1>0, <1>6, <1>7 DEF ListInv, CallsRight
    <2>. QED
      BY <1>7, <2>1, <2>2, <2>3 DEF CallsRight
  <1>10. StartsRight'
    <2>. SUFFICES ASSUME NEW x \in Threads, NEW v \in Threads, Starts(todo'[x], v)
                  PROVE  /\ stat'[v] = "suspend" /\ todo'[v] = <<>>
                         /\ \A y \in Threads : Starts(todo'[y], v) => y = x
      BY DEF StartsRight
    <2>1. \A y \in Threads : \A w : Starts(todo'[y], w) => Starts(todo[y], w) /\ y # current
      BY <1>7, CallFacts
    <2>2. v # u /\ Starts(todo[x], v)
      BY <1>4, <2>1
    <2>3. stat[v] = "suspend" /\ todo[v] = <<>> /\ v # current
      BY <1>5, <2>2 DEF ListInv, StartsRight
    <2>. QED
      BY <1>6, <1>7, <2>1, <2>2, <2>3 DEF ListInv, StartsRight
  <1>11. \A t \in Threads : stat[t] = "suspend" /\ t # u => stat'[t] = "suspend"
                                                           /\ todo'[t] = todo[t]
    BY <1>5, <1>6, <1>7
  <1>12. ListsRight'
    <2>1. \A l \in Lists : Elems(waitList[l]) \subseteq Threads
      BY ListDomain DEF KernelTypes
    <2>2. \A l \in Lists : NoneTwice(waitList'[l]) /\ \A t \in Elems(waitList'[l]) :
                     stat'[t] = "suspend" /\ WaitingIn(todo'[t], l)
      BY <1>1, <1>4, <1>11, <2>1 DEF ListInv, ListsRight
    <2>. QED
      BY <2>2 DEF ListsRight
  <1>13. TimedRight'
    <2>1. Timed(timers) \subseteq Threads
      BY TimedDomain DEF KernelTypes
    <2>2. RunningOnce(timers') /\ \A t \in Timed(timers') : stat'[t] = "suspend" /\ Waiting(todo'[t])
      BY <1>1, <1>4, <1>11, <2>1 DEF ListInv, TimedRight
    <2>. QED
      BY <2>2 DEF TimedRight, Timed
  <1>14. CurrentRight'
    BY <1>0, <1>1, <1>4, <1>5, <1>6, <1>7, CallFacts DEF CurrentRight
  <1>. QED
    BY <1>6, <1>8, <1>9, <1>10, <1>12, <1>13, <1>14 DEF ListInv
-----------------------------------------------------------------------------
\* The steps the calls are built from.

\* A thread waits in one list.
LEMMA OneList ==
  ASSUME KernelTypes, ListInv, NEW l \in Lists
  PROVE  /\ waitList[l] \in Seq(Threads) /\ NoneTwice(waitList[l])
         /\ Elems(waitList[l]) \subseteq Waiters
         /\ \A t \in Elems(waitList[l]) : WaitingIn(todo[t], l)
         /\ \A m \in Lists \ {l} : Elems(waitList[l]) \cap Elems(waitList[m]) = {}
  <1>1. \A k \in Lists : waitList[k] \in Seq(Threads) /\ Elems(waitList[k]) \subseteq Threads
    BY ListDomain DEF KernelTypes
  <1>2. \A k \in Lists : NoneTwice(waitList[k]) /\ \A t \in Elems(waitList[k]) :
                           stat[t] = "suspend" /\ WaitingIn(todo[t], k)
    BY DEF ListInv, ListsRight
  <1>3. \A e : \A k, m : EndIn(e, k) /\ EndIn(e, m) => k = m
    BY DEF EndIn
  <1>4. \A c : \A k, m : WaitingIn(c, k) /\ WaitingIn(c, m) => k = m
    BY <1>3 DEF WaitingIn
  <1>5. \A m \in Lists \ {l} : Elems(waitList[l]) \cap Elems(waitList[m]) = {}
    BY <1>2, <1>4
  <1>6. Elems(waitList[l]) \subseteq Waiters
    BY <1>1, <1>2 DEF Waiters, WaitingIn
  <1>. QED
    BY <1>1, <1>2, <1>5, <1>6

LEMMA ResumeFirstFacts ==
  ASSUME KernelTypes, ListInv, NEW l \in Lists, waitList[l] # <<>>, NEW r,
         ReadyRight(r, stat, priority'), priority' \in [Threads -> Prios],
         ResumeFirst(l, r, priority')
  PROVE  /\ {Head(waitList[l])} \in SUBSET Waiters /\ Head(waitList[l]) \in Threads
         /\ Resumes({Head(waitList[l])})
  <1>. DEFINE h == Head(waitList[l])
  <1>1. /\ waitList[l] \in Seq(Threads) /\ NoneTwice(waitList[l])
        /\ Elems(waitList[l]) \subseteq Waiters
        /\ \A m \in Lists \ {l} : Elems(waitList[l]) \cap Elems(waitList[m]) = {}
    BY OneList
  <1>2. /\ h \in Threads /\ h \in Elems(waitList[l]) /\ Tail(waitList[l]) \in Seq(Threads)
        /\ NoneTwice(Tail(waitList[l])) /\ Elems(Tail(waitList[l])) = Elems(waitList[l]) \ {h}
    BY <1>1, TailFacts
  <1>3. /\ stat' = [stat EXCEPT ![h] = "ready"] /\ ready' = Insert(r, h, priority'[h])
        /\ waitList' = [waitList EXCEPT ![l] = Tail(@)] /\ timers' = Stopped(timers, {h})
    BY DEF ResumeFirst
  <1>. HIDE DEF h
  <1>4. /\ stat \in [Threads -> Stats] /\ waitList \in [Lists -> Seq(Threads)]
        /\ timers \in Seq(TimerSet) /\ RunningOnce(timers)
    BY DEF KernelTypes, ListInv, TimedRight
  <1>5. h \in Waiters /\ stat[h] # "ready"
    BY <1>1, <1>2 DEF Waiters
  <1>6. stat' = Readied(stat, {h})
    BY <1>2, <1>3, <1>4 DEF Readied
  <1>7. ReadyRight(ready', stat', priority')
    BY <1>2, <1>3, <1>4, <1>5, InsertKeeps
  <1>8. /\ waitList' \in [Lists -> Seq(Threads)]
        /\ \A m \in Lists : /\ NoneTwice(waitList'[m])
                            /\ Elems(waitList'[m]) \subseteq Elems(waitList[m]) \ {h}
    <2>1. waitList' \in [Lists -> Seq(Threads)]
      BY <1>2, <1>3, <1>4
    <2>2. \A m \in Lists : waitList'[m] = IF m = l THEN Tail(waitList[l]) ELSE waitList[m]
      BY <1>3, <1>4
    <2>3. \A m \in Lists : NoneTwice(waitList[m])
      BY DEF ListInv, ListsRight
    <2>. QED
      BY <1>1, <1>2, <2>1, <2>2, <2>3
  <1>9. /\ timers' \in Seq(TimerSet) /\ RunningOnce(timers')
        /\ Timed(timers') \subseteq Timed(timers) \ {h}
    BY <1>3, <1>4, StoppedFacts
  <1>. QED
    BY <1>2, <1>5, <1>6, <1>7, <1>8, <1>9 DEF Resumes, h

LEMMA ResumeNobodyFacts ==
  ASSUME KernelTypes, ListInv, NEW r, ReadyRight(r, stat, priority'), ResumeNobody(r)
  PROVE  {} \in SUBSET Waiters /\ Resumes({})
  <1>1. /\ ready' = r /\ stat' = stat /\ waitList' = waitList /\ timers' = timers
        /\ stat \in [Threads -> Stats] /\ waitList \in [Lists -> Seq(Threads)]
        /\ timers \in Seq(TimerSet) /\ RunningOnce(timers)
        /\ \A m \in Lists : NoneTwice(waitList[m])
    BY DEF KernelTypes, ListInv, TimedRight, ListsRight, ResumeNobody
  <1>2. stat' = Readied(stat, {})
    BY <1>1 DEF Readied
  <1>. QED
    BY <1>1, <1>2 DEF Resumes

\* The threads of the sequence e at once, given the ready lists r.
LEMMA ResumeManyFacts ==
  ASSUME KernelTypes, ListInv, NEW r, ReadyRight(r, stat, priority), priority' = priority,
         NEW e \in Seq(Threads), NoneTwice(e), Elems(e) \subseteq Waiters,
         stat' = [t \in Threads |-> IF t \in Elems(e) THEN "ready" ELSE stat[t]],
         ready' = TimedOut(r, e),
         waitList' \in [Lists -> Seq(Threads)],
         \A l \in Lists : /\ NoneTwice(waitList'[l])
                          /\ Elems(waitList'[l]) \subseteq Elems(waitList[l]) \ Elems(e),
         timers' \in Seq(TimerSet), RunningOnce(timers'),
         Timed(timers') \subseteq Timed(timers) \ Elems(e)
  PROVE  Resumes(Elems(e))
  <1>1. stat' = Readied(stat, Elems(e))
    BY DEF Readied
  <1>2. priority \in [Threads -> Prios] /\ \A t \in Elems(e) : stat[t] # "ready"
    BY DEF KernelTypes, Waiters
  <1>3. ReadyRight(TimedOut(r, e), Readied(stat, Elems(e)), priority)
    BY <1>2, TimedOutKeeps
  <1>4. ReadyRight(ready', stat', priority')
    BY <1>1, <1>3
  <1>. QED
    BY <1>1, <1>4 DEF Resumes

\* rt_ipc_list_resume_all() of one list, or of two.
LEMMA ResumeAllFacts ==
  ASSUME KernelTypes, ListInv, priority' = priority, NEW l \in Lists, NEW m \in Lists,
         NEW ls \in {<<l>>, <<l, m>>}, l # m, ResumeAll(ls)
  PROVE  \E R \in SUBSET Waiters : Resumes(R)
  <1>. DEFINE all == IF Len(ls) = 1 THEN waitList[ls[1]] ELSE waitList[ls[1]] \o waitList[ls[2]]
  <1>1. /\ stat' = [t \in Threads |-> IF t \in Elems(all) THEN "ready" ELSE stat[t]]
        /\ ready' = TimedOut(ready, all)
        /\ waitList' = [k \in Lists |-> IF k \in Elems(ls) THEN <<>> ELSE waitList[k]]
        /\ timers' = Stopped(timers, Elems(all))
    BY DEF ResumeAll
  <1>2. /\ waitList[l] \in Seq(Threads) /\ NoneTwice(waitList[l])
        /\ waitList[m] \in Seq(Threads) /\ NoneTwice(waitList[m])
        /\ Elems(waitList[l]) \subseteq Waiters /\ Elems(waitList[m]) \subseteq Waiters
        /\ Elems(waitList[l]) \cap Elems(waitList[m]) = {}
        /\ \A k \in Lists \ {l} : Elems(waitList[l]) \cap Elems(waitList[k]) = {}
        /\ \A k \in Lists \ {m} : Elems(waitList[m]) \cap Elems(waitList[k]) = {}
    BY OneList
  <1>3. /\ all \in Seq(Threads) /\ NoneTwice(all) /\ Elems(all) \subseteq Waiters
        /\ \A k \in Lists : k \notin Elems(ls) => Elems(all) \cap Elems(waitList[k]) = {}
    <2>1. CASE ls = <<l>>
      <3>1. Len(ls) = 1 /\ ls[1] = l
        BY <2>1
      <3>2. l \in Elems(ls)
        BY <3>1, <2>1, ListDomain DEF Elems
      <3>. QED
        BY <1>2, <3>1, <3>2
    <2>2. CASE ls = <<l, m>>
      <3>1. Len(ls) = 2 /\ ls[1] = l /\ ls[2] = m
        BY <2>2
      <3>2. l \in Elems(ls) /\ m \in Elems(ls)
        BY <3>1, <2>2 DEF Elems
      <3>3. all = waitList[l] \o waitList[m]
        BY <3>1
      <3>. HIDE DEF all
      <3>4. /\ all \in Seq(Threads) /\ NoneTwice(all)
            /\ Elems(all) = Elems(waitList[l]) \cup Elems(waitList[m])
        BY <1>2, <3>3, ConcatFacts
      <3>. QED
        BY <1>2, <3>2, <3>4
    <2>. QED
      BY <2>1, <2>2
  <1>. HIDE DEF all
  <1>4. /\ timers \in Seq(TimerSet) /\ RunningOnce(timers)
        /\ \A k \in Lists : waitList[k] \in Seq(Threads) /\ NoneTwice(waitList[k])
    BY DEF KernelTypes, ListInv, TimedRight, ListsRight
  <1>5. /\ timers' \in Seq(TimerSet) /\ RunningOnce(timers')
        /\ Timed(timers') \subseteq Timed(timers) \ Elems(all)
    BY <1>1, <1>4, StoppedFacts
  <1>6. <<>> \in Seq(Threads) /\ NoneTwice(<<>>) /\ Elems(<<>>) = {}
    <2>1. <<>> \in Seq(Threads) /\ Len(<<>>) = 0
      OBVIOUS
    <2>2. Elems(<<>>) = {}
      BY <2>1, ListDomain
    <2>. QED
      BY <2>1, <2>2 DEF NoneTwice
  <1>7. /\ waitList' \in [Lists -> Seq(Threads)]
        /\ \A k \in Lists : /\ NoneTwice(waitList'[k])
                            /\ Elems(waitList'[k]) \subseteq Elems(waitList[k]) \ Elems(all)
    <2>1. waitList' \in [Lists -> Seq(Threads)]
      BY <1>1, <1>4, <1>6
    <2>2. \A k \in Lists : waitList'[k] = IF k \in Elems(ls) THEN <<>> ELSE waitList[k]
      BY <1>1
    <2>. QED
      BY <1>3, <1>4, <1>6, <2>1, <2>2
  <1>8. Resumes(Elems(all))
    <2>1. ReadyRight(ready, stat, priority)
      BY DEF ListInv
    <2>. QED
      BY <1>1, <1>3, <1>5, <1>7, <2>1, ResumeManyFacts
  <1>. QED
    BY <1>3, <1>8

\* The thread that runs waits in list l, for n ticks, and goes on at the section next.
LEMMA SuspendInFacts ==
  ASSUME KernelTypes, ListInv, stat[current] = "ready", current # Idle, lockNest = 0,
         NEW l \in Lists, NEW w \in Seq(Threads), NoneTwice(w),
         Elems(w) = Elems(waitList[l]) \cup {current},
         NEW n \in Int, NEW r, ReadyRight(r, stat, priority'), priority' \in [Threads -> Prios],
         priority'[current] = priority[current],
         NEW next, IsEnd(next), EndIn(next, l),
         SuspendIn(l, w, n, r, next), UNCHANGED <<current, lockNest>>
  PROVE  ListInv' /\ stat' \in [Threads -> Stats] /\ waitList' \in [Lists -> Seq(Threads)]
         /\ timers' \in Seq(TimerSet)
  <1>. DEFINE c == <<Sch, next>>
  <1>1. /\ stat' = [stat EXCEPT ![current] = "suspend"]
        /\ ready' = Remove(r, current, priority'[current])
        /\ waitList' = [waitList EXCEPT ![l] = w]
        /\ timers' = IF n = Forever THEN Stopped(timers, {current}) ELSE Started(timers, current, n)
        /\ todo' = [todo EXCEPT ![current] = c]
    BY DEF SuspendIn, Sch
  <1>2. /\ current \in Threads /\ stat \in [Threads -> Stats] /\ tick \in Ticks
        /\ timers \in Seq(TimerSet) /\ RunningOnce(timers)
        /\ waitList \in [Lists -> Seq(Threads)] /\ \A k \in Lists : NoneTwice(waitList[k])
    BY DEF KernelTypes, ListInv, TimedRight, ListsRight, CurrentRight
  <1>3. /\ IsCall(c) /\ c # <<>> /\ c[1] = Sch /\ (\A u : ~Starts(c, u))
        /\ Waiting(c) /\ WaitingIn(c, l)
    BY CallFacts
  <1>. HIDE DEF c
  <1>4. ReadyRight(ready', stat', priority')
    <2>1. "suspend" \in Stats /\ "suspend" # "ready"
      BY DEF Stats
    <2>. QED
      BY <1>1, <1>2, <2>1, RemoveKeeps
  <1>5. /\ waitList' \in [Lists -> Seq(Threads)]
        /\ \A k \in Lists : /\ NoneTwice(waitList'[k])
                            /\ \A t \in Elems(waitList'[k]) :
                                 \/ t \in Elems(waitList[k])
                                 \/ t = current /\ WaitingIn(c, k)
    <2>1. \A k \in Lists : waitList'[k] = IF k = l THEN w ELSE waitList[k]
      BY <1>1, <1>2
    <2>2. waitList' \in [Lists -> Seq(Threads)]
      BY <1>1, <1>2
    <2>. QED
      BY <1>2, <1>3, <2>1, <2>2
  <1>6. /\ timers' \in Seq(TimerSet) /\ RunningOnce(timers')
        /\ Timed(timers') \subseteq Timed(timers) \cup {current}
    <2>1. CASE n = Forever
      BY <1>1, <1>2, <2>1, StoppedFacts
    <2>2. CASE n # Forever
      <3>1. timers' = Started(timers, current, n)
        BY <1>1, <2>2
      <3>. QED
        BY <1>2, <3>1, StartedFacts
    <2>. QED
      BY <2>1, <2>2
  <1>7. Leaves("suspend", c)
    BY <1>1, <1>3, <1>4, <1>5, <1>6 DEF Leaves
  <1>. QED
    BY <1>5, <1>6, <1>7, LeavesKeeps

LEMMA SuspendOnFacts ==
  ASSUME KernelTypes, ListInv, stat[current] = "ready", current # Idle, lockNest = 0,
         NEW l \in Lists,
         NEW n \in Int, NEW r, ReadyRight(r, stat, priority'), priority' \in [Threads -> Prios],
         priority'[current] = priority[current],
         NEW next, IsEnd(next), EndIn(next, l),
         SuspendOn(l, n, r, next), UNCHANGED <<current, lockNest>>
  PROVE  ListInv' /\ stat' \in [Threads -> Stats] /\ waitList' \in [Lists -> Seq(Threads)]
         /\ timers' \in Seq(TimerSet)
  <1>. DEFINE w == Enlisted(l, current)
  <1>1. SuspendIn(l, w, n, r, next)
    BY DEF SuspendOn
  <1>2. /\ waitList[l] \in Seq(Threads) /\ NoneTwice(waitList[l])
        /\ current \notin Elems(waitList[l])
    BY OneList DEF Waiters
  <1>3. current \in Threads /\ priority \in [Threads -> Prios]
    BY DEF KernelTypes, ListInv, CurrentRight
  <1>4. /\ w \in Seq(Threads) /\ NoneTwice(w) /\ Elems(w) = Elems(waitList[l]) \cup {current}
    BY <1>2, <1>3, EnlistedFacts
  <1>. HIDE DEF w
  <1>. QED
    BY <1>1, <1>4, SuspendInFacts
-----------------------------------------------------------------------------
\* What every call and section does.

\* The rest of the state keeps its types, and mutexes their owners.
OthersKept ==
  /\ priority' \in [Threads -> Prios] /\ lockNest' \in Nat /\ tick' \in Ticks
  /\ spent' \in [Threads -> Int] /\ does' = does
  /\ wanted' \in [Threads -> WantedType] /\ set' \in SUBSET Bits
  /\ value' \in [Objects -> Nat] /\ owner' \in [Mutexes -> Threads \cup {NoThread}]
  /\ original' \in [Mutexes -> 0 .. Never]
  /\ OwnersRight'

LEMMA MovesKeepAll ==
  ASSUME ThreadInv, OthersKept, Moves, \E R \in SUBSET Waiters : Resumes(R)
  PROVE  ThreadInv'
  <1>1. PICK R \in SUBSET Waiters : Resumes(R)
    OBVIOUS
  <1>2. KernelTypes /\ ListInv /\ priority' \in [Threads -> Prios]
    BY DEF ThreadInv, OthersKept
  <1>3. ListInv' /\ stat' \in [Threads -> Stats]
    BY <1>1, <1>2, MovesKeep
  <1>4. waitList' \in [Lists -> Seq(Threads)] /\ timers' \in Seq(TimerSet)
    BY <1>1 DEF Resumes
  <1>. QED
    BY <1>3, <1>4 DEF OthersKept, ThreadInv, KernelTypes, Unmanaged

\* Nothing happens to the lists.
ListsStay == UNCHANGED <<stat, priority, ready, waitList, timers>>

LEMMA ListsStayFacts ==
  ASSUME ThreadInv, ListsStay
  PROVE  \E R \in SUBSET Waiters : Resumes(R)
  <1>1. ResumeNobody(ready) /\ ReadyRight(ready, stat, priority')
    BY DEF ListsStay, ResumeNobody, ThreadInv, ListInv
  <1>. QED
    BY <1>1, ResumeNobodyFacts DEF ThreadInv

\* A call is made by a thread other than the idle one, one that is ready.
LEMMA CallerFacts ==
  ASSUME ThreadInv, NEW op, Calls(op)
  PROVE  /\ current \in Threads /\ current # Idle /\ stat[current] = "ready"
         /\ todo[current] = <<>> /\ op \notin {"suspend", "detach", "priority"}
  <1>1. /\ todo[current] = <<>> /\ <<current, op>> \in does /\ Unmanaged
        /\ current \in Threads /\ stat[current] = "ready"
    BY DEF Calls, May, ThreadInv, KernelTypes, ListInv, CurrentRight
  <1>2. <<current, op>>[1] = current /\ <<current, op>>[2] = op
    OBVIOUS
  <1>. QED
    BY <1>1, <1>2 DEF Unmanaged

\* A section but rt_schedule() is executed by such a thread.
LEMMA SectionFacts ==
  ASSUME ThreadInv, NEW s, At(s), s # "schedule"
  PROVE  /\ current \in Threads /\ current # Idle /\ stat[current] = "ready"
         /\ IsCall(todo[current]) /\ todo[current] # <<>>
         /\ Head(todo[current]) = todo[current][1] /\ todo[current][1][1] = s
         /\ Blocking(todo[current]) => lockNest = 0
  <1>1. /\ current \in Threads /\ IsCall(todo[current]) /\ todo[current] # <<>>
        /\ Head(todo[current])[1] = s
    BY DEF ThreadInv, ListInv, CallsRight, CurrentRight, At
  <1>2. Head(todo[current]) = todo[current][1]
    BY <1>1, HeadFacts
  <1>3. todo[current] # <<Sch>> /\ todo[current][1] # Sch
    <2>1. Sch[1] = "schedule" /\ <<Sch>>[1] = Sch
      BY DEF Sch
    <2>. QED
      BY <1>1, <1>2, <2>1
  <1>4. stat[current] = "ready" /\ current # Idle
    BY <1>1, <1>3 DEF ThreadInv, ListInv, CallsRight, CurrentRight
  <1>5. Blocking(todo[current]) => lockNest = 0
    BY DEF ThreadInv, KernelTypes, ListInv, CurrentRight
  <1>. QED
    BY <1>1, <1>2, <1>4, <1>5

\* The last section of a call.
LEMMA LastSection ==
  ASSUME ThreadInv, NEW s, At(s), s \in EndNames \cup WorkNames
  PROVE  /\ current \in Threads /\ current # Idle /\ stat[current] = "ready"
         /\ todo[current] = <<todo[current][1]>> /\ Head(todo[current]) = todo[current][1]
         /\ todo[current][1][1] = s
         /\ IF s \in EndNames THEN IsEnd(todo[current][1]) ELSE IsWork(todo[current][1])
         /\ s \in EndNames \cup {"mp_again"} => lockNest = 0
         /\ \A m : m \o Tail(todo[current]) = m \o <<>>
  <1>. DEFINE c == todo[current]
  <1>1. s # "schedule"
    BY DEF EndNames, WorkNames
  <1>2. /\ current \in Threads /\ current # Idle /\ stat[current] = "ready"
        /\ IsCall(c) /\ c # <<>> /\ Head(c) = c[1] /\ c[1][1] = s
        /\ Blocking(c) => lockNest = 0
    BY <1>1, SectionFacts
  <1>. HIDE DEF c
  <1>3. c = <<c[1]>> /\ IF s \in EndNames THEN IsEnd(c[1]) ELSE IsWork(c[1])
    BY <1>2, HeadFacts
  <1>4. s \in EndNames \cup {"mp_again"} => Blocking(c)
    <2>1. c = <<c[1]>> => Len(c) = 1
      OBVIOUS
    <2>. QED
      BY <1>2, <1>3, <2>1 DEF Blocking
  <1>5. Tail(c) = <<>>
    BY <1>3, RestFacts
  <1>. QED
    BY <1>2, <1>3, <1>4, <1>5 DEF c

\* The thread that runs returns from its call, or calls rt_schedule() yet.
LEMMA GoesOnFacts ==
  ASSUME ThreadInv, stat[current] = "ready", NEW c \in {<<>>, <<Sch>>},
         todo' = [todo EXCEPT ![current] = c], current' = current
  PROVE  Moves
  BY CallFacts DEF Moves, GoesOnWith

LEMMA StaysFacts ==
  ASSUME ThreadInv, UNCHANGED <<current, todo, lockNest>>
  PROVE  Moves
  BY DEF Moves

LEMMA CallerGoesFacts ==
  ASSUME ThreadInv, stat[current] = "ready", NEW b \in BOOLEAN, CallerGoes(b)
  PROVE  Moves
  <1>1. (IF b THEN <<<<"schedule">>>> ELSE <<>>) \in {<<>>, <<Sch>>}
    BY DEF Sch
  <1>. QED
    BY <1>1, GoesOnFacts DEF CallerGoes

LEMMA HandlerGoesFacts ==
  ASSUME ThreadInv, NEW b \in BOOLEAN, HandlerGoes(b), UNCHANGED lockNest
  PROVE  Moves
  BY DEF Moves, HandlerGoes

LEMMA ReturnsFacts ==
  ASSUME ThreadInv, NEW s, At(s), s \in EndNames \cup WorkNames, Then(<<>>), UNCHANGED current
  PROVE  Moves
  <1>1. stat[current] = "ready" /\ <<>> \o Tail(todo[current]) = <<>> \o <<>>
    BY LastSection
  <1>2. todo' = [todo EXCEPT ![current] = <<>>]
    BY <1>1, RestFacts DEF Then
  <1>. QED
    BY <1>1, <1>2, GoesOnFacts
-----------------------------------------------------------------------------
\* The steps of RttKernel.

\* What they leave alone.
Frame == UNCHANGED <<priority, tick, does, value, owner, original, wanted, set>>

LEMMA FrameFacts ==
  ASSUME ThreadInv, Frame, lockNest' \in Nat, spent' \in [Threads -> Int]
  PROVE  OthersKept
  <1>1. OwnersRight'
    BY DEF ThreadInv, OwnersRight, Frame
  <1>. QED
    BY <1>1 DEF ThreadInv, KernelTypes, Frame, OthersKept

LEMMA FrameOfKernel ==
  ASSUME ThreadInv, UNCHANGED <<ipcVars, msgVars>>, UNCHANGED <<priority, tick, does>>,
         lockNest' \in Nat
  PROVE  OthersKept
  <1>1. Frame /\ spent' \in [Threads -> Int]
    BY DEF Frame, ipcVars, msgVars, mutexVars, eventVars, ThreadInv, KernelTypes
  <1>. QED
    BY <1>1, FrameFacts

LEMMA LeavesKeepAll ==
  ASSUME ThreadInv, OthersKept, NEW x, NEW c, Leaves(x, c)
  PROVE  ThreadInv'
  <1>1. ListInv' /\ stat' \in [Threads -> Stats]
    BY LeavesKeeps DEF ThreadInv
  <1>2. waitList' \in [Lists -> Seq(Threads)] /\ timers' \in Seq(TimerSet)
    BY DEF Leaves
  <1>. QED
    BY <1>1, <1>2 DEF OthersKept, ThreadInv, KernelTypes, Unmanaged

\* The times threads wait are numbers.
LEMMA TimesFacts ==
  ASSUME current \in Threads
  PROVE  /\ WaitTimes \subseteq Nat /\ Forever \in Int
         /\ \A n \in WaitTimes \cup {Forever} : n \in Int
  <1>1. Waits[current] \subseteq Nat
    BY KernelAssumption
  <1>. QED
    BY <1>1 DEF WaitTimes, Forever

LEMMA YieldKeeps ==
  ASSUME ThreadInv, Yield, UNCHANGED <<ipcVars, msgVars>>
  PROVE  ThreadInv'
  <1>1. current \in Threads /\ stat[current] = "ready"
    BY CallerFacts DEF Yield
  <1>2. /\ ResumeNobody(Rotated(current)) /\ priority' = priority /\ current' = current
        /\ todo' = [todo EXCEPT ![current] = <<Sch>>]
    BY DEF Yield, ResumeNobody, Goes, Sch
  <1>3. ReadyRight(Rotated(current), stat, priority')
    BY <1>1, <1>2, RotatedKeeps DEF ThreadInv, KernelTypes, ListInv
  <1>4. \E R \in SUBSET Waiters : Resumes(R)
    BY <1>2, <1>3, ResumeNobodyFacts DEF ThreadInv
  <1>5. Moves
    BY <1>1, <1>2, GoesOnFacts
  <1>6. OthersKept
    BY FrameOfKernel DEF Yield, ThreadInv, KernelTypes
  <1>. QED
    BY <1>4, <1>5, <1>6, MovesKeepAll

LEMMA SleepKeeps ==
  ASSUME ThreadInv, NEW n \in WaitTimes, Sleep(n), UNCHANGED <<ipcVars, msgVars>>
  PROVE  ThreadInv'
  <1>. DEFINE c == <<Sch, <<"slept">>>>
  <1>1. /\ current \in Threads /\ current # Idle /\ stat[current] = "ready" /\ lockNest = 0
        /\ n \in Int
    BY CallerFacts, TimesFacts DEF Sleep
  <1>2. /\ stat' = [stat EXCEPT ![current] = "suspend"]
        /\ ready' = Remove(ready, current, priority[current])
        /\ timers' = Started(timers, current, n)
        /\ todo' = [todo EXCEPT ![current] = c]
        /\ UNCHANGED <<current, priority, lockNest, tick, does, waitList>>
    BY DEF Sleep, SuspendCurrent, StartTimer, Goes, Sch
  <1>3. IsCall(c) /\ c # <<>> /\ c[1] = Sch /\ (\A u : ~Starts(c, u)) /\ Waiting(c)
    <2>1. IsEnd(<<"slept">>)
      BY DEF IsEnd
    <2>. QED
      BY <2>1, CallFacts
  <1>. HIDE DEF c
  <1>4. /\ stat \in [Threads -> Stats] /\ priority \in [Threads -> Prios] /\ tick \in Ticks
        /\ timers \in Seq(TimerSet) /\ RunningOnce(timers)
        /\ waitList \in [Lists -> Seq(Threads)] /\ ReadyRight(ready, stat, priority)
        /\ \A l \in Lists : NoneTwice(waitList[l])
    BY DEF ThreadInv, KernelTypes, ListInv, TimedRight, ListsRight
  <1>5. ReadyRight(ready', stat', priority')
    <2>1. "suspend" \in Stats /\ "suspend" # "ready"
      BY DEF Stats
    <2>2. ReadyRight(Remove(ready, current, priority[current]),
                     [stat EXCEPT ![current] = "suspend"], priority)
      BY <1>1, <1>4, <2>1, RemoveKeeps
    <2>. QED
      BY <1>2, <2>2
  <1>6. /\ timers' \in Seq(TimerSet) /\ RunningOnce(timers')
        /\ Timed(timers') = Timed(timers) \cup {current}
    BY <1>1, <1>2, <1>4, StartedFacts
  <1>7. Leaves("suspend", c)
    BY <1>1, <1>2, <1>3, <1>4, <1>5, <1>6 DEF Leaves
  <1>8. OthersKept
    BY <1>2, FrameOfKernel DEF ThreadInv, KernelTypes
  <1>. QED
    BY <1>7, <1>8, LeavesKeepAll

LEMMA ExitKeeps ==
  ASSUME ThreadInv, Exit, UNCHANGED <<ipcVars, msgVars>>
  PROVE  ThreadInv'
  <1>1. /\ current \in Threads /\ current # Idle /\ stat[current] = "ready" /\ lockNest = 0
    BY CallerFacts DEF Exit
  <1>2. /\ stat' = [stat EXCEPT ![current] = "close"]
        /\ ready' = Remove(ready, current, priority[current])
        /\ timers' = Stopped(timers, {current})
        /\ todo' = [todo EXCEPT ![current] = <<Sch>>]
        /\ UNCHANGED <<current, priority, lockNest, tick, does, waitList>>
    BY DEF Exit, Goes, Sch
  <1>3. /\ IsCall(<<Sch>>) /\ <<Sch>> # <<>> /\ <<Sch>>[1] = Sch
        /\ \A u : ~Starts(<<Sch>>, u)
    BY CallFacts
  <1>4. /\ stat \in [Threads -> Stats] /\ priority \in [Threads -> Prios] /\ tick \in Ticks
        /\ timers \in Seq(TimerSet) /\ RunningOnce(timers)
        /\ waitList \in [Lists -> Seq(Threads)] /\ ReadyRight(ready, stat, priority)
        /\ \A l \in Lists : NoneTwice(waitList[l])
    BY DEF ThreadInv, KernelTypes, ListInv, TimedRight, ListsRight
  <1>5. ReadyRight(ready', stat', priority')
    <2>1. "close" \in Stats /\ "close" # "ready"
      BY DEF Stats
    <2>2. ReadyRight(Remove(ready, current, priority[current]),
                     [stat EXCEPT ![current] = "close"], priority)
      BY <1>1, <1>4, <2>1, RemoveKeeps
    <2>. QED
      BY <1>2, <2>2
  <1>6. /\ timers' \in Seq(TimerSet) /\ RunningOnce(timers')
        /\ Timed(timers') = Timed(timers) \ {current}
    BY <1>2, <1>4, StoppedFacts
  <1>7. Leaves("close", <<Sch>>)
    BY <1>1, <1>2, <1>3, <1>4, <1>5, <1>6 DEF Leaves
  <1>8. OthersKept
    BY <1>2, FrameOfKernel DEF ThreadInv, KernelTypes
  <1>. QED
    BY <1>7, <1>8, LeavesKeepAll

\* The first section of rt_thread_resume() in rt_thread_startup(): the thread is in no list.
LEMMA UnlinkNowKeeps ==
  ASSUME ThreadInv, UnlinkNow, UNCHANGED <<ipcVars, msgVars>>
  PROVE  ThreadInv'
  <1>. DEFINE c == todo[current]
  <1>1. /\ current \in Threads /\ current # Idle /\ stat[current] = "ready"
        /\ IsCall(c) /\ c # <<>> /\ Head(c) = c[1] /\ c[1][1] = "unlink"
    BY SectionFacts DEF UnlinkNow
  <1>2. /\ ready' = RemoveOnly(ready, Subject, priority[Subject])
        /\ waitList' = Unlinked(Subject) /\ timers' = Stopped(timers, {Subject})
        /\ todo' = [todo EXCEPT ![current] = <<>> \o Tail(@)]
        /\ UNCHANGED <<current, stat, priority, lockNest, tick, does>>
    BY DEF UnlinkNow, Then
  <1>. HIDE DEF c
  <1>3. PICK u \in Threads : c = <<<<"unlink", u>>, <<"insert", u>>, Sch>>
    BY <1>1, HeadFacts
  <1>. DEFINE d == <<<<"insert", u>>, Sch>>
  <1>4. Subject = u /\ Starts(c, u) /\ <<>> \o Tail(c) = d
    <2>1. Head(c) = <<"unlink", u>>
      BY <1>3
    <2>2. <<>> \o Tail(c) = d
      BY <1>3
    <2>. QED
      BY <1>3, <2>1, <2>2 DEF Subject, Starts, c
  <1>5. /\ stat[u] = "suspend" /\ u \notin Timed(timers)
        /\ \A l \in Lists : u \notin Elems(waitList[l])
    BY <1>1, <1>4, StartedAlone DEF ThreadInv, c
  <1>6. /\ stat \in [Threads -> Stats] /\ priority \in [Threads -> Prios]
        /\ timers \in Seq(TimerSet) /\ waitList \in [Lists -> Seq(Threads)]
        /\ ReadyRight(ready, stat, priority)
    BY DEF ThreadInv, KernelTypes, ListInv
  <1>7. ready' = ready
    <2>1. /\ ready = [list |-> ready.list, group |-> ready.group]
          /\ ready.list \in [Prios -> Seq(Threads)]
      BY <1>6, ReadyTypes DEF ReadyRight
    <2>2. u \notin Elems(ready.list[priority[u]]) /\ priority[u] \in Prios
      BY <1>5, <1>6 DEF ReadyRight
    <2>3. Without(ready.list[priority[u]], {u}) = ready.list[priority[u]]
      BY <2>2 DEF Without
    <2>4. [ready.list EXCEPT ![priority[u]] = Without(@, {u})] = ready.list
      BY <2>1, <2>3
    <2>. QED
      BY <1>2, <1>4, <2>1, <2>4 DEF RemoveOnly
  <1>8. waitList' = waitList
    <2>1. \A l \in Lists : Without(waitList[l], {u}) = waitList[l]
      BY <1>5 DEF Without
    <2>. QED
      BY <1>2, <1>4, <1>6, <2>1 DEF Unlinked
  <1>9. timers' = timers
    <2>1. \A i \in DOMAIN timers : timers[i].thread \notin {u}
      BY <1>5, <1>6, TimedDomain
    <2>. QED
      BY <1>2, <1>4, <2>1 DEF Stopped
  <1>10. GoesOnWith(d)
    <2>1. Starts(d, u) /\ Len(d) = 2 /\ d[2] = Sch /\ d[1] = <<"insert", u>>
      BY DEF Starts
    <2>2. \A v : Starts(d, v) => v = u
      <3>1. \A v : <<<<"insert", v>>, Sch>>[1] = <<"insert", v>> /\ <<"insert", v>>[2] = v
        OBVIOUS
      <3>2. \A v : Len(<<<<"unlink", v>>, <<"insert", v>>, Sch>>) = 3
        OBVIOUS
      <3>. HIDE DEF d
      <3>. QED
        BY <2>1, <3>1, <3>2 DEF Starts
    <2>3. ~Blocking(d)
      <3>1. ~IsEnd(Sch) /\ Sch[1] = "schedule"
        BY CallFacts DEF Waiting, Sch
      <3>. HIDE DEF d
      <3>. QED
        BY <2>1, <3>1 DEF Blocking
    <2>. HIDE DEF d
    <2>. QED
      BY <1>1, <1>4, <2>1, <2>2, <2>3 DEF GoesOnWith, IsCall, c
  <1>11. todo' = [todo EXCEPT ![current] = d]
    BY <1>2, <1>4 DEF c
  <1>. HIDE DEF d
  <1>12. Moves
    BY <1>1, <1>2, <1>10, <1>11 DEF Moves
  <1>13. \E R \in SUBSET Waiters : Resumes(R)
    BY <1>2, <1>7, <1>8, <1>9, ListsStayFacts DEF ListsStay
  <1>14. OthersKept
    BY <1>2, FrameOfKernel DEF ThreadInv, KernelTypes
  <1>. QED
    BY <1>12, <1>13, <1>14, MovesKeepAll

LEMMA KernelStepKeeps ==
  ASSUME ThreadInv, Section \/ Call, UNCHANGED <<ipcVars, msgVars>>
  PROVE  ThreadInv'
  <1>0. lockNest \in Nat
    BY DEF ThreadInv, KernelTypes
  <1>1. CASE Schedule
    <2>1. /\ UNCHANGED <<stat, priority, ready, lockNest, timers, waitList, tick, does>>
      BY <1>1 DEF Schedule, schedVars
    <2>2. OthersKept
      BY <1>0, <2>1, FrameOfKernel
    <2>3. ListInv' /\ stat' \in [Threads -> Stats]
      BY <1>1, ScheduleKeeps DEF ThreadInv
    <2>. QED
      BY <2>1, <2>2, <2>3 DEF OthersKept, ThreadInv, KernelTypes, Unmanaged
  <1>2. CASE Slept
    <2>1. /\ ListsStay /\ UNCHANGED <<priority, lockNest, tick, does, current>>
          /\ Then(<<>>) /\ At("slept")
      BY <1>2 DEF Slept, schedVars, ListsStay
    <2>2. OthersKept
      BY <1>0, <2>1, FrameOfKernel
    <2>3. Moves
      BY <2>1, ReturnsFacts DEF EndNames
    <2>. QED
      BY <2>1, <2>2, <2>3, ListsStayFacts, MovesKeepAll
  <1>3. ~SuspendNow /\ ~RemoveNow /\ ~StopNow /\ ~CloseNow
    <2>1. \A s : At(s) /\ s # "schedule" => s \notin {"suspend", "remove", "stop", "close"}
      BY SectionFacts, HeadFacts
    <2>. QED
      BY <2>1 DEF SuspendNow, RemoveNow, StopNow, CloseNow
  <1>4. CASE UnlinkNow
    BY <1>4, UnlinkNowKeeps
  <1>5. CASE InsertNow
    <2>1. /\ UNCHANGED <<priority, lockNest, timers, waitList, tick, does>>
      BY <1>5 DEF InsertNow
    <2>2. OthersKept
      BY <1>0, <2>1, FrameOfKernel
    <2>3. ListInv' /\ stat' \in [Threads -> Stats]
      BY <1>5, InsertNowKeeps DEF ThreadInv
    <2>. QED
      BY <2>1, <2>2, <2>3 DEF OthersKept, ThreadInv, KernelTypes, Unmanaged
  <1>6. CASE EnterCritical
    <2>1. /\ ListsStay /\ UNCHANGED <<priority, tick, does, current, todo>>
          /\ lockNest' = lockNest + 1 /\ Calls("lock")
      BY <1>6 DEF EnterCritical, schedVars, threadVars, ListsStay
    <2>2. OthersKept
      BY <1>0, <2>1, FrameOfKernel
    <2>3. todo[current] = <<>> /\ stat[current] = "ready"
      BY <2>1, CallerFacts
    <2>4. todo' = [todo EXCEPT ![current] = <<>>]
      BY <2>1, <2>3 DEF ThreadInv, ListInv, CallsRight
    <2>5. Moves
      BY <2>1, <2>3, <2>4, GoesOnFacts
    <2>. QED
      BY <2>1, <2>2, <2>5, ListsStayFacts, MovesKeepAll
  <1>7. CASE ExitCritical
    <2>1. /\ ListsStay /\ UNCHANGED <<priority, tick, does, current>>
          /\ lockNest' = lockNest - 1 /\ lockNest > 0 /\ Calls("lock")
          /\ Goes(IF lockNest = 1 THEN <<<<"schedule">>>> ELSE <<>>)
      BY <1>7 DEF ExitCritical, schedVars, ListsStay
    <2>2. OthersKept
      BY <1>0, <2>1, FrameOfKernel
    <2>3. stat[current] = "ready"
      BY <2>1, CallerFacts
    <2>4. (IF lockNest = 1 THEN <<<<"schedule">>>> ELSE <<>>) \in {<<>>, <<Sch>>}
      BY DEF Sch
    <2>5. Moves
      BY <2>1, <2>3, <2>4, GoesOnFacts DEF Goes
    <2>. QED
      BY <2>1, <2>2, <2>5, ListsStayFacts, MovesKeepAll
  <1>8. CASE IdleCleanup
    <2>1. ListsStay /\ UNCHANGED <<priority, lockNest, tick, does, current, todo>>
      BY <1>8 DEF IdleCleanup, schedVars, threadVars, ListsStay
    <2>2. OthersKept
      BY <1>0, <2>1, FrameOfKernel
    <2>3. Moves
      BY <2>1, StaysFacts
    <2>. QED
      BY <2>1, <2>2, <2>3, ListsStayFacts, MovesKeepAll
  <1>9. ASSUME NEW u \in Threads, Startup(u)
        PROVE  ThreadInv'
    <2>1. /\ UNCHANGED <<priority, lockNest, timers, waitList, tick, does>>
          /\ Calls("startup")
      BY <1>9 DEF Startup, AboutThread
    <2>2. OthersKept
      BY <1>0, <2>1, FrameOfKernel
    <2>3. current # Idle
      BY <2>1, CallerFacts
    <2>4. ListInv' /\ stat' \in [Threads -> Stats]
      BY <1>9, <2>3, StartupKeeps DEF ThreadInv
    <2>. QED
      BY <2>1, <2>2, <2>4 DEF OthersKept, ThreadInv, KernelTypes, Unmanaged
  <1>10. \A u \in Threads : /\ ~Suspend(u) /\ ~Resume(u) /\ ~Detach(u)
                            /\ \A p \in Prios : ~ChangePriority(u, p)
    <2>1. ~Calls("suspend") /\ ~Calls("detach") /\ ~Calls("priority")
      BY CallerFacts
    <2>. QED
      BY <2>1 DEF Suspend, Resume, Detach, ChangePriority, AboutThread
  <1>. QED
    BY <1>1, <1>2, <1>3, <1>4, <1>5, <1>6, <1>7, <1>8, <1>9, <1>10, YieldKeeps, SleepKeeps,
       ExitKeeps DEF Section, Call
-----------------------------------------------------------------------------
\* The tick.

LEMMA TickKeeps ==
  ASSUME ThreadInv, TickOfAll, UNCHANGED msgVars
  PROVE  ThreadInv'
  <1>. DEFINE now    == (tick + 1) % TickMod
              e      == Expired(now)
              yields == remaining[current] = 1 /\ Yields(current)
              r      == IF yields THEN Rotated(current) ELSE ready
  <1>1. /\ tick' = now /\ ready' = TimedOut(r, e)
        /\ current' = IF yields \/ e # <<>> THEN Chosen(TimedOut(r, e)) ELSE current
        /\ timers' = SubSeq(timers, Len(e) + 1, Len(timers))
        /\ stat' = [t \in Threads |-> IF t \in Elems(e) THEN "ready" ELSE stat[t]]
        /\ waitList' = [l \in Lists |-> Without(waitList[l], Elems(e))]
        /\ UNCHANGED <<priority, lockNest, todo, does>>
    BY DEF TickOfAll, Tick
  <1>2. /\ spent' = [t \in Threads |-> IF spent[t] < Timeout(t) THEN spent[t] + 1 ELSE spent[t]]
        /\ UNCHANGED <<value, owner, original, wanted, set>>
    BY DEF TickOfAll, mutexVars, msgVars, eventVars
  <1>3. /\ stat \in [Threads -> Stats] /\ priority \in [Threads -> Prios] /\ tick \in Ticks
        /\ timers \in Seq(TimerSet) /\ RunningOnce(timers) /\ current \in Threads
        /\ waitList \in [Lists -> Seq(Threads)] /\ ReadyRight(ready, stat, priority)
        /\ \A l \in Lists : NoneTwice(waitList[l])
        /\ spent \in [Threads -> Int] /\ KernelTypes /\ ListInv
    BY DEF ThreadInv, KernelTypes, ListInv, TimedRight, ListsRight, CurrentRight
  <1>4. yields => stat[current] = "ready"
    BY DEF Yields
  <1>5. ReadyRight(r, stat, priority)
    <2>1. CASE yields
      BY <1>3, <1>4, <2>1, RotatedKeeps
    <2>2. CASE ~yields
      BY <1>3, <2>2
    <2>. QED
      BY <2>1, <2>2
  <1>6. /\ e \in Seq(Threads) /\ NoneTwice(e) /\ Elems(e) \subseteq Timed(timers)
        /\ timers' \in Seq(TimerSet) /\ RunningOnce(timers')
        /\ Timed(timers') = Timed(timers) \ Elems(e)
    BY <1>1, <1>3, ExpiredFacts
  <1>7. now \in Ticks
    <2>. PICK M \in Nat : M = TickMod /\ M > 4
      BY KernelAssumption
    <2>1. tick \in 0 .. M - 1 /\ tick + 1 \in Int
      BY <1>3 DEF Ticks
    <2>2. (tick + 1) % M \in 0 .. M - 1
      BY <2>1
    <2>. QED
      BY <2>2 DEF Ticks
  <1>. HIDE DEF e, r, yields, now
  <1>8. Elems(e) \subseteq Waiters
    BY <1>3, <1>6, TimedDomain DEF Waiters, ListInv, TimedRight
  <1>9. /\ waitList' \in [Lists -> Seq(Threads)]
        /\ \A l \in Lists : /\ NoneTwice(waitList'[l])
                            /\ Elems(waitList'[l]) \subseteq Elems(waitList[l]) \ Elems(e)
    <2>1. \A l \in Lists : waitList'[l] = Without(waitList[l], Elems(e))
      BY <1>1
    <2>2. \A l \in Lists : /\ waitList[l] \in Seq(Threads)
                           /\ Without(waitList[l], Elems(e)) \in Seq(Threads)
                           /\ Elems(Without(waitList[l], Elems(e))) = Elems(waitList[l]) \ Elems(e)
                           /\ NoneTwice(Without(waitList[l], Elems(e)))
      BY <1>3, WithoutFacts
    <2>3. waitList' \in [Lists -> Seq(Threads)]
      BY <1>1, <2>2
    <2>. QED
      BY <2>1, <2>2, <2>3
  <1>10. Resumes(Elems(e))
    BY <1>1, <1>3, <1>5, <1>6, <1>8, <1>9, ResumeManyFacts
  <1>11. Moves
    BY <1>1 DEF Moves
  <1>12. OthersKept
    <2>1. spent' \in [Threads -> Int]
      <3>1. \A t \in Threads : spent[t] \in Int /\ spent[t] + 1 \in Int
        BY <1>3
      <3>. QED
        BY <1>2, <3>1
    <2>2. OwnersRight'
      BY <1>2 DEF ThreadInv, OwnersRight
    <2>. QED
      BY <1>1, <1>2, <1>7, <2>1, <2>2 DEF OthersKept, ThreadInv, KernelTypes, Unmanaged
  <1>. QED
    BY <1>8, <1>10, <1>11, <1>12, MovesKeepAll
-----------------------------------------------------------------------------
\* The calls that block.

LEMMA WaitsKeepAll ==
  ASSUME ThreadInv, OthersKept, stat[current] = "ready", current # Idle, lockNest = 0,
         NEW l \in Lists, NEW n \in Int, NEW r, ReadyRight(r, stat, priority'),
         priority'[current] = priority[current],
         NEW next, IsEnd(next), EndIn(next, l),
         SuspendOn(l, n, r, next), UNCHANGED <<current, lockNest>>
  PROVE  ThreadInv'
  <1>1. KernelTypes /\ ListInv /\ priority' \in [Threads -> Prios]
    BY DEF ThreadInv, OthersKept
  <1>2. /\ ListInv' /\ stat' \in [Threads -> Stats] /\ waitList' \in [Lists -> Seq(Threads)]
        /\ timers' \in Seq(TimerSet)
    BY <1>1, SuspendOnFacts
  <1>. QED
    BY <1>2 DEF OthersKept, ThreadInv, KernelTypes, Unmanaged

LEMMA Renumbered ==
  ASSUME NEW f \in [Threads -> Int], NEW t, NEW n \in Int
  PROVE  [f EXCEPT ![t] = n] \in [Threads -> Int]
  OBVIOUS

\* Of those that change no priority.
LEMMA BlocksKeepAll ==
  ASSUME ThreadInv, Frame, stat[current] = "ready", current # Idle, lockNest = 0,
         NEW l \in Lists, NEW n \in Int, NEW next, IsEnd(next), EndIn(next, l),
         SuspendOn(l, n, ready, next), UNCHANGED <<current, lockNest>>
  PROVE  ThreadInv'
  <1>1. ReadyRight(ready, stat, priority') /\ priority'[current] = priority[current]
    BY DEF ThreadInv, ListInv, Frame
  <1>2. lockNest' \in Nat /\ spent' \in [Threads -> Int]
    <2>1. spent' = [spent EXCEPT ![current] = 0] /\ spent \in [Threads -> Int]
      BY DEF SuspendOn, SuspendIn, ThreadInv, KernelTypes
    <2>2. lockNest' = 0
      OBVIOUS
    <2>3. spent' \in [Threads -> Int]
      BY <2>1, Renumbered
    <2>. QED
      BY <2>2, <2>3
  <1>3. OthersKept
    BY <1>2, FrameFacts
  <1>. QED
    BY <1>1, <1>3, WaitsKeepAll

LEMMA EndsFacts ==
  /\ \A s \in Sems : IsEnd(<<"sem_end", s>>) /\ EndIn(<<"sem_end", s>>, s) /\ s \in Lists
  /\ \A m \in Mutexes : IsEnd(<<"mutex_end", m>>) /\ EndIn(<<"mutex_end", m>>, m) /\ m \in Lists
  /\ \A s \in SUBSET Bits : IsEnd(<<"event_end", s>>) /\ EndIn(<<"event_end", s>>, Event)
  /\ \A x \in Msgs, n \in Int : /\ IsEnd(<<"send_again", x, n>>)
                                /\ EndIn(<<"send_again", x, n>>, Senders)
  /\ \A n \in Int : /\ IsEnd(<<"recv_again", n>>) /\ EndIn(<<"recv_again", n>>, Receivers)
                    /\ IsEnd(<<"mq_again", n>>) /\ EndIn(<<"mq_again", n>>, Queue)
                    /\ IsEnd(<<"mp_woken", n>>) /\ EndIn(<<"mp_woken", n>>, Pool)
  /\ Receivers \in Lists /\ Senders \in Lists /\ Event \in Lists /\ Queue \in Lists
  /\ Pool \in Lists
  <1>1. /\ Sems \subseteq Lists /\ Mutexes \subseteq Lists
        /\ Receivers \in Lists /\ Senders \in Lists /\ Event \in Lists /\ Queue \in Lists
        /\ Pool \in Lists
    BY IpcAssumption, MessagesAssumption
  <1>2. \A s \in Sems : IsEnd(<<"sem_end", s>>) /\ EndIn(<<"sem_end", s>>, s)
    BY DEF IsEnd, EndIn
  <1>3. \A m \in Mutexes : IsEnd(<<"mutex_end", m>>) /\ EndIn(<<"mutex_end", m>>, m)
    BY DEF IsEnd, EndIn
  <1>4. \A s \in SUBSET Bits : IsEnd(<<"event_end", s>>) /\ EndIn(<<"event_end", s>>, Event)
    BY DEF IsEnd, EndIn
  <1>5. \A x \in Msgs, n \in Int : /\ IsEnd(<<"send_again", x, n>>)
                                   /\ EndIn(<<"send_again", x, n>>, Senders)
    BY DEF IsEnd, EndIn
  <1>6. \A n \in Int : /\ IsEnd(<<"recv_again", n>>) /\ EndIn(<<"recv_again", n>>, Receivers)
                       /\ IsEnd(<<"mq_again", n>>) /\ EndIn(<<"mq_again", n>>, Queue)
                       /\ IsEnd(<<"mp_woken", n>>) /\ EndIn(<<"mp_woken", n>>, Pool)
    BY DEF IsEnd, EndIn
  <1>. QED
    BY <1>1, <1>2, <1>3, <1>4, <1>5, <1>6

\* What is left of the time of a call is a number, and so it is when it is looked at again.
LEMMA LeftFacts ==
  ASSUME ThreadInv, NEW n \in Int
  PROVE  WaitLeft(n) \in Int
  <1>1. spent[current] \in Int
    BY DEF ThreadInv, KernelTypes, ListInv, CurrentRight
  <1>. QED
    BY <1>1 DEF WaitLeft, Forever

LEMMA ResumeOneFacts ==
  ASSUME ThreadInv, NEW l \in Lists, UNCHANGED priority, ResumeOne(l)
  PROVE  \E R \in SUBSET Waiters : Resumes(R)
  <1>1. KernelTypes /\ ListInv /\ ReadyRight(ready, stat, priority')
        /\ priority' \in [Threads -> Prios]
    BY DEF ThreadInv, KernelTypes, ListInv
  <1>2. CASE waitList[l] # <<>>
    <2>1. ResumeFirst(l, ready, priority')
      BY <1>2 DEF ResumeOne
    <2>. QED
      BY <1>1, <1>2, <2>1, ResumeFirstFacts
  <1>3. CASE waitList[l] = <<>>
    <2>1. ResumeNobody(ready)
      BY <1>3 DEF ResumeOne
    <2>. QED
      BY <1>1, <2>1, ResumeNobodyFacts
  <1>. QED
    BY <1>2, <1>3

\* A thread that runs and is in no call is ready.
LEMMA IdleFacts ==
  ASSUME ThreadInv, todo[current] = <<>>
  PROVE  current \in Threads /\ stat[current] = "ready"
  BY DEF ThreadInv, ListInv, CurrentRight
-----------------------------------------------------------------------------
\* The calls of RttIpc.

LEMMA SemTakeKeeps ==
  ASSUME ThreadInv, NEW s \in Sems, NEW n \in Int, SemTake(s, n), UNCHANGED msgVars
  PROVE  ThreadInv'
  <1>1. current \in Threads /\ current # Idle /\ stat[current] = "ready"
    BY CallerFacts DEF SemTake
  <1>2. /\ UNCHANGED <<current, priority, lockNest, tick, does, owner, original, wanted, set>>
    BY DEF SemTake, mutexVars, msgVars, eventVars
  <1>3. CASE value[s] = 0 /\ SuspendOn(s, n, ready, <<"sem_end", s>>) /\ lockNest = 0
                          /\ UNCHANGED value
    <2>1. Frame
      BY <1>2, <1>3 DEF Frame
    <2>. QED
      BY <1>1, <1>2, <1>3, <2>1, EndsFacts, BlocksKeepAll
  <1>4. CASE /\ value[s] > 0 /\ value' = [value EXCEPT ![s] = @ - 1]
             /\ UNCHANGED <<stat, ready, waitList, timers, spent, todo>>
    <2>1. /\ value \in [Objects -> Nat] /\ value[s] \in Nat /\ value[s] - 1 \in Nat
          /\ spent \in [Threads -> Int]
      BY <1>4 DEF ThreadInv, KernelTypes, Objects
    <2>2. value' \in [Objects -> Nat] /\ \A m \in Mutexes : value'[m] = value[m]
      BY <1>4, <2>1, IpcAssumption DEF Objects
    <2>3. OwnersRight'
      BY <1>2, <2>2 DEF ThreadInv, OwnersRight
    <2>4. OthersKept
      BY <1>2, <1>4, <2>1, <2>2, <2>3 DEF OthersKept, ThreadInv, KernelTypes, Unmanaged
    <2>5. Moves /\ ListsStay
      BY <1>2, <1>4, StaysFacts DEF ListsStay
    <2>. QED
      BY <2>4, <2>5, ListsStayFacts, MovesKeepAll
  <1>. QED
    BY <1>3, <1>4 DEF SemTake

LEMMA ReleaseFacts ==
  ASSUME ThreadInv, NEW s \in Sems, Release(s), UNCHANGED priority
  PROVE  /\ \E R \in SUBSET Waiters : Resumes(R)
         /\ value' \in [Objects -> Nat] /\ \A m \in Mutexes : value'[m] = value[m]
  <1>1. ResumeOne(s) /\ (UNCHANGED value \/ value' = [value EXCEPT ![s] = @ + 1])
    BY DEF Release, ResumeOne
  <1>2. s \in Objects /\ s \in Lists /\ value \in [Objects -> Nat] /\ value[s] + 1 \in Nat
    <2>1. s \in Objects /\ s \in Lists /\ value \in [Objects -> Nat]
      BY EndsFacts DEF Objects, ThreadInv, KernelTypes
    <2>. QED
      BY <2>1
  <1>3. value' \in [Objects -> Nat] /\ \A m \in Mutexes : value'[m] = value[m]
    BY <1>1, <1>2, IpcAssumption DEF Objects
  <1>. QED
    BY <1>1, <1>2, <1>3, ResumeOneFacts

\* A release by a thread or a handler, and a reset of a semaphore.
LEMMA SemStepKeeps ==
  ASSUME ThreadInv, Moves, \E R \in SUBSET Waiters : Resumes(R),
         value' \in [Objects -> Nat], \A m \in Mutexes : value'[m] = value[m],
         UNCHANGED <<priority, lockNest, tick, does, owner, original, spent, wanted, set>>
  PROVE  ThreadInv'
  <1>1. OwnersRight'
    BY DEF ThreadInv, OwnersRight
  <1>2. OthersKept
    BY <1>1 DEF OthersKept, ThreadInv, KernelTypes, Unmanaged
  <1>. QED
    BY <1>2, MovesKeepAll

LEMMA SemReleaseKeeps ==
  ASSUME ThreadInv, NEW s \in Sems, SemRelease(s) \/ SemReleaseISR(s), UNCHANGED msgVars
  PROVE  ThreadInv'
  <1>1. /\ UNCHANGED <<priority, lockNest, tick, does, owner, original, spent, wanted, set>>
        /\ Release(s)
    BY DEF SemRelease, SemReleaseISR, mutexVars, msgVars, eventVars
  <1>2. (waitList[s] # <<>>) \in BOOLEAN
    OBVIOUS
  <1>3. Moves
    <2>1. CASE SemRelease(s)
      BY <1>2, <2>1, IdleFacts, CallerGoesFacts DEF SemRelease
    <2>2. CASE SemReleaseISR(s)
      BY <1>1, <1>2, <2>2, HandlerGoesFacts DEF SemReleaseISR
    <2>. QED
      BY <2>1, <2>2
  <1>. QED
    BY <1>1, <1>3, ReleaseFacts, SemStepKeeps

LEMMA SemResetKeeps ==
  ASSUME ThreadInv, NEW s \in Sems, NEW n \in Nat, SemReset(s, n), UNCHANGED msgVars
  PROVE  ThreadInv'
  <1>1. /\ UNCHANGED <<priority, lockNest, tick, does, owner, original, spent, wanted, set>>
        /\ ResumeAll(<<s>>) /\ value' = [value EXCEPT ![s] = n] /\ CallerGoes(TRUE)
    BY DEF SemReset, mutexVars, msgVars, eventVars
  <1>2. Moves
    BY <1>1, CallerFacts, CallerGoesFacts DEF SemReset
  <1>3. s \in Lists /\ Event \in Lists /\ s # Event
    BY EndsFacts, MessagesAssumption DEF Objects
  <1>4. \E R \in SUBSET Waiters : Resumes(R)
    BY <1>1, <1>3, ResumeAllFacts DEF ThreadInv
  <1>5. value' \in [Objects -> Nat] /\ \A m \in Mutexes : value'[m] = value[m]
    BY <1>1, IpcAssumption DEF Objects, ThreadInv, KernelTypes
  <1>. QED
    BY <1>1, <1>2, <1>4, <1>5, SemStepKeeps

\* The second sections of the calls that waited, which only note what came of it.
LEMMA EndKeeps ==
  ASSUME ThreadInv, SemEnd \/ MutexEnd, UNCHANGED msgVars
  PROVE  ThreadInv'
  <1>1. /\ ListsStay /\ UNCHANGED <<current, lockNest>> /\ Frame
        /\ spent' = [spent EXCEPT ![current] = 0]
        /\ Then(<<>>) /\ (At("sem_end") \/ At("mutex_end"))
    BY DEF SemEnd, MutexEnd, Returns, mutexVars, schedVars, msgVars, eventVars, ListsStay, Frame
  <1>2. Moves
    BY <1>1, ReturnsFacts DEF EndNames
  <1>3. OthersKept
    <2>1. spent \in [Threads -> Int] /\ lockNest' \in Nat
      BY <1>1 DEF ThreadInv, KernelTypes
    <2>2. spent' \in [Threads -> Int]
      BY <1>1, <2>1, Renumbered
    <2>. QED
      BY <1>1, <2>1, <2>2, FrameFacts
  <1>. QED
    BY <1>1, <1>2, <1>3, ListsStayFacts, MovesKeepAll

LEMMA MutexTakeAgainKeeps ==
  ASSUME ThreadInv, NEW m \in Mutexes, MutexTakeAgain(m), UNCHANGED msgVars
  PROVE  ThreadInv'
  <1>1. /\ ListsStay /\ UNCHANGED <<current, lockNest, todo, spent>> /\ Frame
    BY DEF MutexTakeAgain, schedVars, msgVars, eventVars, ListsStay, Frame
  <1>2. OthersKept
    <2>1. spent' \in [Threads -> Int] /\ lockNest' \in Nat
      BY <1>1 DEF ThreadInv, KernelTypes
    <2>. QED
      BY <1>1, <2>1, FrameFacts
  <1>. QED
    BY <1>1, <1>2, StaysFacts, ListsStayFacts, MovesKeepAll

LEMMA MutexTakeFreeKeeps ==
  ASSUME ThreadInv, NEW m \in Mutexes, MutexTakeFree(m), UNCHANGED msgVars
  PROVE  ThreadInv'
  <1>1. /\ ListsStay
        /\ UNCHANGED <<current, lockNest, todo, spent, tick, does, wanted, set, priority>>
        /\ value[m] > 0 /\ value' = [value EXCEPT ![m] = @ - 1]
        /\ owner' = [owner EXCEPT ![m] = current]
        /\ original' = [original EXCEPT ![m] = priority[current]]
    BY DEF MutexTakeFree, schedVars, msgVars, eventVars, ListsStay
  <1>2. /\ current \in Threads /\ priority[current] \in Prios /\ m \in Objects
        /\ value \in [Objects -> Nat] /\ owner \in [Mutexes -> Threads \cup {NoThread}]
        /\ original \in [Mutexes -> 0 .. Never]
    BY DEF ThreadInv, KernelTypes, ListInv, CurrentRight, Objects
  <1>3. value[m] = 1
    BY <1>1 DEF ThreadInv, OwnersRight
  <1>4. value' \in [Objects -> Nat] /\ value'[m] = 0
        /\ \A k \in Mutexes \ {m} : value'[k] = value[k]
    BY <1>1, <1>2, <1>3 DEF Objects
  <1>5. owner' \in [Mutexes -> Threads \cup {NoThread}] /\ original' \in [Mutexes -> 0 .. Never]
    <2>1. priority[current] \in 0 .. Never
      BY <1>2, KernelAssumption DEF Prios, Never
    <2>. QED
      BY <1>1, <1>2, <2>1
  <1>6. OwnersRight'
    <2>1. /\ owner'[m] = current /\ original'[m] = priority[current]
          /\ \A k \in Mutexes \ {m} : owner'[k] = owner[k] /\ original'[k] = original[k]
      BY <1>1, <1>2
    <2>. QED
      BY <1>2, <1>4, <2>1 DEF ThreadInv, OwnersRight
  <1>7. OthersKept
    BY <1>1, <1>4, <1>5, <1>6 DEF OthersKept, ThreadInv, KernelTypes, Unmanaged
  <1>. QED
    BY <1>1, <1>7, StaysFacts, ListsStayFacts, MovesKeepAll

LEMMA MutexTakeWaitKeeps ==
  ASSUME ThreadInv, NEW m \in Mutexes, NEW n \in Int, MutexTakeWait(m, n),
         UNCHANGED msgVars
  PROVE  ThreadInv'
  <1>. DEFINE h == owner[m]
              p == Inherited(h, current)
              r == IF p # priority[h] THEN Reprioritized(ready, h, p) ELSE ready
  <1>1. /\ current \in Threads /\ current # Idle /\ stat[current] = "ready" /\ lockNest = 0
    BY CallerFacts DEF MutexTakeWait, MayTake
  <1>2. /\ UNCHANGED <<current, lockNest, tick, does, value, owner, original, wanted, set>>
        /\ value[m] = 0 /\ h # current
        /\ priority' = [priority EXCEPT ![h] = p]
        /\ SuspendOn(m, n, r, <<"mutex_end", m>>)
    BY DEF MutexTakeWait, mutexVars, msgVars, eventVars
  <1>3. /\ h \in Threads /\ priority \in [Threads -> Prios] /\ stat \in [Threads -> Stats]
        /\ ReadyRight(ready, stat, priority)
    BY <1>2 DEF ThreadInv, OwnersRight, KernelTypes, ListInv
  <1>4. p \in Prios
    BY <1>1, <1>3 DEF Inherited
  <1>. HIDE DEF h, p
  <1>5. ReadyRight(r, stat, priority')
    <2>1. ReadyRight(Reprioritized(ready, h, p), stat, [priority EXCEPT ![h] = p])
      BY <1>3, <1>4, ReprioritizedKeeps
    <2>2. p = priority[h] => priority' = priority
      BY <1>2, <1>3
    <2>. QED
      BY <1>2, <1>3, <2>1, <2>2
  <1>. HIDE DEF r
  <1>6. priority' \in [Threads -> Prios] /\ priority'[current] = priority[current]
    BY <1>1, <1>2, <1>3, <1>4
  <1>7. OthersKept
    <2>1. spent' \in [Threads -> Int]
      <3>1. spent' = [spent EXCEPT ![current] = 0] /\ spent \in [Threads -> Int]
        BY <1>2 DEF SuspendOn, SuspendIn, ThreadInv, KernelTypes
      <3>. QED
        BY <3>1, Renumbered
    <2>2. OwnersRight'
      BY <1>2 DEF ThreadInv, OwnersRight
    <2>3. lockNest' \in Nat
      BY <1>1, <1>2
    <2>. QED
      BY <1>2, <1>6, <2>1, <2>2, <2>3 DEF OthersKept, ThreadInv, KernelTypes, Unmanaged
  <1>. QED
    BY <1>1, <1>2, <1>5, <1>6, <1>7, EndsFacts, WaitsKeepAll

LEMMA MutexReleaseKeeps ==
  ASSUME ThreadInv, NEW m \in Mutexes, MutexRelease(m), UNCHANGED msgVars
  PROVE  ThreadInv'
  <1>. DEFINE p     == original[m]
              r     == IF p # priority[current] THEN Reprioritized(ready, current, p) ELSE ready
              heirs == waitList[m]
              freed == hold[m] = 1
  <1>1. /\ UNCHANGED <<lockNest, tick, does, spent, wanted, set>>
        /\ todo[current] = <<>> /\ owner[m] = current
        /\ priority' = IF freed THEN [priority EXCEPT ![current] = p] ELSE priority
        /\ CallerGoes(freed /\ heirs # <<>>)
        /\ \/ /\ ~freed
              /\ ResumeNobody(ready) /\ UNCHANGED <<value, owner, original>>
           \/ /\ freed /\ heirs # <<>>
              /\ ResumeFirst(m, r, priority')
              /\ owner' = [owner EXCEPT ![m] = Head(heirs)]
              /\ original' = [original EXCEPT ![m] = priority'[Head(heirs)]]
              /\ UNCHANGED value
           \/ /\ freed /\ heirs = <<>>
              /\ ResumeNobody(r)
              /\ value' = [value EXCEPT ![m] = @ + 1]
              /\ owner' = [owner EXCEPT ![m] = NoThread]
              /\ original' = [original EXCEPT ![m] = Never]
    BY DEF MutexRelease, RestoredTo, msgVars, eventVars
  <1>2. /\ current \in Threads /\ stat[current] = "ready" /\ m \in Lists /\ m \in Objects
        /\ priority \in [Threads -> Prios] /\ stat \in [Threads -> Stats]
        /\ ReadyRight(ready, stat, priority) /\ KernelTypes /\ ListInv
        /\ value \in [Objects -> Nat] /\ owner \in [Mutexes -> Threads \cup {NoThread}]
        /\ original \in [Mutexes -> 0 .. Never]
    BY <1>1, IdleFacts, EndsFacts DEF ThreadInv, KernelTypes, ListInv, Objects
  <1>3. p \in Prios /\ value[m] = 0
    BY <1>1, <1>2, KernelAssumption DEF ThreadInv, OwnersRight
  <1>4. priority' \in [Threads -> Prios]
    BY <1>1, <1>2, <1>3
  <1>5. Moves
    <2>1. (freed /\ heirs # <<>>) \in BOOLEAN
      OBVIOUS
    <2>. HIDE DEF freed, heirs
    <2>. QED
      BY <1>1, <1>2, <2>1, CallerGoesFacts
  <1>6. freed => ReadyRight(r, stat, priority')
    <2>1. ReadyRight(Reprioritized(ready, current, p), stat, [priority EXCEPT ![current] = p])
      BY <1>2, <1>3, ReprioritizedKeeps
    <2>2. freed /\ p = priority[current] => priority' = priority
      BY <1>1, <1>2
    <2>. HIDE DEF freed, p
    <2>. QED
      BY <1>1, <1>2, <2>1, <2>2
  <1>. HIDE DEF p, r
  <1>7. CASE ~freed
    <2>1. ResumeNobody(ready) /\ UNCHANGED <<value, owner, original, priority>>
      BY <1>1, <1>7
    <2>2. \E R \in SUBSET Waiters : Resumes(R)
      BY <1>2, <2>1, ResumeNobodyFacts
    <2>3. OwnersRight'
      BY <2>1 DEF ThreadInv, OwnersRight
    <2>4. OthersKept
      BY <1>1, <1>4, <2>1, <2>3 DEF OthersKept, ThreadInv, KernelTypes, Unmanaged
    <2>. QED
      BY <1>5, <2>2, <2>4, MovesKeepAll
  <1>8. CASE freed /\ heirs # <<>>
    <2>1. /\ ResumeFirst(m, r, priority') /\ owner' = [owner EXCEPT ![m] = Head(heirs)]
          /\ original' = [original EXCEPT ![m] = priority'[Head(heirs)]] /\ UNCHANGED value
      BY <1>1, <1>8
    <2>2. /\ Head(heirs) \in Threads /\ \E R \in SUBSET Waiters : Resumes(R)
      BY <1>2, <1>4, <1>6, <1>8, <2>1, ResumeFirstFacts
    <2>3. priority'[Head(heirs)] \in Prios /\ priority'[Head(heirs)] \in 0 .. Never
      <3>1. Prios \subseteq 0 .. Never
        BY KernelAssumption DEF Prios, Never
      <3>. QED
        BY <1>4, <2>2, <3>1
    <2>4. /\ owner' \in [Mutexes -> Threads \cup {NoThread}] /\ original' \in [Mutexes -> 0 .. Never]
      BY <1>2, <2>1, <2>2, <2>3
    <2>5. OwnersRight'
      <3>1. /\ owner'[m] = Head(heirs) /\ original'[m] = priority'[Head(heirs)] /\ value'[m] = 0
            /\ \A k \in Mutexes \ {m} : owner'[k] = owner[k] /\ original'[k] = original[k]
            /\ value' = value
        BY <1>2, <1>3, <2>1
      <3>. QED
        BY <2>2, <2>3, <3>1 DEF ThreadInv, OwnersRight
    <2>6. OthersKept
      BY <1>1, <1>4, <2>1, <2>4, <2>5 DEF OthersKept, ThreadInv, KernelTypes, Unmanaged
    <2>. QED
      BY <1>5, <2>2, <2>6, MovesKeepAll
  <1>9. CASE freed /\ heirs = <<>>
    <2>1. /\ ResumeNobody(r) /\ value' = [value EXCEPT ![m] = @ + 1]
          /\ owner' = [owner EXCEPT ![m] = NoThread] /\ original' = [original EXCEPT ![m] = Never]
      BY <1>1, <1>9
    <2>2. \E R \in SUBSET Waiters : Resumes(R)
      BY <1>2, <1>6, <1>9, <2>1, ResumeNobodyFacts
    <2>3. value' \in [Objects -> Nat] /\ value'[m] = 1
          /\ \A k \in Mutexes \ {m} : value'[k] = value[k]
      BY <1>2, <1>3, <2>1 DEF Objects
    <2>4. /\ owner' \in [Mutexes -> Threads \cup {NoThread}] /\ original' \in [Mutexes -> 0 .. Never]
      <3>1. Never \in 0 .. Never
        BY KernelAssumption DEF Never
      <3>. QED
        BY <1>2, <2>1, <3>1
    <2>5. OwnersRight'
      <3>1. /\ owner'[m] = NoThread
            /\ \A k \in Mutexes \ {m} : owner'[k] = owner[k] /\ original'[k] = original[k]
        BY <1>2, <2>1
      <3>. QED
        BY <2>3, <3>1 DEF ThreadInv, OwnersRight
    <2>6. OthersKept
      BY <1>1, <1>4, <2>3, <2>4, <2>5 DEF OthersKept, ThreadInv, KernelTypes, Unmanaged
    <2>. QED
      BY <1>5, <2>2, <2>6, MovesKeepAll
  <1>. QED
    BY <1>7, <1>8, <1>9
-----------------------------------------------------------------------------
\* The mailbox.

\* A call or a handler that resumes threads, or none, and changes what no invariant is about.
LEMMA MovingKeeps ==
  ASSUME ThreadInv, Frame, Moves, \E R \in SUBSET Waiters : Resumes(R), lockNest' = lockNest,
         spent' = spent \/ spent' = [spent EXCEPT ![current] = 0]
  PROVE  ThreadInv'
  <1>1. spent \in [Threads -> Int] /\ lockNest \in Nat
    BY DEF ThreadInv, KernelTypes
  <1>2. [spent EXCEPT ![current] = 0] \in [Threads -> Int]
    BY <1>1, Renumbered
  <1>3. OthersKept
    BY <1>1, <1>2, FrameFacts
  <1>. QED
    BY <1>3, MovesKeepAll

LEMMA SendKeeps ==
  ASSUME ThreadInv, NEW x \in Msgs, NEW n \in Int, Send(x, n) \/ SendISR(x),
         UNCHANGED msgVars
  PROVE  ThreadInv'
  <1>1. Frame /\ UNCHANGED lockNest
    BY DEF Send, SendISR, mutexVars, msgVars, eventVars, Frame
  <1>2. (waitList[Receivers] # <<>>) \in BOOLEAN /\ Receivers \in Lists /\ Senders \in Lists
    BY EndsFacts
  <1>3. CASE /\ Send(x, n) /\ lockNest = 0 /\ UNCHANGED current
             /\ SuspendOn(Senders, n, ready, <<"send_again", x, n>>)
    <2>1. current # Idle /\ stat[current] = "ready"
      BY <1>3, CallerFacts DEF Send
    <2>. QED
      BY <1>1, <1>2, <1>3, <2>1, EndsFacts, BlocksKeepAll
  <1>4. CASE /\ Send(x, n) /\ UNCHANGED spent
             /\ ResumeOne(Receivers) /\ CallerGoes(waitList[Receivers] # <<>>)
    <2>1. current # Idle /\ stat[current] = "ready"
      BY <1>4, CallerFacts DEF Send
    <2>2. Moves
      BY <1>2, <1>4, <2>1, CallerGoesFacts
    <2>. QED
      BY <1>1, <1>2, <1>4, <2>2, ResumeOneFacts, MovingKeeps DEF Frame
  <1>5. CASE SendISR(x)
    <2>1. ResumeOne(Receivers) /\ HandlerGoes(waitList[Receivers] # <<>>) /\ UNCHANGED spent
      BY <1>5 DEF SendISR
    <2>2. Moves
      BY <1>1, <1>2, <2>1, HandlerGoesFacts
    <2>. QED
      BY <1>1, <1>2, <2>1, <2>2, ResumeOneFacts, MovingKeeps DEF Frame
  <1>. QED
    BY <1>3, <1>4, <1>5 DEF Send

LEMMA ReceiveKeeps ==
  ASSUME ThreadInv, NEW n \in Int, Receive(n), UNCHANGED msgVars
  PROVE  ThreadInv'
  <1>1. Frame /\ UNCHANGED lockNest
    BY DEF Receive, mutexVars, msgVars, eventVars, Frame
  <1>2. (waitList[Senders] # <<>>) \in BOOLEAN /\ Receivers \in Lists /\ Senders \in Lists
    BY EndsFacts
  <1>3. current # Idle /\ stat[current] = "ready"
    BY CallerFacts DEF Receive
  <1>4. CASE /\ lockNest = 0 /\ UNCHANGED current
             /\ SuspendOn(Receivers, n, ready, <<"recv_again", n>>)
    BY <1>1, <1>2, <1>3, <1>4, EndsFacts, BlocksKeepAll
  <1>5. CASE ResumeOne(Senders) /\ CallerGoes(waitList[Senders] # <<>>) /\ UNCHANGED spent
    <2>1. Moves
      BY <1>2, <1>3, <1>5, CallerGoesFacts
    <2>. QED
      BY <1>1, <1>2, <1>5, <2>1, ResumeOneFacts, MovingKeeps DEF Frame
  <1>. QED
    BY <1>4, <1>5 DEF Receive

\* The sections of the calls that look again: the message and the time of such a call.
LEMMA AgainFacts ==
  ASSUME ThreadInv, NEW s, At(s)
  PROVE  /\ s = "send_again" => /\ Head(todo[current])[2] \in Msgs
                                /\ Head(todo[current])[3] \in Int
         /\ s \in {"recv_again", "mq_again", "mp_woken", "mp_again"} =>
              Head(todo[current])[2] \in Int
  <1>. DEFINE e == todo[current][1]
  <1>1. s \in {"send_again", "recv_again", "mq_again", "mp_woken", "mp_again"} =>
          /\ Head(todo[current]) = e /\ e[1] = s
          /\ IF s = "mp_again" THEN IsWork(e) ELSE IsEnd(e)
    <2>1. s \in {"send_again", "recv_again", "mq_again", "mp_woken"} => s \in EndNames
      BY DEF EndNames
    <2>2. s = "mp_again" => s \in WorkNames /\ s \notin EndNames
      BY DEF WorkNames, EndNames
    <2>. QED
      BY <2>1, <2>2, LastSection
  <1>. HIDE DEF e
  <1>2. IsEnd(e) /\ e[1] = "send_again" => e[2] \in Msgs /\ e[3] \in Int
    <2>1. <<"slept">>[1] = "slept"
      OBVIOUS
    <2>. QED
      BY <2>1 DEF IsEnd
  <1>3. IsEnd(e) /\ e[1] \in {"recv_again", "mq_again", "mp_woken"} => e[2] \in Int
    <2>1. <<"slept">>[1] = "slept"
      OBVIOUS
    <2>. QED
      BY <2>1 DEF IsEnd
  <1>4. IsWork(e) /\ e[1] = "mp_again" => e[2] \in Int
    BY DEF IsWork
  <1>. QED
    BY <1>1, <1>2, <1>3, <1>4

\* What they do: fail, work, or wait again.
LEMMA LoopKeeps ==
  ASSUME ThreadInv, Frame, UNCHANGED lockNest, NEW s \in EndNames, At(s),
         NEW l \in Lists, NEW m \in Lists, NEW n \in Int, NEW refused, NEW k \in Int, NEW next,
         IsEnd(next), EndIn(next, m),
         Fails(refused, n) \/ Works(l) \/ WaitsAgain(m, k, next)
  PROVE  ThreadInv'
  <1>1. current # Idle /\ stat[current] = "ready" /\ lockNest = 0
    BY LastSection
  <1>2. CASE Fails(refused, n)
    <2>1. ListsStay /\ Then(<<>>) /\ UNCHANGED current /\ spent' = [spent EXCEPT ![current] = 0]
      BY <1>2 DEF Fails, Returns, ListsStay, Frame
    <2>2. Moves
      BY <2>1, ReturnsFacts
    <2>. QED
      BY <2>1, <2>2, ListsStayFacts, MovingKeeps
  <1>3. CASE Works(l)
    <2>1. /\ ResumeOne(l) /\ CallerGoes(waitList[l] # <<>>)
          /\ spent' = [spent EXCEPT ![current] = 0]
      BY <1>3 DEF Works, Returns
    <2>2. (waitList[l] # <<>>) \in BOOLEAN
      OBVIOUS
    <2>3. Moves
      BY <1>1, <2>1, <2>2, CallerGoesFacts
    <2>. QED
      BY <2>1, <2>3, ResumeOneFacts, MovingKeeps DEF Frame
  <1>4. CASE WaitsAgain(m, k, next)
    <2>1. SuspendOn(m, k, ready, next) /\ UNCHANGED current
      BY <1>4 DEF WaitsAgain
    <2>. QED
      BY <1>1, <2>1, BlocksKeepAll
  <1>. QED
    BY <1>2, <1>3, <1>4

LEMMA SendAgainKeeps ==
  ASSUME ThreadInv, SendAgain, UNCHANGED msgVars
  PROVE  ThreadInv'
  <1>. DEFINE x == Head(todo[current])[2]
              n == Head(todo[current])[3]
              next == <<"send_again", x, WaitLeft(n)>>
  <1>1. /\ Frame /\ UNCHANGED lockNest /\ At("send_again")
        /\ Fails(entry = BoxSize, n) \/ Works(Receivers) \/ WaitsAgain(Senders, WaitLeft(n), next)
    BY DEF SendAgain, mutexVars, msgVars, eventVars, Frame
  <1>2. x \in Msgs /\ n \in Int
    BY <1>1, AgainFacts
  <1>. HIDE DEF x, n
  <1>3. WaitLeft(n) \in Int
    BY <1>2, LeftFacts
  <1>4. IsEnd(next) /\ EndIn(next, Senders) /\ Senders \in Lists /\ Receivers \in Lists
    BY <1>2, <1>3, EndsFacts
  <1>5. "send_again" \in EndNames
    BY DEF EndNames
  <1>. HIDE DEF next
  <1>. QED
    BY <1>1, <1>2, <1>3, <1>4, <1>5, LoopKeeps

LEMMA ReceiveAgainKeeps ==
  ASSUME ThreadInv, ReceiveAgain, UNCHANGED msgVars
  PROVE  ThreadInv'
  <1>. DEFINE n == Head(todo[current])[2]
              next == <<"recv_again", WaitLeft(n)>>
  <1>1. /\ Frame /\ UNCHANGED lockNest /\ At("recv_again")
        /\ Fails(entry = 0, n) \/ Works(Senders) \/ WaitsAgain(Receivers, WaitLeft(n), next)
    BY DEF ReceiveAgain, mutexVars, msgVars, eventVars, Frame
  <1>2. n \in Int
    BY <1>1, AgainFacts
  <1>. HIDE DEF n
  <1>3. WaitLeft(n) \in Int
    BY <1>2, LeftFacts
  <1>4. IsEnd(next) /\ EndIn(next, Receivers) /\ Senders \in Lists /\ Receivers \in Lists
    BY <1>3, EndsFacts
  <1>5. "recv_again" \in EndNames
    BY DEF EndNames
  <1>. HIDE DEF next
  <1>. QED
    BY <1>1, <1>2, <1>3, <1>4, <1>5, LoopKeeps

LEMMA BoxResetKeeps ==
  ASSUME ThreadInv, BoxReset, UNCHANGED msgVars
  PROVE  ThreadInv'
  <1>1. /\ Frame /\ UNCHANGED <<lockNest, spent>> /\ CallerGoes(TRUE)
        /\ ResumeAll(<<Receivers, Senders>>)
    BY DEF BoxReset, mutexVars, msgVars, eventVars, Frame
  <1>2. Moves
    BY <1>1, CallerFacts, CallerGoesFacts DEF BoxReset
  <1>3. Receivers \in Lists /\ Senders \in Lists /\ Receivers # Senders
    BY EndsFacts DEF Receivers, Senders
  <1>4. \E R \in SUBSET Waiters : Resumes(R)
    BY <1>1, <1>3, ResumeAllFacts DEF ThreadInv, Frame
  <1>. QED
    BY <1>1, <1>2, <1>4, MovingKeeps

LEMMA IpcStepKeeps ==
  ASSUME ThreadInv, IpcNext, UNCHANGED msgVars
  PROVE  ThreadInv'
  <1>0. /\ \A n \in WaitTimes \cup {Forever} : n \in Int
        /\ \A n \in 0 .. MaxPermits : n \in Nat
    BY TimesFacts DEF ThreadInv, ListInv, CurrentRight
  <1>1. CASE TickOfAll
    BY <1>1, TickKeeps
  <1>2. CASE InCall
    BY <1>2, KernelStepKeeps, EndKeeps, SendAgainKeeps, ReceiveAgainKeeps DEF InCall
  <1>3. CASE ApplicationCall
    <2>1. CASE Call /\ UNCHANGED ipcVars
      BY <2>1, KernelStepKeeps
    <2>2. CASE \E s \in Sems : \/ SemRelease(s)
                               \/ \E n \in WaitTimes \cup {Forever} : SemTake(s, n)
                               \/ \E n \in 0 .. MaxPermits : SemReset(s, n)
      BY <1>0, <2>2, SemReleaseKeeps, SemTakeKeeps, SemResetKeeps
    <2>3. CASE \E m \in Mutexes : \/ MutexTakeAgain(m) \/ MutexTakeFree(m) \/ MutexRelease(m)
                                  \/ \E n \in WaitTimes \cup {Forever} : MutexTakeWait(m, n)
      BY <1>0, <2>3, MutexTakeAgainKeeps, MutexTakeFreeKeeps, MutexReleaseKeeps,
         MutexTakeWaitKeeps
    <2>4. CASE \E n \in WaitTimes \cup {Forever} : Receive(n) \/ \E x \in Msgs : Send(x, n)
      BY <1>0, <2>4, ReceiveKeeps, SendKeeps
    <2>5. CASE BoxReset
      BY <2>5, BoxResetKeeps
    <2>. QED
      BY <1>3, <2>1, <2>2, <2>3, <2>4, <2>5 DEF ApplicationCall
  <1>4. CASE Handler
    <2>1. 0 \in Int
      OBVIOUS
    <2>. QED
      BY <1>4, <2>1, SemReleaseKeeps, SendKeeps DEF Handler
  <1>. QED
    BY <1>1, <1>2, <1>3, <1>4 DEF IpcNext
-----------------------------------------------------------------------------
\* The calls of RttMessages.

\* What the bits of an event set free.
LEMMA SetBitsFacts ==
  ASSUME ThreadInv, NEW s \in SUBSET Bits, SetBits(s), UNCHANGED priority
  PROVE  /\ \E R \in SUBSET Waiters : Resumes(R)
         /\ set' \in SUBSET Bits /\ wanted' \in [Threads -> WantedType]
  <1>. DEFINE p     == Passed(set \cup s)
              pairs == p.resumed
              all   == [i \in DOMAIN pairs |-> pairs[i][1]]
              w     == waitList[Event]
  <1>1. /\ set' = p.set
        /\ wanted' = [t \in Threads |->
                  IF t \in Elems(all)
                  THEN [bits  |-> CHOOSE g \in SUBSET wanted[t].bits : <<t, g>> \in Elems(pairs),
                        all   |-> wanted[t].all, clear |-> wanted[t].clear]
                  ELSE wanted[t]]
        /\ stat' = [t \in Threads |-> IF t \in Elems(all) THEN "ready" ELSE stat[t]]
        /\ ready' = TimedOut(ready, all)
        /\ waitList' = [waitList EXCEPT ![Event] = Without(@, Elems(all))]
        /\ timers' = Stopped(timers, Elems(all))
    BY DEF SetBits
  <1>2. /\ KernelTypes /\ ListInv /\ Event \in Lists /\ ReadyRight(ready, stat, priority)
        /\ wanted \in [Threads -> WantedType] /\ set \cup s \in SUBSET Bits
        /\ waitList \in [Lists -> Seq(Threads)] /\ timers \in Seq(TimerSet)
        /\ RunningOnce(timers) /\ \A l \in Lists : NoneTwice(waitList[l])
    BY EndsFacts DEF ThreadInv, KernelTypes, ListInv, ListsRight, TimedRight
  <1>3. /\ w \in Seq(Threads) /\ NoneTwice(w) /\ Elems(w) \subseteq Waiters
        /\ \A m \in Lists \ {Event} : Elems(w) \cap Elems(waitList[m]) = {}
    BY <1>2, OneList
  <1>4. PassedRight(w, set \cup s, Len(w), p)
    BY <1>2, <1>3, PassedFacts
  <1>. HIDE DEF p
  <1>5. /\ p.set \subseteq Bits /\ pairs \in Seq(Threads \X SUBSET Bits)
        /\ \A k \in 1 .. Len(pairs) : /\ \E j \in 1 .. Len(w) : pairs[k][1] = w[j]
                                      /\ pairs[k][2] \subseteq wanted[pairs[k][1]].bits
        /\ \A k, n \in 1 .. Len(pairs) : k < n =>
             \E j, m \in 1 .. Len(w) : j < m /\ pairs[k][1] = w[j] /\ pairs[n][1] = w[m]
    <2>. HIDE DEF w
    <2>. QED
      BY <1>2, <1>4 DEF PassedRight, Content
  <1>. HIDE DEF w, pairs
  <1>6. /\ DOMAIN pairs = 1 .. Len(pairs) /\ Len(pairs) \in Nat
        /\ \A k \in 1 .. Len(pairs) : pairs[k] \in Threads \X SUBSET Bits
                                      /\ pairs[k] \in Elems(pairs)
    BY <1>5, ListDomain
  <1>7. /\ all \in Seq(Threads) /\ Len(all) = Len(pairs)
        /\ \A k \in 1 .. Len(pairs) : all[k] = pairs[k][1]
    <2>1. \A k \in 1 .. Len(pairs) : pairs[k][1] \in Threads
      BY <1>6
    <2>2. all = [i \in 1 .. Len(pairs) |-> pairs[i][1]]
      BY <1>6
    <2>. QED
      BY <1>6, <2>1, <2>2
  <1>. HIDE DEF all
  <1>8. NoneTwice(all)
    <2>1. Sublist(all, w)
      <3>. SUFFICES ASSUME NEW i \in 1 .. Len(all), NEW j \in 1 .. Len(all), i < j
                    PROVE  \E a, b \in 1 .. Len(w) : a < b /\ all[i] = w[a] /\ all[j] = w[b]
        BY DEF Sublist
      <3>1. i \in 1 .. Len(pairs) /\ j \in 1 .. Len(pairs)
        BY <1>7
      <3>2. all[i] = pairs[i][1] /\ all[j] = pairs[j][1]
        BY <1>7, <3>1
      <3>. QED
        BY <1>5, <3>1, <3>2
    <2>. QED
      BY <1>3, <1>7, <2>1, SublistOnce
  <1>9. \A t \in Elems(all) : \E k \in 1 .. Len(pairs) : t = pairs[k][1]
    BY <1>7, ListDomain
  <1>10. Elems(all) \subseteq Elems(w)
    <2>1. \A j \in 1 .. Len(w) : w[j] \in Elems(w)
      BY <1>3, ListDomain
    <2>2. ASSUME NEW k \in 1 .. Len(pairs) PROVE pairs[k][1] \in Elems(w)
      <3>1. PICK j \in 1 .. Len(w) : pairs[k][1] = w[j]
        BY <1>5
      <3>. QED
        BY <2>1, <3>1
    <2>. QED
      BY <1>9, <2>2
  <1>11. wanted' \in [Threads -> WantedType]
    <2>1. ASSUME NEW t \in Elems(all)
          PROVE  \E g \in SUBSET wanted[t].bits : <<t, g>> \in Elems(pairs)
      <3>1. PICK k \in 1 .. Len(pairs) : t = pairs[k][1]
        BY <1>9
      <3>2. pairs[k] = <<t, pairs[k][2]>> /\ pairs[k][2] \subseteq wanted[t].bits
        BY <1>5, <1>6, <3>1
      <3>. QED
        BY <1>6, <3>2
    <2>2. \A t \in Elems(all) :
            (CHOOSE g \in SUBSET wanted[t].bits : <<t, g>> \in Elems(pairs))
              \in SUBSET wanted[t].bits
      BY <2>1
    <2>3. \A t \in Threads : wanted[t].bits \subseteq Bits /\ wanted[t] \in WantedType
                             /\ wanted[t].all \in BOOLEAN /\ wanted[t].clear \in BOOLEAN
      BY <1>2 DEF WantedType
    <2>4. \A t \in Threads : wanted'[t] \in WantedType
      <3>. TAKE t \in Threads
      <3>1. CASE t \in Elems(all)
        <4>. DEFINE g == CHOOSE g \in SUBSET wanted[t].bits : <<t, g>> \in Elems(pairs)
        <4>1. wanted'[t] = [bits |-> g, all |-> wanted[t].all, clear |-> wanted[t].clear]
          BY <1>1, <3>1
        <4>2. g \in SUBSET Bits
          BY <2>2, <2>3, <3>1
        <4>. HIDE DEF g
        <4>. QED
          BY <2>3, <4>1, <4>2 DEF WantedType
      <3>2. CASE t \notin Elems(all)
        BY <1>1, <2>3, <3>2
      <3>. QED
        BY <3>1, <3>2
    <2>5. wanted' = [t \in Threads |-> wanted'[t]]
      BY <1>1
    <2>. QED
      BY <2>4, <2>5
  <1>12. /\ waitList' \in [Lists -> Seq(Threads)]
         /\ \A l \in Lists : /\ NoneTwice(waitList'[l])
                             /\ Elems(waitList'[l]) \subseteq Elems(waitList[l]) \ Elems(all)
    <2>1. /\ Without(w, Elems(all)) \in Seq(Threads) /\ NoneTwice(Without(w, Elems(all)))
          /\ Elems(Without(w, Elems(all))) = Elems(w) \ Elems(all)
      BY <1>3, WithoutFacts
    <2>2. waitList' = [waitList EXCEPT ![Event] = Without(w, Elems(all))]
      BY <1>1 DEF w
    <2>3. waitList' \in [Lists -> Seq(Threads)]
      BY <1>2, <2>1, <2>2
    <2>4. \A l \in Lists : waitList'[l] = IF l = Event THEN Without(w, Elems(all))
                                          ELSE waitList[l]
      BY <1>2, <2>2
    <2>. QED
      BY <1>2, <1>3, <1>10, <2>1, <2>3, <2>4 DEF w
  <1>13. /\ timers' \in Seq(TimerSet) /\ RunningOnce(timers')
         /\ Timed(timers') \subseteq Timed(timers) \ Elems(all)
    BY <1>1, <1>2, StoppedFacts
  <1>14. Elems(all) \subseteq Waiters
    BY <1>3, <1>10
  <1>15. Resumes(Elems(all))
    BY <1>1, <1>2, <1>7, <1>8, <1>12, <1>13, <1>14, ResumeManyFacts
  <1>. QED
    BY <1>1, <1>5, <1>11, <1>14, <1>15

\* A step of the event that changes no priority, mutex or time.
EventFrame == /\ UNCHANGED <<priority, lockNest, tick, does, value, owner, original>>
              /\ set' \in SUBSET Bits /\ wanted' \in [Threads -> WantedType]

LEMMA EventOthers ==
  ASSUME ThreadInv, EventFrame, spent' = spent \/ spent' = [spent EXCEPT ![current] = 0]
  PROVE  OthersKept
  <1>1. spent \in [Threads -> Int] /\ lockNest \in Nat
    BY DEF ThreadInv, KernelTypes
  <1>2. [spent EXCEPT ![current] = 0] \in [Threads -> Int]
    BY <1>1, Renumbered
  <1>3. OwnersRight'
    BY DEF ThreadInv, OwnersRight, EventFrame
  <1>. QED
    BY <1>1, <1>2, <1>3 DEF ThreadInv, KernelTypes, EventFrame, OthersKept

LEMMA EventSendKeeps ==
  ASSUME ThreadInv, NEW s \in SUBSET Bits, EventSend(s) \/ EventSendISR(s)
  PROVE  ThreadInv'
  <1>1. /\ UNCHANGED <<priority, lockNest, tick, does, value, owner, original, spent>>
        /\ SetBits(s)
    BY DEF EventSend, EventSendISR, ipcVars, mutexVars
  <1>2. (Passed(set \cup s).resumed # <<>>) \in BOOLEAN
    OBVIOUS
  <1>3. Moves
    <2>1. CASE EventSend(s)
      BY <1>2, <2>1, CallerFacts, CallerGoesFacts DEF EventSend
    <2>2. CASE EventSendISR(s)
      BY <1>1, <1>2, <2>2, HandlerGoesFacts DEF EventSendISR
    <2>. QED
      BY <2>1, <2>2
  <1>4. /\ \E R \in SUBSET Waiters : Resumes(R)
        /\ set' \in SUBSET Bits /\ wanted' \in [Threads -> WantedType]
    BY <1>1, SetBitsFacts
  <1>5. OthersKept
    BY <1>1, <1>4, EventOthers DEF EventFrame
  <1>. QED
    BY <1>3, <1>4, <1>5, MovesKeepAll

LEMMA EventRecvKeeps ==
  ASSUME ThreadInv, NEW s \in SUBSET Bits, NEW all \in BOOLEAN, NEW clear \in BOOLEAN,
         NEW n \in Int, EventRecv(s, all, clear, n)
  PROVE  ThreadInv'
  <1>1. /\ current # Idle /\ stat[current] = "ready" /\ current \in Threads
    BY CallerFacts DEF EventRecv
  <1>2. /\ UNCHANGED <<current, priority, lockNest, tick, does, value, owner, original>>
        /\ set \in SUBSET Bits /\ wanted \in [Threads -> WantedType]
        /\ ReadyRight(ready, stat, priority)
    BY DEF EventRecv, mutexVars, ThreadInv, KernelTypes, ListInv
  <1>3. CASE /\ set' = (IF clear THEN set \ s ELSE set)
             /\ UNCHANGED <<wanted, stat, ready, waitList, timers, todo, spent>>
    <2>1. OthersKept
      BY <1>2, <1>3, EventOthers DEF EventFrame
    <2>2. ListsStay
      BY <1>2, <1>3 DEF ListsStay
    <2>3. Moves
      BY <1>2, <1>3, StaysFacts
    <2>. QED
      BY <2>1, <2>2, <2>3, ListsStayFacts, MovesKeepAll
  <1>4. CASE /\ lockNest = 0 /\ UNCHANGED set
             /\ wanted' = [wanted EXCEPT ![current] = [bits |-> s, all |-> all, clear |-> clear]]
             /\ SuspendOn(Event, n, ready, <<"event_end", s>>)
    <2>1. wanted' \in [Threads -> WantedType]
      <3>1. [bits |-> s, all |-> all, clear |-> clear] \in WantedType
        BY DEF WantedType
      <3>. QED
        BY <1>2, <1>4, <3>1
    <2>2. spent' = [spent EXCEPT ![current] = 0]
      BY <1>4 DEF SuspendOn, SuspendIn
    <2>3. OthersKept
      BY <1>2, <1>4, <2>1, <2>2, EventOthers DEF EventFrame
    <2>. QED
      BY <1>1, <1>2, <1>4, <2>3, EndsFacts, WaitsKeepAll
  <1>. QED
    BY <1>3, <1>4 DEF EventRecv

LEMMA EventEndKeeps ==
  ASSUME ThreadInv, EventEnd
  PROVE  ThreadInv'
  <1>1. /\ ListsStay /\ UNCHANGED <<current, lockNest>> /\ Frame
        /\ spent' = [spent EXCEPT ![current] = 0]
        /\ Then(<<>>) /\ At("event_end")
    BY DEF EventEnd, Returns, mutexVars, schedVars, msgVars, eventVars, ListsStay, Frame
  <1>2. Moves
    BY <1>1, ReturnsFacts DEF EndNames
  <1>. QED
    BY <1>1, <1>2, ListsStayFacts, MovingKeeps

\* The event or the message queue is reset.
LEMMA ResetKeeps ==
  ASSUME ThreadInv, EventReset \/ MqReset
  PROVE  ThreadInv'
  <1>1. /\ UNCHANGED <<priority, lockNest, tick, does, value, owner, original, spent, wanted>>
        /\ set' = {} \/ set' = set
        /\ ResumeAll(<<Event>>) \/ ResumeAll(<<Queue>>)
        /\ CallerGoes(TRUE)
        /\ Calls("event_reset") \/ Calls("mq_reset")
    BY DEF EventReset, MqReset, ipcVars, mutexVars, eventVars
  <1>2. Moves
    BY <1>1, CallerFacts, CallerGoesFacts
  <1>3. Event \in Lists /\ Queue \in Lists /\ Queue # Event
    BY EndsFacts DEF Event, Queue
  <1>4. \E R \in SUBSET Waiters : Resumes(R)
    BY <1>1, <1>3, ResumeAllFacts DEF ThreadInv
  <1>5. OthersKept
    BY <1>1, EventOthers DEF EventFrame, ThreadInv, KernelTypes
  <1>. QED
    BY <1>2, <1>4, <1>5, MovesKeepAll
\* A section that is no wait follows.
LEMMA WorkGoesFacts ==
  ASSUME ThreadInv, stat[current] = "ready", current # Idle, NEW e, IsWork(e),
         e[1] = "mp_again" => Blocking(todo[current]) /\ lockNest' = lockNest,
         todo' = [todo EXCEPT ![current] = <<e>>], UNCHANGED current
  PROVE  Moves
  <1>1. /\ IsCall(<<e>>) /\ (\A u : ~Starts(<<e>>, u))
        /\ Blocking(<<e>>) => e[1] = "mp_again"
    BY CallFacts
  <1>2. GoesOnWith(<<e>>)
    BY <1>1 DEF GoesOnWith
  <1>. QED
    BY <1>2 DEF Moves

LEMMA MqSendKeeps ==
  ASSUME ThreadInv, NEW how \in Ways, NEW x \in Msgs, MqSend(how, x)
  PROVE  ThreadInv'
  <1>. DEFINE e == <<how, x, Head(free)>>
  <1>1. /\ ListsStay /\ Frame /\ UNCHANGED <<current, lockNest, spent>>
        /\ todo' = [todo EXCEPT ![current] = <<e>>]
    BY DEF MqSend, Goes, ipcVars, mutexVars, schedVars, eventVars, ListsStay, Frame
  <1>2. current # Idle /\ stat[current] = "ready"
    BY CallerFacts DEF MqSend
  <1>3. IsWork(e) /\ e[1] # "mp_again"
    BY DEF IsWork, Ways
  <1>. HIDE DEF e
  <1>4. Moves
    BY <1>1, <1>2, <1>3, WorkGoesFacts
  <1>. QED
    BY <1>1, <1>4, ListsStayFacts, MovingKeeps

LEMMA MqLinkKeeps ==
  ASSUME ThreadInv, NEW how \in Ways, MqLink(how)
  PROVE  ThreadInv'
  <1>1. /\ Frame /\ UNCHANGED <<lockNest, spent>> /\ At(how)
        /\ ResumeOne(Queue) /\ CallerGoes(waitList[Queue] # <<>>)
    BY DEF MqLink, ipcVars, mutexVars, eventVars, Frame
  <1>2. stat[current] = "ready"
    <2>1. how # "schedule"
      BY DEF Ways
    <2>. QED
      BY <1>1, <2>1, SectionFacts
  <1>3. (waitList[Queue] # <<>>) \in BOOLEAN /\ Queue \in Lists
    BY EndsFacts
  <1>4. Moves
    BY <1>1, <1>2, <1>3, CallerGoesFacts
  <1>. QED
    BY <1>1, <1>3, <1>4, ResumeOneFacts, MovingKeeps DEF Frame

LEMMA MqSendISRKeeps ==
  ASSUME ThreadInv, NEW how \in Ways, NEW x \in Msgs, MqSendISR(how, x)
  PROVE  ThreadInv'
  <1>1. /\ Frame /\ UNCHANGED <<lockNest, spent>>
        /\ ResumeOne(Queue) /\ HandlerGoes(waitList[Queue] # <<>>)
    BY DEF MqSendISR, ipcVars, mutexVars, eventVars, Frame
  <1>2. (waitList[Queue] # <<>>) \in BOOLEAN /\ Queue \in Lists
    BY EndsFacts
  <1>3. Moves
    BY <1>1, <1>2, HandlerGoesFacts
  <1>. QED
    BY <1>1, <1>2, <1>3, ResumeOneFacts, MovingKeeps DEF Frame

LEMMA MqReceiveKeeps ==
  ASSUME ThreadInv, NEW n \in Int, MqReceive(n)
  PROVE  ThreadInv'
  <1>1. Frame /\ UNCHANGED <<current, lockNest>>
    BY DEF MqReceive, mutexVars, eventVars, Frame
  <1>2. current # Idle /\ stat[current] = "ready"
    BY CallerFacts DEF MqReceive
  <1>3. CASE /\ Goes(Copying(Head(queue)))
             /\ UNCHANGED <<stat, ready, waitList, timers, spent>>
    <2>. DEFINE e == <<"mq_copy", Head(queue), contents[Head(queue)]>>
    <2>1. ListsStay /\ todo' = [todo EXCEPT ![current] = <<e>>] /\ UNCHANGED spent
      BY <1>1, <1>3 DEF Goes, Copying, ListsStay, Frame
    <2>2. IsWork(e) /\ e[1] # "mp_again"
      BY DEF IsWork
    <2>. HIDE DEF e
    <2>3. Moves
      BY <1>1, <1>2, <2>1, <2>2, WorkGoesFacts
    <2>. QED
      BY <1>1, <2>1, <2>3, ListsStayFacts, MovingKeeps
  <1>4. CASE lockNest = 0 /\ SuspendOn(Queue, n, ready, <<"mq_again", n>>)
    BY <1>1, <1>2, <1>4, EndsFacts, BlocksKeepAll
  <1>. QED
    BY <1>3, <1>4 DEF MqReceive

LEMMA MqReceiveAgainKeeps ==
  ASSUME ThreadInv, MqReceiveAgain
  PROVE  ThreadInv'
  <1>. DEFINE n == Head(todo[current])[2]
              next == <<"mq_again", WaitLeft(n)>>
              e == <<"mq_copy", Head(queue), contents[Head(queue)]>>
  <1>1. /\ Frame /\ UNCHANGED lockNest /\ At("mq_again")
        /\ \/ Fails(queue = <<>>, n) \/ WaitsAgain(Queue, WaitLeft(n), next)
           \/ /\ todo' = [todo EXCEPT ![current] = <<e>> \o Tail(@)]
              /\ spent' = [spent EXCEPT ![current] = 0]
              /\ UNCHANGED <<current, stat, ready, waitList, timers>>
    BY DEF MqReceiveAgain, mutexVars, eventVars, Frame, Then, Copying, Returns
  <1>2. n \in Int
    BY <1>1, AgainFacts
  <1>. HIDE DEF n
  <1>3. WaitLeft(n) \in Int
    BY <1>2, LeftFacts
  <1>4. IsEnd(next) /\ EndIn(next, Queue) /\ Queue \in Lists
    BY <1>3, EndsFacts
  <1>5. "mq_again" \in EndNames
    BY DEF EndNames
  <1>. HIDE DEF next
  <1>6. CASE Fails(queue = <<>>, n) \/ WaitsAgain(Queue, WaitLeft(n), next)
    BY <1>1, <1>2, <1>3, <1>4, <1>5, <1>6, LoopKeeps
  <1>7. CASE /\ todo' = [todo EXCEPT ![current] = <<e>> \o Tail(@)]
             /\ spent' = [spent EXCEPT ![current] = 0]
             /\ UNCHANGED <<current, stat, ready, waitList, timers>>
    <2>1. IsWork(e) /\ e[1] # "mp_again"
      BY DEF IsWork
    <2>. HIDE DEF e
    <2>2. /\ current # Idle /\ stat[current] = "ready"
          /\ <<e>> \o Tail(todo[current]) = <<e>> \o <<>>
      BY <1>1, <1>5, LastSection
    <2>3. todo' = [todo EXCEPT ![current] = <<e>>]
      BY <1>7, <2>2, RestFacts
    <2>4. Moves
      BY <1>7, <2>1, <2>2, <2>3, WorkGoesFacts
    <2>5. ListsStay
      BY <1>1, <1>7 DEF ListsStay, Frame
    <2>. QED
      BY <1>1, <1>7, <2>4, <2>5, ListsStayFacts, MovingKeeps
  <1>. QED
    BY <1>1, <1>6, <1>7

LEMMA MqCopiedKeeps ==
  ASSUME ThreadInv, MqCopied
  PROVE  ThreadInv'
  <1>1. /\ ListsStay /\ Frame /\ UNCHANGED <<current, lockNest, spent>>
        /\ Then(<<>>) /\ At("mq_copy")
    BY DEF MqCopied, schedVars, mutexVars, eventVars, ListsStay, Frame
  <1>2. Moves
    BY <1>1, ReturnsFacts DEF WorkNames
  <1>. QED
    BY <1>1, <1>2, ListsStayFacts, MovingKeeps
-----------------------------------------------------------------------------
\* The memory pool.

LEMMA WaitForBlockKeeps ==
  ASSUME ThreadInv, Frame, stat[current] = "ready", current # Idle, lockNest = 0,
         NEW n \in Int, WaitForBlock(n), UNCHANGED <<current, lockNest>>
  PROVE  ThreadInv'
  <1>. DEFINE w == <<current>> \o waitList[Pool]
              next == <<"mp_woken", n>>
  <1>1. SuspendIn(Pool, w, n, ready, next)
    BY DEF WaitForBlock
  <1>2. /\ KernelTypes /\ ListInv /\ Pool \in Lists /\ current \in Threads
        /\ ReadyRight(ready, stat, priority') /\ priority'[current] = priority[current]
        /\ priority' \in [Threads -> Prios] /\ spent \in [Threads -> Int]
    BY EndsFacts DEF ThreadInv, KernelTypes, ListInv, CurrentRight, Frame
  <1>3. /\ waitList[Pool] \in Seq(Threads) /\ NoneTwice(waitList[Pool])
        /\ current \notin Elems(waitList[Pool])
    BY <1>2, OneList DEF Waiters
  <1>4. /\ w \in Seq(Threads) /\ NoneTwice(w)
        /\ Elems(w) = Elems(waitList[Pool]) \cup {current}
    BY <1>2, <1>3, FrontFacts
  <1>5. IsEnd(next) /\ EndIn(next, Pool)
    BY EndsFacts
  <1>. HIDE DEF w, next
  <1>6. /\ ListInv' /\ stat' \in [Threads -> Stats] /\ waitList' \in [Lists -> Seq(Threads)]
        /\ timers' \in Seq(TimerSet)
    BY <1>1, <1>2, <1>4, <1>5, SuspendInFacts
  <1>7. OthersKept
    <2>1. spent' = [spent EXCEPT ![current] = 0]
      BY <1>1 DEF SuspendIn
    <2>2. spent' \in [Threads -> Int]
      BY <1>2, <2>1, Renumbered
    <2>3. lockNest' \in Nat
      <3>1. lockNest' = 0
        OBVIOUS
      <3>. QED
        BY <3>1
    <2>. QED
      BY <2>2, <2>3, FrameFacts
  <1>. QED
    BY <1>6, <1>7 DEF OthersKept, ThreadInv, KernelTypes, Unmanaged

LEMMA MpAllocKeeps ==
  ASSUME ThreadInv, NEW n \in Int, MpAlloc(n)
  PROVE  ThreadInv'
  <1>1. Frame /\ UNCHANGED <<current, lockNest>>
    BY DEF MpAlloc, mutexVars, eventVars, Frame
  <1>2. current # Idle /\ stat[current] = "ready"
    BY CallerFacts DEF MpAlloc
  <1>3. CASE UNCHANGED <<stat, ready, waitList, timers, spent, todo>>
    <2>1. ListsStay /\ Moves
      BY <1>1, <1>3, StaysFacts DEF ListsStay, Frame
    <2>. QED
      BY <1>1, <1>3, <2>1, ListsStayFacts, MovingKeeps
  <1>4. CASE lockNest = 0 /\ WaitForBlock(n)
    BY <1>1, <1>2, <1>4, WaitForBlockKeeps
  <1>. QED
    BY <1>3, <1>4 DEF MpAlloc

LEMMA MpWokenKeeps ==
  ASSUME ThreadInv, MpWoken
  PROVE  ThreadInv'
  <1>. DEFINE n == Head(todo[current])[2]
              c == IF error[current] = "ok" THEN <<<<"mp_again", WaitLeft(n)>>>> ELSE <<>>
              e == <<"mp_again", WaitLeft(n)>>
  <1>1. /\ Frame /\ ListsStay /\ UNCHANGED <<current, lockNest>> /\ At("mp_woken")
        /\ spent' = [spent EXCEPT ![current] = 0]
        /\ todo' = [todo EXCEPT ![current] = c \o Tail(@)]
    BY DEF MpWoken, Then, Returns, schedVars, mutexVars, msgVars, eventVars, ListsStay, Frame
  <1>2. n \in Int
    BY <1>1, AgainFacts
  <1>. HIDE DEF n
  <1>3. IsWork(e)
    BY <1>2, LeftFacts DEF IsWork
  <1>4. c = <<e>> \/ c = <<>>
    OBVIOUS
  <1>. HIDE DEF c, e
  <1>5. /\ current # Idle /\ stat[current] = "ready" /\ todo[current] = <<todo[current][1]>>
        /\ IsEnd(todo[current][1]) /\ c \o Tail(todo[current]) = c \o <<>>
    BY <1>1, LastSection DEF EndNames
  <1>6. Blocking(todo[current])
    <2>. DEFINE d == todo[current][1]
    <2>1. IsEnd(d) /\ todo[current] = <<d>>
      BY <1>5
    <2>. HIDE DEF d
    <2>. QED
      BY <2>1, CallFacts
  <1>7. CASE c = <<e>>
    <2>1. todo' = [todo EXCEPT ![current] = <<e>>]
      BY <1>1, <1>5, <1>7, RestFacts
    <2>2. Moves
      BY <1>1, <1>3, <1>5, <1>6, <2>1, WorkGoesFacts
    <2>. QED
      BY <1>1, <2>2, ListsStayFacts, MovingKeeps
  <1>8. CASE c = <<>>
    <2>1. todo' = [todo EXCEPT ![current] = <<>>]
      BY <1>1, <1>5, <1>8, RestFacts
    <2>2. Moves
      BY <1>1, <1>5, <2>1, GoesOnFacts
    <2>. QED
      BY <1>1, <2>2, ListsStayFacts, MovingKeeps
  <1>. QED
    BY <1>4, <1>7, <1>8

LEMMA MpAgainKeeps ==
  ASSUME ThreadInv, MpAgain
  PROVE  ThreadInv'
  <1>. DEFINE n == Head(todo[current])[2]
  <1>1. Frame /\ UNCHANGED <<current, lockNest>> /\ At("mp_again")
    BY DEF MpAgain, mutexVars, eventVars, Frame
  <1>2. current # Idle /\ stat[current] = "ready" /\ lockNest = 0 /\ n \in Int
    BY <1>1, LastSection, AgainFacts DEF WorkNames
  <1>3. \/ Then(<<>>) /\ UNCHANGED <<stat, ready, waitList, timers, spent>>
        \/ WaitForBlock(n)
    BY DEF MpAgain
  <1>. HIDE DEF n
  <1>4. CASE Then(<<>>) /\ UNCHANGED <<stat, ready, waitList, timers, spent>>
    <2>1. ListsStay
      BY <1>1, <1>4 DEF ListsStay, Frame
    <2>2. Moves
      BY <1>1, <1>4, ReturnsFacts DEF WorkNames
    <2>. QED
      BY <1>1, <1>4, <2>1, <2>2, ListsStayFacts, MovingKeeps
  <1>5. CASE WaitForBlock(n)
    BY <1>1, <1>2, <1>5, WaitForBlockKeeps
  <1>. QED
    BY <1>3, <1>4, <1>5

LEMMA MpFreeKeeps ==
  ASSUME ThreadInv, MpFree
  PROVE  ThreadInv'
  <1>1. /\ Frame /\ UNCHANGED <<lockNest, spent>> /\ todo[current] = <<>>
        /\ suspended > 0 => waitList[Pool] # <<>>
        /\ \/ suspended > 0 /\ ResumeFirst(Pool, ready, priority)
           \/ ResumeNobody(ready)
        /\ CallerGoes(suspended > 0)
    BY DEF MpFree, ipcVars, mutexVars, eventVars, Frame
  <1>2. (suspended > 0) \in BOOLEAN /\ Pool \in Lists /\ stat[current] = "ready"
    BY <1>1, EndsFacts, IdleFacts
  <1>3. Moves
    BY <1>1, <1>2, CallerGoesFacts
  <1>4. /\ KernelTypes /\ ListInv /\ ReadyRight(ready, stat, priority')
        /\ priority' \in [Threads -> Prios] /\ priority' = priority
    BY <1>1 DEF ThreadInv, KernelTypes, ListInv, Frame
  <1>5. \E R \in SUBSET Waiters : Resumes(R)
    <2>1. CASE ResumeNobody(ready)
      BY <1>4, <2>1, ResumeNobodyFacts
    <2>2. CASE suspended > 0 /\ ResumeFirst(Pool, ready, priority)
      <3>1. ResumeFirst(Pool, ready, priority') /\ waitList[Pool] # <<>>
        BY <1>1, <1>4, <2>2
      <3>. QED
        BY <1>2, <1>4, <3>1, ResumeFirstFacts
    <2>. QED
      BY <1>1, <2>1, <2>2
  <1>. QED
    BY <1>1, <1>3, <1>5, MovingKeeps

LEMMA MessageStepKeeps ==
  ASSUME ThreadInv, MsgInCall \/ MsgCall \/ MsgHandler
  PROVE  ThreadInv'
  <1>0. /\ \A n \in WaitTimes \cup {Forever} : n \in Int
        /\ (SUBSET Bits) \ {{}} \subseteq SUBSET Bits
    BY TimesFacts DEF ThreadInv, ListInv, CurrentRight
  <1>1. CASE MsgInCall
    BY <1>1, EventEndKeeps, MqLinkKeeps, MqReceiveAgainKeeps, MqCopiedKeeps, MpWokenKeeps,
       MpAgainKeeps DEF MsgInCall
  <1>2. CASE MsgCall
    <2>1. CASE \E s \in (SUBSET Bits) \ {{}} :
                 \/ EventSend(s)
                 \/ \E all, clear \in BOOLEAN, n \in WaitTimes \cup {Forever} :
                      EventRecv(s, all, clear, n)
      BY <1>0, <2>1, EventSendKeeps, EventRecvKeeps
    <2>2. CASE EventReset \/ MqReset
      BY <2>2, ResetKeeps
    <2>3. CASE \E how \in Ways, x \in Msgs : MqSend(how, x)
      BY <2>3, MqSendKeeps
    <2>4. CASE \E n \in WaitTimes \cup {Forever} : MqReceive(n) \/ MpAlloc(n)
      BY <1>0, <2>4, MqReceiveKeeps, MpAllocKeeps
    <2>5. CASE MpFree
      BY <2>5, MpFreeKeeps
    <2>. QED
      BY <1>2, <2>1, <2>2, <2>3, <2>4, <2>5 DEF MsgCall
  <1>3. CASE MsgHandler
    BY <1>0, <1>3, EventSendKeeps, MqSendISRKeeps DEF MsgHandler
  <1>. QED
    BY <1>1, <1>2, <1>3
-----------------------------------------------------------------------------
\* The invariant holds from the start, and every step keeps it.

LEMMA EmptyFacts ==
  /\ \A S : <<>> \in Seq(S)
  /\ Len(<<>>) = 0 /\ Elems(<<>>) = {} /\ NoneTwice(<<>>)
  /\ RunningOnce(<<>>) /\ Timed(<<>>) = {}
  /\ \A t : /\ Elems(<<t>>) = {t} /\ NoneTwice(<<t>>) /\ <<t>> # <<>>
            /\ \A S : t \in S => <<t>> \in Seq(S)
  <1>1. <<>> \in Seq({}) /\ Len(<<>>) = 0
    OBVIOUS
  <1>2. Elems(<<>>) = {}
    BY <1>1, ListDomain
  <1>3. \A t : Elems(<<t>>) = {t}
    <2>. TAKE t
    <2>1. <<t>> \in Seq({t}) /\ Len(<<t>>) = 1 /\ <<t>>[1] = t
      OBVIOUS
    <2>2. Elems(<<t>>) = {<<t>>[i] : i \in 1 .. 1}
      BY <2>1, ListDomain
    <2>. QED
      BY <2>1, <2>2
  <1>. QED
    BY <1>1, <1>2, <1>3 DEF NoneTwice, RunningOnce, Timed

LEMMA InitialReady ==
  ASSUME MessagesInit
  PROVE  ReadyRight(ready, stat, priority)
  <1>. DEFINE lst == [p \in Prios |-> IF p = Prio[Main] THEN <<Main>>
                                      ELSE IF p = Prio[Idle] THEN <<Idle>> ELSE <<>>]
              grp == {Prio[Main], Prio[Idle]}
  <1>1. /\ stat = [t \in Threads |-> IF t \in {Idle, Main} THEN "ready" ELSE "init"]
        /\ priority = Prio /\ ready = [list |-> lst, group |-> grp]
    BY DEF MessagesInit, IpcInit, Init
  <1>2. /\ Main \in Threads /\ Idle \in Threads /\ Main # Idle /\ Prio \in [Threads -> Prios]
        /\ Prio[Main] # Prio[Idle]
    <2>1. Prio[Main] < Lowest /\ Prio[Idle] = Lowest /\ Prio[Main] \in Prios
      BY KernelAssumption
    <2>. QED
      BY <2>1, KernelAssumption DEF Prios
  <1>3. /\ lst \in [Prios -> Seq(Threads)] /\ grp \in SUBSET Prios
        /\ \A p \in Prios : lst[p] = IF p = Prio[Main] THEN <<Main>>
                                     ELSE IF p = Prio[Idle] THEN <<Idle>> ELSE <<>>
    BY <1>2, EmptyFacts
  <1>4. \A p \in Prios : /\ NoneTwice(lst[p]) /\ (p \in grp <=> lst[p] # <<>>)
                         /\ Elems(lst[p]) = IF p = Prio[Main] THEN {Main}
                                            ELSE IF p = Prio[Idle] THEN {Idle} ELSE {}
    BY <1>2, <1>3, EmptyFacts
  <1>. HIDE DEF lst, grp
  <1>5. ready \in ReadyType /\ ready.list = lst /\ ready.group = grp
    BY <1>1, <1>3, MadeReady
  <1>6. \A p \in Prios, t \in Threads :
          t \in Elems(lst[p]) <=> stat[t] = "ready" /\ priority[t] = p
    BY <1>1, <1>2, <1>4
  <1>. QED
    BY <1>4, <1>5, <1>6 DEF ReadyRight

LEMMA InvInit ==
  MessagesInit /\ Unmanaged => ThreadInv
  <1>. SUFFICES ASSUME MessagesInit, Unmanaged PROVE ThreadInv
    OBVIOUS
  <1>1. /\ stat = [t \in Threads |-> IF t \in {Idle, Main} THEN "ready" ELSE "init"]
        /\ priority = Prio /\ lockNest = 0 /\ tick = 0 /\ timers = <<>> /\ current = Main
        /\ waitList = [l \in Lists |-> <<>>] /\ todo = [t \in Threads |-> <<>>]
        /\ value = [o \in Objects |-> IF o \in Sems THEN Permits ELSE 1]
        /\ owner = [m \in Mutexes |-> NoThread] /\ original = [m \in Mutexes |-> Never]
        /\ spent = [t \in Threads |-> 0] /\ set = {}
        /\ wanted = [t \in Threads |-> [bits |-> {}, all |-> FALSE, clear |-> FALSE]]
    BY DEF MessagesInit, IpcInit, Init
  <1>2. KernelTypes
    <2>1. stat \in [Threads -> Stats] /\ priority \in [Threads -> Prios]
      BY <1>1, KernelAssumption DEF Stats
    <2>2. lockNest \in Nat /\ tick \in Ticks
      <3>. PICK M \in Nat : M = TickMod /\ M > 4
        BY KernelAssumption
      <3>1. 0 \in 0 .. M - 1
        OBVIOUS
      <3>. QED
        BY <1>1, <3>1 DEF Ticks
    <2>3. timers \in Seq(TimerSet) /\ waitList \in [Lists -> Seq(Threads)]
      BY <1>1, EmptyFacts
    <2>4. spent \in [Threads -> Int] /\ set \in SUBSET Bits
      BY <1>1
    <2>5. wanted \in [Threads -> WantedType]
      <3>1. [bits |-> {}, all |-> FALSE, clear |-> FALSE] \in WantedType
        BY DEF WantedType
      <3>. QED
        BY <1>1, <3>1
    <2>6. value \in [Objects -> Nat]
      BY <1>1, IpcAssumption
    <2>7. /\ owner \in [Mutexes -> Threads \cup {NoThread}] /\ original \in [Mutexes -> 0 .. Never]
      <3>1. Never \in 0 .. Never
        BY KernelAssumption DEF Never
      <3>. QED
        BY <1>1, <3>1
    <2>. QED
      BY <2>1, <2>2, <2>3, <2>4, <2>5, <2>6, <2>7 DEF KernelTypes
  <1>3. OwnersRight
    BY <1>1, IpcAssumption DEF OwnersRight, Objects
  <1>4. CallsRight /\ StartsRight
    BY <1>1, KernelAssumption, CallFacts DEF CallsRight, StartsRight
  <1>5. CurrentRight
    BY <1>1, KernelAssumption DEF CurrentRight
  <1>6. ListsRight /\ TimedRight
    BY <1>1, EmptyFacts DEF ListsRight, TimedRight
  <1>. QED
    BY <1>2, <1>3, <1>4, <1>5, <1>6, InitialReady DEF ThreadInv, ListInv

LEMMA InvStep ==
  ThreadInv /\ [Next]_allVars => ThreadInv'
  <1>1. ASSUME ThreadInv, Next PROVE ThreadInv'
    BY <1>1, IpcStepKeeps, MessageStepKeeps DEF Next
  <1>2. ASSUME ThreadInv, UNCHANGED allVars PROVE ThreadInv'
    <2>1. /\ UNCHANGED <<current, stat, priority, ready, lockNest, tick, timers, waitList>>
          /\ UNCHANGED <<todo, does, value, owner, original, spent, set, wanted>>
      BY <1>2 DEF allVars, ipcAndKernel, vars, schedVars, threadVars, ipcVars, mutexVars,
                  msgVars, eventVars
    <2>2. Unmanaged' /\ KernelTypes' /\ OwnersRight'
      BY <1>2, <2>1 DEF ThreadInv, Unmanaged, KernelTypes, OwnersRight
    <2>3. CallsRight' /\ StartsRight' /\ CurrentRight' /\ ListsRight'
      BY <1>2, <2>1 DEF ThreadInv, ListInv, CallsRight, StartsRight, CurrentRight, ListsRight
    <2>4. TimedRight'
      BY <1>2, <2>1 DEF ThreadInv, ListInv, TimedRight, Timed
    <2>5. ReadyRight(ready', stat', priority')
      BY <1>2, <2>1 DEF ThreadInv, ListInv
    <2>. QED
      BY <2>2, <2>3, <2>4, <2>5 DEF ThreadInv, ListInv
  <1>. QED
    BY <1>1, <1>2
-----------------------------------------------------------------------------
\* What it means for the lists.

LEMMA FewTimes ==
  ASSUME NEW S, NEW s \in Seq(S), NoneTwice(s), NEW t
  PROVE  Times(t, s) <= 1
  <1>. DEFINE I == {i \in DOMAIN s : s[i] = t}
  <1>1. \A i, j \in I : i = j
    BY ListDomain DEF NoneTwice
  <1>2. CASE I = {}
    BY <1>2, FS_EmptySet DEF Times
  <1>3. ASSUME NEW i \in I PROVE Times(t, s) <= 1
    <2>1. I = {i}
      BY <1>1
    <2>2. Cardinality(I) = 1
      BY <2>1, FS_Singleton
    <2>. QED
      BY <2>2 DEF Times
  <1>. QED
    BY <1>2, <1>3

LEMMA ListedFacts ==
  ThreadInv => ThreadsListed
  <1>. SUFFICES ASSUME ThreadInv PROVE ThreadsListed
    OBVIOUS
  <1>1. /\ ReadyRight(ready, stat, priority) /\ KernelTypes /\ ListInv
        /\ Idle \in Threads /\ stat[Idle] = "ready" /\ priority \in [Threads -> Prios]
        /\ waitList \in [Lists -> Seq(Threads)]
    BY KernelAssumption DEF ThreadInv, KernelTypes, ListInv, CallsRight
  <1>2. /\ ready \in ReadyType
        /\ \A p \in Prios : NoneTwice(ready.list[p]) /\ (p \in ready.group <=> ready.list[p] # <<>>)
        /\ \A p \in Prios, t \in Threads :
             t \in Elems(ready.list[p]) <=> stat[t] = "ready" /\ priority[t] = p
    BY <1>1 DEF ReadyRight
  <1>3. /\ ready.group \in SUBSET Prios /\ \A p \in Prios : ready.list[p] \in Seq(Threads)
    BY <1>2, ReadyTypes
  <1>4. ReadyGroupRight
    <2>1. priority[Idle] \in ready.group
      <3>1. priority[Idle] \in Prios /\ Idle \in Elems(ready.list[priority[Idle]])
        BY <1>1, <1>2
      <3>2. ready.list[priority[Idle]] # <<>>
        BY <3>1, EmptyFacts
      <3>. QED
        BY <1>2, <3>1, <3>2
    <2>2. ready.group \in SUBSET Nat
      <3>1. Prios \subseteq Nat
        BY KernelAssumption DEF Prios
      <3>. QED
        BY <1>3, <3>1
    <2>3. \E p \in ready.group : \A q \in ready.group : p <= q
      BY <2>1, <2>2, LeastNumber
    <2>. QED
      BY <1>2, <1>3, <2>3 DEF ReadyGroupRight
  <1>5. NodeInOnePlace
    <2>. SUFFICES ASSUME NEW t \in Threads
                  PROVE  LET isIn == {p \in Prios : t \in Elems(ready.list[p])}
                             waits == {l \in Lists : t \in Elems(waitList[l])}
                         IN /\ \A p \in Prios : Times(t, ready.list[p]) <= 1
                            /\ isIn \subseteq {priority[t]} /\ (isIn = {} \/ stat[t] = "ready")
                            /\ stat[t] = "ready" => isIn # {} \/ Inserting(t)
                            /\ waits = {} \/ (stat[t] = "suspend" /\ Cardinality(waits) = 1)
      BY DEF NodeInOnePlace
    <2>. DEFINE isIn == {p \in Prios : t \in Elems(ready.list[p])}
                waits == {l \in Lists : t \in Elems(waitList[l])}
    <2>1. \A p \in Prios : Times(t, ready.list[p]) <= 1
      BY <1>2, <1>3, FewTimes
    <2>2. isIn \subseteq {priority[t]} /\ (isIn = {} \/ stat[t] = "ready")
      BY <1>2
    <2>3. stat[t] = "ready" => priority[t] \in isIn
      BY <1>1, <1>2
    <2>4. ASSUME NEW l \in waits PROVE stat[t] = "suspend" /\ Cardinality(waits) = 1
      <3>1. l \in Lists /\ t \in Elems(waitList[l])
        OBVIOUS
      <3>2. /\ Elems(waitList[l]) \subseteq Waiters
            /\ \A m \in Lists \ {l} : Elems(waitList[l]) \cap Elems(waitList[m]) = {}
        BY <1>1, <3>1, OneList
      <3>3. waits = {l}
        BY <3>1, <3>2
      <3>4. stat[t] = "suspend"
        BY <3>1, <3>2 DEF Waiters
      <3>. QED
        BY <3>3, <3>4, FS_Singleton
    <2>. QED
      BY <2>1, <2>2, <2>3, <2>4
  <1>6. ClosedNeverReady
    BY <1>2 DEF ClosedNeverReady
  <1>. QED
    BY <1>4, <1>5, <1>6 DEF ThreadsListed

\* The ready table and the suspend lists say who may run: in every application without a
\* thread that suspends, detaches or reprioritizes others, rt_schedule() finds a thread, a
\* ready thread is in the list of its priority, once, a waiting one in at most one suspend
\* list, and none that was closed is found (scheduler.c, thread.c, ipc.c, mempool.c).
THEOREM ThreadsListedCorrect ==
  Spec /\ Unmanaged => []ThreadsListed
  <1>1. MessagesInit /\ Unmanaged => ThreadInv
    BY InvInit
  <1>2. ThreadInv /\ [Next]_allVars => ThreadInv'
    BY InvStep
  <1>3. ThreadInv => ThreadsListed
    BY ListedFacts
  <1>. QED
    BY <1>1, <1>2, <1>3, PTL DEF Spec
-----------------------------------------------------------------------------
\* Time-outs.

\* How long a call may wait, and what is left of it in the call c that may wait more than
\* once, of which sp ticks have passed.
Spans == {n \in Nat : n < Half}
IsTime(n) == n = Forever \/ n \in Spans
CallOnTime(c, sp, lf) ==
  c # <<>> =>
    LET e == c[Len(c)]
    IN /\ e[1] \in Looping => /\ IsTime(e[Len(e)])
                              /\ e[Len(e)] # Forever => sp \in Nat /\ lf = e[Len(e)] - sp
       /\ e[1] = "mp_again" => IsTime(e[2])

Punctual(tm, now, lf) ==
  /\ \A i \in 1 .. Len(tm) : (tm[i].due - now) % TickMod = lf[tm[i].thread]
  /\ \A i, j \in 1 .. Len(tm) : i < j => lf[tm[i].thread] <= lf[tm[j].thread]

TimeInv ==
  /\ left \in [Threads -> Spans]
  /\ Punctual(timers, tick, left)
  /\ \A t \in Threads : CallOnTime(todo[t], spent[t], left[t])

\* Some timers are stopped.
Fewer == /\ timers' \in Seq(TimerSet) /\ Elems(timers') \subseteq Elems(timers)
         /\ Sublist(timers', timers)

LEMMA FewerFacts ==
  ASSUME timers \in Seq(TimerSet), timers' = timers \/ \E R : timers' = Stopped(timers, R)
  PROVE  Fewer
  BY StoppedFacts, SublistSelf DEF Fewer

LEMMA FewerPunctual ==
  ASSUME timers \in Seq(TimerSet), Fewer, NEW now, NEW lf, NEW lg, Punctual(timers, now, lf),
         \A t \in Timed(timers') : lg[t] = lf[t]
  PROVE  Punctual(timers', now, lg)
  <1>. DEFINE s == timers'
  <1>1. /\ s \in Seq(TimerSet) /\ Elems(s) \subseteq Elems(timers) /\ Sublist(s, timers)
    BY DEF Fewer
  <1>2. \A t \in Timed(s) : lg[t] = lf[t]
    OBVIOUS
  <1>. HIDE DEF s
  <1>3. /\ \A i \in 1 .. Len(s) : s[i].thread \in Timed(s) /\ s[i] \in Elems(s)
        /\ \A e \in Elems(timers) : \E i \in 1 .. Len(timers) : timers[i] = e
    <2>1. \A i \in 1 .. Len(s) : s[i].thread \in Timed(s) /\ s[i] \in Elems(s)
      BY <1>1, TimedDomain, ListDomain
    <2>2. Elems(timers) = {timers[i] : i \in 1 .. Len(timers)}
      BY ListDomain
    <2>. QED
      BY <2>1, <2>2
  <1>4. ASSUME NEW i \in 1 .. Len(s) PROVE (s[i].due - now) % TickMod = lg[s[i].thread]
    <2>1. PICK j \in 1 .. Len(timers) : timers[j] = s[i]
      BY <1>1, <1>3
    <2>. QED
      BY <1>2, <1>3, <2>1 DEF Punctual
  <1>5. ASSUME NEW i \in 1 .. Len(s), NEW j \in 1 .. Len(s), i < j
        PROVE  lg[s[i].thread] <= lg[s[j].thread]
    <2>1. PICK a \in 1 .. Len(timers), b \in 1 .. Len(timers) :
            a < b /\ s[i] = timers[a] /\ s[j] = timers[b]
      BY <1>1, <1>5 DEF Sublist
    <2>2. lf[s[i].thread] <= lf[s[j].thread]
      BY <2>1 DEF Punctual
    <2>3. lg[s[i].thread] = lf[s[i].thread] /\ lg[s[j].thread] = lf[s[j].thread]
      BY <1>2, <1>3
    <2>. QED
      BY <2>2, <2>3
  <1>. QED
    BY <1>4, <1>5 DEF Punctual, s

LEMMA SpanFacts ==
  /\ 0 \in Spans /\ Forever \notin Spans
  /\ current \in Threads => \A n \in WaitTimes \cup {Forever} : IsTime(n)
  <1>1. PICK M \in Nat : M = TickMod /\ M > 4
    BY KernelAssumption
  <1>2. Half = (M - 1) \div 2 /\ (M - 1) \div 2 \in Nat /\ (M - 1) \div 2 > 0
    BY <1>1 DEF Half
  <1>3. 0 \in Spans /\ Forever \notin Spans
    BY <1>2 DEF Spans, Forever
  <1>4. current \in Threads => Waits[current] \subseteq Spans
    BY KernelAssumption DEF Spans
  <1>. QED
    BY <1>3, <1>4 DEF WaitTimes, IsTime

\* Differences modulo the width of the count.
LEMMA DueFacts ==
  ASSUME NEW a \in Ticks, NEW n \in Spans
  PROVE  /\ (a + n) % TickMod \in Ticks
         /\ (((a + n) % TickMod) - a) % TickMod = n
  <1>1. PICK M \in Nat : M = TickMod /\ M > 4
    BY KernelAssumption
  <1>2. a \in 0 .. M - 1 /\ n \in 0 .. M - 1
    <2>1. Half = (M - 1) \div 2
      BY <1>1 DEF Half
    <2>2. (M - 1) \div 2 <= M - 1
      BY <1>1
    <2>. QED
      BY <1>1, <2>1, <2>2 DEF Ticks, Spans
  <1>3. CASE a + n < M
    <2>1. (a + n) % M = a + n /\ (a + n - a) % M = n
      BY <1>1, <1>2, <1>3
    <2>. QED
      BY <1>1, <1>2, <1>3, <2>1 DEF Ticks
  <1>4. CASE a + n >= M
    <2>1. (a + n) % M = a + n - M /\ (a + n - M - a) % M = n
      BY <1>1, <1>2, <1>4
    <2>. QED
      BY <1>1, <1>2, <1>4, <2>1 DEF Ticks
  <1>. QED
    BY <1>1, <1>2, <1>3, <1>4

\* A timer is due later than another if more is left of its time.
LEMMA LaterFacts ==
  ASSUME NEW a \in Ticks, NEW due \in Ticks, NEW n \in Spans, (due - a) % TickMod \in Spans
  PROVE  IsLater(due, (a + n) % TickMod) <=> (due - a) % TickMod > n
  <1>1. PICK M \in Nat : M = TickMod /\ M > 4
    BY KernelAssumption
  <1>2. PICK H \in Nat : H = Half /\ 2 * H < M
    <2>1. Half = (M - 1) \div 2
      BY <1>1 DEF Half
    <2>2. (M - 1) \div 2 \in Nat /\ 2 * ((M - 1) \div 2) < M
      BY <1>1
    <2>. QED
      BY <2>1, <2>2
  <1>3. PICK l \in 0 .. H - 1 : l = (due - a) % TickMod
    BY <1>2 DEF Spans
  <1>4. n \in 0 .. H - 1 /\ a \in 0 .. M - 1 /\ due \in 0 .. M - 1
    BY <1>1, <1>2 DEF Spans, Ticks
  <1>5. due - a = l \/ due - a = l - M
    <2>1. l = (due - a) % M
      BY <1>1, <1>3
    <2>. QED
      BY <1>1, <1>2, <1>4, <2>1
  <1>6. \/ (a + n) % M = a + n /\ a + n < M
        \/ (a + n) % M = a + n - M
    BY <1>1, <1>2, <1>4
  <1>7. PICK b \in Int : b = (a + n) % M /\ (b = a + n \/ b = a + n - M)
    BY <1>1, <1>4, <1>6
  <1>8. (due - b) % M = IF l >= n THEN l - n ELSE l - n + M
    <2>1. due - b \in {l - n, l - n + M, l - n - M}
      BY <1>1, <1>4, <1>5, <1>7
    <2>2. due - b \in Int /\ due - b < M /\ due - b > -M
      BY <1>1, <1>4, <1>7
    <2>. QED
      BY <1>1, <1>2, <1>3, <1>4, <2>1
  <1>9. IsLater(due, b) <=> (due - b) % M \in 1 .. H - 1
    BY <1>1, <1>2 DEF IsLater
  <1>10. (due - b) % M \in 1 .. H - 1 <=> l > n
    BY <1>1, <1>2, <1>3, <1>4, <1>8
  <1>. QED
    BY <1>1, <1>3, <1>7, <1>9, <1>10

\* And it has expired when it is due at the tick, or was before.
LEMMA IsDueFacts ==
  ASSUME NEW a \in Ticks, NEW due \in Ticks, (due - a) % TickMod \in Spans
  PROVE  LET l   == (due - a) % TickMod
             now == (a + 1) % TickMod
         IN /\ now \in Ticks
            /\ (now - due) % TickMod < Half <=> l < 2
            /\ l > 0 => (due - now) % TickMod = l - 1
  <1>1. PICK M \in Nat : M = TickMod /\ M > 4
    BY KernelAssumption
  <1>2. PICK H \in Nat : H = Half /\ 2 * H < M /\ H >= 2 /\ 2 * H + 1 >= M - 1
    <2>1. Half = (M - 1) \div 2
      BY <1>1 DEF Half
    <2>2. /\ (M - 1) \div 2 \in Nat /\ 2 * ((M - 1) \div 2) < M
          /\ (M - 1) \div 2 >= 2 /\ 2 * ((M - 1) \div 2) + 1 >= M - 1
      BY <1>1
    <2>. QED
      BY <2>1, <2>2
  <1>3. PICK l \in 0 .. H - 1 : l = (due - a) % TickMod
    BY <1>2 DEF Spans
  <1>4. a \in 0 .. M - 1 /\ due \in 0 .. M - 1
    BY <1>1 DEF Ticks
  <1>5. due - a = l \/ due - a = l - M
    <2>1. l = (due - a) % M
      BY <1>1, <1>3
    <2>. QED
      BY <1>1, <1>2, <1>4, <2>1
  <1>6. ((a + 1) % M = a + 1 /\ a + 1 < M) \/ (a + 1) % M = a + 1 - M
    BY <1>1, <1>4
  <1>7. PICK b \in 0 .. M - 1 : b = (a + 1) % M /\ (b = a + 1 \/ b = a + 1 - M)
    BY <1>1, <1>4, <1>6
  <1>8. (b - due) % M = IF l < 2 THEN 1 - l ELSE 1 - l + M
    <2>1. b - due \in {1 - l, 1 - l + M, 1 - l - M}
      BY <1>1, <1>4, <1>5, <1>7
    <2>. QED
      BY <1>1, <1>2, <1>3, <1>4, <2>1
  <1>9. (b - due) % M < H <=> l < 2
    BY <1>1, <1>2, <1>3, <1>8
  <1>10. l > 0 => (due - b) % M = l - 1
    <2>1. due - b \in {l - 1, l - 1 + M, l - 1 - M}
      BY <1>1, <1>4, <1>5, <1>7
    <2>. QED
      BY <1>1, <1>2, <1>3, <1>4, <2>1
  <1>. QED
    BY <1>1, <1>2, <1>3, <1>7, <1>9, <1>10 DEF Ticks

LEMMA StartedElems ==
  ASSUME NEW tm \in Seq(TimerSet), NEW t \in Threads, NEW n \in Int, tick \in Ticks
  PROVE  \A x \in Elems(Started(tm, t, n)) :
           x \in Elems(Stopped(tm, {t})) \/ x = [thread |-> t, due |-> DueAt(n)]
  <1>1. Elems(Started(tm, t, n)) = Elems(Stopped(tm, {t})) \cup {[thread |-> t, due |-> DueAt(n)]}
    BY StartedFacts
  <1>. QED
    BY <1>1

\* A timer that is started comes in its place.
LEMMA StartedPunctual ==
  ASSUME KernelTypes, left \in [Threads -> Spans], Punctual(timers, tick, left),
         NEW t \in Threads, NEW n \in Spans, timers' = Started(timers, t, n),
         NEW lf \in [Threads -> Spans], lf[t] = n,
         \A u \in Threads \ {t} : lf[u] = left[u]
  PROVE  Punctual(timers', tick, lf)
  <1>. DEFINE w == Stopped(timers, {t})
              e == [thread |-> t, due |-> DueAt(n)]
              s == timers'
  <1>0. /\ timers \in Seq(TimerSet) /\ tick \in Ticks /\ n \in Int
    BY DEF KernelTypes, Spans
  <1>1. /\ w \in Seq(TimerSet) /\ Elems(w) \subseteq Elems(timers) /\ Timed(w) = Timed(timers) \ {t}
        /\ Sublist(w, timers) /\ Len(w) \in Nat /\ Timed(timers) \subseteq Threads
    BY <1>0, StoppedFacts, TimedDomain
  <1>2. PICK k \in 0 .. Len(w) : PutIn(s, w, e, k) /\ DuePlace(w, n, k)
    BY <1>0, StartedFacts
  <1>3. s \in Seq(TimerSet) /\ Len(s) \in Nat
    BY <1>0, StartedFacts, TimedDomain
  <1>4. /\ e.thread = t /\ e.due \in Ticks /\ (e.due - tick) % TickMod = n
        /\ e.due = (tick + n) % TickMod
    BY <1>0, DueFacts DEF DueAt
  <1>7. \A x \in Elems(s) : x \in Elems(w) \/ x = e
    BY <1>0, StartedElems
  <1>. HIDE DEF w, s, e
  <1>5. Punctual(w, tick, lf)
    <2>1. \A u \in Timed(w) : lf[u] = left[u]
      BY <1>1
    <2>2. \A i \in 1 .. Len(w) : \E j \in 1 .. Len(timers) : timers[j] = w[i]
      <3>1. Elems(timers) = {timers[j] : j \in 1 .. Len(timers)}
        BY <1>0, ListDomain
      <3>2. \A i \in 1 .. Len(w) : w[i] \in Elems(w)
        BY <1>1, ListDomain
      <3>. QED
        BY <1>1, <3>1, <3>2
    <2>3. \A i \in 1 .. Len(w) : w[i].thread \in Timed(w)
      BY <1>1, TimedDomain
    <2>4. ASSUME NEW i \in 1 .. Len(w) PROVE (w[i].due - tick) % TickMod = lf[w[i].thread]
      <3>1. PICK j \in 1 .. Len(timers) : timers[j] = w[i]
        BY <2>2
      <3>. QED
        BY <2>1, <2>3, <3>1 DEF Punctual
    <2>5. ASSUME NEW i \in 1 .. Len(w), NEW j \in 1 .. Len(w), i < j
          PROVE  lf[w[i].thread] <= lf[w[j].thread]
      <3>1. PICK a \in 1 .. Len(timers), b \in 1 .. Len(timers) :
              a < b /\ w[i] = timers[a] /\ w[j] = timers[b]
        BY <1>1, <2>5 DEF Sublist
      <3>2. left[w[i].thread] <= left[w[j].thread]
        BY <3>1 DEF Punctual
      <3>3. lf[w[i].thread] = left[w[i].thread] /\ lf[w[j].thread] = left[w[j].thread]
        BY <2>1, <2>3
      <3>. QED
        BY <3>2, <3>3
    <2>. QED
      BY <2>4, <2>5 DEF Punctual
  <1>6. /\ \A i \in 1 .. k : lf[w[i].thread] <= n
        /\ \A i \in k + 1 .. Len(w) : n < lf[w[i].thread]
        /\ \A i \in 1 .. Len(w) : lf[w[i].thread] \in Nat
    <2>1. \A i \in 1 .. Len(w) : w[i].thread \in Threads /\ w[i].due \in Ticks
      BY <1>1, TimedDomain
    <2>2. \A i \in 1 .. Len(w) : /\ lf[w[i].thread] \in Spans
                                  /\ (w[i].due - tick) % TickMod = lf[w[i].thread]
      BY <1>5, <2>1 DEF Punctual
    <2>3. \A i \in 1 .. Len(w) : IsLater(w[i].due, e.due) <=> lf[w[i].thread] > n
      BY <1>0, <1>4, <2>1, <2>2, LaterFacts
    <2>4. \A i \in 1 .. Len(w) : lf[w[i].thread] \in Nat
      BY <2>2 DEF Spans
    <2>5. e.due = DueAt(n)
      BY <1>4 DEF DueAt
    <2>6. ASSUME NEW i \in 1 .. k PROVE lf[w[i].thread] <= n
      <3>1. i \in 1 .. Len(w) /\ ~IsLater(w[i].due, e.due)
        BY <1>1, <1>2, <2>5 DEF DuePlace
      <3>2. ~(lf[w[i].thread] > n)
        BY <2>3, <3>1
      <3>. QED
        BY <1>0, <2>4, <3>1, <3>2
    <2>7. ASSUME NEW i \in k + 1 .. Len(w) PROVE n < lf[w[i].thread]
      <3>1. i \in 1 .. Len(w) /\ k + 1 \in 1 .. Len(w) /\ k < Len(w)
        BY <1>1, <1>2
      <3>2. IsLater(w[k + 1].due, e.due)
        BY <1>2, <2>5, <3>1 DEF DuePlace
      <3>3. lf[w[k + 1].thread] > n
        BY <2>3, <3>1, <3>2
      <3>4. i = k + 1 \/ lf[w[k + 1].thread] <= lf[w[i].thread]
        BY <1>1, <1>2, <1>5, <3>1 DEF Punctual
      <3>. QED
        BY <1>0, <2>4, <3>1, <3>3, <3>4
    <2>. QED
      BY <2>4, <2>6, <2>7
  <1>8. ASSUME NEW i \in 1 .. Len(s) PROVE (s[i].due - tick) % TickMod = lf[s[i].thread]
    <2>1. s[i] \in Elems(w) \cup {e} /\ Elems(w) = {w[j] : j \in 1 .. Len(w)}
      BY <1>1, <1>3, <1>7, ListDomain
    <2>2. CASE s[i] = e
      BY <1>4, <2>2
    <2>3. CASE s[i] \in Elems(w)
      <3>1. PICK j \in 1 .. Len(w) : w[j] = s[i]
        BY <2>1, <2>3
      <3>. QED
        BY <1>5, <3>1 DEF Punctual
    <2>. QED
      BY <2>1, <2>2, <2>3
  <1>9. ASSUME NEW i \in 1 .. Len(s), NEW j \in 1 .. Len(s), i < j
        PROVE  lf[s[i].thread] <= lf[s[j].thread]
    <2>1. CASE \E a, b \in 1 .. Len(w) : a < b /\ s[i] = w[a] /\ s[j] = w[b]
      <3>1. PICK a \in 1 .. Len(w), b \in 1 .. Len(w) : a < b /\ s[i] = w[a] /\ s[j] = w[b]
        BY <2>1
      <3>. QED
        BY <1>5, <3>1 DEF Punctual
    <2>2. CASE s[i] = e /\ \E b \in k + 1 .. Len(w) : s[j] = w[b]
      <3>1. PICK b \in k + 1 .. Len(w) : s[j] = w[b]
        BY <2>2
      <3>2. b \in 1 .. Len(w)
        BY <1>1
      <3>3. n < lf[w[b].thread] /\ lf[w[b].thread] \in Nat
        BY <1>6, <3>2
      <3>. QED
        BY <1>0, <1>4, <2>2, <3>1, <3>3
    <2>3. CASE s[j] = e /\ \E a \in 1 .. k : s[i] = w[a]
      BY <1>4, <1>6, <2>3
    <2>. QED
      BY <1>2, <1>9, <2>1, <2>2, <2>3 DEF PutIn
  <1>. QED
    BY <1>8, <1>9 DEF Punctual, s

\* The tick takes those out whose time is over; the others have one tick less.
LEMMA TickPunctual ==
  ASSUME KernelTypes, left \in [Threads -> Spans], Punctual(timers, tick, left),
         NEW now, now = (tick + 1) % TickMod,
         timers' = SubSeq(timers, Len(Expired(now)) + 1, Len(timers)),
         NEW lf, lf = [t \in Threads |-> IF left[t] = 0 THEN 0 ELSE left[t] - 1]
  PROVE  Punctual(timers', now, lf) /\ lf \in [Threads -> Spans]
  <1>. DEFINE e == Expired(now)
              s == timers'
  <1>0. timers \in Seq(TimerSet) /\ tick \in Ticks /\ Len(timers) \in Nat
    BY TimedDomain DEF KernelTypes
  <1>1. lf \in [Threads -> Spans]
    <2>1. \A t \in Threads : left[t] \in Nat /\ left[t] < Half
      BY DEF Spans
    <2>2. Half \in Int
      <3>1. PICK M \in Nat : M = TickMod
        BY KernelAssumption
      <3>2. Half = (M - 1) \div 2
        BY <3>1 DEF Half
      <3>. QED
        BY <3>2
    <2>3. \A t \in Threads : lf[t] \in Nat /\ lf[t] < Half
      BY <2>1, <2>2
    <2>. QED
      BY <2>3 DEF Spans
  <1>2. /\ e \in Seq(Threads) /\ Len(e) \in 0 .. Len(timers)
        /\ Len(e) < Len(timers) => ~IsDue(Len(e) + 1, now)
        /\ s \in Seq(TimerSet) /\ Sublist(s, timers)
        /\ Elems(s) = {timers[i] : i \in Len(e) + 1 .. Len(timers)}
    BY <1>0, ExpiredFacts
  <1>. HIDE DEF e, s
  <1>3. \A i \in 1 .. Len(timers) : /\ timers[i].thread \in Threads /\ timers[i].due \in Ticks
                                     /\ left[timers[i].thread] \in Spans
                                     /\ (timers[i].due - tick) % TickMod = left[timers[i].thread]
    BY <1>0, TimedDomain DEF Punctual
  <1>4. \A i \in 1 .. Len(timers) :
          /\ IsDue(i, now) <=> left[timers[i].thread] < 2
          /\ left[timers[i].thread] > 0 =>
               (timers[i].due - now) % TickMod = left[timers[i].thread] - 1
    BY <1>0, <1>3, IsDueFacts DEF IsDue
  <1>5. \A i \in Len(e) + 1 .. Len(timers) : left[timers[i].thread] >= 2
    <2>. SUFFICES ASSUME NEW i \in Len(e) + 1 .. Len(timers)
                  PROVE  left[timers[i].thread] >= 2
      OBVIOUS
    <2>1. /\ i \in 1 .. Len(timers) /\ Len(e) + 1 \in 1 .. Len(timers) /\ Len(e) < Len(timers)
          /\ Len(e) \in Nat
      BY <1>0, <1>2
    <2>2. ~(left[timers[Len(e) + 1].thread] < 2)
      BY <1>2, <1>4, <2>1
    <2>3. i = Len(e) + 1 \/ left[timers[Len(e) + 1].thread] <= left[timers[i].thread]
      BY <1>0, <2>1 DEF Punctual
    <2>4. left[timers[Len(e) + 1].thread] \in Nat /\ left[timers[i].thread] \in Nat
      BY <1>3, <2>1 DEF Spans
    <2>. QED
      BY <2>2, <2>3, <2>4
  <1>6. \A x \in Elems(s) : /\ x.thread \in Threads /\ left[x.thread] \in Nat
                             /\ left[x.thread] >= 2
                             /\ (x.due - now) % TickMod = left[x.thread] - 1
    <2>. SUFFICES ASSUME NEW i \in Len(e) + 1 .. Len(timers)
                  PROVE  /\ timers[i].thread \in Threads /\ left[timers[i].thread] \in Nat
                         /\ left[timers[i].thread] >= 2
                         /\ (timers[i].due - now) % TickMod = left[timers[i].thread] - 1
      BY <1>2
    <2>1. i \in 1 .. Len(timers)
      BY <1>0, <1>2
    <2>2. left[timers[i].thread] >= 2 /\ left[timers[i].thread] \in Nat
      BY <1>3, <1>5, <2>1 DEF Spans
    <2>. QED
      BY <1>3, <1>4, <2>1, <2>2
  <1>7. \A i \in 1 .. Len(s) : s[i] \in Elems(s)
    BY <1>2, ListDomain
  <1>8. ASSUME NEW i \in 1 .. Len(s) PROVE (s[i].due - now) % TickMod = lf[s[i].thread]
    BY <1>6, <1>7
  <1>9. ASSUME NEW i \in 1 .. Len(s), NEW j \in 1 .. Len(s), i < j
        PROVE  lf[s[i].thread] <= lf[s[j].thread]
    <2>1. PICK a \in 1 .. Len(timers), b \in 1 .. Len(timers) :
            a < b /\ s[i] = timers[a] /\ s[j] = timers[b]
      BY <1>2, <1>9 DEF Sublist
    <2>2. PICK p \in Nat, q \in Nat : p = left[s[i].thread] /\ q = left[s[j].thread]
      BY <1>6, <1>7
    <2>3. p <= q
      BY <2>1, <2>2 DEF Punctual
    <2>4. lf[s[i].thread] = p - 1 /\ lf[s[j].thread] = q - 1
      BY <1>6, <1>7, <2>2
    <2>5. p - 1 <= q - 1
      BY <2>3
    <2>. QED
      BY <2>4, <2>5
  <1>. QED
    BY <1>1, <1>8, <1>9 DEF Punctual, s
-----------------------------------------------------------------------------
\* What steps do to the times.

Plain(c) == \A sp, lf : CallOnTime(c, sp, lf)

LEMMA PlainFacts ==
  /\ Plain(<<>>) /\ Plain(<<Sch>>)
  /\ \A e : e[1] \notin Looping \cup {"mp_again"} => Plain(<<e>>) /\ Plain(<<Sch, e>>)
  /\ \A u : /\ Plain(<<<<"unlink", u>>, <<"insert", u>>, Sch>>)
            /\ Plain(<<<<"insert", u>>, Sch>>)
  <1>1. Sch[1] = "schedule" /\ Sch[1] \notin Looping \cup {"mp_again"}
    BY DEF Sch, Looping
  <1>2. ASSUME NEW e, e[1] \notin Looping \cup {"mp_again"}
        PROVE  Plain(<<e>>) /\ Plain(<<Sch, e>>)
    <2>1. /\ Len(<<e>>) = 1 /\ <<e>>[1] = e
          /\ Len(<<Sch, e>>) = 2 /\ <<Sch, e>>[2] = e
      OBVIOUS
    <2>. QED
      BY <1>2, <2>1 DEF Plain, CallOnTime
  <1>3. ASSUME NEW u
        PROVE  /\ Plain(<<<<"unlink", u>>, <<"insert", u>>, Sch>>)
               /\ Plain(<<<<"insert", u>>, Sch>>)
    <2>. DEFINE c == <<<<"unlink", u>>, <<"insert", u>>, Sch>>
                d == <<<<"insert", u>>, Sch>>
    <2>1. Len(c) = 3 /\ c[3] = Sch /\ Len(d) = 2 /\ d[2] = Sch
      OBVIOUS
    <2>. HIDE DEF c, d
    <2>2. Plain(c) /\ Plain(d)
      BY <1>1, <2>1 DEF Plain, CallOnTime
    <2>. QED
      BY <2>2 DEF c, d
  <1>. QED
    BY <1>1, <1>2, <1>3 DEF Plain, CallOnTime

\* The calls that may wait more than once, as they begin to wait.
LEMMA WaitingOnTime ==
  ASSUME NEW n, IsTime(n), NEW lf, n # Forever => lf = n
  PROVE  /\ \A x : CallOnTime(<<Sch, <<"send_again", x, n>>>>, 0, lf)
         /\ \A s \in {"recv_again", "mq_again", "mp_woken"} :
              CallOnTime(<<Sch, <<s, n>>>>, 0, lf)
         /\ CallOnTime(<<<<"mp_again", n>>>>, 0, lf)
  <1>0. n # Forever => n \in Nat /\ n - 0 = n
    BY DEF IsTime, Spans
  <1>1. ASSUME NEW x PROVE CallOnTime(<<Sch, <<"send_again", x, n>>>>, 0, lf)
    <2>. DEFINE e == <<"send_again", x, n>>
    <2>1. e[1] = "send_again" /\ Len(e) = 3 /\ e[3] = n /\ Len(<<Sch, e>>) = 2 /\ <<Sch, e>>[2] = e
      OBVIOUS
    <2>. HIDE DEF e
    <2>2. CallOnTime(<<Sch, e>>, 0, lf)
      BY <1>0, <2>1 DEF CallOnTime
    <2>. QED
      BY <2>2 DEF e
  <1>2. ASSUME NEW s \in {"recv_again", "mq_again", "mp_woken"}
        PROVE  CallOnTime(<<Sch, <<s, n>>>>, 0, lf)
    <2>. DEFINE e == <<s, n>>
    <2>1. e[1] = s /\ Len(e) = 2 /\ e[2] = n /\ Len(<<Sch, e>>) = 2 /\ <<Sch, e>>[2] = e
          /\ s # "mp_again"
      OBVIOUS
    <2>. HIDE DEF e
    <2>2. CallOnTime(<<Sch, e>>, 0, lf)
      BY <1>0, <2>1 DEF CallOnTime
    <2>. QED
      BY <2>2 DEF e
  <1>3. CallOnTime(<<<<"mp_again", n>>>>, 0, lf)
    <2>. DEFINE e == <<"mp_again", n>>
    <2>1. e[1] = "mp_again" /\ Len(e) = 2 /\ e[2] = n /\ Len(<<e>>) = 1 /\ <<e>>[1] = e
      OBVIOUS
    <2>2. e[1] \notin Looping
      BY DEF Looping
    <2>. HIDE DEF e
    <2>3. CallOnTime(<<e>>, 0, lf)
      BY <1>0, <2>1, <2>2 DEF CallOnTime
    <2>. QED
      BY <2>3 DEF e
  <1>. QED
    BY <1>1, <1>2, <1>3

LEMMA TimeMoves ==
  ASSUME ThreadInv, TimeInv, UNCHANGED tick, Fewer, left' \in [Threads -> Spans],
         \A t \in Timed(timers') : left'[t] = left[t],
         \A t \in Threads : CallOnTime(todo'[t], spent'[t], left'[t])
  PROVE  TimeInv'
  <1>1. timers \in Seq(TimerSet) /\ Punctual(timers, tick, left)
    BY DEF ThreadInv, KernelTypes, TimeInv
  <1>2. Punctual(timers', tick, left')
    BY <1>1, FewerPunctual
  <1>3. Punctual(timers', tick', left')
    BY <1>2
  <1>. QED
    BY <1>3 DEF TimeInv

LEMMA TimeStays ==
  ASSUME ThreadInv, TimeInv, UNCHANGED <<tick, todo, spent, left>>, Fewer
  PROVE  TimeInv'
  BY TimeMoves DEF TimeInv

\* The thread that runs has no timer running.
LEMMA TimeGoes ==
  ASSUME ThreadInv, TimeInv, UNCHANGED tick, Fewer, stat[current] = "ready",
         NEW c, todo' = [todo EXCEPT ![current] = c],
         CallOnTime(c, spent'[current], left'[current]),
         spent' = spent \/ spent' = [spent EXCEPT ![current] = 0],
         left' = left \/ left' = [left EXCEPT ![current] = 0]
  PROVE  TimeInv'
  <1>1. /\ current \in Threads /\ todo = [t \in Threads |-> todo[t]]
        /\ \A t \in Timed(timers) : stat[t] = "suspend"
        /\ spent \in [Threads -> Int] /\ left \in [Threads -> Spans]
        /\ \A t \in Threads : CallOnTime(todo[t], spent[t], left[t])
    BY DEF ThreadInv, KernelTypes, ListInv, CurrentRight, CallsRight, TimedRight, TimeInv
  <1>2. 0 \in Spans
    BY SpanFacts
  <1>3. /\ left' \in [Threads -> Spans]
        /\ \A t \in Threads \ {current} : left'[t] = left[t]
    BY <1>1, <1>2
  <1>4. \A t \in Threads \ {current} : spent'[t] = spent[t] /\ todo'[t] = todo[t]
    BY <1>1
  <1>5. todo'[current] = c
    BY <1>1
  <1>6. \A t \in Timed(timers') : t \in Threads \ {current}
    <2>1. Timed(timers') \subseteq Timed(timers) /\ Timed(timers) \subseteq Threads
      BY TimedDomain DEF Fewer, Timed, ThreadInv, KernelTypes
    <2>. QED
      BY <1>1, <2>1
  <1>7. \A t \in Threads : CallOnTime(todo'[t], spent'[t], left'[t])
    BY <1>1, <1>3, <1>4, <1>5
  <1>. QED
    BY <1>3, <1>6, <1>7, TimeMoves

\* It waits for n ticks, of which k are left of its call.
LEMMA TimeSleeps ==
  ASSUME ThreadInv, TimeInv, UNCHANGED tick, NEW n, IsTime(n), NEW k \in Spans,
         n # Forever => k = n,
         timers' = IF n = Forever THEN Stopped(timers, {current}) ELSE Started(timers, current, n),
         left' = [left EXCEPT ![current] = k],
         NEW c, todo' = [todo EXCEPT ![current] = c],
         spent' = spent \/ spent' = [spent EXCEPT ![current] = 0],
         CallOnTime(c, spent'[current], k)
  PROVE  TimeInv'
  <1>1. /\ current \in Threads /\ todo = [t \in Threads |-> todo[t]]
        /\ spent \in [Threads -> Int] /\ left \in [Threads -> Spans]
        /\ timers \in Seq(TimerSet) /\ KernelTypes /\ Punctual(timers, tick, left)
        /\ \A t \in Threads : CallOnTime(todo[t], spent[t], left[t])
    BY DEF ThreadInv, KernelTypes, ListInv, CurrentRight, CallsRight, TimeInv
  <1>2. /\ left' \in [Threads -> Spans] /\ left'[current] = k
        /\ \A t \in Threads \ {current} : left'[t] = left[t]
    BY <1>1
  <1>3. /\ \A t \in Threads \ {current} : spent'[t] = spent[t] /\ todo'[t] = todo[t]
        /\ todo'[current] = c
    BY <1>1
  <1>4. \A t \in Threads : CallOnTime(todo'[t], spent'[t], left'[t])
    BY <1>1, <1>2, <1>3
  <1>5. Punctual(timers', tick, left')
    <2>1. CASE n = Forever
      <3>1. timers' = Stopped(timers, {current})
        BY <2>1
      <3>2. Fewer /\ Timed(timers') = Timed(timers) \ {current} /\ Timed(timers) \subseteq Threads
        BY <1>1, <3>1, FewerFacts, StoppedFacts, TimedDomain
      <3>3. \A t \in Timed(timers') : left'[t] = left[t]
        BY <1>2, <3>2
      <3>. QED
        BY <1>1, <3>2, <3>3, FewerPunctual
    <2>2. CASE n # Forever
      <3>1. timers' = Started(timers, current, n) /\ n \in Spans /\ k = n
        BY <2>2 DEF IsTime
      <3>. QED
        BY <1>1, <1>2, <3>1, StartedPunctual
    <2>. QED
      BY <2>1, <2>2
  <1>6. Punctual(timers', tick', left')
    BY <1>5
  <1>. QED
    BY <1>2, <1>4, <1>6 DEF TimeInv

LEMMA TimeWaits ==
  ASSUME ThreadInv, TimeInv, UNCHANGED tick, NEW n, IsTime(n), NEW k \in Spans,
         n # Forever => k = n,
         timers' = IF n = Forever THEN Stopped(timers, {current}) ELSE Started(timers, current, n),
         left' = [left EXCEPT ![current] = k],
         NEW c, todo' = [todo EXCEPT ![current] = c], CallOnTime(c, 0, k),
         spent' = [spent EXCEPT ![current] = 0]
  PROVE  TimeInv'
  <1>1. spent'[current] = 0
    BY DEF ThreadInv, KernelTypes, ListInv, CurrentRight
  <1>2. CallOnTime(c, spent'[current], k)
    BY <1>1
  <1>. QED
    BY <1>2, TimeSleeps
-----------------------------------------------------------------------------
\* Each step keeps the times.

LEMMA TimeTick ==
  ASSUME ThreadInv, TimeInv, TickOfAll
  PROVE  TimeInv'
  <1>. DEFINE now == (tick + 1) % TickMod
  <1>1. /\ tick' = now /\ timers' = SubSeq(timers, Len(Expired(now)) + 1, Len(timers))
        /\ left' = [t \in Threads |-> IF left[t] = 0 THEN 0 ELSE left[t] - 1]
        /\ spent' = [t \in Threads |-> IF spent[t] < Timeout(t) THEN spent[t] + 1 ELSE spent[t]]
        /\ todo' = todo
    BY DEF TickOfAll, Tick
  <1>. HIDE DEF now
  <1>2. KernelTypes /\ left \in [Threads -> Spans] /\ Punctual(timers, tick, left)
    BY DEF ThreadInv, TimeInv
  <1>3. Punctual(timers', now, left') /\ left' \in [Threads -> Spans]
    BY <1>1, <1>2, TickPunctual DEF now
  <1>4. Punctual(timers', tick', left')
    BY <1>1, <1>3
  <1>5. ASSUME NEW t \in Threads PROVE CallOnTime(todo'[t], spent'[t], left'[t])
    <2>1. /\ CallOnTime(todo[t], spent[t], left[t])
          /\ spent'[t] = (IF spent[t] < Timeout(t) THEN spent[t] + 1 ELSE spent[t])
          /\ left'[t] = (IF left[t] = 0 THEN 0 ELSE left[t] - 1)
          /\ todo'[t] = todo[t] /\ left[t] \in Nat
      BY <1>1, <1>2 DEF TimeInv, Spans
    <2>2. CASE todo[t] = <<>>
      BY <2>1, <2>2 DEF CallOnTime
    <2>3. CASE todo[t] # <<>>
      <3>. DEFINE e == todo[t][Len(todo[t])]
                  n == e[Len(e)]
      <3>1. e[1] \in Looping => Timeout(t) = n
        BY <2>3 DEF Timeout, Last
      <3>2. /\ e[1] \in Looping => /\ IsTime(n)
                                   /\ n # Forever => spent[t] \in Nat /\ left[t] = n - spent[t]
            /\ e[1] = "mp_again" => IsTime(e[2])
        BY <2>1, <2>3 DEF CallOnTime
      <3>3. ASSUME e[1] \in Looping, n # Forever
            PROVE  spent'[t] \in Nat /\ left'[t] = n - spent'[t]
        <4>1. n \in Nat /\ spent[t] \in Nat /\ left[t] = n - spent[t] /\ Timeout(t) = n
          BY <3>1, <3>2, <3>3 DEF IsTime, Spans
        <4>. HIDE DEF n
        <4>. QED
          BY <2>1, <4>1
      <3>4. /\ e[1] \in Looping => /\ IsTime(n)
                                   /\ n # Forever => spent'[t] \in Nat /\ left'[t] = n - spent'[t]
            /\ e[1] = "mp_again" => IsTime(e[2])
        BY <3>2, <3>3
      <3>. QED
        BY <2>1, <2>3, <3>4 DEF CallOnTime
    <2>. QED
      BY <2>2, <2>3
  <1>. QED
    BY <1>3, <1>4, <1>5 DEF TimeInv

\* A call waits.
Begun(k) == left' = [left EXCEPT ![current] = k]

LEMMA BeginsFacts ==
  ASSUME NEW n, IsTime(n), Begins(n)
  PROVE  \E k \in Spans : Begun(k) /\ (n # Forever => k = n)
  <1>1. CASE n = Forever
    BY <1>1, SpanFacts DEF Begins, Begun
  <1>2. CASE n # Forever
    BY <1>2 DEF Begins, Begun, IsTime
  <1>. QED
    BY <1>1, <1>2

LEMMA TimeSuspends ==
  ASSUME ThreadInv, TimeInv, UNCHANGED tick, NEW l, NEW w, NEW n, NEW r, NEW next,
         SuspendIn(l, w, n, r, next), IsTime(n), NEW k \in Spans, n # Forever => k = n,
         Begun(k), CallOnTime(<<Sch, next>>, 0, k)
  PROVE  TimeInv'
  <1>. DEFINE c == <<Sch, next>>
  <1>1. /\ timers' = IF n = Forever THEN Stopped(timers, {current}) ELSE Started(timers, current, n)
        /\ todo' = [todo EXCEPT ![current] = c]
        /\ spent' = [spent EXCEPT ![current] = 0]
        /\ left' = [left EXCEPT ![current] = k]
    BY DEF SuspendIn, Sch, Begun
  <1>2. CallOnTime(c, 0, k)
    OBVIOUS
  <1>. HIDE DEF c
  <1>. QED
    BY <1>1, <1>2, TimeWaits

\* A call that begins to wait, once or more often.
LEMMA TimeBegins ==
  ASSUME ThreadInv, TimeInv, UNCHANGED tick, NEW l, NEW w, NEW n, NEW r, NEW next,
         SuspendIn(l, w, n, r, next), IsTime(n), Begins(n),
         \/ Plain(<<Sch, next>>) \/ \E x : next = <<"send_again", x, n>>
         \/ \E s \in {"recv_again", "mq_again", "mp_woken"} : next = <<s, n>>
  PROVE  TimeInv'
  <1>1. PICK k \in Spans : Begun(k) /\ (n # Forever => k = n)
    BY BeginsFacts
  <1>2. CallOnTime(<<Sch, next>>, 0, k)
    <2>1. CASE Plain(<<Sch, next>>)
      BY <2>1 DEF Plain
    <2>2. CASE \E x : next = <<"send_again", x, n>>
      BY <1>1, <2>2, WaitingOnTime
    <2>3. CASE \E s \in {"recv_again", "mq_again", "mp_woken"} : next = <<s, n>>
      BY <1>1, <2>3, WaitingOnTime
    <2>. QED
      BY <2>1, <2>2, <2>3
  <1>. QED
    BY <1>1, <1>2, TimeSuspends

\* The thread that runs resumes some or none, and goes on with c.
LEMMA TimePlain ==
  ASSUME ThreadInv, TimeInv, UNCHANGED tick, Fewer, stat[current] = "ready",
         NEW c, todo' = [todo EXCEPT ![current] = c], Plain(c),
         spent' = spent \/ spent' = [spent EXCEPT ![current] = 0],
         left' = left \/ left' = [left EXCEPT ![current] = 0]
  PROVE  TimeInv'
  BY TimeGoes DEF Plain

\* A section that ends its call.
LEMMA TimeEnds ==
  ASSUME ThreadInv, TimeInv, UNCHANGED <<tick, timers>>, NEW s, At(s),
         s \in EndNames \cup WorkNames, Then(<<>>),
         spent' = spent \/ spent' = [spent EXCEPT ![current] = 0],
         left' = left \/ left' = [left EXCEPT ![current] = 0]
  PROVE  TimeInv'
  <1>1. stat[current] = "ready" /\ <<>> \o Tail(todo[current]) = <<>> \o <<>>
    BY LastSection
  <1>2. todo' = [todo EXCEPT ![current] = <<>>]
    BY <1>1, RestFacts DEF Then
  <1>3. Fewer
    BY FewerFacts DEF ThreadInv, KernelTypes
  <1>. QED
    BY <1>1, <1>2, <1>3, PlainFacts, TimePlain

LEMMA TimeCaller ==
  ASSUME ThreadInv, TimeInv, UNCHANGED tick, Fewer, stat[current] = "ready",
         NEW b, CallerGoes(b),
         spent' = spent \/ spent' = [spent EXCEPT ![current] = 0],
         left' = left \/ left' = [left EXCEPT ![current] = 0]
  PROVE  TimeInv'
  <1>1. PICK c : todo' = [todo EXCEPT ![current] = c] /\ (c = <<>> \/ c = <<Sch>>)
    BY DEF CallerGoes, Sch
  <1>. QED
    BY <1>1, PlainFacts, TimePlain

LEMMA StayFewer ==
  ASSUME ThreadInv, timers' = timers \/ \E R : timers' = Stopped(timers, R)
  PROVE  Fewer
  BY FewerFacts DEF ThreadInv, KernelTypes

LEMMA TimeKernel ==
  ASSUME ThreadInv, TimeInv, Section \/ Call, UNCHANGED ipcVars
  PROVE  TimeInv'
  <1>0. spent' = spent
    BY DEF ipcVars
  <1>1. CASE Schedule
    <2>1. /\ UNCHANGED <<tick, timers, left>> /\ todo' = [todo EXCEPT ![current] = <<>> \o Tail(@)]
          /\ At("schedule")
      BY <1>1 DEF Schedule, Then
    <2>2. /\ current \in Threads /\ todo = [t \in Threads |-> todo[t]] /\ IsCall(todo[current])
          /\ todo[current] # <<>> /\ Head(todo[current])[1] = "schedule"
      BY <2>1 DEF At, ThreadInv, ListInv, CallsRight, CurrentRight
    <2>3. todo[current] = <<Sch>> \/ \E e : todo[current] = <<Sch, e>>
      BY <2>2, HeadFacts
    <2>4. ASSUME NEW sp, NEW lf, CallOnTime(todo[current], sp, lf)
          PROVE  CallOnTime(<<>> \o Tail(todo[current]), sp, lf)
      <3>1. CASE todo[current] = <<Sch>>
        BY <3>1, RestFacts, PlainFacts DEF Plain
      <3>2. CASE \E e : todo[current] = <<Sch, e>>
        <4>1. PICK e : todo[current] = <<Sch, e>>
          BY <3>2
        <4>2. <<>> \o Tail(todo[current]) = <<e>>
          BY <4>1, RestFacts
        <4>3. Len(<<Sch, e>>) = 2 /\ <<Sch, e>>[2] = e /\ Len(<<e>>) = 1 /\ <<e>>[1] = e
          OBVIOUS
        <4>. QED
          BY <2>4, <4>1, <4>2, <4>3 DEF CallOnTime
      <3>. QED
        BY <2>3, <3>1, <3>2
    <2>5. \A t \in Threads : CallOnTime(todo'[t], spent'[t], left'[t])
      BY <1>0, <2>1, <2>2, <2>4 DEF TimeInv
    <2>6. Fewer /\ left' \in [Threads -> Spans]
      BY <2>1, StayFewer DEF TimeInv
    <2>. QED
      BY <2>1, <2>5, <2>6, TimeMoves
  <1>2. CASE Slept
    BY <1>0, <1>2, TimeEnds DEF Slept, EndNames
  <1>3. ~SuspendNow /\ ~RemoveNow /\ ~StopNow /\ ~CloseNow
    <2>1. \A s : At(s) /\ s # "schedule" => s \notin {"suspend", "remove", "stop", "close"}
      BY SectionFacts, HeadFacts
    <2>. QED
      BY <2>1 DEF SuspendNow, RemoveNow, StopNow, CloseNow
  <1>4. CASE UnlinkNow
    <2>1. /\ UNCHANGED <<tick, left>> /\ \E R : timers' = Stopped(timers, R)
          /\ todo' = [todo EXCEPT ![current] = <<>> \o Tail(@)] /\ At("unlink")
      BY <1>4 DEF UnlinkNow, Then
    <2>2. /\ stat[current] = "ready" /\ IsCall(todo[current]) /\ todo[current] # <<>>
          /\ todo[current][1][1] = "unlink"
      BY <2>1, SectionFacts
    <2>3. PICK u \in Threads : todo[current] = <<<<"unlink", u>>, <<"insert", u>>, Sch>>
      BY <2>2, HeadFacts
    <2>4. <<>> \o Tail(todo[current]) = <<<<"insert", u>>, Sch>>
      BY <2>3, RestFacts
    <2>5. todo' = [todo EXCEPT ![current] = <<<<"insert", u>>, Sch>>]
      BY <2>1, <2>4
    <2>. QED
      BY <1>0, <2>1, <2>2, <2>5, StayFewer, PlainFacts, TimePlain
  <1>5. CASE InsertNow
    <2>1. /\ UNCHANGED <<tick, left, timers>>
          /\ todo' = [todo EXCEPT ![current] = <<>> \o Tail(@)] /\ At("insert")
      BY <1>5 DEF InsertNow, Then
    <2>2. /\ stat[current] = "ready" /\ IsCall(todo[current]) /\ todo[current] # <<>>
          /\ todo[current][1][1] = "insert"
      BY <2>1, SectionFacts
    <2>3. PICK u \in Threads : todo[current] = <<<<"insert", u>>, Sch>>
      BY <2>2, HeadFacts
    <2>4. <<>> \o Tail(todo[current]) = <<Sch>>
      BY <2>3
    <2>5. todo' = [todo EXCEPT ![current] = <<Sch>>]
      BY <2>1, <2>4
    <2>. QED
      BY <1>0, <2>1, <2>2, <2>5, StayFewer, PlainFacts, TimePlain
  <1>6. CASE EnterCritical \/ IdleCleanup
    <2>1. UNCHANGED <<tick, todo, spent, left, timers>>
      BY <1>0, <1>6 DEF EnterCritical, IdleCleanup, threadVars
    <2>. QED
      BY <2>1, StayFewer, TimeStays
  <1>7. CASE ExitCritical \/ Yield \/ Exit
    <2>1. PICK c : todo' = [todo EXCEPT ![current] = c] /\ (c = <<>> \/ c = <<Sch>>)
      BY <1>7 DEF ExitCritical, Yield, Exit, Goes, Sch
    <2>2. UNCHANGED <<tick, left>> /\ (timers' = timers \/ \E R : timers' = Stopped(timers, R))
      BY <1>7 DEF ExitCritical, Yield, Exit
    <2>3. Calls("lock") \/ Calls("yield") \/ Calls("exit")
      BY <1>7 DEF ExitCritical, Yield, Exit
    <2>4. stat[current] = "ready"
      BY <2>3, CallerFacts
    <2>5. Fewer /\ Plain(c)
      BY <2>1, <2>2, StayFewer, PlainFacts
    <2>. QED
      BY <1>0, <2>1, <2>2, <2>4, <2>5, TimePlain
  <1>8. ASSUME NEW n \in WaitTimes, Sleep(n) PROVE TimeInv'
    <2>. DEFINE c == <<Sch, <<"slept">>>>
    <2>1. /\ timers' = Started(timers, current, n)
          /\ todo' = [todo EXCEPT ![current] = c] /\ left' = [left EXCEPT ![current] = n]
          /\ UNCHANGED tick /\ current \in Threads
      BY <1>8, CallerFacts DEF Sleep, StartTimer, Goes, Sch
    <2>2. n \in Spans /\ n # Forever /\ IsTime(n)
      <3>1. IsTime(n) /\ n \in Nat
        BY <2>1, SpanFacts, TimesFacts
      <3>2. n # Forever
        BY <3>1 DEF Forever
      <3>. QED
        BY <3>1, <3>2 DEF IsTime
    <2>3. Plain(c)
      <3>1. <<"slept">>[1] \notin Looping \cup {"mp_again"}
        BY DEF Looping
      <3>. QED
        BY <3>1, PlainFacts
    <2>. HIDE DEF c
    <2>. QED
      BY <1>0, <2>1, <2>2, <2>3, TimeSleeps DEF Plain
  <1>9. ASSUME NEW u \in Threads, Startup(u) PROVE TimeInv'
    <2>1. /\ todo' = [todo EXCEPT ![current] = <<<<"unlink", u>>, <<"insert", u>>, Sch>>]
          /\ UNCHANGED <<tick, left, timers>> /\ Calls("startup")
      BY <1>9 DEF Startup, AboutThread, Goes, Sch
    <2>. QED
      BY <1>0, <2>1, CallerFacts, StayFewer, PlainFacts, TimePlain
  <1>10. \A u \in Threads : /\ ~Suspend(u) /\ ~Resume(u) /\ ~Detach(u)
                            /\ \A p \in Prios : ~ChangePriority(u, p)
    <2>1. ~Calls("suspend") /\ ~Calls("detach") /\ ~Calls("priority")
      BY CallerFacts
    <2>. QED
      BY <2>1 DEF Suspend, Resume, Detach, ChangePriority, AboutThread
  <1>. QED
    BY <1>1, <1>2, <1>3, <1>4, <1>5, <1>6, <1>7, <1>8, <1>9, <1>10 DEF Section, Call
-----------------------------------------------------------------------------
\* Of RttIpc.

LEMMA ResumeOneFewer ==
  ASSUME ThreadInv, NEW l, ResumeOne(l)
  PROVE  Fewer
  BY StayFewer DEF ResumeOne, ResumeFirst, ResumeNobody

\* What is left of the time of a call that looks again.
LEMMA LookingFacts ==
  ASSUME ThreadInv, TimeInv, NEW s \in Looping, At(s),
         NEW n, n = IF s = "send_again" THEN Head(todo[current])[3] ELSE Head(todo[current])[2]
  PROVE  /\ IsTime(WaitLeft(n))
         /\ WaitLeft(n) # Forever => left[current] = WaitLeft(n)
         /\ left[current] \in Spans /\ left = [left EXCEPT ![current] = left[current]]
  <1>. DEFINE e == todo[current][1]
  <1>1. s \in EndNames
    BY DEF Looping, EndNames
  <1>2. /\ todo[current] = <<e>> /\ Head(todo[current]) = e /\ e[1] = s /\ IsEnd(e)
        /\ current \in Threads
    BY <1>1, LastSection
  <1>. HIDE DEF e
  <1>3. e[Len(e)] = n
    <2>1. <<"slept">>[1] = "slept"
      OBVIOUS
    <2>2. CASE s = "send_again"
      <3>1. e[Len(e)] = e[3]
        BY <1>2, <2>1, <2>2 DEF IsEnd
      <3>. QED
        BY <1>2, <2>2, <3>1
    <2>3. CASE s # "send_again"
      <3>1. s \in {"recv_again", "mq_again", "mp_woken"}
        BY <2>3 DEF Looping
      <3>2. e[Len(e)] = e[2]
        BY <1>2, <2>1, <3>1 DEF IsEnd
      <3>. QED
        BY <1>2, <2>3, <3>2
    <2>. QED
      BY <2>2, <2>3
  <1>4. Len(<<e>>) = 1 /\ <<e>>[1] = e /\ <<e>> # <<>>
    OBVIOUS
  <1>5. CallOnTime(<<e>>, spent[current], left[current])
    BY <1>2 DEF TimeInv
  <1>6. /\ IsTime(n)
        /\ n # Forever => spent[current] \in Nat /\ left[current] = n - spent[current]
    BY <1>2, <1>3, <1>4, <1>5 DEF CallOnTime
  <1>7. left[current] \in Spans /\ left = [left EXCEPT ![current] = left[current]]
    BY <1>2 DEF TimeInv
  <1>. QED
    BY <1>6, <1>7 DEF WaitLeft, IsTime

\* It fails, works, or waits for what is left.
LEMMA TimeLoop ==
  ASSUME ThreadInv, TimeInv, UNCHANGED tick, NEW s \in Looping, At(s),
         NEW l, NEW m, NEW n, NEW refused, NEW next,
         n = IF s = "send_again" THEN Head(todo[current])[3] ELSE Head(todo[current])[2],
         \/ \E x : next = <<"send_again", x, WaitLeft(n)>>
         \/ \E z \in {"recv_again", "mq_again", "mp_woken"} : next = <<z, WaitLeft(n)>>,
         Fails(refused, n) \/ Works(l) \/ WaitsAgain(m, WaitLeft(n), next)
  PROVE  TimeInv'
  <1>1. s \in EndNames
    BY DEF Looping, EndNames
  <1>2. CASE Fails(refused, n)
    BY <1>1, <1>2, TimeEnds DEF Fails, Returns
  <1>3. CASE Works(l)
    <2>1. /\ ResumeOne(l) /\ CallerGoes(waitList[l] # <<>>)
          /\ spent' = [spent EXCEPT ![current] = 0] /\ left' = [left EXCEPT ![current] = 0]
      BY <1>3 DEF Works, Returns
    <2>2. stat[current] = "ready" /\ Fewer
      BY <1>1, <2>1, LastSection, ResumeOneFewer
    <2>. QED
      BY <2>1, <2>2, TimeCaller
  <1>4. CASE WaitsAgain(m, WaitLeft(n), next)
    <2>. DEFINE w == WaitLeft(n)
                k == left[current]
    <2>1. IsTime(w) /\ k \in Spans /\ (w # Forever => k = w) /\ left = [left EXCEPT ![current] = k]
      BY LookingFacts
    <2>2. SuspendIn(m, Enlisted(m, current), w, ready, next) /\ left' = left
      BY <1>4 DEF WaitsAgain, SuspendOn
    <2>3. Begun(k)
      BY <2>1, <2>2 DEF Begun
    <2>4. CallOnTime(<<Sch, next>>, 0, k)
      <3>. HIDE DEF w, k
      <3>1. \/ \E x : next = <<"send_again", x, w>>
            \/ \E z \in {"recv_again", "mq_again", "mp_woken"} : next = <<z, w>>
        BY DEF w
      <3>. QED
        BY <2>1, <3>1, WaitingOnTime
    <2>. HIDE DEF w, k
    <2>. QED
      BY <2>1, <2>2, <2>3, <2>4, TimeSuspends
  <1>. QED
    BY <1>2, <1>3, <1>4

\* The names of the sections that wait once.
LEMMA PlainEnds ==
  \A x : /\ Plain(<<Sch, <<"sem_end", x>>>>) /\ Plain(<<Sch, <<"mutex_end", x>>>>)
         /\ Plain(<<Sch, <<"event_end", x>>>>)
  <1>1. \A x : \A s \in {"sem_end", "mutex_end", "event_end"} :
          <<s, x>>[1] \notin Looping \cup {"mp_again"}
    BY DEF Looping
  <1>. QED
    BY <1>1, PlainFacts

LEMMA TimeSemTake ==
  ASSUME ThreadInv, TimeInv, NEW s, NEW n, IsTime(n), SemTake(s, n)
  PROVE  TimeInv'
  <1>1. UNCHANGED tick
    BY DEF SemTake
  <1>2. CASE UNCHANGED <<timers, spent, todo, left>>
    BY <1>1, <1>2, StayFewer, TimeStays
  <1>3. CASE SuspendOn(s, n, ready, <<"sem_end", s>>) /\ Begins(n)
    BY <1>1, <1>3, PlainEnds, TimeBegins DEF SuspendOn
  <1>. QED
    BY <1>2, <1>3 DEF SemTake

LEMMA TimeSemEnds ==
  ASSUME ThreadInv, TimeInv, SemEnd \/ MutexEnd
  PROVE  TimeInv'
  <1>1. /\ UNCHANGED <<tick, timers>> /\ (At("sem_end") \/ At("mutex_end")) /\ Then(<<>>)
        /\ spent' = [spent EXCEPT ![current] = 0] /\ left' = [left EXCEPT ![current] = 0]
    BY DEF SemEnd, MutexEnd, Returns
  <1>. QED
    BY <1>1, TimeEnds DEF EndNames

\* A release or a reset by a thread, or a release by a handler.
LEMMA ResumeAllFewer ==
  ASSUME ThreadInv, NEW ls, ResumeAll(ls)
  PROVE  Fewer
  BY StayFewer DEF ResumeAll

LEMMA TimeHandler ==
  ASSUME ThreadInv, TimeInv, UNCHANGED <<tick, spent, left>>, Fewer, NEW b, HandlerGoes(b)
  PROVE  TimeInv'
  BY TimeStays DEF HandlerGoes

LEMMA TimeSemRelease ==
  ASSUME ThreadInv, TimeInv, NEW s, SemRelease(s) \/ SemReleaseISR(s)
  PROVE  TimeInv'
  <1>1. UNCHANGED <<tick, spent, left>> /\ ResumeOne(s)
    BY DEF SemRelease, SemReleaseISR, Release, ResumeOne
  <1>2. Fewer
    BY <1>1, ResumeOneFewer
  <1>3. CASE SemRelease(s)
    <2>1. CallerGoes(waitList[s] # <<>>) /\ stat[current] = "ready"
      BY <1>3, IdleFacts DEF SemRelease
    <2>. QED
      BY <1>1, <1>2, <2>1, TimeCaller
  <1>4. CASE SemReleaseISR(s)
    BY <1>1, <1>2, <1>4, TimeHandler DEF SemReleaseISR
  <1>. QED
    BY <1>3, <1>4

LEMMA TimeResets ==
  ASSUME ThreadInv, TimeInv, UNCHANGED <<tick, spent, left>>, NEW op, Calls(op),
         NEW ls, ResumeAll(ls), CallerGoes(TRUE)
  PROVE  TimeInv'
  BY CallerFacts, ResumeAllFewer, TimeCaller

LEMMA TimeMutexTake ==
  ASSUME ThreadInv, TimeInv, NEW m, NEW n, IsTime(n),
         MutexTakeAgain(m) \/ MutexTakeFree(m) \/ MutexTakeWait(m, n)
  PROVE  TimeInv'
  <1>1. UNCHANGED tick
    BY DEF MutexTakeAgain, MutexTakeFree, MutexTakeWait
  <1>2. CASE MutexTakeAgain(m) \/ MutexTakeFree(m)
    <2>1. UNCHANGED <<timers, spent, todo, left>>
      BY <1>2 DEF MutexTakeAgain, MutexTakeFree
    <2>. QED
      BY <1>1, <2>1, StayFewer, TimeStays
  <1>3. CASE MutexTakeWait(m, n)
    <2>1. PICK r : SuspendOn(m, n, r, <<"mutex_end", m>>) /\ Begins(n)
      BY <1>3 DEF MutexTakeWait
    <2>. QED
      BY <1>1, <2>1, PlainEnds, TimeBegins DEF SuspendOn
  <1>. QED
    BY <1>2, <1>3

LEMMA TimeMutexRelease ==
  ASSUME ThreadInv, TimeInv, NEW m, MutexRelease(m)
  PROVE  TimeInv'
  <1>1. /\ UNCHANGED <<tick, spent, left>> /\ todo[current] = <<>>
        /\ \E b : CallerGoes(b)
    BY DEF MutexRelease
  <1>2. timers' = timers \/ \E R : timers' = Stopped(timers, R)
    BY DEF MutexRelease, ResumeNobody, ResumeFirst
  <1>3. Fewer /\ stat[current] = "ready"
    BY <1>1, <1>2, StayFewer, IdleFacts
  <1>. QED
    BY <1>1, <1>3, TimeCaller

LEMMA TimeSend ==
  ASSUME ThreadInv, TimeInv, NEW x, NEW n, IsTime(n), Send(x, n)
  PROVE  TimeInv'
  <1>1. UNCHANGED tick /\ stat[current] = "ready"
    BY CallerFacts DEF Send
  <1>2. CASE /\ ResumeOne(Receivers) /\ CallerGoes(waitList[Receivers] # <<>>)
             /\ UNCHANGED <<spent, left>>
    BY <1>1, <1>2, ResumeOneFewer, TimeCaller
  <1>3. CASE SuspendOn(Senders, n, ready, <<"send_again", x, n>>) /\ Begins(n)
    BY <1>1, <1>3, TimeBegins DEF SuspendOn
  <1>. QED
    BY <1>2, <1>3 DEF Send

LEMMA TimeReceive ==
  ASSUME ThreadInv, TimeInv, NEW n, IsTime(n), Receive(n)
  PROVE  TimeInv'
  <1>1. UNCHANGED tick /\ stat[current] = "ready"
    BY CallerFacts DEF Receive
  <1>2. CASE /\ ResumeOne(Senders) /\ CallerGoes(waitList[Senders] # <<>>)
             /\ UNCHANGED <<spent, left>>
    BY <1>1, <1>2, ResumeOneFewer, TimeCaller
  <1>3. CASE SuspendOn(Receivers, n, ready, <<"recv_again", n>>) /\ Begins(n)
    BY <1>1, <1>3, TimeBegins DEF SuspendOn
  <1>. QED
    BY <1>2, <1>3 DEF Receive

LEMMA TimeSendAgain ==
  ASSUME ThreadInv, TimeInv, SendAgain
  PROVE  TimeInv'
  <1>. DEFINE x == Head(todo[current])[2]
              n == Head(todo[current])[3]
              next == <<"send_again", x, WaitLeft(n)>>
  <1>1. /\ UNCHANGED tick /\ At("send_again")
        /\ Fails(entry = BoxSize, n) \/ Works(Receivers) \/ WaitsAgain(Senders, WaitLeft(n), next)
    BY DEF SendAgain
  <1>2. \E y : next = <<"send_again", y, WaitLeft(n)>>
    OBVIOUS
  <1>3. "send_again" \in Looping
    BY DEF Looping
  <1>. HIDE DEF x, next
  <1>. QED
    BY <1>1, <1>2, <1>3, TimeLoop

LEMMA TimeReceiveAgain ==
  ASSUME ThreadInv, TimeInv, ReceiveAgain
  PROVE  TimeInv'
  <1>. DEFINE n == Head(todo[current])[2]
              next == <<"recv_again", WaitLeft(n)>>
  <1>1. /\ UNCHANGED tick /\ At("recv_again")
        /\ Fails(entry = 0, n) \/ Works(Senders) \/ WaitsAgain(Receivers, WaitLeft(n), next)
    BY DEF ReceiveAgain
  <1>2. \E z \in {"recv_again", "mq_again", "mp_woken"} : next = <<z, WaitLeft(n)>>
    OBVIOUS
  <1>3. "recv_again" \in Looping
    BY DEF Looping
  <1>. HIDE DEF next
  <1>. QED
    BY <1>1, <1>2, <1>3, TimeLoop

LEMMA TimeIpc ==
  ASSUME ThreadInv, TimeInv, IpcNext
  PROVE  TimeInv'
  <1>0. \A n \in WaitTimes \cup {Forever} : IsTime(n)
    BY SpanFacts DEF ThreadInv, ListInv, CurrentRight
  <1>1. CASE InCall
    BY <1>1, TimeKernel, TimeSemEnds, TimeSendAgain, TimeReceiveAgain DEF InCall
  <1>2. CASE ApplicationCall
    <2>1. CASE Call /\ UNCHANGED ipcVars
      BY <2>1, TimeKernel
    <2>2. CASE \E s \in Sems : \/ SemRelease(s)
                               \/ \E n \in WaitTimes \cup {Forever} : SemTake(s, n)
                               \/ \E n \in 0 .. MaxPermits : SemReset(s, n)
      <3>1. ASSUME NEW s \in Sems, NEW n, SemReset(s, n) PROVE TimeInv'
        BY <3>1, TimeResets DEF SemReset
      <3>. QED
        BY <1>0, <2>2, <3>1, TimeSemRelease, TimeSemTake
    <2>3. CASE \E m \in Mutexes : \/ MutexTakeAgain(m) \/ MutexTakeFree(m) \/ MutexRelease(m)
                                  \/ \E n \in WaitTimes \cup {Forever} : MutexTakeWait(m, n)
      <3>1. IsTime(Forever)
        BY DEF IsTime
      <3>. QED
        BY <1>0, <2>3, <3>1, TimeMutexTake, TimeMutexRelease
    <2>4. CASE \E n \in WaitTimes \cup {Forever} : Receive(n) \/ \E x \in Msgs : Send(x, n)
      BY <1>0, <2>4, TimeReceive, TimeSend
    <2>5. CASE BoxReset
      BY <2>5, TimeResets DEF BoxReset
    <2>. QED
      BY <1>2, <2>1, <2>2, <2>3, <2>4, <2>5 DEF ApplicationCall
  <1>3. CASE Handler
    <2>1. ASSUME NEW x, SendISR(x) PROVE TimeInv'
      BY <2>1, ResumeOneFewer, TimeHandler DEF SendISR
    <2>. QED
      BY <1>3, <2>1, TimeSemRelease DEF Handler
  <1>. QED
    BY <1>1, <1>2, <1>3, TimeTick DEF IpcNext
-----------------------------------------------------------------------------
\* Of RttMessages.

\* The caller goes on with a block of the message queue in its hands, or has done its work.
LEMMA TimeWorks ==
  ASSUME ThreadInv, TimeInv, UNCHANGED <<tick, timers>>, stat[current] = "ready",
         NEW c, Len(c) = 1, c[1][1] \in {"mq_send", "mq_urgent", "mq_copy"},
         todo' = [todo EXCEPT ![current] = c],
         spent' = spent \/ spent' = [spent EXCEPT ![current] = 0],
         left' = left \/ left' = [left EXCEPT ![current] = 0]
  PROVE  TimeInv'
  <1>1. Plain(c)
    BY DEF Plain, CallOnTime, Looping
  <1>. QED
    BY <1>1, StayFewer, TimePlain

LEMMA TimeSetBits ==
  ASSUME ThreadInv, TimeInv, NEW s, EventSend(s) \/ EventSendISR(s)
  PROVE  TimeInv'
  <1>1. UNCHANGED <<tick, spent, left>> /\ \E R : timers' = Stopped(timers, R)
    BY DEF EventSend, EventSendISR, SetBits, ipcVars
  <1>2. Fewer
    BY <1>1, StayFewer
  <1>3. CASE EventSend(s)
    <2>1. stat[current] = "ready" /\ \E b : CallerGoes(b)
      BY <1>3, CallerFacts DEF EventSend
    <2>. QED
      BY <1>1, <1>2, <2>1, TimeCaller
  <1>4. CASE EventSendISR(s)
    BY <1>1, <1>2, <1>4, TimeHandler DEF EventSendISR
  <1>. QED
    BY <1>3, <1>4

LEMMA TimeEventRecv ==
  ASSUME ThreadInv, TimeInv, NEW s, NEW all, NEW clear, NEW n, IsTime(n),
         EventRecv(s, all, clear, n)
  PROVE  TimeInv'
  <1>1. UNCHANGED tick
    BY DEF EventRecv
  <1>2. CASE UNCHANGED <<timers, spent, todo, left>>
    BY <1>1, <1>2, StayFewer, TimeStays
  <1>3. CASE SuspendOn(Event, n, ready, <<"event_end", s>>) /\ Begins(n)
    BY <1>1, <1>3, PlainEnds, TimeBegins DEF SuspendOn
  <1>. QED
    BY <1>2, <1>3 DEF EventRecv

LEMMA TimeMsgResets ==
  ASSUME ThreadInv, TimeInv, EventReset \/ MqReset
  PROVE  TimeInv'
  <1>1. UNCHANGED <<tick, spent, left>> /\ CallerGoes(TRUE)
    BY DEF EventReset, MqReset, ipcVars
  <1>. QED
    BY <1>1, TimeResets DEF EventReset, MqReset

LEMMA TimeMqSend ==
  ASSUME ThreadInv, TimeInv, NEW how \in Ways, NEW x,
         MqSend(how, x) \/ MqLink(how) \/ MqSendISR(how, x)
  PROVE  TimeInv'
  <1>1. UNCHANGED <<tick, spent, left>>
    BY DEF MqSend, MqLink, MqSendISR, ipcVars
  <1>2. CASE MqSend(how, x)
    <2>. DEFINE c == <<<<how, x, Head(free)>>>>
    <2>1. todo' = [todo EXCEPT ![current] = c] /\ UNCHANGED timers /\ Calls(how)
      BY <1>2 DEF MqSend, Goes
    <2>2. c[1][1] \in {"mq_send", "mq_urgent", "mq_copy"} /\ Len(c) = 1
      BY DEF Ways
    <2>3. stat[current] = "ready"
      BY <2>1, CallerFacts
    <2>. HIDE DEF c
    <2>. QED
      BY <1>1, <2>1, <2>2, <2>3, TimeWorks
  <1>3. CASE MqLink(how)
    <2>1. At(how) /\ ResumeOne(Queue) /\ CallerGoes(waitList[Queue] # <<>>)
      BY <1>3 DEF MqLink
    <2>2. stat[current] = "ready"
      BY <2>1, LastSection DEF Ways, WorkNames
    <2>. QED
      BY <1>1, <2>1, <2>2, ResumeOneFewer, TimeCaller
  <1>4. CASE MqSendISR(how, x)
    BY <1>1, <1>4, ResumeOneFewer, TimeHandler DEF MqSendISR
  <1>. QED
    BY <1>2, <1>3, <1>4

LEMMA TimeMqReceive ==
  ASSUME ThreadInv, TimeInv, NEW n, IsTime(n), MqReceive(n)
  PROVE  TimeInv'
  <1>1. UNCHANGED tick /\ stat[current] = "ready"
    BY CallerFacts DEF MqReceive
  <1>2. CASE Goes(Copying(Head(queue))) /\ UNCHANGED <<timers, spent, left>>
    <2>. DEFINE c == <<<<"mq_copy", Head(queue), contents[Head(queue)]>>>>
    <2>1. todo' = [todo EXCEPT ![current] = c]
      BY <1>2 DEF Goes, Copying
    <2>2. c[1][1] \in {"mq_send", "mq_urgent", "mq_copy"} /\ Len(c) = 1
      OBVIOUS
    <2>. HIDE DEF c
    <2>. QED
      BY <1>1, <1>2, <2>1, <2>2, TimeWorks
  <1>3. CASE SuspendOn(Queue, n, ready, <<"mq_again", n>>) /\ Begins(n)
    BY <1>1, <1>3, TimeBegins DEF SuspendOn
  <1>. QED
    BY <1>2, <1>3 DEF MqReceive

LEMMA TimeMqReceiveAgain ==
  ASSUME ThreadInv, TimeInv, MqReceiveAgain
  PROVE  TimeInv'
  <1>. DEFINE n == Head(todo[current])[2]
              next == <<"mq_again", WaitLeft(n)>>
              c == <<<<"mq_copy", Head(queue), contents[Head(queue)]>>>>
  <1>1. /\ UNCHANGED tick /\ At("mq_again")
        /\ \/ Fails(queue = <<>>, n) \/ WaitsAgain(Queue, WaitLeft(n), next)
           \/ /\ todo' = [todo EXCEPT ![current] = c \o Tail(@)]
              /\ spent' = [spent EXCEPT ![current] = 0] /\ left' = [left EXCEPT ![current] = 0]
              /\ UNCHANGED timers
    BY DEF MqReceiveAgain, Then, Copying, Returns
  <1>2. \E z \in {"recv_again", "mq_again", "mp_woken"} : next = <<z, WaitLeft(n)>>
    OBVIOUS
  <1>3. "mq_again" \in Looping /\ "mq_again" \in EndNames
    BY DEF Looping, EndNames
  <1>4. c[1][1] \in {"mq_send", "mq_urgent", "mq_copy"} /\ Len(c) = 1
    OBVIOUS
  <1>7. c \o <<>> = c
    BY RestFacts
  <1>. HIDE DEF next, c
  <1>5. CASE Fails(queue = <<>>, n) \/ WaitsAgain(Queue, WaitLeft(n), next)
    BY <1>1, <1>2, <1>3, <1>5, TimeLoop
  <1>6. CASE /\ todo' = [todo EXCEPT ![current] = c \o Tail(@)]
             /\ spent' = [spent EXCEPT ![current] = 0] /\ left' = [left EXCEPT ![current] = 0]
             /\ UNCHANGED timers
    <2>1. stat[current] = "ready" /\ c \o Tail(todo[current]) = c \o <<>>
      BY <1>1, <1>3, LastSection
    <2>2. todo' = [todo EXCEPT ![current] = c]
      BY <1>6, <1>7, <2>1
    <2>. QED
      BY <1>1, <1>4, <1>6, <2>1, <2>2, TimeWorks
  <1>. QED
    BY <1>1, <1>5, <1>6

LEMMA TimeMpAlloc ==
  ASSUME ThreadInv, TimeInv, NEW n, IsTime(n), MpAlloc(n)
  PROVE  TimeInv'
  <1>1. UNCHANGED tick
    BY DEF MpAlloc
  <1>2. CASE UNCHANGED <<timers, spent, todo, left>>
    BY <1>1, <1>2, StayFewer, TimeStays
  <1>3. CASE WaitForBlock(n)
    BY <1>1, <1>3, TimeBegins DEF WaitForBlock
  <1>. QED
    BY <1>2, <1>3 DEF MpAlloc

LEMMA TimeMpWoken ==
  ASSUME ThreadInv, TimeInv, MpWoken
  PROVE  TimeInv'
  <1>. DEFINE n == Head(todo[current])[2]
              w == WaitLeft(n)
              e == <<"mp_again", w>>
              c == IF error[current] = "ok" THEN <<e>> ELSE <<>>
  <1>1. /\ UNCHANGED <<tick, timers>> /\ At("mp_woken")
        /\ spent' = [spent EXCEPT ![current] = 0] /\ left' = [left EXCEPT ![current] = 0]
        /\ todo' = [todo EXCEPT ![current] = c \o Tail(@)]
    BY DEF MpWoken, Then, Returns
  <1>2. "mp_woken" \in Looping /\ "mp_woken" \in EndNames
    BY DEF Looping, EndNames
  <1>3. IsTime(w)
    BY <1>1, <1>2, LookingFacts
  <1>4. c = <<e>> \/ c = <<>>
    OBVIOUS
  <1>5. \A sp, lf : CallOnTime(<<e>>, sp, lf)
    <2>1. e[1] = "mp_again" /\ e[2] = w /\ Len(<<e>>) = 1 /\ <<e>>[1] = e
      OBVIOUS
    <2>2. e[1] \notin Looping
      BY DEF Looping
    <2>. HIDE DEF e, w
    <2>. QED
      BY <1>3, <2>1, <2>2 DEF CallOnTime
  <1>. HIDE DEF c, e, w
  <1>6. stat[current] = "ready" /\ c \o Tail(todo[current]) = c \o <<>>
    BY <1>1, <1>2, LastSection
  <1>7. todo' = [todo EXCEPT ![current] = c]
    BY <1>1, <1>4, <1>6, RestFacts
  <1>8. Plain(c)
    BY <1>4, <1>5, PlainFacts DEF Plain
  <1>. QED
    BY <1>1, <1>6, <1>7, <1>8, StayFewer, TimePlain

LEMMA TimeMpAgain ==
  ASSUME ThreadInv, TimeInv, MpAgain
  PROVE  TimeInv'
  <1>. DEFINE n == Head(todo[current])[2]
  <1>1. UNCHANGED tick /\ At("mp_again")
    BY DEF MpAgain
  <1>2. IsTime(n)
    <2>. DEFINE e == todo[current][1]
    <2>1. /\ todo[current] = <<e>> /\ Head(todo[current]) = e /\ e[1] = "mp_again"
          /\ current \in Threads
      BY <1>1, LastSection DEF WorkNames
    <2>. HIDE DEF e
    <2>2. Len(<<e>>) = 1 /\ <<e>>[1] = e /\ <<e>> # <<>>
      OBVIOUS
    <2>3. CallOnTime(<<e>>, spent[current], left[current])
      BY <2>1 DEF TimeInv
    <2>. QED
      BY <2>1, <2>2, <2>3 DEF CallOnTime
  <1>3. CASE Then(<<>>) /\ UNCHANGED <<timers, spent, left>>
    BY <1>1, <1>3, TimeEnds DEF WorkNames
  <1>4. CASE WaitForBlock(n)
    <2>. HIDE DEF n
    <2>. QED
      BY <1>1, <1>2, <1>4, TimeBegins DEF WaitForBlock
  <1>. QED
    BY <1>3, <1>4 DEF MpAgain

LEMMA TimeMpFree ==
  ASSUME ThreadInv, TimeInv, MpFree
  PROVE  TimeInv'
  <1>1. UNCHANGED <<tick, spent, left>> /\ todo[current] = <<>> /\ \E b : CallerGoes(b)
    BY DEF MpFree, ipcVars
  <1>2. timers' = timers \/ \E R : timers' = Stopped(timers, R)
    BY DEF MpFree, ResumeNobody, ResumeFirst
  <1>3. Fewer /\ stat[current] = "ready"
    BY <1>1, <1>2, StayFewer, IdleFacts
  <1>. QED
    BY <1>1, <1>3, TimeCaller

LEMMA TimeMessages ==
  ASSUME ThreadInv, TimeInv, MsgInCall \/ MsgCall \/ MsgHandler
  PROVE  TimeInv'
  <1>0. \A n \in WaitTimes \cup {Forever} : IsTime(n)
    BY SpanFacts DEF ThreadInv, ListInv, CurrentRight
  <1>1. CASE MsgInCall
    <2>1. CASE EventEnd
      BY <2>1, TimeEnds DEF EventEnd, Returns, EndNames
    <2>2. CASE MqCopied
      BY <2>2, TimeEnds DEF MqCopied, WorkNames
    <2>. QED
      BY <1>1, <2>1, <2>2, TimeMqSend, TimeMqReceiveAgain, TimeMpWoken, TimeMpAgain
      DEF MsgInCall
  <1>2. CASE MsgCall
    <2>1. CASE \E s \in (SUBSET Bits) \ {{}} :
                 \/ EventSend(s)
                 \/ \E all, clear \in BOOLEAN, n \in WaitTimes \cup {Forever} :
                      EventRecv(s, all, clear, n)
      BY <1>0, <2>1, TimeSetBits, TimeEventRecv
    <2>2. CASE \E how \in Ways, x \in Msgs : MqSend(how, x)
      BY <2>2, TimeMqSend
    <2>3. CASE \E n \in WaitTimes \cup {Forever} : MqReceive(n) \/ MpAlloc(n)
      BY <1>0, <2>3, TimeMqReceive, TimeMpAlloc
    <2>. QED
      BY <1>2, <2>1, <2>2, <2>3, TimeMsgResets, TimeMpFree DEF MsgCall
  <1>3. CASE MsgHandler
    BY <1>3, TimeSetBits, TimeMqSend DEF MsgHandler
  <1>. QED
    BY <1>1, <1>2, <1>3
-----------------------------------------------------------------------------
LEMMA TimeInit ==
  MessagesInit => TimeInv
  <1>. SUFFICES ASSUME MessagesInit PROVE TimeInv
    OBVIOUS
  <1>1. /\ left = [t \in Threads |-> 0] /\ timers = <<>> /\ todo = [t \in Threads |-> <<>>]
    BY DEF MessagesInit, IpcInit, Init
  <1>2. Punctual(timers, tick, left)
    <2>1. Len(timers) = 0
      BY <1>1
    <2>. QED
      BY <2>1 DEF Punctual
  <1>3. \A t \in Threads : CallOnTime(todo[t], spent[t], left[t])
    BY <1>1 DEF CallOnTime
  <1>. QED
    BY <1>1, <1>2, <1>3, SpanFacts DEF TimeInv

LEMMA TimeStep ==
  ThreadInv /\ TimeInv /\ [Next]_allVars => TimeInv'
  <1>1. ASSUME ThreadInv, TimeInv, Next PROVE TimeInv'
    BY <1>1, TimeIpc, TimeMessages DEF Next
  <1>2. ASSUME ThreadInv, TimeInv, UNCHANGED allVars PROVE TimeInv'
    <2>1. UNCHANGED <<tick, todo, spent, left, timers>>
      BY <1>2 DEF allVars, ipcAndKernel, vars, schedVars, threadVars, ipcVars
    <2>. QED
      BY <1>2, <2>1, StayFewer, TimeStays
  <1>. QED
    BY <1>1, <1>2

LEMMA TimedFacts ==
  ThreadInv /\ TimeInv => TimersRight
  <1>. SUFFICES ASSUME ThreadInv, TimeInv PROVE TimersRight
    OBVIOUS
  <1>1. timers \in Seq(TimerSet) /\ \A t \in Timed(timers) : stat[t] = "suspend"
    BY DEF ThreadInv, KernelTypes, ListInv, TimedRight
  <1>2. /\ DOMAIN timers = 1 .. Len(timers) /\ Elems(timers) = {timers[i] : i \in 1 .. Len(timers)}
        /\ \A i \in 1 .. Len(timers) : timers[i].thread \in Timed(timers)
    BY <1>1, ListDomain, TimedDomain
  <1>3. TimersOnTime
    BY <1>2 DEF TimersOnTime, TimeInv, Punctual
  <1>4. TimersOfWaiting
    BY <1>1, <1>2 DEF TimersOfWaiting
  <1>. QED
    BY <1>3, <1>4 DEF TimersRight

\* A waiting thread times out exactly when it is due, and no other does: whatever the tick
\* count is when a timer starts, and although the count wraps, a running timer is due in as
\* many ticks as are left of the time its call asked for, also when the call waits a second
\* time, the list is sorted by that, and only the timers of waiting threads are in it
\* (rt_timer_start, rt_timer_check, rt_thread_sleep and the calls of ipc.c and mempool.c).
THEOREM TimersCorrect ==
  Spec /\ Unmanaged => []TimersRight
  <1>1. MessagesInit /\ Unmanaged => ThreadInv /\ TimeInv
    BY InvInit, TimeInit
  <1>2. ThreadInv /\ TimeInv /\ [Next]_allVars => (ThreadInv /\ TimeInv)'
    BY InvStep, TimeStep
  <1>3. ThreadInv /\ TimeInv => TimersRight
    BY TimedFacts
  <1>. QED
    BY <1>1, <1>2, <1>3, PTL DEF Spec
-----------------------------------------------------------------------------
\* Nested interrupts.

\* What executes or was interrupted, from the thread up.
Stack == Append(nest, running)
Saved == [mie : SUBSET Both, mepc : Sources \cup {Thread}, thr : 0 .. 7]

\* The invariant behind both properties: the threshold and the allowed interrupts are
\* those of what executes, once its handler has saved what was before; and the sources
\* claimed are those of the handlers on the stack, but for one that was completed.
Settled == phase # "entered" => threshold = ThresholdOf(running) /\ mie = AllowedIn(running)
ClaimedRight ==
  /\ pending \cap claimed = {}
  /\ \A k \in 2 .. Len(Stack) :
       Stack[k] \in Sources /\ (Stack[k] \in claimed \/ (phase = "completed" /\ k = Len(Stack)))
  /\ \A s \in claimed : /\ \E k \in 2 .. Len(Stack) : Stack[k] = s
                        /\ phase = "completed" => s # running
PlicInv ==
  /\ PlicTypeOK /\ saved \in [Sources -> Saved]
  /\ phase # "open" => ~enabled /\ running # Thread
  /\ Settled /\ ClaimedRight /\ BackInOrder

\* The tables: a handler sets the threshold to its own priority, but for the first, which
\* leaves it at 0.
LEMMA Tables ==
  ASSUME NEW s \in Sources
  PROVE  /\ Priority[s] \in 1 .. 7 /\ OwnThreshold[s] \in 0 .. 7
         /\ s # 1 => OwnThreshold[s] = Priority[s]
         /\ s \in {1, 2} => Priority[s] = 1
         /\ s \notin {1, 2} => Priority[s] > 1
  <1>1. s \in {1, 2, 3, 4, 5, 6, 7, 8, 9}
    BY DEF Sources
  <1>. QED
    BY <1>1 DEF Priority, OwnThreshold

\* Who may run on top of whom.
Outranks(h, g) == Priority[g] < Priority[h] \/ <<g, h>> = <<1, 2>>

LEMMA OutranksFacts ==
  ASSUME NEW g \in Sources, NEW h \in Sources
  PROVE  /\ Outranks(h, g) => g # h
         /\ \A s \in Sources : Outranks(h, g) /\ Outranks(s, h) => Outranks(s, g)
         /\ Priority[h] > OwnThreshold[g] /\ h # g => Outranks(h, g)
  <1>1. Outranks(h, g) => g # h
    BY Tables DEF Outranks
  <1>2. ASSUME NEW s \in Sources, Outranks(h, g), Outranks(s, h)
        PROVE  Outranks(s, g)
    <2>1. /\ Priority[g] \in Nat /\ Priority[h] \in Nat /\ Priority[s] \in Nat
      BY Tables
    <2>2. CASE <<g, h>> = <<1, 2>>
      <3>1. h = 2 /\ g = 1 /\ Priority[g] = Priority[h]
        BY <2>2, Tables
      <3>2. Priority[h] < Priority[s]
        BY <1>2, <3>1 DEF Outranks
      <3>. QED
        BY <3>1, <3>2 DEF Outranks
    <2>3. CASE <<h, s>> = <<1, 2>>
      <3>1. h = 1 /\ Priority[h] = 1 /\ Priority[g] \in 1 .. 7
        BY <2>3, Tables
      <3>2. ~Outranks(h, g)
        BY <3>1 DEF Outranks
      <3>. QED
        BY <1>2, <3>2
    <2>4. CASE Priority[g] < Priority[h] /\ Priority[h] < Priority[s]
      BY <2>1, <2>4 DEF Outranks
    <2>. QED
      BY <1>2, <2>2, <2>3, <2>4 DEF Outranks
  <1>3. ASSUME Priority[h] > OwnThreshold[g], h # g
        PROVE  Outranks(h, g)
    <2>1. CASE g = 1
      <3>1. Priority[g] = 1 /\ (h # 2 => Priority[h] > 1)
        BY <1>3, <2>1, Tables
      <3>. QED
        BY <2>1, <3>1 DEF Outranks
    <2>2. CASE g # 1
      <3>1. OwnThreshold[g] = Priority[g] /\ Priority[g] \in Nat /\ Priority[h] \in Nat
        BY <2>2, Tables
      <3>. QED
        BY <1>3, <3>1 DEF Outranks
    <2>. QED
      BY <2>1, <2>2
  <1>. QED
    BY <1>1, <1>2, <1>3

\* The stack as a sequence.
LEMMA StackFacts ==
  ASSUME PlicTypeOK
  PROVE  /\ nest \in Seq(Sources \cup {Thread}) /\ Len(nest) \in Nat
         /\ Stack \in Seq(Sources \cup {Thread}) /\ Len(Stack) = Len(nest) + 1
         /\ Stack[Len(Stack)] = running
         /\ \A k \in 1 .. Len(nest) : Stack[k] = nest[k]
         /\ \A k \in 1 .. Len(Stack) : Stack[k] \in Sources \cup {Thread}
  <1>1. nest \in Seq(Sources \cup {Thread}) /\ running \in Sources \cup {Thread}
    BY DEF PlicTypeOK
  <1>2. Stack \in Seq(Sources \cup {Thread}) /\ Len(Stack) = Len(nest) + 1 /\ Len(nest) \in Nat
    BY <1>1 DEF Stack
  <1>3. Stack[Len(Stack)] = running /\ \A k \in 1 .. Len(nest) : Stack[k] = nest[k]
    BY <1>1, <1>2 DEF Stack
  <1>. QED
    BY <1>1, <1>2, <1>3

\* What BackInOrder says of the k-th on the stack.
RightAt(stack, k) ==
  /\ \A j \in 2 .. k - 1 : Outranks(stack[k], stack[j])
  /\ IF stack[k] = running /\ phase = "entered"
     THEN /\ mepc = stack[k - 1] /\ threshold = ThresholdOf(stack[k - 1])
          /\ mie = AllowedIn(stack[k - 1])
     ELSE saved[stack[k]] = [mie |-> AllowedIn(stack[k - 1]), mepc |-> stack[k - 1],
                             thr |-> ThresholdOf(stack[k - 1])]

LEMMA OrderAt ==
  BackInOrder <=> Stack[1] = Thread /\ \A k \in 2 .. Len(Stack) : RightAt(Stack, k)
  BY DEF BackInOrder, RightAt, Outranks, Stack

LEMMA OrderAtNext ==
  BackInOrder' <=> Stack'[1] = Thread /\ \A k \in 2 .. Len(Stack') : RightAt(Stack, k)'
  BY DEF BackInOrder, RightAt, Outranks, Stack

\* Only the top of the stack runs, and it is a thread only when the stack is no higher.
LEMMA TopFacts ==
  ASSUME PlicInv
  PROVE  /\ \A k \in 2 .. Len(Stack) : Stack[k] \in Sources
         /\ \A k \in 2 .. Len(Stack) : k # Len(Stack) => Stack[k] # running
         /\ running = Thread <=> Len(Stack) = 1
  <1>1. \A k \in 2 .. Len(Stack) : Stack[k] \in Sources
    BY DEF PlicInv, ClaimedRight
  <1>2. /\ Len(Stack) \in Nat /\ Len(Stack) >= 1 /\ Stack[Len(Stack)] = running
    BY StackFacts DEF PlicInv
  <1>3. \A k \in 2 .. Len(Stack) : k # Len(Stack) => Stack[k] # running
    <2>. SUFFICES ASSUME NEW k \in 2 .. Len(Stack), k # Len(Stack) PROVE Stack[k] # running
      OBVIOUS
    <2>1. Len(Stack) \in 2 .. Len(Stack) /\ k \in 2 .. Len(Stack) - 1
      BY <1>2
    <2>2. Outranks(running, Stack[k])
      BY <1>2, <2>1, OrderAt DEF PlicInv, RightAt
    <2>. QED
      BY <1>1, <1>2, <2>1, <2>2, OutranksFacts
  <1>4. running = Thread <=> Len(Stack) = 1
    <2>1. Stack[1] = Thread
      BY OrderAt DEF PlicInv
    <2>2. ASSUME Len(Stack) # 1 PROVE running # Thread
      <3>1. Len(Stack) \in 2 .. Len(Stack)
        BY SMTT(30), <1>2, <2>2
      <3>2. running \in Sources
        BY <1>1, <1>2, <3>1
      <3>. QED
        BY <3>2 DEF Sources, Thread
    <2>. QED
      BY <1>2, <2>1, <2>2
  <1>. QED
    BY <1>1, <1>3, <1>4

LEMMA ContextTypes ==
  ASSUME NEW c \in Sources \cup {Thread}
  PROVE  ThresholdOf(c) \in 0 .. 7 /\ AllowedIn(c) \subseteq Both
  <1>1. CASE c = Thread
    BY <1>1 DEF ThresholdOf, AllowedIn
  <1>2. CASE c \in Sources /\ c # Thread
    BY <1>2, Tables DEF ThresholdOf, AllowedIn, Both
  <1>. QED
    BY <1>1, <1>2

LEMMA PlicInvInit == PlicInit => PlicInv
  <1>. SUFFICES ASSUME PlicInit PROVE PlicInv
    OBVIOUS
  <1>1. nest \in Seq(Sources \cup {Thread}) /\ Len(nest) = 0 /\ running = Thread
    BY DEF PlicInit
  <1>2. saved \in [Sources -> Saved]
    BY DEF PlicInit, Saved
  <1>3. PlicTypeOK
    <2>1. \A s \in Sources : saved[s].mie \subseteq Both /\ saved[s].thr \in 0 .. 7
      BY DEF PlicInit
    <2>. QED
      BY <1>1, <2>1 DEF PlicInit, PlicTypeOK
  <1>4. Len(Stack) = 1 /\ Stack[1] = Thread
    <2>1. Len(Stack) = Len(nest) + 1 /\ Stack[Len(Stack)] = running
      BY <1>3, StackFacts
    <2>2. Len(Stack) = 1
      BY <1>1, <2>1
    <2>. QED
      BY <1>1, <2>1, <2>2
  <1>5. Settled /\ ClaimedRight
    BY <1>4 DEF PlicInit, Settled, ClaimedRight, ThresholdOf, AllowedIn
  <1>6. BackInOrder
    BY <1>4, OrderAt
  <1>. QED
    BY <1>2, <1>3, <1>5, <1>6 DEF PlicInv, PlicInit

\* Steps that leave the stack alone, and what was saved for it.
LEMMA SameStackKeeps ==
  ASSUME PlicInv, UNCHANGED <<nest, running, saved>>,
         UNCHANGED <<mepc, threshold, mie, phase>>
  PROVE  BackInOrder' /\ Settled'
  <1>1. Stack' = Stack /\ \A k : RightAt(Stack, k)' <=> RightAt(Stack, k)
    BY DEF Stack, RightAt
  <1>2. BackInOrder'
    BY <1>1, OrderAt, OrderAtNext DEF PlicInv
  <1>. QED
    BY <1>2 DEF PlicInv, Settled

LEMMA RaiseKeeps ==
  ASSUME PlicInv, NEW s \in Sources, Raise(s)
  PROVE  PlicInv'
  <1>1. /\ s \notin claimed /\ pending' = pending \cup {s}
        /\ UNCHANGED <<claimed, threshold, mie, enabled, mepc, saved, running, phase, nest>>
    BY DEF Raise
  <1>2. BackInOrder' /\ Settled'
    BY <1>1, SameStackKeeps
  <1>3. Stack' = Stack
    BY <1>1 DEF Stack
  <1>4. ClaimedRight'
    BY <1>1, <1>3 DEF PlicInv, ClaimedRight
  <1>5. PlicTypeOK'
    BY <1>1 DEF PlicInv, PlicTypeOK
  <1>. QED
    BY <1>1, <1>2, <1>4, <1>5 DEF PlicInv

LEMMA MaskKeeps ==
  ASSUME PlicInv, Mask
  PROVE  PlicInv'
  <1>1. /\ running = Thread /\ enabled' \in BOOLEAN /\ phase = "open"
        /\ UNCHANGED <<pending, claimed, threshold, mie, mepc, saved, running, phase, nest>>
    BY DEF Mask, PlicInv, PlicTypeOK
  <1>2. BackInOrder' /\ Settled'
    BY <1>1, SameStackKeeps
  <1>3. Stack' = Stack
    BY <1>1 DEF Stack
  <1>4. ClaimedRight'
    BY <1>1, <1>3 DEF PlicInv, ClaimedRight
  <1>5. PlicTypeOK'
    BY <1>1 DEF PlicInv, PlicTypeOK
  <1>. QED
    BY <1>1, <1>2, <1>4, <1>5 DEF PlicInv

LEMMA EnterKeeps ==
  ASSUME PlicInv, NEW s \in Sources, Enter(s)
  PROVE  PlicInv'
  <1>1. /\ enabled /\ s \in pending /\ Priority[s] > threshold
        /\ pending' = pending \ {s} /\ claimed' = claimed \cup {s}
        /\ enabled' = FALSE /\ mepc' = running /\ running' = s /\ phase' = "entered"
        /\ nest' = Append(nest, running) /\ UNCHANGED <<threshold, mie, saved>>
    BY DEF Enter
  <1>2. /\ phase = "open" /\ threshold = ThresholdOf(running) /\ mie = AllowedIn(running)
    BY <1>1 DEF PlicInv, Settled
  <1>3. /\ nest' = Stack /\ Stack \in Seq(Sources \cup {Thread}) /\ s # Thread
        /\ Len(Stack) \in Nat /\ Len(Stack) >= 1 /\ Stack[Len(Stack)] = running
    BY <1>1, StackFacts DEF PlicInv, Stack, Sources, Thread
  <1>4. PlicTypeOK'
    BY <1>1, <1>3 DEF PlicInv, PlicTypeOK
  <1>5. /\ Len(Stack') = Len(Stack) + 1 /\ Stack'[Len(Stack')] = s
        /\ \A k \in 1 .. Len(Stack) : Stack'[k] = Stack[k]
    <2>1. Stack' = Append(Stack, s)
      BY <1>1, <1>3 DEF Stack
    <2>. HIDE DEF Stack
    <2>. QED
      BY <1>3, <2>1
  <1>6. \A k \in 2 .. Len(Stack) : Stack[k] \in Sources /\ Stack[k] \in claimed /\ Stack[k] # s
    BY <1>1, <1>2 DEF PlicInv, ClaimedRight
  <1>7. ClaimedRight'
    <2>1. pending' \cap claimed' = {}
      BY <1>1 DEF PlicInv, ClaimedRight
    <2>2. \A k \in 2 .. Len(Stack') : Stack'[k] \in Sources /\ Stack'[k] \in claimed'
      <3>. SUFFICES ASSUME NEW k \in 2 .. Len(Stack')
                    PROVE  Stack'[k] \in Sources /\ Stack'[k] \in claimed'
        OBVIOUS
      <3>1. k = Len(Stack') \/ k \in 2 .. Len(Stack)
        BY <1>3, <1>5
      <3>2. k \in 2 .. Len(Stack) => k \in 1 .. Len(Stack)
        BY <1>3
      <3>. QED
        BY <1>1, <1>5, <1>6, <3>1, <3>2
    <2>3. \A r \in claimed' : \E k \in 2 .. Len(Stack') : Stack'[k] = r
      <3>. SUFFICES ASSUME NEW r \in claimed' PROVE \E k \in 2 .. Len(Stack') : Stack'[k] = r
        OBVIOUS
      <3>1. CASE r = s
        <4>1. Len(Stack') \in 2 .. Len(Stack')
          BY <1>3, <1>5
        <4>. QED
          BY <1>5, <3>1, <4>1
      <3>2. CASE r # s
        <4>1. PICK k \in 2 .. Len(Stack) : Stack[k] = r
          BY <1>1, <3>2 DEF PlicInv, ClaimedRight
        <4>2. k \in 2 .. Len(Stack') /\ k \in 1 .. Len(Stack)
          BY <1>3, <1>5
        <4>. QED
          BY <1>5, <4>1, <4>2
      <3>. QED
        BY <3>1, <3>2
    <2>. QED
      BY <1>1, <2>1, <2>2, <2>3 DEF ClaimedRight
  <1>8. BackInOrder'
    <2>1. Stack'[1] = Thread
      BY <1>3, <1>5, OrderAt DEF PlicInv
    <2>2. ASSUME NEW k \in 2 .. Len(Stack)
          PROVE  RightAt(Stack, k)'
      <3>1. RightAt(Stack, k) /\ k \in 1 .. Len(Stack) /\ k - 1 \in 1 .. Len(Stack)
        BY <1>3, OrderAt DEF PlicInv
      <3>2. \A j \in 2 .. k - 1 : j \in 1 .. Len(Stack)
        BY <1>3
      <3>3. Stack'[k] = Stack[k] /\ Stack'[k - 1] = Stack[k - 1] /\ Stack[k] # s
        BY <1>5, <1>6, <3>1
      <3>4. \A j \in 2 .. k - 1 : Outranks(Stack'[k], Stack'[j])
        BY <1>5, <3>1, <3>2, <3>3 DEF RightAt
      <3>5. saved[Stack[k]] = [mie |-> AllowedIn(Stack[k - 1]), mepc |-> Stack[k - 1],
                               thr |-> ThresholdOf(Stack[k - 1])]
        BY <1>2, <3>1 DEF RightAt
      <3>6. saved' = saved /\ running' = s
        BY <1>1
      <3>. QED
        BY <3>3, <3>4, <3>5, <3>6 DEF RightAt
    <2>3. ASSUME NEW k \in 2 .. Len(Stack'), k = Len(Stack')
          PROVE  RightAt(Stack, k)'
      <3>1. Len(Stack') - 1 = Len(Stack) /\ Stack'[Len(Stack') - 1] = running
        BY <1>3, <1>5
      <3>2. ASSUME NEW j \in 2 .. Len(Stack)
            PROVE  Outranks(s, Stack'[j])
        <4>1. /\ Stack'[j] = Stack[j] /\ Stack[j] \in Sources
              /\ Len(Stack) \in 2 .. Len(Stack) /\ running \in Sources /\ running # s
          BY <1>3, <1>5, <1>6
        <4>2. running # Thread
          BY <4>1 DEF Sources, Thread
        <4>3. Outranks(s, running)
          BY <1>1, <1>2, <4>1, <4>2, OutranksFacts DEF ThresholdOf
        <4>4. j = Len(Stack) \/ Outranks(running, Stack[j])
          <5>1. RightAt(Stack, Len(Stack))
            BY <4>1, OrderAt DEF PlicInv
          <5>2. j = Len(Stack) \/ j \in 2 .. Len(Stack) - 1
            BY <1>3
          <5>. QED
            BY <1>3, <5>1, <5>2 DEF RightAt
        <4>. QED
          BY <1>3, <4>1, <4>3, <4>4, OutranksFacts
      <3>. QED
        BY <1>1, <1>2, <1>5, <2>3, <3>1, <3>2 DEF RightAt
    <2>4. \A k \in 2 .. Len(Stack') : k \in 2 .. Len(Stack) \/ k = Len(Stack')
      BY <1>3, <1>5
    <2>. QED
      BY <2>1, <2>2, <2>3, <2>4, OrderAtNext
  <1>. QED
    BY <1>1, <1>3, <1>4, <1>7, <1>8 DEF PlicInv, Settled

LEMMA OpenKeeps ==
  ASSUME PlicInv, Open
  PROVE  PlicInv'
  <1>1. /\ phase = "entered" /\ threshold' = OwnThreshold[running] /\ mie' = {"external"}
        /\ saved' = [saved EXCEPT ![running] = [mie |-> mie, mepc |-> mepc, thr |-> threshold]]
        /\ enabled' = TRUE /\ phase' = "open"
        /\ UNCHANGED <<pending, claimed, mepc, running, nest>>
    BY DEF Open, SaveAll
  <1>2. /\ running \in Sources /\ running # Thread /\ Stack' = Stack
        /\ Len(Stack) \in 2 .. Len(Stack) /\ Stack[Len(Stack)] = running
    <2>1. running \in Sources /\ running # Thread
      BY <1>1 DEF PlicInv, PlicTypeOK
    <2>2. Len(Stack) \in Nat /\ Len(Stack) >= 1 /\ Len(Stack) # 1 /\ Stack[Len(Stack)] = running
      BY <2>1, StackFacts, TopFacts DEF PlicInv
    <2>3. Stack' = Stack
      BY <1>1 DEF Stack
    <2>. QED
      BY <2>1, <2>2, <2>3
  <1>3. /\ [mie |-> mie, mepc |-> mepc, thr |-> threshold] \in Saved
        /\ OwnThreshold[running] \in 0 .. 7 /\ {"external"} \subseteq Both
    BY <1>2, Tables DEF PlicInv, PlicTypeOK, Saved, Both
  <1>4. saved' \in [Sources -> Saved]
    BY <1>1, <1>3 DEF PlicInv
  <1>5. PlicTypeOK'
    <2>1. \A s \in Sources : saved'[s].mie \subseteq Both /\ saved'[s].thr \in 0 .. 7
      BY <1>4 DEF Saved
    <2>. QED
      BY <1>1, <1>3, <2>1 DEF PlicInv, PlicTypeOK
  <1>6. Settled'
    BY <1>1, <1>2 DEF Settled, ThresholdOf, AllowedIn
  <1>7. ClaimedRight'
    BY <1>1, <1>2 DEF PlicInv, ClaimedRight
  <1>8. BackInOrder'
    <2>1. ASSUME NEW k \in 2 .. Len(Stack)
          PROVE  RightAt(Stack, k)'
      <3>1. RightAt(Stack, k) /\ Stack[k] \in Sources
        BY OrderAt, TopFacts DEF PlicInv
      <3>2. CASE k = Len(Stack)
        <4>1. /\ Stack[k] = running /\ mepc = Stack[k - 1]
              /\ threshold = ThresholdOf(Stack[k - 1]) /\ mie = AllowedIn(Stack[k - 1])
          BY <1>1, <1>2, <3>1, <3>2 DEF RightAt
        <4>2. saved'[running] = [mie |-> mie, mepc |-> mepc, thr |-> threshold]
          BY <1>1, <1>2 DEF PlicInv
        <4>. QED
          BY <1>1, <1>2, <3>1, <4>1, <4>2 DEF RightAt
      <3>3. CASE k # Len(Stack)
        <4>1. Stack[k] # running
          BY <3>3, TopFacts
        <4>2. saved'[Stack[k]] = saved[Stack[k]]
          BY <1>1, <3>1, <4>1 DEF PlicInv
        <4>. QED
          BY <1>1, <1>2, <3>1, <4>1, <4>2 DEF RightAt
      <3>. QED
        BY <3>2, <3>3
    <2>. QED
      BY <1>2, <2>1, OrderAt, OrderAtNext DEF PlicInv
  <1>. QED
    BY <1>1, <1>4, <1>5, <1>6, <1>7, <1>8 DEF PlicInv

LEMMA CompleteKeeps ==
  ASSUME PlicInv, Complete
  PROVE  PlicInv'
  <1>1. /\ phase = "open" /\ running # Thread
        /\ enabled' = FALSE /\ claimed' = claimed \ {running} /\ phase' = "completed"
        /\ UNCHANGED <<pending, threshold, mie, mepc, saved, running, nest>>
    BY DEF Complete
  <1>2. Stack' = Stack /\ Stack[Len(Stack)] = running
    BY <1>1, StackFacts DEF PlicInv, Stack
  <1>3. PlicTypeOK' /\ Settled'
    BY <1>1 DEF PlicInv, PlicTypeOK, Settled
  <1>4. ClaimedRight'
    <2>1. \A k \in 2 .. Len(Stack) : k # Len(Stack) => Stack[k] # running
      BY TopFacts
    <2>. QED
      BY <1>1, <1>2, <2>1 DEF PlicInv, ClaimedRight
  <1>5. BackInOrder'
    <2>1. \A k : RightAt(Stack, k)' <=> RightAt(Stack, k)
      BY <1>1, <1>2 DEF RightAt
    <2>. QED
      BY <1>2, <2>1, OrderAt, OrderAtNext DEF PlicInv
  <1>. QED
    BY <1>1, <1>3, <1>4, <1>5 DEF PlicInv

LEMMA ReturnKeeps ==
  ASSUME PlicInv, Return
  PROVE  PlicInv'
  <1>. DEFINE c == nest[Len(nest)]
  <1>1. /\ phase = "completed" /\ threshold' = saved[running].thr
        /\ mie' = saved[running].mie /\ mepc' = saved[running].mepc
        /\ running' = mepc' /\ enabled' = TRUE /\ phase' = "open"
        /\ nest' = SubSeq(nest, 1, Len(nest) - 1)
        /\ UNCHANGED <<pending, claimed, saved>>
    BY DEF Return, RestoreThreshold
  <1>2. running \in Sources /\ running # Thread
    BY <1>1 DEF PlicInv, PlicTypeOK
  <1>3. /\ nest \in Seq(Sources \cup {Thread}) /\ Len(nest) \in Nat /\ Len(nest) >= 1
        /\ Len(Stack) = Len(nest) + 1 /\ Stack[Len(Stack)] = running
        /\ \A k \in 1 .. Len(nest) : Stack[k] = nest[k]
    BY <1>2, StackFacts, TopFacts DEF PlicInv
  <1>4. /\ c \in Sources \cup {Thread} /\ Stack[Len(Stack) - 1] = c
        /\ Len(Stack) \in 2 .. Len(Stack)
    BY <1>3
  <1>. HIDE DEF c
  <1>5. saved[running] = [mie |-> AllowedIn(c), mepc |-> c, thr |-> ThresholdOf(c)]
    <2>1. RightAt(Stack, Len(Stack))
      BY <1>4, OrderAt DEF PlicInv
    <2>. QED
      BY <1>1, <1>3, <1>4, <2>1 DEF RightAt
  <1>6. threshold' = ThresholdOf(c) /\ mie' = AllowedIn(c) /\ mepc' = c /\ running' = c
    BY <1>1, <1>5
  <1>7. /\ nest' \in Seq(Sources \cup {Thread}) /\ Len(nest') = Len(nest) - 1
        /\ \A k \in 1 .. Len(nest) - 1 : nest'[k] = nest[k]
    <2>. DEFINE n == Len(nest) - 1
    <2>1. n \in Nat /\ \A i \in 1 .. n : nest[i] \in Sources \cup {Thread}
      BY <1>3
    <2>2. 1 \in Int /\ n \in Int /\ nest' = SubSeq(nest, 1, n)
      BY <1>1, <2>1
    <2>. HIDE DEF n
    <2>3. /\ SubSeq(nest, 1, n) \in Seq(Sources \cup {Thread})
          /\ Len(SubSeq(nest, 1, n)) = IF 1 <= n THEN n - 1 + 1 ELSE 0
          /\ \A i \in 1 .. n - 1 + 1 : SubSeq(nest, 1, n)[i] = nest[1 + i - 1]
      BY <2>1, <2>2, SubSeqProperties
    <2>4. Len(SubSeq(nest, 1, n)) = n /\ \A k \in 1 .. n : SubSeq(nest, 1, n)[k] = nest[k]
      BY <2>1, <2>3
    <2>. QED
      BY <2>2, <2>3, <2>4 DEF n
  <1>8. PlicTypeOK'
    <2>1. threshold' \in 0 .. 7 /\ mie' \subseteq Both
      BY <1>4, <1>6, ContextTypes
    <2>. QED
      BY <1>1, <1>4, <1>6, <1>7, <2>1 DEF PlicInv, PlicTypeOK
  <1>9. Len(Stack') = Len(nest) /\ \A k \in 1 .. Len(nest) : Stack'[k] = Stack[k]
    <2>1. Stack' = Append(nest', running')
      BY DEF Stack
    <2>2. Len(Stack') = Len(nest) /\ Stack'[Len(nest)] = running'
      BY <1>3, <1>7, <2>1
    <2>3. \A k \in 1 .. Len(nest) - 1 : Stack'[k] = nest'[k]
      BY <1>3, <1>7, <2>1
    <2>. QED
      BY <1>3, <1>4, <1>6, <1>7, <2>2, <2>3
  <1>10. \A k \in 2 .. Len(nest) : /\ k \in 1 .. Len(nest) /\ k - 1 \in 1 .. Len(nest)
                                  /\ k \in 2 .. Len(Stack) /\ k # Len(Stack)
    BY <1>3
  <1>11. ClaimedRight'
    <2>1. \A k \in 2 .. Len(Stack') : Stack'[k] \in Sources /\ Stack'[k] \in claimed
      BY <1>9, <1>10 DEF PlicInv, ClaimedRight
    <2>2. \A r \in claimed : \E k \in 2 .. Len(Stack') : Stack'[k] = r
      <3>. SUFFICES ASSUME NEW r \in claimed PROVE \E k \in 2 .. Len(Stack') : Stack'[k] = r
        OBVIOUS
      <3>1. PICK k \in 2 .. Len(Stack) : Stack[k] = r
        BY DEF PlicInv, ClaimedRight
      <3>2. r # running
        BY <1>1 DEF PlicInv, ClaimedRight
      <3>3. k \in 2 .. Len(nest)
        BY <1>3, <3>1, <3>2
      <3>. QED
        BY <1>9, <1>10, <3>1, <3>3
    <2>. QED
      BY <1>1, <2>1, <2>2 DEF PlicInv, ClaimedRight
  <1>12. BackInOrder'
    <2>1. Stack'[1] = Thread
      BY <1>3, <1>9, OrderAt DEF PlicInv
    <2>2. ASSUME NEW k \in 2 .. Len(Stack')
          PROVE  RightAt(Stack, k)'
      <3>1. k \in 2 .. Len(nest)
        BY <1>9
      <3>2. RightAt(Stack, k) /\ Stack[k] # running
        BY <1>10, <3>1, OrderAt, TopFacts DEF PlicInv
      <3>3. Stack'[k] = Stack[k] /\ Stack'[k - 1] = Stack[k - 1]
        BY <1>9, <1>10, <3>1
      <3>4. \A j \in 2 .. k - 1 : j \in 1 .. Len(nest)
        BY <1>3, <3>1
      <3>5. \A j \in 2 .. k - 1 : Outranks(Stack'[k], Stack'[j])
        BY <1>9, <3>2, <3>3, <3>4 DEF RightAt
      <3>. QED
        BY <1>1, <3>2, <3>3, <3>5 DEF RightAt
    <2>. QED
      BY <2>1, <2>2, OrderAtNext
  <1>. QED
    BY <1>1, <1>6, <1>8, <1>11, <1>12 DEF PlicInv, Settled

LEMMA PlicInvStep ==
  ASSUME PlicInv, [PlicNext]_plicVars
  PROVE  PlicInv'
  <1>1. CASE UNCHANGED plicVars
    <2>1. /\ UNCHANGED <<nest, running, saved>> /\ UNCHANGED <<mepc, threshold, mie, phase>>
          /\ UNCHANGED <<pending, claimed, enabled>> /\ Stack' = Stack
      BY <1>1 DEF plicVars, Stack
    <2>2. BackInOrder' /\ Settled'
      BY <2>1, SameStackKeeps
    <2>3. ClaimedRight' /\ PlicTypeOK'
      BY <2>1 DEF PlicInv, ClaimedRight, PlicTypeOK
    <2>. QED
      BY <2>1, <2>2, <2>3 DEF PlicInv
  <1>2. CASE PlicNext
    BY <1>2, RaiseKeeps, EnterKeeps, OpenKeeps, CompleteKeeps, ReturnKeeps, MaskKeeps
    DEF PlicNext
  <1>. QED
    BY <1>1, <1>2

\* When no handler runs all is as it was; when one runs no thread switch can come.
LEMMA PlicInvUndisturbed ==
  ASSUME PlicInv
  PROVE  ThreadsUndisturbed
  <1>1. ASSUME enabled, "kernel" \in mie
        PROVE  running = Thread
    BY <1>1 DEF PlicInv, Settled, AllowedIn
  <1>2. ASSUME running = Thread
        PROVE  threshold = 0 /\ mie = Both /\ claimed = {}
    <2>1. phase = "open" /\ Len(Stack) = 1
      BY <1>2, TopFacts DEF PlicInv
    <2>. QED
      BY <1>2, <2>1 DEF PlicInv, Settled, ClaimedRight, ThresholdOf, AllowedIn
  <1>. QED
    BY <1>1, <1>2 DEF ThreadsUndisturbed

\* Handlers that nest, each with globals of its own for what it has to restore, go back
\* to what they interrupted, with the threshold and the interrupts that were allowed
\* there, however deep they nest; none is interrupted by itself; and no thread switch
\* comes under one (main_multy_task.h plic_irq_vec_handler_1 to _9).
THEOREM InterruptsCorrect == PlicSpec => []InterruptsNest
  <1>1. PlicInit => PlicInv
    BY PlicInvInit
  <1>2. PlicInv /\ [PlicNext]_plicVars => PlicInv'
    BY PlicInvStep
  <1>3. PlicInv => InterruptsNest
    BY PlicInvUndisturbed DEF PlicInv, InterruptsNest
  <1>. QED
    BY <1>1, <1>2, <1>3, PTL DEF PlicSpec

\* The controller, the hart and the handlers' globals keep their values.
THEOREM PlicTypesCorrect == PlicSpec => []PlicTypeOK
  <1>1. PlicInit => PlicInv
    BY PlicInvInit
  <1>2. PlicInv /\ [PlicNext]_plicVars => PlicInv'
    BY PlicInvStep
  <1>3. PlicInv => PlicTypeOK
    BY DEF PlicInv
  <1>. QED
    BY <1>1, <1>2, <1>3, PTL DEF PlicSpec
-----------------------------------------------------------------------------
\* Mutexes: priorities are inherited while a mutex is held, and only then.

ByPrio(w) == \A i, j \in 1 .. Len(w) : i < j => Prio[w[i]] <= Prio[w[j]]
PrioInv ==
  /\ OriginalPriority
  /\ \A m \in Mutexes : owner[m] # NoThread =>
       /\ original[m] = Prio[owner[m]]
       /\ \A k \in Mutexes : owner[k] = owner[m] => k = m
  /\ \A m \in Mutexes : \A t \in Elems(waitList[m]) : Owns(t) = {} /\ owner[m] # NoThread
  /\ \A m \in Mutexes \ FifoLists :
       ByPrio(waitList[m]) /\ \A t \in Elems(waitList[m]) : priority[owner[m]] <= Prio[t]
InheritInv == ~Nested => PrioInv

\* Most steps take threads out of the lists of mutexes at most.
FewerWait ==
  \/ UNCHANGED waitList
  \/ \E S : waitList' = [l \in Lists |-> Without(waitList[l], S)]
  \/ \E l \in Lists \ Mutexes : \E w : waitList' = [waitList EXCEPT ![l] = w]
  \/ \E ls : waitList' = [l \in Lists |-> IF l \in Elems(ls) THEN <<>> ELSE waitList[l]]
StandsBy == FewerWait /\ UNCHANGED <<does, priority, owner, original>>

LEMMA SublistByPrio ==
  ASSUME NEW s, NEW w, Sublist(s, w), ByPrio(w)
  PROVE  ByPrio(s)
  BY DEF Sublist, ByPrio

LEMMA MutexLists ==
  ASSUME ThreadInv, NEW m \in Mutexes
  PROVE  /\ m \in Lists /\ waitList[m] \in Seq(Threads) /\ NoneTwice(waitList[m])
         /\ Elems(waitList[m]) \subseteq Threads
         /\ \A k \in Mutexes \ {m} : Elems(waitList[m]) \cap Elems(waitList[k]) = {}
         /\ waitList = [l \in Lists |-> waitList[l]]
  <1>1. m \in Lists /\ Mutexes \subseteq Lists
    BY IpcAssumption
  <1>2. waitList \in [Lists -> Seq(Threads)]
    BY DEF ThreadInv, KernelTypes
  <1>. QED
    BY <1>1, <1>2, OneList DEF Waiters, ThreadInv

LEMMA FewerMembers ==
  ASSUME ThreadInv, FewerWait, NEW m \in Mutexes
  PROVE  /\ Elems(waitList'[m]) \subseteq Elems(waitList[m])
         /\ ByPrio(waitList[m]) => ByPrio(waitList'[m])
  <1>1. m \in Lists /\ waitList[m] \in Seq(Threads) /\ waitList = [l \in Lists |-> waitList[l]]
    BY MutexLists
  <1>2. CASE waitList'[m] = waitList[m]
    BY <1>2
  <1>3. ASSUME NEW S, waitList'[m] = Without(waitList[m], S)
        PROVE  /\ Elems(waitList'[m]) \subseteq Elems(waitList[m])
               /\ ByPrio(waitList[m]) => ByPrio(waitList'[m])
    BY <1>1, <1>3, WithoutFacts, SublistByPrio
  <1>4. CASE waitList'[m] = <<>>
    BY <1>4 DEF Elems, ByPrio
  <1>. QED
    BY <1>1, <1>2, <1>3, <1>4 DEF FewerWait

LEMMA PrioStandsBy ==
  ASSUME ThreadInv, PrioInv, StandsBy
  PROVE  PrioInv'
  <1>1. UNCHANGED <<priority, owner, original>> /\ \A t : UNCHANGED Owns(t)
    BY DEF StandsBy, Owns
  <1>2. \A m \in Mutexes : /\ Elems(waitList'[m]) \subseteq Elems(waitList[m])
                           /\ ByPrio(waitList[m]) => ByPrio(waitList'[m])
    BY FewerMembers DEF StandsBy
  <1>3. OriginalPriority'
    BY <1>1 DEF PrioInv, OriginalPriority
  <1>4. \A m \in Mutexes : owner'[m] # NoThread =>
          /\ original'[m] = Prio[owner'[m]]
          /\ \A k \in Mutexes : owner'[k] = owner'[m] => k = m
    BY <1>1 DEF PrioInv
  <1>5. \A m \in Mutexes : \A t \in Elems(waitList'[m]) : Owns(t)' = {} /\ owner'[m] # NoThread
    BY <1>1, <1>2 DEF PrioInv
  <1>6. \A m \in Mutexes \ FifoLists :
          /\ ByPrio(waitList'[m])
          /\ \A t \in Elems(waitList'[m]) : priority'[owner'[m]] <= Prio[t]
    BY <1>1, <1>2 DEF PrioInv
  <1>7. \A m \in Mutexes : ByPrio(waitList[m])' <=> ByPrio(waitList'[m])
    BY DEF ByPrio
  <1>. QED
    BY <1>3, <1>4, <1>5, <1>6, <1>7 DEF PrioInv

LEMMA ListsMoved ==
  ASSUME NEW l \in Lists \ Mutexes
  PROVE  /\ ResumeOne(l) => FewerWait
         /\ \A r, p : ResumeFirst(l, r, p) => FewerWait
         /\ \A r : ResumeNobody(r) => FewerWait
         /\ \A w, n, r, next : SuspendIn(l, w, n, r, next) => FewerWait
         /\ \A n, r, next : SuspendOn(l, n, r, next) => FewerWait
         /\ \A ls : ResumeAll(ls) => FewerWait
  <1>1. \A r, p : ResumeFirst(l, r, p) => FewerWait
    BY DEF ResumeFirst, FewerWait
  <1>2. \A r : ResumeNobody(r) => FewerWait
    BY DEF ResumeNobody, FewerWait
  <1>3. \A w, n, r, next : SuspendIn(l, w, n, r, next) => FewerWait
    BY DEF SuspendIn, FewerWait
  <1>4. \A ls : ResumeAll(ls) => FewerWait
    BY DEF ResumeAll, FewerWait
  <1>. QED
    BY <1>1, <1>2, <1>3, <1>4 DEF ResumeOne, SuspendOn

LEMMA KernelStandsBy ==
  ASSUME Unmanaged, Section \/ Call, UNCHANGED mutexVars
  PROVE  StandsBy
  <1>1. CASE Section
    <2>1. \E S : UNCHANGED waitList \/ waitList' = [l \in Lists |-> Without(waitList[l], S)]
      BY <1>1 DEF Section, Schedule, Slept, SuspendNow, UnlinkNow, InsertNow, RemoveNow, StopNow,
         CloseNow, Unlinked
    <2>2. UNCHANGED <<does, priority>>
      BY <1>1 DEF Section, Schedule, Slept, SuspendNow, UnlinkNow, InsertNow, RemoveNow, StopNow,
         CloseNow, schedVars
    <2>. QED
      BY <2>1, <2>2 DEF StandsBy, FewerWait, mutexVars
  <1>2. CASE Call
    <2>1. ASSUME NEW u, NEW p, ChangePriority(u, p) PROVE FALSE
      BY <2>1 DEF ChangePriority, Calls, May, Unmanaged
    <2>2. UNCHANGED <<does, priority, waitList>>
      BY <1>2, <2>1 DEF Call, Yield, EnterCritical, ExitCritical, Exit, IdleCleanup, Sleep, Startup,
         Suspend, Resume, Detach, AboutThread, schedVars
    <2>. QED
      BY <2>2 DEF StandsBy, FewerWait, mutexVars
  <1>. QED
    BY <1>1, <1>2

LEMMA NoMutexList ==
  /\ Sems \subseteq Lists \ Mutexes
  /\ {Receivers, Senders, Event, Queue, Pool} \subseteq Lists \ Mutexes
  BY IpcAssumption, MessagesAssumption DEF Objects

LEMMA SemStandsBy ==
  ASSUME ThreadInv, NEW s \in Sems, NEW n,
         SemTake(s, n) \/ SemRelease(s) \/ SemReleaseISR(s) \/ SemReset(s, n)
  PROVE  StandsBy
  <1>1. s \in Lists \ Mutexes
    BY NoMutexList
  <1>2. UNCHANGED <<does, priority, owner, original>>
    BY DEF SemTake, SemRelease, SemReleaseISR, SemReset, schedVars, mutexVars
  <1>3. \/ UNCHANGED waitList \/ (\E next : SuspendOn(s, n, ready, next))
        \/ ResumeFirst(s, ready, priority) \/ ResumeNobody(ready) \/ ResumeAll(<<s>>)
    BY DEF SemTake, SemRelease, SemReleaseISR, SemReset, Release
  <1>. QED
    BY <1>1, <1>2, <1>3, ListsMoved DEF StandsBy, FewerWait

LEMMA MailStandsBy ==
  ASSUME ThreadInv, NEW n, NEW x,
         \/ SemEnd \/ MutexEnd \/ Send(x, n) \/ Receive(n) \/ SendAgain \/ ReceiveAgain
         \/ SendISR(x) \/ BoxReset
  PROVE  StandsBy
  <1>1. Receivers \in Lists \ Mutexes /\ Senders \in Lists \ Mutexes
    BY NoMutexList
  <1>2. UNCHANGED <<does, priority, owner, original>>
    BY DEF SemEnd, MutexEnd, Send, Receive, SendAgain, ReceiveAgain, SendISR, BoxReset, schedVars,
       mutexVars
  <1>3. \/ UNCHANGED waitList \/ ResumeAll(<<Receivers, Senders>>)
        \/ \E l \in {Receivers, Senders} :
             ResumeOne(l) \/ \E k, next : SuspendOn(l, k, ready, next)
    BY DEF SemEnd, MutexEnd, Send, Receive, SendAgain, ReceiveAgain, SendISR, BoxReset, Fails,
       Works, WaitsAgain, schedVars
  <1>. QED
    BY <1>1, <1>2, <1>3, ListsMoved DEF StandsBy, FewerWait

LEMMA MessagesStandBy ==
  ASSUME ThreadInv, MsgInCall \/ MsgCall \/ MsgHandler
  PROVE  StandsBy
  <1>1. Event \in Lists \ Mutexes /\ Queue \in Lists \ Mutexes /\ Pool \in Lists \ Mutexes
    BY NoMutexList
  <1>2. ASSUME NEW s, NEW all, NEW clear, NEW n,
               \/ EventSend(s) \/ EventSendISR(s) \/ EventRecv(s, all, clear, n) \/ EventEnd
               \/ EventReset
        PROVE  StandsBy
    <2>1. UNCHANGED <<does, priority, owner, original>>
      BY <1>2 DEF EventSend, EventSendISR, EventRecv, EventEnd, EventReset, schedVars, ipcVars,
         mutexVars
    <2>2. \/ UNCHANGED waitList \/ ResumeAll(<<Event>>)
          \/ \E w : waitList' = [waitList EXCEPT ![Event] = w]
          \/ \E next : SuspendOn(Event, n, ready, next)
      BY <1>2 DEF EventSend, EventSendISR, EventRecv, EventEnd, EventReset, SetBits
    <2>. QED
      BY <1>1, <2>1, <2>2, ListsMoved DEF StandsBy, FewerWait
  <1>3. ASSUME NEW how, NEW x, NEW n,
               \/ MqSend(how, x) \/ MqLink(how) \/ MqSendISR(how, x) \/ MqReceive(n)
               \/ MqReceiveAgain \/ MqCopied \/ MqReset
        PROVE  StandsBy
    <2>1. UNCHANGED <<does, priority, owner, original>>
      BY <1>3 DEF MqSend, MqLink, MqSendISR, MqReceive, MqReceiveAgain, MqCopied, MqReset, schedVars,
         ipcVars, mutexVars
    <2>2. \/ UNCHANGED waitList \/ ResumeAll(<<Queue>>) \/ ResumeOne(Queue)
          \/ \E k, next : SuspendOn(Queue, k, ready, next)
      BY <1>3 DEF MqSend, MqLink, MqSendISR, MqReceive, MqReceiveAgain, MqCopied, MqReset, schedVars,
         Fails, WaitsAgain
    <2>. QED
      BY <1>1, <2>1, <2>2, ListsMoved DEF StandsBy, FewerWait
  <1>4. ASSUME NEW n, MpAlloc(n) \/ MpWoken \/ MpAgain \/ MpFree PROVE StandsBy
    <2>1. UNCHANGED <<does, priority, owner, original>>
      BY <1>4 DEF MpAlloc, MpWoken, MpAgain, MpFree, schedVars, ipcVars, mutexVars
    <2>2. \/ UNCHANGED waitList \/ ResumeNobody(ready) \/ ResumeFirst(Pool, ready, priority)
          \/ \E w, k, next : SuspendIn(Pool, w, k, ready, next)
      BY <1>4 DEF MpAlloc, MpWoken, MpAgain, MpFree, WaitForBlock
    <2>. QED
      BY <1>1, <2>1, <2>2, ListsMoved DEF StandsBy, FewerWait
  <1>. QED
    BY <1>2, <1>3, <1>4 DEF MsgInCall, MsgCall, MsgHandler

LEMMA TickStandsBy ==
  ASSUME TickOfAll
  PROVE  StandsBy
  <1>1. waitList' = [l \in Lists |-> Without(waitList[l], Elems(Expired((tick + 1) % TickMod)))]
    BY DEF TickOfAll, Tick
  <1>2. UNCHANGED <<does, priority, owner, original>>
    BY DEF TickOfAll, Tick, mutexVars
  <1>. QED
    BY <1>1, <1>2 DEF StandsBy, FewerWait

LEMMA CallerWaitsNot ==
  ASSUME ThreadInv, todo[current] = <<>>, NEW m \in Mutexes
  PROVE  current \in Threads /\ current \notin Elems(waitList[m])
  <1>1. current \in Threads /\ stat[current] = "ready"
    BY IdleFacts DEF ThreadInv
  <1>2. m \in Lists
    BY MutexLists
  <1>. QED
    BY <1>1, <1>2, OneList DEF Waiters, ThreadInv

LEMMA PrioTakeFree ==
  ASSUME ThreadInv, ~Nested, PrioInv, NEW m \in Mutexes, MutexTakeFree(m)
  PROVE  PrioInv'
  <1>1. /\ todo[current] = <<>> /\ Owns(current) = {} /\ value[m] > 0
        /\ owner' = [owner EXCEPT ![m] = current]
        /\ original' = [original EXCEPT ![m] = priority[current]]
        /\ UNCHANGED <<priority, waitList>>
    BY CallerWaitsNot DEF MutexTakeFree, MayTake, Calls, May, Nested, Has, schedVars
  <1>2. /\ current \in Threads /\ \A k \in Mutexes : current \notin Elems(waitList[k])
        /\ NoThread \notin Threads
        /\ owner = [k \in Mutexes |-> owner[k]] /\ original = [k \in Mutexes |-> original[k]]
    BY <1>1, CallerWaitsNot, KernelAssumption DEF ThreadInv, KernelTypes
  <1>3. owner[m] = NoThread
    BY <1>1 DEF ThreadInv, OwnersRight
  <1>4. /\ owner'[m] = current /\ original'[m] = Prio[current]
        /\ \A k \in Mutexes \ {m} : owner'[k] = owner[k] /\ original'[k] = original[k]
    BY <1>1, <1>2 DEF PrioInv, OriginalPriority
  <1>5. \A t \in Threads \ {current} : Owns(t)' = Owns(t)
    BY <1>2, <1>3, <1>4 DEF Owns
  <1>6. OriginalPriority'
    <2>1. m \in Owns(current)'
      <3>1. PICK c : c = current
        OBVIOUS
      <3>2. m \in {k \in Mutexes : owner'[k] = c} /\ current' = current
        BY <1>4, <3>1 DEF MutexTakeFree
      <3>. QED
        BY <3>1, <3>2 DEF Owns
    <2>2. current' = current
      BY DEF MutexTakeFree
    <2>. QED
      BY <1>1, <1>5, <2>1, <2>2 DEF PrioInv, OriginalPriority
  <1>7. \A k \in Mutexes : owner'[k] # NoThread =>
          /\ original'[k] = Prio[owner'[k]]
          /\ \A j \in Mutexes : owner'[j] = owner'[k] => j = k
    BY <1>1, <1>4 DEF PrioInv, Owns
  <1>8. \A k \in Mutexes : \A t \in Elems(waitList[k]) : k # m /\ t # current /\ t \in Threads
    BY <1>2, <1>3, MutexLists DEF PrioInv
  <1>9. \A k \in Mutexes : \A t \in Elems(waitList'[k]) : Owns(t)' = {} /\ owner'[k] # NoThread
    BY <1>1, <1>4, <1>5, <1>8 DEF PrioInv
  <1>10. \A k \in Mutexes \ FifoLists : ByPrio(waitList[k])' /\
           \A t \in Elems(waitList'[k]) : priority'[owner'[k]] <= Prio[t]
    BY <1>1, <1>4, <1>8 DEF PrioInv, ByPrio
  <1>. QED
    BY <1>6, <1>7, <1>9, <1>10 DEF PrioInv

\* A thread put before the less urgent ones keeps the list in order.
LEMMA PutByPrio ==
  ASSUME NEW w \in Seq(Threads), NEW s \in Seq(Threads), NEW t \in Threads,
         NEW k \in 0 .. Len(w), PutIn(s, w, t, k), UrgencyPlace(w, t, k), ByPrio(w),
         \A u \in Elems(w) \cup {t} : priority[u] = Prio[u]
  PROVE  ByPrio(s)
  <1>1. Len(w) \in Nat /\ \A i \in 1 .. Len(w) : w[i] \in Threads /\ w[i] \in Elems(w)
    BY ListDomain
  <1>2. Prio \in [Threads -> Nat]
    BY KernelAssumption DEF Prios
  <1>3. \A a \in 1 .. k : a \in 1 .. Len(w) /\ Prio[w[a]] <= Prio[t]
    BY <1>1 DEF UrgencyPlace
  <1>4. \A b \in k + 1 .. Len(w) : b \in 1 .. Len(w) /\ Prio[t] <= Prio[w[b]]
    <2>. TAKE b \in k + 1 .. Len(w)
    <2>1. k < Len(w) /\ k + 1 \in 1 .. Len(w) /\ b \in 1 .. Len(w) /\ (b = k + 1 \/ k + 1 < b)
      BY <1>1
    <2>2. Prio[t] < Prio[w[k + 1]]
      BY <1>1, <2>1 DEF UrgencyPlace
    <2>3. Prio[w[k + 1]] <= Prio[w[b]]
      BY <1>1, <1>2, <2>1 DEF ByPrio
    <2>4. Prio[t] \in Nat /\ Prio[w[k + 1]] \in Nat /\ Prio[w[b]] \in Nat
      BY <1>1, <1>2, <2>1
    <2>. QED
      BY <2>1, <2>2, <2>3, <2>4
  <1>5. ASSUME NEW i \in 1 .. Len(s), NEW j \in 1 .. Len(s), i < j
        PROVE  Prio[s[i]] <= Prio[s[j]]
    <2>1. \/ \E a, b \in 1 .. Len(w) : a < b /\ s[i] = w[a] /\ s[j] = w[b]
          \/ s[i] = t /\ \E b \in k + 1 .. Len(w) : s[j] = w[b]
          \/ s[j] = t /\ \E a \in 1 .. k : s[i] = w[a]
      BY <1>5 DEF PutIn
    <2>. QED
      BY <1>3, <1>4, <2>1 DEF ByPrio
  <1>. QED
    BY <1>5 DEF ByPrio

LEMMA PrioTakeWait ==
  ASSUME ThreadInv, ~Nested, PrioInv, NEW m \in Mutexes, NEW n, MutexTakeWait(m, n)
  PROVE  PrioInv'
  <1>. DEFINE h == owner[m]
              w == Enlisted(m, current)
  <1>1. /\ todo[current] = <<>> /\ Owns(current) = {} /\ value[m] = 0 /\ h # current
        /\ priority' = [priority EXCEPT ![h] = Inherited(h, current)]
        /\ waitList' = [waitList EXCEPT ![m] = w]
        /\ UNCHANGED <<owner, original>>
    BY CallerWaitsNot DEF MutexTakeWait, MayTake, Calls, May, Nested, Has, mutexVars, SuspendOn,
       SuspendIn
  <1>2. /\ current \in Threads /\ \A k \in Mutexes : current \notin Elems(waitList[k])
        /\ NoThread \notin Threads /\ h \in Threads
        /\ priority \in [Threads -> Nat] /\ Prio \in [Threads -> Nat]
        /\ priority \in [Threads -> Prios]
    <2>1. current \in Threads /\ \A k \in Mutexes : current \notin Elems(waitList[k])
      BY <1>1, CallerWaitsNot
    <2>2. h \in Threads
      BY <1>1 DEF ThreadInv, OwnersRight
    <2>3. /\ priority \in [Threads -> Prios] /\ Prio \in [Threads -> Prios] /\ Prios \subseteq Nat
          /\ NoThread \notin Threads
      BY KernelAssumption DEF ThreadInv, KernelTypes, Prios
    <2>. QED
      BY <2>1, <2>2, <2>3
  <1>3. m \in Owns(h) /\ h # NoThread
    BY <1>2 DEF Owns
  <1>4. /\ priority'[h] <= priority[h] /\ priority'[h] <= priority[current]
        /\ \A t \in Threads \ {h} : priority'[t] = priority[t]
    BY <1>1, <1>2 DEF Inherited
  <1>. HIDE DEF h
  <1>5. /\ m \in Lists /\ waitList[m] \in Seq(Threads) /\ Elems(waitList[m]) \subseteq Threads
        /\ waitList = [l \in Lists |-> waitList[l]]
        /\ \A k \in Mutexes : Elems(waitList[k]) \subseteq Threads
    BY MutexLists
  <1>6. /\ w \in Seq(Threads) /\ Elems(w) = Elems(waitList[m]) \cup {current}
        /\ \E k \in 0 .. Len(waitList[m]) :
             /\ PutIn(w, waitList[m], current, k)
             /\ m \notin FifoLists => UrgencyPlace(waitList[m], current, k)
    BY <1>2, <1>5, EnlistedFacts
  <1>. HIDE DEF w
  <1>7. /\ waitList'[m] = w /\ \A k \in Mutexes \ {m} : waitList'[k] = waitList[k]
    BY <1>1, <1>5
  <1>8. /\ \A t \in Threads : Owns(t) = {} => priority[t] = Prio[t] /\ t # h
        /\ \A k \in Mutexes : \A t \in Elems(waitList[k]) : Owns(t) = {} /\ owner[k] # NoThread
        /\ \A k \in Mutexes \ {m} : owner[k] # h
    BY <1>3 DEF PrioInv, OriginalPriority, h
  <1>9. \A t : Owns(t)' = Owns(t)
    BY <1>1 DEF Owns
  <1>10. OriginalPriority'
    BY <1>4, <1>8, <1>9 DEF OriginalPriority
  <1>11. \A k \in Mutexes : owner'[k] # NoThread =>
           /\ original'[k] = Prio[owner'[k]]
           /\ \A j \in Mutexes : owner'[j] = owner'[k] => j = k
    BY <1>1 DEF PrioInv
  <1>12. \A k \in Mutexes : \A t \in Elems(waitList'[k]) : Owns(t)' = {} /\ owner'[k] # NoThread
    BY <1>1, <1>3, <1>6, <1>7, <1>8, <1>9 DEF h
  <1>13. ASSUME m \notin FifoLists
         PROVE  ByPrio(w) /\ \A t \in Elems(w) : priority'[h] <= Prio[t]
    <2>1. ByPrio(waitList[m]) /\ \A t \in Elems(waitList[m]) : priority[h] <= Prio[t]
      BY <1>13 DEF PrioInv, h
    <2>2. \A u \in Elems(waitList[m]) \cup {current} : priority[u] = Prio[u]
      BY <1>1, <1>2, <1>5, <1>8
    <2>3. ByPrio(w)
      BY <1>2, <1>5, <1>6, <1>13, <2>1, <2>2, PutByPrio
    <2>4. priority'[h] \in Nat /\ priority[h] \in Nat /\ priority'[h] <= Prio[current]
      <3>1. priority'[h] \in {priority[h], priority[current]}
        BY <1>1, <1>2 DEF Inherited
      <3>. QED
        BY <1>2, <1>4, <2>2, <3>1
    <2>5. \A t \in Elems(waitList[m]) : priority'[h] <= Prio[t]
      BY <1>2, <1>4, <1>5, <2>1, <2>4
    <2>. QED
      BY <1>6, <2>3, <2>4, <2>5
  <1>14. \A k \in Mutexes \ FifoLists :
           ByPrio(waitList'[k]) /\ \A t \in Elems(waitList'[k]) : priority'[owner'[k]] <= Prio[t]
    <2>. TAKE k \in Mutexes \ FifoLists
    <2>1. CASE k = m
      BY <1>1, <1>7, <1>13, <2>1 DEF h
    <2>2. CASE k # m
      <3>1. \A t \in Elems(waitList[k]) : owner[k] \in Threads \ {h}
        BY <1>8, <2>2 DEF ThreadInv, OwnersRight
      <3>2. waitList'[k] = waitList[k] /\ owner'[k] = owner[k]
        BY <1>1, <1>7, <2>2
      <3>. QED
        BY <1>4, <3>1, <3>2 DEF PrioInv
    <2>. QED
      BY <2>1, <2>2
  <1>15. \A k \in Mutexes : ByPrio(waitList[k])' <=> ByPrio(waitList'[k])
    BY DEF ByPrio
  <1>. QED
    BY <1>10, <1>11, <1>12, <1>14, <1>15 DEF PrioInv

\* The mutex goes to the first waiting thread, or is free again.
LEMMA PrioRelease ==
  ASSUME ThreadInv, PrioInv, NEW m \in Mutexes, MutexRelease(m)
  PROVE  PrioInv'
  <1>. DEFINE p     == original[m]
              r     == IF p # priority[current] THEN Reprioritized(ready, current, p) ELSE ready
              w     == waitList[m]
              freed == hold[m] = 1
  <1>1. /\ todo[current] = <<>> /\ owner[m] = current /\ UNCHANGED does
        /\ priority' = IF freed THEN [priority EXCEPT ![current] = p] ELSE priority
        /\ \/ /\ ~freed /\ UNCHANGED <<waitList, owner, original>>
           \/ /\ freed /\ w # <<>>
              /\ waitList' = [waitList EXCEPT ![m] = Tail(w)]
              /\ owner' = [owner EXCEPT ![m] = Head(w)]
              /\ original' = [original EXCEPT ![m] = priority'[Head(w)]]
           \/ /\ freed /\ w = <<>>
              /\ UNCHANGED waitList
              /\ owner' = [owner EXCEPT ![m] = NoThread]
              /\ original' = [original EXCEPT ![m] = Never]
    BY DEF MutexRelease, RestoredTo, ResumeNobody, ResumeFirst
  <1>. DEFINE c == current
  <1>2. /\ c \in Threads /\ \A k \in Mutexes : c \notin Elems(waitList[k])
        /\ NoThread \notin Threads /\ p = Prio[c]
        /\ priority \in [Threads -> Prios] /\ Prio \in [Threads -> Prios] /\ Prios \subseteq Nat
    <2>1. c \in Threads /\ \A k \in Mutexes : c \notin Elems(waitList[k])
      BY <1>1, CallerWaitsNot
    <2>2. /\ priority \in [Threads -> Prios] /\ Prio \in [Threads -> Prios] /\ Prios \subseteq Nat
          /\ NoThread \notin Threads
      BY KernelAssumption DEF ThreadInv, KernelTypes, Prios
    <2>. QED
      BY <1>1, <2>1, <2>2 DEF PrioInv
  <1>3. /\ m \in Lists /\ w \in Seq(Threads) /\ Elems(w) \subseteq Threads /\ NoneTwice(w)
        /\ waitList = [l \in Lists |-> waitList[l]]
        /\ \A k \in Mutexes \ {m} : Elems(w) \cap Elems(waitList[k]) = {}
        /\ \A k \in Mutexes : Elems(waitList[k]) \subseteq Threads
    BY MutexLists
  <1>4. /\ owner = [k \in Mutexes |-> owner[k]] /\ original = [k \in Mutexes |-> original[k]]
        /\ \A k \in Mutexes : owner[k] # NoThread => owner[k] \in Threads
    BY DEF ThreadInv, KernelTypes
  <1>5. /\ \A t \in Threads : Owns(t) = {} => priority[t] = Prio[t]
        /\ \A k \in Mutexes : owner[k] # NoThread =>
             /\ original[k] = Prio[owner[k]]
             /\ \A j \in Mutexes : owner[j] = owner[k] => j = k
        /\ \A k \in Mutexes : \A t \in Elems(waitList[k]) : Owns(t) = {} /\ owner[k] # NoThread
    BY DEF PrioInv, OriginalPriority
  <1>6. \A k \in Mutexes \ {m} : owner[k] # c
    BY <1>1, <1>2, <1>5
  <1>7. CASE ~freed
    <2>1. UNCHANGED <<waitList, owner, original, priority, does>>
      BY <1>1, <1>7
    <2>. QED
      BY <2>1, PrioStandsBy DEF StandsBy, FewerWait
  <1>8. CASE freed
    <2>1. /\ priority'[c] = Prio[c] /\ \A t \in Threads \ {c} : priority'[t] = priority[t]
      BY <1>1, <1>2, <1>8
    <2>. DEFINE h == IF w = <<>> THEN NoThread ELSE Head(w)
    <2>2. /\ w # <<>> => /\ h \in Threads \ {c} /\ h \in Elems(w) /\ Owns(h) = {}
                         /\ priority'[h] = Prio[h]
                         /\ \A k \in Mutexes : owner[k] # h
                         /\ \A k \in Mutexes \ {m} : h \notin Elems(waitList[k])
      <3>1. w # <<>> => h \in Elems(w)
        BY <1>3, TailFacts
      <3>2. w # <<>> => h \in Threads \ {c} /\ Owns(h) = {} /\ priority'[h] = Prio[h]
        BY <1>2, <1>3, <1>5, <2>1, <3>1
      <3>3. w # <<>> => \A k \in Mutexes : owner[k] # h
        BY <3>2 DEF Owns
      <3>. QED
        BY <1>3, <3>1, <3>2, <3>3
    <2>3. /\ owner'[m] = h /\ \A k \in Mutexes \ {m} : owner'[k] = owner[k]
          /\ h # NoThread => original'[m] = Prio[h]
          /\ \A k \in Mutexes \ {m} : original'[k] = original[k]
      BY <1>1, <1>2, <1>4, <1>8, <2>2
    <2>4. /\ \A k \in Mutexes \ {m} : waitList'[k] = waitList[k]
          /\ w # <<>> => waitList'[m] = Tail(w)
          /\ w = <<>> => waitList'[m] = <<>>
      <3>1. Mutexes \subseteq Lists
        BY IpcAssumption
      <3>. QED
        BY <1>1, <1>3, <1>8, <3>1
    <2>5. /\ Elems(waitList'[m]) \subseteq Elems(w) \ {h}
          /\ ByPrio(w) => ByPrio(waitList'[m])
          /\ ByPrio(w) => \A t \in Elems(waitList'[m]) : Prio[h] <= Prio[t]
      <3>1. CASE w = <<>>
        BY <2>4, <3>1, EmptyFacts DEF ByPrio
      <3>2. CASE w # <<>>
        <4>1. /\ Tail(w) \in Seq(Threads) /\ Sublist(Tail(w), w) /\ h = w[1] /\ Len(w) \in Nat
              /\ Elems(Tail(w)) = Elems(w) \ {h}
          BY <1>3, <3>2, TailFacts, ListDomain
        <4>2. \A t \in Elems(w) : \E i \in 1 .. Len(w) : t = w[i]
          BY <1>3, ListDomain
        <4>3. ASSUME ByPrio(w), NEW t \in Elems(Tail(w)) PROVE Prio[h] <= Prio[t]
          <5>1. PICK i \in 1 .. Len(w) : t = w[i]
            BY <4>1, <4>2, <4>3
          <5>2. i # 1
            BY <4>1, <4>3, <5>1
          <5>3. 1 \in 1 .. Len(w) /\ 1 < i
            BY <4>1, <5>2
          <5>. QED
            BY <4>1, <4>3, <5>1, <5>3 DEF ByPrio
        <4>4. ByPrio(w) => ByPrio(Tail(w))
          BY <4>1, SublistByPrio
        <4>. QED
          BY <2>4, <3>2, <4>1, <4>3, <4>4
      <3>. QED
        BY <3>1, <3>2
    <2>. HIDE DEF h, p, r, freed
    <2>6. \A t \in Threads \ {h, c} : Owns(t)' = Owns(t)
      BY <1>1, <2>3 DEF Owns
    <2>7. h # NoThread => h \in Threads /\ w # <<>>
      BY <2>2 DEF h
    <2>8. ASSUME NEW t \in Threads, Owns(t)' = {} PROVE priority'[t] = Prio[t]
      <3>1. t # h
        BY <2>3, <2>8 DEF Owns
      <3>2. CASE t = c
        BY <2>1, <3>2
      <3>3. CASE t # c
        BY <1>5, <2>1, <2>6, <2>8, <3>1, <3>3
      <3>. QED
        BY <3>2, <3>3
    <2>9. ASSUME NEW k \in Mutexes, owner'[k] # NoThread
          PROVE  /\ original'[k] = Prio[owner'[k]]
                 /\ \A j \in Mutexes : owner'[j] = owner'[k] => j = k
      <3>1. CASE k = m
        BY <2>2, <2>3, <2>7, <2>9, <3>1
      <3>2. CASE k # m
        BY <1>5, <2>2, <2>3, <2>7, <2>9, <3>2
      <3>. QED
        BY <3>1, <3>2
    <2>10. ASSUME NEW k \in Mutexes, NEW t \in Elems(waitList'[k])
           PROVE  Owns(t)' = {} /\ owner'[k] # NoThread
      <3>1. t \in Elems(waitList[k]) /\ t \in Threads \ {h, c}
        BY <1>2, <1>3, <2>2, <2>4, <2>5, <2>7, <2>10
      <3>2. k = m => h # NoThread
        BY <1>2, <2>2, <2>4, <2>10, EmptyFacts DEF h
      <3>. QED
        BY <1>5, <2>3, <2>6, <3>1, <3>2
    <2>11. ASSUME NEW k \in Mutexes \ FifoLists
           PROVE  /\ ByPrio(waitList'[k])
                  /\ \A t \in Elems(waitList'[k]) : priority'[owner'[k]] <= Prio[t]
      <3>1. ByPrio(waitList[k]) /\ \A t \in Elems(waitList[k]) : priority[owner[k]] <= Prio[t]
        BY <2>11 DEF PrioInv
      <3>2. CASE k = m
        <4>1. ByPrio(w)
          BY <3>1, <3>2
        <4>2. \A t \in Elems(waitList'[m]) : h # NoThread
          BY <2>3, <2>10
        <4>. QED
          BY <2>2, <2>3, <2>5, <2>7, <3>2, <4>1, <4>2
      <3>3. CASE k # m
        <4>1. \A t \in Elems(waitList[k]) : owner[k] \in Threads \ {c}
          BY <1>4, <1>5, <1>6, <3>3
        <4>. QED
          BY <2>1, <2>3, <2>4, <3>1, <3>3, <4>1
      <3>. QED
        BY <3>2, <3>3
    <2>12. OriginalPriority'
      BY <2>8 DEF OriginalPriority
    <2>13. \A k \in Mutexes : ByPrio(waitList[k])' <=> ByPrio(waitList'[k])
      BY DEF ByPrio
    <2>. QED
      BY <2>9, <2>10, <2>11, <2>12, <2>13 DEF PrioInv
  <1>. QED
    BY <1>7, <1>8

LEMMA InheritMutex ==
  ASSUME ThreadInv, InheritInv, NEW m \in Mutexes, NEW n,
         MutexTakeAgain(m) \/ MutexTakeFree(m) \/ MutexTakeWait(m, n) \/ MutexRelease(m)
  PROVE  InheritInv'
  <1>1. UNCHANGED does
    BY DEF MutexTakeAgain, MutexTakeFree, MutexTakeWait, MutexRelease
  <1>2. Nested' <=> Nested
    BY <1>1 DEF Nested, Has
  <1>3. CASE MutexTakeAgain(m)
    <2>1. StandsBy
      BY <1>3 DEF MutexTakeAgain, StandsBy, FewerWait, schedVars
    <2>. QED
      BY <1>2, <2>1, PrioStandsBy DEF InheritInv
  <1>4. CASE MutexTakeFree(m) \/ MutexTakeWait(m, n) \/ MutexRelease(m)
    BY <1>2, <1>4, PrioTakeFree, PrioTakeWait, PrioRelease DEF InheritInv
  <1>. QED
    BY <1>3, <1>4

LEMMA InheritStands ==
  ASSUME ThreadInv, InheritInv, StandsBy
  PROVE  InheritInv'
  <1>1. Nested' <=> Nested
    BY DEF StandsBy, Nested, Has
  <1>. QED
    BY <1>1, PrioStandsBy DEF InheritInv

LEMMA InheritIpc ==
  ASSUME ThreadInv, InheritInv, IpcNext
  PROVE  InheritInv'
  <1>0. Unmanaged
    BY DEF ThreadInv
  <1>1. CASE TickOfAll
    BY <1>1, TickStandsBy, InheritStands
  <1>2. CASE (Section \/ Call) /\ UNCHANGED ipcVars
    <2>1. UNCHANGED mutexVars
      BY <1>2 DEF ipcVars
    <2>2. StandsBy
      BY <1>0, <1>2, <2>1, KernelStandsBy
    <2>. QED
      BY <2>2, InheritStands
  <1>3. ASSUME NEW s \in Sems, NEW n,
               SemTake(s, n) \/ SemRelease(s) \/ SemReleaseISR(s) \/ SemReset(s, n)
        PROVE  InheritInv'
    BY <1>3, SemStandsBy, InheritStands
  <1>4. ASSUME NEW x, NEW n,
               \/ SemEnd \/ MutexEnd \/ Send(x, n) \/ Receive(n) \/ SendAgain \/ ReceiveAgain
               \/ SendISR(x) \/ BoxReset
        PROVE  InheritInv'
    BY <1>4, MailStandsBy, InheritStands
  <1>5. CASE InCall
    BY <1>2, <1>4, <1>5 DEF InCall
  <1>6. CASE ApplicationCall
    <2>1. CASE \E s \in Sems : \/ SemRelease(s)
                               \/ \E n \in WaitTimes \cup {Forever} : SemTake(s, n)
                               \/ \E n \in 0 .. MaxPermits : SemReset(s, n)
      BY <1>3, <2>1
    <2>2. CASE \E m \in Mutexes : \/ MutexTakeAgain(m) \/ MutexTakeFree(m) \/ MutexRelease(m)
                                  \/ \E n \in WaitTimes \cup {Forever} : MutexTakeWait(m, n)
      BY <2>2, InheritMutex
    <2>3. CASE \E n \in WaitTimes \cup {Forever} : Receive(n) \/ \E x \in Msgs : Send(x, n)
      BY <1>4, <2>3
    <2>. QED
      BY <1>2, <1>4, <1>6, <2>1, <2>2, <2>3 DEF ApplicationCall
  <1>7. CASE Handler
    BY <1>3, <1>4, <1>7 DEF Handler
  <1>. QED
    BY <1>1, <1>5, <1>6, <1>7 DEF IpcNext

LEMMA InheritNext ==
  ThreadInv /\ InheritInv /\ [Next]_allVars => InheritInv'
  <1>1. ASSUME ThreadInv, InheritInv, Next PROVE InheritInv'
    BY <1>1, InheritIpc, MessagesStandBy, InheritStands DEF Next
  <1>2. ASSUME ThreadInv, InheritInv, UNCHANGED allVars PROVE InheritInv'
    <2>1. StandsBy
      BY <1>2 DEF allVars, ipcAndKernel, ipcVars, mutexVars, vars, schedVars, threadVars,
         StandsBy, FewerWait
    <2>. QED
      BY <1>2, <2>1, InheritStands
  <1>. QED
    BY <1>1, <1>2

LEMMA InheritInit ==
  MessagesInit => InheritInv
  <1>. SUFFICES ASSUME MessagesInit PROVE PrioInv
    BY DEF InheritInv
  <1>1. /\ priority = Prio /\ waitList = [l \in Lists |-> <<>>]
        /\ owner = [m \in Mutexes |-> NoThread]
    BY DEF MessagesInit, IpcInit, Init
  <1>2. \A m \in Mutexes : waitList[m] = <<>> /\ Elems(waitList[m]) = {} /\ ByPrio(waitList[m])
    <2>1. Mutexes \subseteq Lists
      BY IpcAssumption
    <2>. QED
      BY <1>1, <2>1, EmptyFacts DEF ByPrio
  <1>. QED
    BY <1>1, <1>2 DEF PrioInv, OriginalPriority

LEMMA PrioFacts ==
  ASSUME ThreadInv, InheritInv
  PROVE  MutexPriorities
  <1>1. NoInversion
    <2>1. \A m \in Mutexes : Elems(waitList[m]) \subseteq Threads
      BY MutexLists
    <2>. QED
      BY <2>1 DEF InheritInv, PrioInv, OriginalPriority, NoInversion
  <1>2. PriorityRestored
    BY DEF InheritInv, PrioInv, PriorityRestored
  <1>. QED
    BY <1>1, <1>2 DEF MutexPriorities

\* If no thread takes a second mutex before it gives the first one back, the owner of a
\* mutex is at least as urgent as every thread that waits for it, unless the mutex lets
\* them in first-come-first-served, and a thread without a mutex has the priority it was
\* created with (rt_mutex_take, rt_mutex_release).
THEOREM MutexPrioritiesCorrect ==
  Spec /\ Unmanaged => []MutexPriorities
  <1>. DEFINE Inv == ThreadInv /\ InheritInv
  <1>1. MessagesInit /\ Unmanaged => Inv
    BY InvInit, InheritInit
  <1>2. Inv /\ [Next]_allVars => Inv'
    BY InvStep, InheritNext
  <1>3. Inv => MutexPriorities
    BY PrioFacts
  <1>. QED
    BY <1>1, <1>2, <1>3, PTL DEF Spec
================================================================================
