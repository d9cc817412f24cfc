---------------------------- MODULE FrMutexProofs ----------------------------
(***************************************************************************)
(* Theorems about FreeRTOS mutexes, for any number of tasks, mutexes and   *)
(* priorities: who holds what, that inherited priorities are given back,   *)
(* and, for tasks that do not wait while they hold a mutex, that nobody    *)
(* waits for a less urgent holder, that the waiting lists are in order,    *)
(* and that a raised priority has a reason.  The last theorem is about     *)
(* the timers of RT-Thread, whose list is ordered the same way.            *)
(***************************************************************************)
EXTENDS FrMutex, RttTimers, FiniteSetTheorems, SequenceTheorems, WellFoundedInduction, TLAPS

-----------------------------------------------------------------------------
\* Waiting lists.

\* Every set of numbers that is not empty has a least one.
LEMMA LeastNumber ==
  ASSUME NEW S \in SUBSET Nat, S # {}
  PROVE  \E n \in S : \A i \in S : n <= i
  <1>1. PICK n \in S : \A i \in S : ~ (<<i, n>> \in OpToRel(<, Nat))
    BY NatLessThanWellFounded, WFMin
  <1>2. \A i \in S : ~ (i < n)
    BY <1>1 DEF OpToRel
  <1>. QED
    BY <1>2

\* The elements of a list; none is there twice; the first have most of f.
Elems(w) == {w[i] : i \in 1 .. Len(w)}
NoneTwice(w) == \A i, j \in 1 .. Len(w) : w[i] = w[j] => i = j
Ordered(w, f) == \A i, j \in 1 .. Len(w) : i < j => f[w[i]] >= f[w[j]]

\* What a list is with an element put in, and with one taken out.
IsPutIn(T, s, w, t, k) ==
  /\ s \in Seq(T) /\ Len(s) = Len(w) + 1
  /\ \A i \in 1 .. Len(w) + 1 :
       s[i] = IF i <= k THEN w[i] ELSE IF i = k + 1 THEN t ELSE w[i - 1]

LEMMA PutInFacts ==
  ASSUME NEW T, NEW w \in Seq(T), NEW t \in T, NEW k \in 0 .. Len(w)
  PROVE  IsPutIn(T, SubSeq(w, 1, k) \o <<t>> \o SubSeq(w, k + 1, Len(w)), w, t, k)
  <1>. DEFINE a == SubSeq(w, 1, k)
              b == SubSeq(w, k + 1, Len(w))
              c == a \o <<t>>
  <1>0. Len(w) \in Nat /\ \A i \in 1 .. Len(w) : w[i] \in T
    BY LenProperties, ElementOfSeq
  <1>1. a \in Seq(T) /\ Len(a) = k /\ \A i \in 1 .. k : a[i] = w[i]
    BY <1>0, SubSeqProperties
  <1>2. b \in Seq(T) /\ Len(b) = Len(w) - k /\ \A i \in 1 .. Len(w) - k : b[i] = w[k + i]
    BY <1>0, SubSeqProperties
  <1>3. /\ c \in Seq(T) /\ Len(c) = k + 1
        /\ \A i \in 1 .. k + 1 : c[i] = IF i <= k THEN w[i] ELSE t
    <2>1. <<t>> \in Seq(T) /\ Len(<<t>>) = 1 /\ <<t>>[1] = t
      OBVIOUS
    <2>. HIDE DEF a
    <2>. QED
      BY <1>1, <2>1, ConcatProperties
  <1>. HIDE DEF a, b, c
  <1>n. Len(w) \in Nat /\ k \in Nat /\ Len(c) + Len(b) = Len(w) + 1 /\ Len(c) = k + 1
    BY <1>0, <1>2, <1>3
  <1>4. c \o b \in Seq(T) /\ Len(c \o b) = Len(w) + 1
    BY <1>2, <1>3, <1>n, ConcatProperties
  <1>5. \A i \in 1 .. Len(w) + 1 : (c \o b)[i] = IF i <= k + 1 THEN c[i] ELSE b[i - (k + 1)]
    BY <1>2, <1>3, <1>n, ConcatProperties
  <1>6. ASSUME NEW i \in 1 .. Len(w) + 1
        PROVE  (c \o b)[i] = IF i <= k THEN w[i] ELSE IF i = k + 1 THEN t ELSE w[i - 1]
    <2>1. CASE i <= k + 1
      <3>1. i \in 1 .. k + 1 /\ (c \o b)[i] = c[i]
        BY <1>5, <1>n, <2>1
      <3>. QED
        BY <1>3, <1>n, <3>1
    <2>2. CASE i > k + 1
      <3>1. i - (k + 1) \in 1 .. Len(w) - k /\ k + (i - (k + 1)) = i - 1
        BY <1>n, <2>2
      <3>2. (c \o b)[i] = b[i - (k + 1)]
        BY <1>5, <1>n, <2>2
      <3>. QED
        BY SMTT(30), <1>2, <1>n, <2>2, <3>1, <3>2
    <2>. QED
      BY <1>n, <2>1, <2>2
  <1>. QED
    BY <1>4, <1>6 DEF a, b, c, IsPutIn

LEMMA TakenOutFacts ==
  ASSUME NEW T, NEW w \in Seq(T), NEW k \in 1 .. Len(w),
         NEW s, s = SubSeq(w, 1, k - 1) \o SubSeq(w, k + 1, Len(w))
  PROVE  /\ s \in Seq(T) /\ Len(s) = Len(w) - 1
         /\ \A i \in 1 .. Len(w) - 1 : s[i] = IF i < k THEN w[i] ELSE w[i + 1]
  <1>. DEFINE a == SubSeq(w, 1, k - 1)
              b == SubSeq(w, k + 1, Len(w))
  <1>0. Len(w) \in Nat /\ \A i \in 1 .. Len(w) : w[i] \in T
    BY LenProperties, ElementOfSeq
  <1>1. a \in Seq(T) /\ Len(a) = k - 1 /\ \A i \in 1 .. k - 1 : a[i] = w[i]
    BY <1>0, SubSeqProperties
  <1>2. b \in Seq(T) /\ Len(b) = Len(w) - k /\ \A i \in 1 .. Len(w) - k : b[i] = w[k + i]
    BY <1>0, SubSeqProperties
  <1>. HIDE DEF a, b
  <1>n. Len(w) \in Nat /\ k \in Nat /\ Len(a) + Len(b) = Len(w) - 1 /\ Len(a) = k - 1
    BY <1>0, <1>1, <1>2
  <1>3. a \o b \in Seq(T) /\ Len(a \o b) = Len(w) - 1
    BY <1>1, <1>2, <1>n, ConcatProperties
  <1>4. \A i \in 1 .. Len(w) - 1 : (a \o b)[i] = IF i <= k - 1 THEN a[i] ELSE b[i - (k - 1)]
    BY <1>1, <1>2, <1>n, ConcatProperties
  <1>5. ASSUME NEW i \in 1 .. Len(w) - 1
        PROVE  (a \o b)[i] = IF i < k THEN w[i] ELSE w[i + 1]
    <2>1. CASE i < k
      <3>1. i \in 1 .. k - 1 /\ (a \o b)[i] = a[i]
        BY <1>4, <1>n, <2>1
      <3>. QED
        BY <1>1, <1>n, <2>1, <3>1
    <2>2. CASE i >= k
      <3>1. i - (k - 1) \in 1 .. Len(w) - k /\ k + (i - (k - 1)) = i + 1
        BY <1>n, <2>2
      <3>2. (a \o b)[i] = b[i - (k - 1)]
        BY <1>4, <1>n, <2>2
      <3>3. (a \o b)[i] = w[i + 1]
        BY <1>2, <3>1, <3>2
      <3>. QED
        BY <1>n, <2>2, <3>3
    <2>. QED
      BY <1>n, <2>1, <2>2
  <1>. QED
    BY <1>3, <1>5 DEF a, b

\* The place that vListInsert() looks for, for a task of priority v, exists,
RightPlace(w, f, v, k) ==
  /\ k \in 0 .. Len(w)
  /\ \A i \in 1 .. k : f[w[i]] >= v
  /\ k < Len(w) => f[w[k + 1]] < v

LEMMA PlaceExists ==
  ASSUME NEW T, NEW w \in Seq(T), NEW f \in [T -> Nat], NEW v \in Nat
  PROVE  \E k \in 0 .. Len(w) : RightPlace(w, f, v, k)
  <1>. USE DEF RightPlace
  <1>. DEFINE less == {i \in 1 .. Len(w) : f[w[i]] < v}
  <1>0. Len(w) \in Nat /\ \A i \in 1 .. Len(w) : w[i] \in T
    BY LenProperties, ElementOfSeq
  <1>1. CASE less = {}
    <2>1. \A i \in 1 .. Len(w) : f[w[i]] >= v
      BY <1>0, <1>1
    <2>. QED
      BY <1>0, <2>1
  <1>2. CASE less # {}
    <2>1. less \in SUBSET Nat
      BY <1>0
    <2>2. PICK n \in less : \A i \in less : n <= i
      <3>. HIDE DEF less
      <3>. QED
        BY <1>2, <2>1, LeastNumber
    <2>3. n - 1 \in 0 .. Len(w) /\ n \in 1 .. Len(w) /\ f[w[n - 1 + 1]] < v
      BY <1>0
    <2>4. \A i \in 1 .. n - 1 : f[w[i]] >= v
      BY <1>0, <2>2
    <2>. QED
      BY <2>3, <2>4
  <1>. QED
    BY <1>1, <1>2

\* and an insertion there keeps the order.
LEMMA PutInKeeps ==
  ASSUME NEW T, NEW w \in Seq(T), NEW t \in T, NEW k \in 0 .. Len(w),
         NEW s, IsPutIn(T, s, w, t, k)
  PROVE  /\ s \in Seq(T) /\ Elems(s) = Elems(w) \cup {t}
         /\ NoneTwice(w) /\ t \notin Elems(w) => NoneTwice(s)
         /\ \A f \in [T -> Nat] :
              Ordered(w, f) /\ RightPlace(w, f, f[t], k) => Ordered(s, f)
  <1>0. Len(w) \in Nat /\ \A i \in 1 .. Len(w) : w[i] \in T
    BY LenProperties, ElementOfSeq
  <1>n. k \in Nat /\ k <= Len(w)
    BY <1>0
  <1>4. /\ s \in Seq(T) /\ Len(s) = Len(w) + 1
        /\ \A i \in 1 .. Len(w) + 1 :
             s[i] = IF i <= k THEN w[i] ELSE IF i = k + 1 THEN t ELSE w[i - 1]
    BY DEF IsPutIn
  \* Where its elements come from.
  <1>. DEFINE at(i) == IF i <= k THEN i ELSE i - 1
  <1>1. \A i \in 1 .. Len(s) : i # k + 1 => at(i) \in 1 .. Len(w) /\ s[i] = w[at(i)]
    BY <1>0, <1>n, <1>4
  <1>2. s[k + 1] = t /\ k + 1 \in 1 .. Len(s)
    BY <1>0, <1>n, <1>4
  <1>3. /\ \A i, j \in 1 .. Len(s) : i # k + 1 /\ j # k + 1 /\ at(i) = at(j) => i = j
        /\ \A i, j \in 1 .. Len(s) : i # k + 1 /\ j # k + 1 /\ i < j => at(i) < at(j)
        /\ \A i \in 1 .. Len(s) : i < k + 1 => at(i) \in 1 .. k
        /\ \A i \in 1 .. Len(s) : i > k + 1 => at(i) >= k + 1 /\ k < Len(w)
    BY <1>0, <1>n, <1>4
  <1>5. Elems(s) = Elems(w) \cup {t}
    <2>1. \A i \in 1 .. Len(s) : s[i] \in Elems(w) \cup {t}
      <3>. HIDE DEF at
      <3>. QED
        BY <1>1, <1>2 DEF Elems
    <2>2. \A i \in 1 .. Len(w) : w[i] = IF i <= k THEN s[i] ELSE s[i + 1]
      BY <1>0, <1>n, <1>4
    <2>3. \A i \in 1 .. Len(w) : i \in 1 .. Len(s) /\ i + 1 \in 1 .. Len(s)
      BY <1>0, <1>n, <1>4
    <2>4. Elems(w) \subseteq Elems(s)
      BY <2>2, <2>3 DEF Elems
    <2>5. t \in Elems(s)
      BY <1>2 DEF Elems
    <2>6. Elems(s) \subseteq Elems(w) \cup {t}
      BY <2>1 DEF Elems
    <2>. QED
      BY <2>4, <2>5, <2>6
  <1>. HIDE DEF at
  <1>6. ASSUME NoneTwice(w), t \notin Elems(w) PROVE NoneTwice(s)
    <2>1. \A i \in 1 .. Len(s) : i # k + 1 => s[i] # t
      BY <1>6, <1>1 DEF Elems
    <2>2. ASSUME NEW i \in 1 .. Len(s), NEW j \in 1 .. Len(s), s[i] = s[j],
                 i # k + 1, j # k + 1
          PROVE  i = j
      <3>1. at(i) = at(j)
        BY <1>1, <1>6, <2>2 DEF NoneTwice
      <3>. QED
        BY <1>3, <2>2, <3>1
    <2>. QED
      BY <1>2, <2>1, <2>2 DEF NoneTwice
  <1>7. ASSUME NEW f \in [T -> Nat], Ordered(w, f), RightPlace(w, f, f[t], k)
        PROVE  Ordered(s, f)
    <2>. USE DEF RightPlace
    <2>1. ASSUME NEW a \in 1 .. Len(w), a >= k + 1, k < Len(w) PROVE f[w[a]] < f[t]
      <3>1. f[w[k + 1]] >= f[w[a]] /\ k + 1 \in 1 .. Len(w)
        <4>1. k + 1 \in 1 .. Len(w) /\ (a = k + 1 \/ k + 1 < a)
          BY <1>0, <1>n, <2>1
        <4>2. f[w[a]] \in Nat
          BY <1>0
        <4>. QED
          BY <1>7, <4>1, <4>2 DEF Ordered
      <3>2. f[w[k + 1]] \in Nat /\ f[w[a]] \in Nat /\ f[t] \in Nat
        BY <1>0, <3>1
      <3>. QED
        BY <1>7, <2>1, <3>1, <3>2
    <2>. SUFFICES ASSUME NEW i \in 1 .. Len(s), NEW j \in 1 .. Len(s), i < j
                  PROVE  f[s[i]] >= f[s[j]]
      BY DEF Ordered
    <2>n. i \in Int /\ j \in Int /\ \A a \in T : f[a] \in Nat
      BY <1>0
    <2>2. CASE i # k + 1 /\ j # k + 1
      <3>1. at(i) < at(j)
        BY <1>3, <2>2
      <3>. QED
        BY <1>1, <1>7, <2>2, <3>1 DEF Ordered
    <2>3. CASE j = k + 1
      <3>1. i < k + 1 /\ i # k + 1 /\ s[j] = t
        BY <1>0, <1>n, <1>2, <2>3, <2>n
      <3>2. at(i) \in 1 .. k /\ s[i] = w[at(i)]
        BY <1>1, <1>3, <3>1
      <3>. QED
        BY <1>7, <3>1, <3>2
    <2>4. CASE i = k + 1
      <3>1. j > k + 1 /\ j # k + 1 /\ s[i] = t
        BY <1>0, <1>n, <1>2, <2>4, <2>n
      <3>2. at(j) \in 1 .. Len(w) /\ s[j] = w[at(j)] /\ at(j) >= k + 1 /\ k < Len(w)
        BY <1>1, <1>3, <3>1
      <3>3. f[w[at(j)]] < f[t] /\ f[w[at(j)]] \in Nat /\ f[t] \in Nat
        BY <1>0, <2>1, <2>n, <3>2
      <3>. QED
        BY <3>1, <3>2, <3>3
    <2>. QED
      BY <2>2, <2>3, <2>4
  <1>. QED
    BY <1>4, <1>5, <1>6, <1>7

\* vListInsert() adds the task and keeps the order.
LEMMA InsertedFacts ==
  ASSUME NEW m \in Mutexes, NEW t \in Tasks, waiting \in [Mutexes -> Seq(Tasks)],
         eventPriority \in [Tasks -> Nat]
  PROVE  /\ Inserted(m, t) \in [Mutexes -> Seq(Tasks)]
         /\ \A n \in Mutexes \ {m} : Inserted(m, t)[n] = waiting[n]
         /\ Elems(Inserted(m, t)[m]) = Elems(waiting[m]) \cup {t}
         /\ NoneTwice(waiting[m]) /\ t \notin Elems(waiting[m]) => NoneTwice(Inserted(m, t)[m])
         /\ Ordered(waiting[m], eventPriority) => Ordered(Inserted(m, t)[m], eventPriority)
  <1>. DEFINE w == waiting[m]
              k0 == CHOOSE k \in 0 .. Len(w) :
                      /\ \A i \in 1 .. k : eventPriority[w[i]] >= eventPriority[t]
                      /\ k < Len(w) => eventPriority[w[k + 1]] < eventPriority[t]
              s == SubSeq(w, 1, k0) \o <<t>> \o SubSeq(w, k0 + 1, Len(w))
  <1>1. w \in Seq(Tasks) /\ eventPriority[t] \in Nat
    OBVIOUS
  <1>2. k0 \in 0 .. Len(w) /\ RightPlace(w, eventPriority, eventPriority[t], k0)
    <2>1. \E k \in 0 .. Len(w) : RightPlace(w, eventPriority, eventPriority[t], k)
      <3>. HIDE DEF w
      <3>. QED
        BY <1>1, PlaceExists
    <2>. QED
      BY <2>1 DEF RightPlace
  <1>3. Inserted(m, t) = [waiting EXCEPT ![m] = s]
    BY DEF Inserted
  <1>. HIDE DEF k0, w
  <1>4. IsPutIn(Tasks, s, w, t, k0)
    BY <1>1, <1>2, PutInFacts
  <1>. HIDE DEF s
  <1>5. /\ s \in Seq(Tasks) /\ Elems(s) = Elems(w) \cup {t}
        /\ NoneTwice(w) /\ t \notin Elems(w) => NoneTwice(s)
        /\ \A f \in [Tasks -> Nat] :
             Ordered(w, f) /\ RightPlace(w, f, f[t], k0) => Ordered(s, f)
    BY <1>1, <1>2, <1>4, PutInKeeps
  <1>. QED
    BY <1>2, <1>3, <1>5 DEF w

\* uxListRemove() takes one out.
LEMMA UnlinkedFacts ==
  ASSUME NEW T, NEW w \in Seq(T), NEW t
  PROVE  /\ Unlinked(w, t) \in Seq(T)
         /\ Elems(Unlinked(w, t)) \subseteq Elems(w)
         /\ Elems(w) \ {t} \subseteq Elems(Unlinked(w, t))
         /\ NoneTwice(w) => NoneTwice(Unlinked(w, t)) /\ t \notin Elems(Unlinked(w, t))
         /\ \A f : Ordered(w, f) => Ordered(Unlinked(w, t), f)
  <1>0. Len(w) \in Nat /\ \A i \in 1 .. Len(w) : w[i] \in T
    BY LenProperties, ElementOfSeq
  <1>1. CASE ~ \E i \in 1 .. Len(w) : w[i] = t
    BY <1>1 DEF Unlinked, Elems
  <1>2. CASE \E i \in 1 .. Len(w) : w[i] = t
    <2>. DEFINE k == CHOOSE k \in 1 .. Len(w) : w[k] = t
                s == SubSeq(w, 1, k - 1) \o SubSeq(w, k + 1, Len(w))
    <2>1. k \in 1 .. Len(w) /\ w[k] = t
      BY <1>2
    <2>2. Unlinked(w, t) = s
      BY <1>2 DEF Unlinked
    <2>. HIDE DEF k
    <2>3. /\ s \in Seq(T) /\ Len(s) = Len(w) - 1
          /\ \A i \in 1 .. Len(w) - 1 : s[i] = IF i < k THEN w[i] ELSE w[i + 1]
      BY <2>1, TakenOutFacts
    <2>. HIDE DEF s
    <2>4. Elems(s) \subseteq Elems(w)
      <3>1. \A i \in 1 .. Len(s) : i \in 1 .. Len(w) /\ i + 1 \in 1 .. Len(w)
        BY <1>0, <2>3
      <3>. QED
        BY <2>3, <3>1 DEF Elems
    <2>5. Elems(w) \ {t} \subseteq Elems(s)
      <3>1. \A i \in 1 .. Len(w) : w[i] # t => i # k
        BY <2>1
      <3>2. \A i \in 1 .. Len(w) : i < k => i \in 1 .. Len(s) /\ s[i] = w[i]
        BY <1>0, <2>1, <2>3
      <3>3. \A i \in 1 .. Len(w) : i > k => i - 1 \in 1 .. Len(s) /\ s[i - 1] = w[i]
        BY <1>0, <2>1, <2>3
      <3>4. \A i \in 1 .. Len(w) : i # k => i < k \/ i > k
        BY <1>0, <2>1
      <3>. QED
        BY <3>1, <3>2, <3>3, <3>4 DEF Elems
    <2>6. ASSUME NoneTwice(w) PROVE NoneTwice(s) /\ t \notin Elems(s)
      <3>. DEFINE at(i) == IF i < k THEN i ELSE i + 1
      <3>1. \A i \in 1 .. Len(s) : at(i) \in 1 .. Len(w) /\ at(i) # k /\ s[i] = w[at(i)]
        BY <1>0, <2>1, <2>3
      <3>2. \A i, j \in 1 .. Len(s) : at(i) = at(j) => i = j
        BY <1>0, <2>1, <2>3
      <3>. HIDE DEF at
      <3>3. NoneTwice(s)
        BY <2>6, <3>1, <3>2 DEF NoneTwice
      <3>4. \A i \in 1 .. Len(s) : s[i] # t
        BY <2>1, <2>6, <3>1 DEF NoneTwice
      <3>. QED
        BY <3>3, <3>4 DEF Elems
    <2>7. ASSUME NEW f, Ordered(w, f) PROVE Ordered(s, f)
      BY SMTT(30), <1>0, <2>1, <2>3, <2>7 DEF Ordered
    <2>. QED
      BY <2>2, <2>3, <2>4, <2>5, <2>6, <2>7
  <1>. QED
    BY <1>1, <1>2

\* Waking the first task of a list.
LEMMA TailFacts ==
  ASSUME NEW w \in Seq(Tasks), w # <<>>
  PROVE  /\ Tail(w) \in Seq(Tasks) /\ Head(w) = w[1] /\ Head(w) \in Elems(w)
         /\ Elems(w) = Elems(Tail(w)) \cup {Head(w)}
         /\ NoneTwice(w) => NoneTwice(Tail(w)) /\ Head(w) \notin Elems(Tail(w))
         /\ \A f : Ordered(w, f) => Ordered(Tail(w), f)
  <1>1. /\ Len(w) \in Nat /\ Len(w) > 0 /\ Head(w) = w[1] /\ Tail(w) \in Seq(Tasks)
        /\ Len(Tail(w)) = Len(w) - 1 /\ \A i \in 1 .. Len(w) - 1 : Tail(w)[i] = w[i + 1]
    BY HeadTailProperties, EmptySeq, LenProperties
  <1>2. Elems(w) = Elems(Tail(w)) \cup {Head(w)} /\ Head(w) \in Elems(w)
    <2>1. \A i \in 1 .. Len(w) : i = 1 \/ i - 1 \in 1 .. Len(w) - 1
      BY <1>1
    <2>2. \A i \in 1 .. Len(w) - 1 : i + 1 \in 1 .. Len(w)
      BY <1>1
    <2>3. \A i \in 1 .. Len(w) : i - 1 \in 1 .. Len(w) - 1 => Tail(w)[i - 1] = w[i]
      BY <1>1
    <2>4. 1 \in 1 .. Len(w)
      BY <1>1
    <2>. QED
      BY <1>1, <2>1, <2>2, <2>3, <2>4 DEF Elems
  <1>3. ASSUME NoneTwice(w) PROVE NoneTwice(Tail(w)) /\ Head(w) \notin Elems(Tail(w))
    BY <1>1, <1>3 DEF NoneTwice, Elems
  <1>4. ASSUME NEW f, Ordered(w, f) PROVE Ordered(Tail(w), f)
    BY <1>1, <1>4 DEF Ordered
  <1>. QED
    BY <1>1, <1>2, <1>3, <1>4
-----------------------------------------------------------------------------
\* Who holds what, and types.

\* Recursive mutexes: the holder has taken the mutex as often as it counts, which is
\* zero exactly in the call that is about to count the first take or give the mutex
\* back; nobody else has, or is in such a call.
InCall(t, m) == pc[t] \in {"count", "give"} /\ op[t].mutex = m
CountsRight(m, t) ==
  IF xMutexHolder[m] = t
    THEN /\ depth[t][m] = uxRecursiveCallCount[m]
         /\ uxRecursiveCallCount[m] = 0 <=> InCall(t, m)
    ELSE depth[t][m] = 0 /\ ~InCall(t, m)
RecursionRight ==
  /\ \A t \in Tasks : pc[t] = "count" => op[t].mutex \in Recursive
  /\ \A m \in Recursive :
       /\ xMutexHolder[m] = NoTask => uxRecursiveCallCount[m] = 0
       /\ \A t \in Tasks : CountsRight(m, t)

\* Plain ones, where nobody gives what it failed to take.
PlainRight ==
  ~IgnoresFailure =>
    \A m \in Mutexes \ Recursive, t \in Tasks :
      /\ depth[t][m] = IF xMutexHolder[m] = t THEN 1 ELSE 0
      /\ ~(pc[t] = "give" /\ op[t].mutex = m)

\* The invariant behind TypeOK, HoldersRight and PriorityRestored.
MutexInv ==
  /\ usage \in Usages /\ TypeOK
  /\ HeldCountRight /\ PriorityRestored
  /\ RecursionRight /\ PlainRight

\* Task t gets to run and takes mutex m, in a call it starts or has started.
TakenBy(t, m) ==
  /\ TakeNow(t, m) /\ Runs(t) /\ waiting' = waiting /\ prioVars' = prioVars
  /\ m \in usage.mutexes \/ (pc[t] = "top" /\ op[t].mutex = m)

\* A step takes a mutex, gives one, or leaves all with their holders.
LEMMA HolderMoves ==
  ASSUME TypeOK, Next
  PROVE  \/ UNCHANGED <<xMutexHolder, uxMutexesHeld>>
         \/ \E t \in Tasks, m \in Mutexes : TakenBy(t, m)
         \/ \E t \in Tasks, m \in Mutexes : GiveNow(t, m)
  <1>1. PICK t \in Tasks :
          \/ Retry(t) \/ Block(t) \/ Final(t) \/ DisinheritAfterTimeout(t) \/ Expire(t)
          \/ GiveInside(t) \/ CountFirst(t)
          \/ \E m \in Mutexes : \/ Give(t, m) \/ TakeAgain(t, m) \/ GiveRecursive(t, m)
                                \/ \E wait \in Waits : Take(t, m, wait)
          \/ \E x \in Tasks, p \in Prios : PrioritySet(t, x, p)
    BY DEF Next
  <1>2. op[t].mutex \in Mutexes
    BY DEF TypeOK
  <1>3. CASE Retry(t)
    <2>1. /\ Runs(t) /\ UNCHANGED <<waiting, prioVars>> /\ pc[t] = "top"
          /\ \/ TakeNow(t, op[t].mutex)
             \/ CannotTake(t, op[t].mutex, op[t].wait, xInheritanceOccurred[t])
      BY <1>3 DEF Retry
    <2>2. CASE TakeNow(t, op[t].mutex)
      BY <1>2, <2>1, <2>2 DEF TakenBy
    <2>3. CASE CannotTake(t, op[t].mutex, op[t].wait, xInheritanceOccurred[t])
      BY <2>3 DEF CannotTake
    <2>. QED
      BY <2>1, <2>2, <2>3
  <1>4. ASSUME NEW m \in Mutexes, NEW wait \in Waits, Take(t, m, wait)
        PROVE  \/ UNCHANGED <<xMutexHolder, uxMutexesHeld>>
               \/ TakenBy(t, m)
    <2>1. CASE TakeNow(t, m)
      <3>1. Runs(t) /\ UNCHANGED <<waiting, prioVars>> /\ m \in usage.mutexes
        BY <1>4 DEF Take
      <3>. QED
        BY <2>1, <3>1 DEF TakenBy
    <2>2. CASE CannotTake(t, m, wait, FALSE)
      BY <2>2 DEF CannotTake
    <2>. QED
      BY <1>4, <2>1, <2>2 DEF Take
  <1>5. CASE GiveInside(t)
    BY <1>2, <1>5 DEF GiveInside
  <1>6. ASSUME NEW m \in Mutexes, Give(t, m) PROVE GiveNow(t, m)
    BY <1>6 DEF Give
  <1>7. CASE Block(t) \/ Final(t) \/ DisinheritAfterTimeout(t) \/ Expire(t) \/ CountFirst(t)
    BY <1>7 DEF Block, Final, DisinheritAfterTimeout, Expire, CountFirst, mutexVars
  <1>8. ASSUME NEW m \in Mutexes, TakeAgain(t, m) \/ GiveRecursive(t, m)
        PROVE  UNCHANGED <<xMutexHolder, uxMutexesHeld>>
    BY <1>8 DEF TakeAgain, GiveRecursive
  <1>9. ASSUME NEW x \in Tasks, NEW p \in Prios, PrioritySet(t, x, p)
        PROVE  UNCHANGED <<xMutexHolder, uxMutexesHeld>>
    BY <1>9 DEF PrioritySet, mutexVars
  <1>. QED
    BY <1>1, <1>3, <1>4, <1>5, <1>6, <1>7, <1>8, <1>9

Held(t) == {m \in Mutexes : xMutexHolder[m] = t}

\* The count of mutexes held is zero or one as the set is empty or has one element.
LEMMA HeldFacts ==
  ASSUME TypeOK, HeldCountRight, NEW t \in Tasks
  PROVE  /\ IsFiniteSet(Held(t)) /\ uxMutexesHeld[t] = Cardinality(Held(t))
         /\ uxMutexesHeld[t] = 0 => \A m \in Mutexes : xMutexHolder[m] # t
         /\ uxMutexesHeld[t] = 1 =>
              \A m, n \in Mutexes : xMutexHolder[m] = t /\ xMutexHolder[n] = t => m = n
  <1>1. IsFiniteSet(Held(t)) /\ uxMutexesHeld[t] = Cardinality(Held(t))
    BY MutexAssumption, FS_Subset DEF MutexAssumption, HeldCountRight, Held
  <1>2. uxMutexesHeld[t] = 0 => Held(t) = {}
    BY <1>1, FS_EmptySet
  <1>3. uxMutexesHeld[t] = 1 => \E m : Held(t) = {m}
    BY <1>1, FS_Singleton
  <1>. QED
    BY <1>1, <1>2, <1>3 DEF Held

LEMMA HeldStep ==
  ASSUME TypeOK, HeldCountRight, Next
  PROVE  /\ HeldCountRight' /\ xMutexHolder' \in [Mutexes -> Tasks \cup {NoTask}]
         /\ uxMutexesHeld' \in [Tasks -> 0 .. Cardinality(Mutexes)]
  <1>0. NoTask \notin Tasks /\ IsFiniteSet(Mutexes) /\ Cardinality(Mutexes) \in Nat
    BY MutexAssumption, FS_CardinalityType DEF MutexAssumption
  <1>1. /\ xMutexHolder \in [Mutexes -> Tasks \cup {NoTask}]
        /\ uxMutexesHeld \in [Tasks -> 0 .. Cardinality(Mutexes)]
        /\ \A t \in Tasks : /\ IsFiniteSet(Held(t)) /\ Cardinality(Held(t)) \in Nat
                            /\ uxMutexesHeld[t] = Cardinality(Held(t))
    BY HeldFacts, FS_CardinalityType DEF TypeOK
  <1>2. HeldCountRight' /\ xMutexHolder' \in [Mutexes -> Tasks \cup {NoTask}]
        /\ \E f \in [Tasks -> Int] : uxMutexesHeld' = f
    <2>1. CASE UNCHANGED <<xMutexHolder, uxMutexesHeld>>
      BY <1>1, <2>1 DEF HeldCountRight
    <2>2. ASSUME NEW t \in Tasks, NEW m \in Mutexes, TakeNow(t, m)
          PROVE  /\ HeldCountRight' /\ xMutexHolder' \in [Mutexes -> Tasks \cup {NoTask}]
                 /\ \E f \in [Tasks -> Int] : uxMutexesHeld' = f
      <3>1. /\ xMutexHolder[m] = NoTask /\ xMutexHolder' = [xMutexHolder EXCEPT ![m] = t]
            /\ uxMutexesHeld' = [uxMutexesHeld EXCEPT ![t] = @ + 1]
        BY <2>2 DEF TakeNow
      <3>2. /\ {n \in Mutexes : xMutexHolder'[n] = t} = Held(t) \cup {m} /\ m \notin Held(t)
            /\ \A u \in Tasks \ {t} : {n \in Mutexes : xMutexHolder'[n] = u} = Held(u)
        BY <1>0, <1>1, <3>1 DEF Held
      <3>3. Cardinality(Held(t) \cup {m}) = Cardinality(Held(t)) + 1
        BY <1>1, <3>2, FS_AddElement
      <3>4. HeldCountRight'
        BY <1>1, <3>1, <3>2, <3>3 DEF HeldCountRight
      <3>5. [uxMutexesHeld EXCEPT ![t] = @ + 1] \in [Tasks -> Int]
        BY <1>0, <1>1
      <3>. QED
        BY <1>1, <3>1, <3>4, <3>5
    <2>3. ASSUME NEW t \in Tasks, NEW m \in Mutexes, GiveNow(t, m)
          PROVE  /\ HeldCountRight' /\ xMutexHolder' \in [Mutexes -> Tasks \cup {NoTask}]
                 /\ \E f \in [Tasks -> Int] : uxMutexesHeld' = f
      <3>1. /\ xMutexHolder' = [xMutexHolder EXCEPT ![m] = NoTask]
            /\ uxMutexesHeld' = IF xMutexHolder[m] # NoTask
                                  THEN [uxMutexesHeld EXCEPT ![xMutexHolder[m]] = @ - 1]
                                  ELSE uxMutexesHeld
        BY <2>3 DEF GiveNow, PriorityDisinherit
      <3>2. CASE xMutexHolder[m] = NoTask
        <4>1. xMutexHolder' = xMutexHolder /\ uxMutexesHeld' = uxMutexesHeld
          BY <1>1, <3>1, <3>2
        <4>. QED
          BY <1>1, <4>1 DEF HeldCountRight
      <3>3. ASSUME NEW h \in Tasks, xMutexHolder[m] = h
            PROVE  /\ HeldCountRight' /\ xMutexHolder' \in [Mutexes -> Tasks \cup {NoTask}]
                   /\ \E f \in [Tasks -> Int] : uxMutexesHeld' = f
        <4>1. uxMutexesHeld' = [uxMutexesHeld EXCEPT ![h] = @ - 1]
          BY <1>0, <3>1, <3>3
        <4>2. /\ {n \in Mutexes : xMutexHolder'[n] = h} = Held(h) \ {m} /\ m \in Held(h)
              /\ \A u \in Tasks \ {h} : {n \in Mutexes : xMutexHolder'[n] = u} = Held(u)
          BY <1>0, <1>1, <3>1, <3>3 DEF Held
        <4>3. Cardinality(Held(h) \ {m}) = Cardinality(Held(h)) - 1
          BY <1>1, <4>2, FS_RemoveElement
        <4>4. HeldCountRight'
          BY <1>1, <4>1, <4>2, <4>3 DEF HeldCountRight
        <4>5. [uxMutexesHeld EXCEPT ![h] = @ - 1] \in [Tasks -> Int]
          BY <1>0, <1>1
        <4>. QED
          BY <1>1, <3>1, <4>1, <4>4, <4>5
      <3>. QED
        BY <1>1, <3>2, <3>3
    <2>. QED
      BY <2>1, <2>2, <2>3, HolderMoves DEF TakenBy
  <1>3. \A t \in Tasks : uxMutexesHeld'[t] \in 0 .. Cardinality(Mutexes)
    <2>1. ASSUME NEW t \in Tasks PROVE uxMutexesHeld'[t] \in 0 .. Cardinality(Mutexes)
      <3>1. LET H == {n \in Mutexes : xMutexHolder'[n] = t}
            IN  Cardinality(H) \in Nat /\ Cardinality(H) <= Cardinality(Mutexes)
        <4>1. {n \in Mutexes : xMutexHolder'[n] = t} \in SUBSET Mutexes
          OBVIOUS
        <4>. QED
          BY <1>0, <4>1, FS_Subset, FS_CardinalityType
      <3>. QED
        BY <1>0, <1>2, <3>1 DEF HeldCountRight
    <2>. QED
      BY <2>1
  <1>. QED
    BY <1>2, <1>3

\* The parts of a step.
StepOf(t) ==
  \/ Retry(t) \/ Block(t) \/ Final(t) \/ DisinheritAfterTimeout(t) \/ Expire(t)
  \/ GiveInside(t) \/ CountFirst(t)
  \/ \E m \in Mutexes : \/ Give(t, m) \/ TakeAgain(t, m) \/ GiveRecursive(t, m)
                        \/ \E wait \in Waits : Take(t, m, wait)
  \/ \E x \in Tasks, p \in Prios : PrioritySet(t, x, p)

LEMMA StepFacts ==
  ASSUME Next
  PROVE  usage' = usage /\ \E t \in Tasks : StepOf(t)
  BY DEF Next, StepOf

\* Priorities change for one task only.
LEMMA PriorityMoves ==
  ASSUME TypeOK, Next
  PROVE  \/ UNCHANGED prioVars
         \/ \E h \in Tasks, p \in Prios : SetBoth(h, p)
         \/ \E t, x \in Tasks, p \in Prios : PrioritySet(t, x, p)
  <1>. DEFINE Goal == \/ UNCHANGED prioVars
                      \/ \E h \in Tasks, p \in Prios : SetBoth(h, p)
                      \/ \E t, x \in Tasks, p \in Prios : PrioritySet(t, x, p)
  <1>0. /\ xMutexHolder \in [Mutexes -> Tasks \cup {NoTask}]
        /\ \A t \in Tasks : uxPriority[t] \in Prios /\ uxBasePriority[t] \in Prios
                            /\ eventPriority[t] \in Prios /\ op[t].mutex \in Mutexes
        /\ 0 \in Prios
    BY MutexAssumption DEF TypeOK, MutexAssumption, Prios
  <1>1. PICK t \in Tasks : StepOf(t)
    BY StepFacts
  <1>2. ASSUME NEW m \in Mutexes, GiveNow(t, m) PROVE Goal
    <2>1. CASE xMutexHolder[m] = NoTask
      BY <1>2, <2>1 DEF GiveNow, PriorityDisinherit
    <2>2. CASE xMutexHolder[m] # NoTask
      BY <1>0, <1>2, <2>2 DEF GiveNow, PriorityDisinherit
    <2>. QED
      BY <2>1, <2>2
  <1>3. CASE Block(t)
    BY <1>0, <1>3 DEF Block, PriorityInherit
  <1>4. CASE DisinheritAfterTimeout(t)
    <2>1. ASSUME NEW h \in Tasks, NEW m \in Mutexes PROVE PriorityToUse(m, h) \in Prios
      <3>1. HighestPriorityWaiting(m) \in Prios
        <4>1. CASE waiting[m] = <<>>
          BY <1>0, <4>1 DEF HighestPriorityWaiting
        <4>2. CASE waiting[m] # <<>>
          <5>1. Head(waiting[m]) \in Tasks
            BY <4>2, HeadTailProperties DEF TypeOK
          <5>. QED
            BY <1>0, <4>2, <5>1 DEF HighestPriorityWaiting
        <4>. QED
          BY <4>1, <4>2
      <3>. QED
        BY <1>0, <3>1 DEF PriorityToUse, Larger
    <2>2. CASE UNCHANGED prioVars
      BY <2>2
    <2>3. CASE LET m == op[t].mutex  h == xMutexHolder[m]
               IN  MustLower(m, h) /\ SetBoth(h, PriorityToUse(m, h))
      BY <1>0, <2>1, <2>3 DEF MustLower
    <2>. QED
      BY <1>4, <2>2, <2>3 DEF DisinheritAfterTimeout
  <1>5. CASE GiveInside(t)
    BY <1>0, <1>2, <1>5 DEF GiveInside
  <1>6. ASSUME NEW m \in Mutexes, Give(t, m) PROVE Goal
    BY <1>2, <1>6 DEF Give
  <1>7. CASE \/ Retry(t) \/ Final(t) \/ Expire(t) \/ CountFirst(t)
             \/ \E m \in Mutexes : \/ TakeAgain(t, m) \/ GiveRecursive(t, m)
                                   \/ \E wait \in Waits : Take(t, m, wait)
    BY <1>7 DEF Retry, Final, Expire, CountFirst, TakeAgain, GiveRecursive, Take
  <1>. QED
    BY <1>1, <1>3, <1>4, <1>5, <1>6, <1>7 DEF StepOf

LEMMA PriorityTypes ==
  ASSUME TypeOK, Next
  PROVE  /\ uxPriority' \in [Tasks -> Prios] /\ uxBasePriority' \in [Tasks -> Prios]
         /\ eventPriority' \in [Tasks -> Prios]
  <1>1. /\ uxPriority \in [Tasks -> Prios] /\ uxBasePriority \in [Tasks -> Prios]
        /\ eventPriority \in [Tasks -> Prios]
    BY DEF TypeOK
  <1>2. CASE UNCHANGED prioVars
    BY <1>1, <1>2 DEF prioVars
  <1>3. CASE \E h \in Tasks, p \in Prios : SetBoth(h, p)
    BY <1>1, <1>3 DEF SetBoth
  <1>4. CASE \E t, x \in Tasks, p \in Prios : PrioritySet(t, x, p)
    BY <1>1, <1>4 DEF PrioritySet
  <1>. QED
    BY <1>2, <1>3, <1>4, PriorityMoves

\* Lists change by an insertion, a time-out or a wake-up.
LEMMA WaitingMoves ==
  ASSUME TypeOK, Next
  PROVE  \/ UNCHANGED waiting
         \/ \E t \in Tasks : Block(t) /\ waiting' = Inserted(op[t].mutex, t)
         \/ \E t \in Tasks : Expire(t) /\ waiting' = [m \in Mutexes |-> Unlinked(waiting[m], t)]
         \/ \E t \in Tasks, m \in Mutexes :
              /\ GiveNow(t, m) /\ xMutexHolder[m] # NoTask
              /\ waiting[m] # <<>> /\ waiting' = [waiting EXCEPT ![m] = Tail(@)]
  <1>1. PICK t \in Tasks : StepOf(t)
    BY StepFacts
  <1>2. op[t].mutex \in Mutexes
    BY DEF TypeOK
  <1>3. CASE GiveInside(t)
    BY <1>2, <1>3 DEF GiveInside, GiveNow
  <1>4. ASSUME NEW m \in Mutexes, Give(t, m)
        PROVE  \/ UNCHANGED waiting
               \/ /\ GiveNow(t, m) /\ xMutexHolder[m] # NoTask
                  /\ waiting[m] # <<>> /\ waiting' = [waiting EXCEPT ![m] = Tail(@)]
    BY <1>4 DEF Give, GiveNow
  <1>5. CASE Block(t)
    BY <1>5 DEF Block
  <1>6. CASE Expire(t)
    BY <1>6 DEF Expire
  <1>7. CASE \/ Retry(t) \/ Final(t) \/ DisinheritAfterTimeout(t) \/ CountFirst(t)
             \/ \E m \in Mutexes : \/ TakeAgain(t, m) \/ GiveRecursive(t, m)
                                   \/ \E wait \in Waits : Take(t, m, wait)
             \/ \E x \in Tasks, p \in Prios : PrioritySet(t, x, p)
    BY <1>7 DEF Retry, Final, DisinheritAfterTimeout, CountFirst, TakeAgain, GiveRecursive,
                Take, PrioritySet
  <1>. QED
    BY <1>1, <1>3, <1>4, <1>5, <1>6, <1>7 DEF StepOf

LEMMA WaitingTypes ==
  ASSUME TypeOK, Next
  PROVE  waiting' \in [Mutexes -> Seq(Tasks)]
  <1>1. waiting \in [Mutexes -> Seq(Tasks)] /\ \A t \in Tasks : op[t].mutex \in Mutexes
    BY DEF TypeOK
  <1>2. eventPriority \in [Tasks -> Nat]
    BY DEF TypeOK, Prios
  <1>3. ASSUME NEW t \in Tasks, waiting' = Inserted(op[t].mutex, t)
        PROVE  waiting' \in [Mutexes -> Seq(Tasks)]
    BY <1>1, <1>2, <1>3, InsertedFacts
  <1>4. ASSUME NEW t \in Tasks, waiting' = [m \in Mutexes |-> Unlinked(waiting[m], t)]
        PROVE  waiting' \in [Mutexes -> Seq(Tasks)]
    BY <1>1, <1>4, UnlinkedFacts
  <1>5. ASSUME NEW m \in Mutexes, waiting[m] # <<>>, waiting' = [waiting EXCEPT ![m] = Tail(@)]
        PROVE  waiting' \in [Mutexes -> Seq(Tasks)]
    <2>1. Tail(waiting[m]) \in Seq(Tasks)
      BY <1>1, <1>5, TailFacts
    <2>. QED
      BY <1>1, <1>5, <2>1
  <1>. QED
    BY <1>1, <1>3, <1>4, <1>5, WaitingMoves

\* The calls and their counts.
CallTypes ==
  /\ pc \in [Tasks -> Labels]
  /\ op \in [Tasks -> [mutex : Mutexes, wait : Waits]]
  /\ expired \in [Tasks -> BOOLEAN]
  /\ xInheritanceOccurred \in [Tasks -> BOOLEAN]
  /\ depth \in [Tasks -> [Mutexes -> Nat]]
  /\ uxRecursiveCallCount \in [Mutexes -> Nat]

LEMMA CallTypesKept ==
  ASSUME MutexInv, Next
  PROVE  CallTypes'
  <1>0. CallTypes
    BY DEF MutexInv, TypeOK, CallTypes
  <1>1. PICK t \in Tasks : StepOf(t)
    BY StepFacts
  <1>2. op[t].mutex \in Mutexes
    BY <1>0 DEF CallTypes
  <1>3. ASSUME NEW l \in Labels, Goto(t, l) PROVE pc' \in [Tasks -> Labels]
    BY <1>0, <1>3 DEF Goto, CallTypes
  <1>4. ASSUME NEW m \in Mutexes, Took(t, m) PROVE depth' \in [Tasks -> [Mutexes -> Nat]]
    <2>1. depth[t][m] \in Nat /\ depth[t] \in [Mutexes -> Nat]
      BY <1>0 DEF CallTypes
    <2>2. depth' = [depth EXCEPT ![t] = [depth[t] EXCEPT ![m] = depth[t][m] + 1]]
      BY <1>4 DEF Took
    <2>. QED
      BY <1>0, <2>1, <2>2 DEF CallTypes
  <1>5. "idle" \in Labels /\ "top" \in Labels /\ "block" \in Labels /\ "final" \in Labels
        /\ "disinherit" \in Labels /\ "count" \in Labels /\ "give" \in Labels
        /\ "halt_time" \in Labels /\ "halt_own" \in Labels /\ "none" \in Waits
    BY DEF Labels, Waits
  <1>6. ASSUME NEW m \in Mutexes, Failed(t, m) PROVE pc' \in [Tasks -> Labels] /\ depth' = depth
    BY <1>3, <1>5, <1>6 DEF Failed
  <1>7. ASSUME NEW m \in Mutexes, TakeNow(t, m)
        PROVE  pc' \in [Tasks -> Labels] /\ depth' \in [Tasks -> [Mutexes -> Nat]]
    BY <1>0, <1>3, <1>4, <1>5, <1>7 DEF TakeNow, CallTypes
  <1>8. ASSUME NEW m \in Mutexes, NEW w, NEW i, CannotTake(t, m, w, i)
        PROVE  pc' \in [Tasks -> Labels] /\ depth' = depth
    BY <1>3, <1>5, <1>6, <1>8 DEF CannotTake
  <1>10. CASE Retry(t)
    BY <1>0, <1>2, <1>7, <1>8, <1>10 DEF Retry, CallTypes
  <1>11. CASE Block(t)
    <2>1. pc' \in [Tasks -> Labels]
      BY <1>3, <1>5, <1>11 DEF Block
    <2>2. op' \in [Tasks -> [mutex : Mutexes, wait : Waits]]
      BY <1>0, <1>2, <1>5, <1>11 DEF Block, CallTypes
    <2>3. xInheritanceOccurred' \in [Tasks -> BOOLEAN]
      <3>1. ASSUME NEW h, PriorityInherit(h, t)
            PROVE  xInheritanceOccurred' \in [Tasks -> BOOLEAN]
        BY <1>0, <3>1 DEF PriorityInherit, CallTypes
      <3>. QED
        BY <1>0, <1>11, <3>1 DEF Block, CallTypes
    <2>. QED
      BY <1>0, <1>11, <2>1, <2>2, <2>3 DEF Block, CallTypes, mutexVars
  <1>12. CASE Final(t)
    BY <1>0, <1>2, <1>3, <1>5, <1>6, <1>12 DEF Final, CallTypes, mutexVars
  <1>13. CASE DisinheritAfterTimeout(t)
    BY <1>0, <1>2, <1>3, <1>5, <1>6, <1>13 DEF DisinheritAfterTimeout, CallTypes, mutexVars
  <1>14. CASE Expire(t)
    BY <1>0, <1>14 DEF Expire, CallTypes, mutexVars
  <1>15. CASE GiveInside(t)
    BY <1>0, <1>3, <1>5, <1>15 DEF GiveInside, GiveNow, CallTypes
  <1>16. CASE CountFirst(t)
    BY <1>0, <1>2, <1>3, <1>4, <1>5, <1>16 DEF CountFirst, CallTypes
  <1>17. ASSUME NEW m \in Mutexes, Give(t, m) PROVE CallTypes'
    <2>1. depth[t] \in [Mutexes -> Nat] /\ depth[t][m] \in Nat /\ depth[t][m] > 0
      BY <1>0, <1>17 DEF Give, CallTypes
    <2>2. depth' = [depth EXCEPT ![t] = [depth[t] EXCEPT ![m] = depth[t][m] - 1]]
      BY <1>17 DEF Give
    <2>3. depth' \in [Tasks -> [Mutexes -> Nat]]
      BY <1>0, <2>1, <2>2 DEF CallTypes
    <2>. QED
      BY <1>0, <1>3, <1>5, <1>17, <2>3 DEF Give, GiveNow, CallTypes
  <1>18. ASSUME NEW m \in Mutexes, TakeAgain(t, m) PROVE CallTypes'
    BY <1>0, <1>4, <1>18 DEF TakeAgain, CallTypes
  <1>19. ASSUME NEW m \in Mutexes, GiveRecursive(t, m) PROVE CallTypes'
    <2>1. /\ uxRecursiveCallCount[m] \in Nat /\ uxRecursiveCallCount[m] # 0
          /\ depth[t] \in [Mutexes -> Nat] /\ depth[t][m] = uxRecursiveCallCount[m]
      BY <1>0, <1>19 DEF GiveRecursive, CallTypes, MutexInv, RecursionRight, CountsRight, InCall
    <2>n. uxRecursiveCallCount[m] - 1 \in Nat
      BY <2>1
    <2>2. /\ depth' = [depth EXCEPT ![t] = [depth[t] EXCEPT ![m] = uxRecursiveCallCount[m] - 1]]
          /\ uxRecursiveCallCount' =
               [uxRecursiveCallCount EXCEPT ![m] = uxRecursiveCallCount[m] - 1]
      BY <1>19, <2>1 DEF GiveRecursive
    <2>3. /\ depth' \in [Tasks -> [Mutexes -> Nat]]
          /\ uxRecursiveCallCount' \in [Mutexes -> Nat]
      BY <1>0, <2>1, <2>n, <2>2 DEF CallTypes
    <2>4. pc' \in [Tasks -> Labels]
      BY <1>0, <1>3, <1>5, <1>19 DEF GiveRecursive, CallTypes
    <2>5. op' \in [Tasks -> [mutex : Mutexes, wait : Waits]]
      <3>1. [mutex |-> m, wait |-> "none"] \in [mutex : Mutexes, wait : Waits]
        BY <1>5
      <3>2. \/ op' = op
            \/ op' = [op EXCEPT ![t] = [mutex |-> m, wait |-> "none"]]
        BY <1>19 DEF GiveRecursive
      <3>. QED
        BY <1>0, <3>1, <3>2 DEF CallTypes
    <2>. QED
      BY <1>0, <1>19, <2>3, <2>4, <2>5 DEF GiveRecursive, CallTypes
  <1>20. ASSUME NEW m \in Mutexes, NEW w \in Waits, Take(t, m, w) PROVE CallTypes'
    <2>1. pc' \in [Tasks -> Labels] /\ depth' \in [Tasks -> [Mutexes -> Nat]]
      BY <1>0, <1>7, <1>8, <1>20 DEF Take, CallTypes
    <2>. QED
      BY <1>0, <1>20, <2>1 DEF Take, CallTypes
  <1>21. ASSUME NEW x \in Tasks, NEW p \in Prios, PrioritySet(t, x, p) PROVE CallTypes'
    BY <1>0, <1>21 DEF PrioritySet, CallTypes, mutexVars
  <1>. QED
    BY <1>1, <1>10, <1>11, <1>12, <1>13, <1>14, <1>15, <1>16, <1>17, <1>18, <1>19, <1>20,
       <1>21 DEF StepOf

LEMMA MutexTypesKept ==
  ASSUME MutexInv, Next
  PROVE  TypeOK'
  <1>1. TypeOK /\ HeldCountRight
    BY DEF MutexInv
  <1>2. CallTypes' /\ waiting' \in [Mutexes -> Seq(Tasks)]
    BY <1>1, CallTypesKept, WaitingTypes
  <1>3. /\ uxPriority' \in [Tasks -> Prios] /\ uxBasePriority' \in [Tasks -> Prios]
        /\ eventPriority' \in [Tasks -> Prios]
    BY <1>1, PriorityTypes
  <1>4. /\ xMutexHolder' \in [Mutexes -> Tasks \cup {NoTask}]
        /\ uxMutexesHeld' \in [Tasks -> 0 .. Cardinality(Mutexes)]
    BY <1>1, HeldStep
  <1>. QED
    BY <1>2, <1>3, <1>4 DEF TypeOK, CallTypes

\* Only holders inherit, and the last mutex a task gives takes what it inherited.
LEMMA RestoredKept ==
  ASSUME MutexInv, Next
  PROVE  PriorityRestored'
  <1>0. /\ TypeOK /\ HeldCountRight /\ PriorityRestored /\ NoTask \notin Tasks
        /\ xMutexHolder \in [Mutexes -> Tasks \cup {NoTask}]
        /\ \A t \in Tasks : op[t].mutex \in Mutexes
        /\ \A t \in Tasks : uxMutexesHeld[t] \in Nat
        /\ uxMutexesHeld \in [Tasks -> 0 .. Cardinality(Mutexes)]
        /\ uxPriority \in [Tasks -> Prios] /\ uxBasePriority \in [Tasks -> Prios]
    BY MutexAssumption DEF MutexInv, TypeOK, MutexAssumption
  <1>1. PICK t \in Tasks : StepOf(t)
    BY StepFacts
  <1>2. ASSUME NEW m \in Mutexes, TakeNow(t, m), UNCHANGED prioVars PROVE PriorityRestored'
    BY <1>0, <1>2 DEF TakeNow, prioVars, PriorityRestored
  <1>3. ASSUME NEW m \in Mutexes, GiveNow(t, m) PROVE PriorityRestored'
    <2>1. CASE xMutexHolder[m] = NoTask
      BY <1>0, <1>3, <2>1 DEF GiveNow, PriorityDisinherit, PriorityRestored, prioVars
    <2>2. ASSUME NEW h \in Tasks, xMutexHolder[m] = h PROVE PriorityRestored'
      <3>1. /\ uxMutexesHeld' = [uxMutexesHeld EXCEPT ![h] = @ - 1]
            /\ IF uxPriority[h] # uxBasePriority[h] /\ uxMutexesHeld[h] = 1
                 THEN SetBoth(h, uxBasePriority[h])
                 ELSE UNCHANGED prioVars
        BY <1>0, <1>3, <2>2 DEF GiveNow, PriorityDisinherit
      <3>2. ASSUME NEW u \in Tasks, uxMutexesHeld'[u] = 0
            PROVE  uxPriority'[u] = uxBasePriority'[u]
        BY <1>0, <3>1, <3>2 DEF SetBoth, prioVars, PriorityRestored
      <3>. QED
        BY <3>2 DEF PriorityRestored
    <2>. QED
      BY <1>0, <2>1, <2>2
  <1>4. CASE Block(t)
    <2>. DEFINE m == op[t].mutex
                h == xMutexHolder[m]
    <2>1. uxMutexesHeld' = uxMutexesHeld
      BY <1>4 DEF Block
    <2>2. CASE UNCHANGED prioVars
      BY <1>0, <2>1, <2>2 DEF prioVars, PriorityRestored
    <2>3. CASE h # NoTask /\ SetBoth(h, uxPriority[t])
      <3>1. h \in Tasks /\ uxMutexesHeld[h] # 0
        BY <1>0, <2>3, HeldFacts
      <3>. QED
        BY <1>0, <2>1, <2>3, <3>1 DEF SetBoth, PriorityRestored
    <2>. QED
      BY <1>4, <2>2, <2>3 DEF Block, PriorityInherit
  <1>5. CASE DisinheritAfterTimeout(t)
    <2>. DEFINE m == op[t].mutex
                h == xMutexHolder[m]
    <2>1. uxMutexesHeld' = uxMutexesHeld
      BY <1>5 DEF DisinheritAfterTimeout
    <2>2. CASE UNCHANGED prioVars
      BY <1>0, <2>1, <2>2 DEF prioVars, PriorityRestored
    <2>3. CASE MustLower(m, h) /\ SetBoth(h, PriorityToUse(m, h))
      BY <1>0, <2>1, <2>3 DEF SetBoth, MustLower, PriorityRestored
    <2>. QED
      BY <1>5, <2>2, <2>3 DEF DisinheritAfterTimeout
  <1>6. ASSUME NEW m \in Mutexes, NEW wait \in Waits, Take(t, m, wait) PROVE PriorityRestored'
    <2>1. UNCHANGED prioVars
      BY <1>6 DEF Take
    <2>2. TakeNow(t, m) \/ UNCHANGED uxMutexesHeld
      BY <1>6 DEF Take, CannotTake
    <2>. QED
      BY <1>0, <1>2, <2>1, <2>2 DEF prioVars, PriorityRestored
  <1>7. CASE Retry(t)
    <2>1. UNCHANGED prioVars
      BY <1>7 DEF Retry
    <2>2. TakeNow(t, op[t].mutex) \/ UNCHANGED uxMutexesHeld
      BY <1>7 DEF Retry, CannotTake
    <2>. QED
      BY <1>0, <1>2, <2>1, <2>2 DEF prioVars, PriorityRestored
  <1>8. CASE GiveInside(t) \/ \E m \in Mutexes : Give(t, m)
    BY <1>0, <1>3, <1>8 DEF GiveInside, Give
  <1>9. CASE \/ Final(t) \/ Expire(t) \/ CountFirst(t)
             \/ \E m \in Mutexes : TakeAgain(t, m) \/ GiveRecursive(t, m)
    BY <1>0, <1>9 DEF Final, Expire, CountFirst, TakeAgain, GiveRecursive, prioVars,
                      PriorityRestored
  <1>10. ASSUME NEW x \in Tasks, NEW p \in Prios, PrioritySet(t, x, p) PROVE PriorityRestored'
    BY <1>0, <1>10 DEF PrioritySet, PriorityRestored
  <1>. QED
    BY <1>1, <1>4, <1>5, <1>6, <1>7, <1>8, <1>9, <1>10 DEF StepOf

\* What a step does to recursive mutexes that it does not take, count or give.
RecursionUnmoved ==
  /\ \A t \in Tasks : pc'[t] = "count" => op'[t].mutex \in Recursive
  /\ \A m \in Recursive :
       /\ xMutexHolder'[m] = xMutexHolder[m]
       /\ uxRecursiveCallCount'[m] = uxRecursiveCallCount[m]
       /\ \A t \in Tasks : depth'[t][m] = depth[t][m] /\ (InCall(t, m)' <=> InCall(t, m))

LEMMA RecursionKept ==
  ASSUME MutexInv, Next
  PROVE  RecursionRight'
  <1>0. /\ RecursionRight /\ NoTask \notin Tasks /\ Recursive \subseteq Mutexes
        /\ xMutexHolder \in [Mutexes -> Tasks \cup {NoTask}] /\ CallTypes
        /\ \A t \in Tasks : op[t].mutex \in Mutexes
    BY MutexAssumption DEF MutexInv, TypeOK, MutexAssumption, CallTypes
  <1>1. PICK t \in Tasks : StepOf(t)
    BY StepFacts
  <1>2. ASSUME RecursionUnmoved PROVE RecursionRight'
    BY <1>0, <1>2 DEF RecursionUnmoved, RecursionRight, CountsRight
  <1>3. ASSUME NEW m \in Recursive, TakeNow(t, m), UNCHANGED uxRecursiveCallCount,
               pc[t] \in {"idle", "top"}, op'[t].mutex = m,
               \A u \in Tasks \ {t} : op'[u] = op[u]
        PROVE  RecursionRight'
    <2>1. /\ xMutexHolder[m] = NoTask /\ xMutexHolder' = [xMutexHolder EXCEPT ![m] = t]
          /\ depth' = depth /\ pc' = [pc EXCEPT ![t] = "count"]
      BY <1>3 DEF TakeNow, Goto
    <2>2. \A u \in Tasks : pc'[u] = "count" => op'[u].mutex \in Recursive
      BY <1>0, <1>3, <2>1 DEF CallTypes, RecursionRight
    <2>3. \A n \in Recursive : xMutexHolder'[n] = NoTask => uxRecursiveCallCount'[n] = 0
      BY <1>0, <1>3, <2>1 DEF RecursionRight
    <2>4. \A u \in Tasks : CountsRight(m, u)'
      BY <1>0, <1>3, <2>1 DEF RecursionRight, CountsRight, InCall, CallTypes
    <2>5. \A n \in Recursive \ {m}, u \in Tasks : InCall(u, n)' <=> InCall(u, n)
      BY <1>0, <1>3, <2>1 DEF InCall, CallTypes, RecursionRight, CountsRight
    <2>6. \A n \in Recursive \ {m}, u \in Tasks : CountsRight(n, u)'
      BY <1>0, <1>3, <2>1, <2>5 DEF RecursionRight, CountsRight
    <2>. QED
      BY <2>2, <2>3, <2>4, <2>6 DEF RecursionRight
  \* A call that ends without a recursive mutex, or goes on.
  <1>4. ASSUME NEW l, l \notin {"count", "give"}, Goto(t, l), ~ (pc[t] \in {"count", "give"}),
               UNCHANGED <<mutexVars, depth>>, \A u \in Tasks \ {t} : op'[u] = op[u]
        PROVE  RecursionUnmoved
    BY <1>0, <1>4 DEF Goto, mutexVars, RecursionUnmoved, InCall, CallTypes, RecursionRight
  <1>5. ASSUME NEW m \in Mutexes, Failed(t, m), ~ (pc[t] \in {"count", "give"}),
               UNCHANGED mutexVars, \A u \in Tasks \ {t} : op'[u] = op[u], op'[t].mutex = m
        PROVE  RecursionUnmoved
    <2>1. CASE Goto(t, "idle")
      BY <1>4, <1>5, <2>1 DEF Failed
    <2>2. CASE Goto(t, "give") /\ m \notin Recursive
      BY <1>0, <1>5, <2>2 DEF Goto, mutexVars, RecursionUnmoved, InCall, CallTypes,
                              RecursionRight, Failed
    <2>. QED
      BY <1>5, <2>1, <2>2 DEF Failed
  <1>6. ASSUME NEW m \in Mutexes, NEW wait, NEW inh, CannotTake(t, m, wait, inh),
               ~ (pc[t] \in {"count", "give"}), UNCHANGED uxRecursiveCallCount,
               \A u \in Tasks \ {t} : op'[u] = op[u], op'[t].mutex = m
        PROVE  RecursionUnmoved
    BY <1>4, <1>5, <1>6 DEF CannotTake, mutexVars
  <1>7. ASSUME NEW m \in Mutexes, m \notin Recursive, TakeNow(t, m), UNCHANGED uxRecursiveCallCount,
               ~ (pc[t] \in {"count", "give"}),
               \A u \in Tasks \ {t} : op'[u] = op[u], op'[t].mutex = m
        PROVE  RecursionUnmoved
    <2>1. /\ xMutexHolder' = [xMutexHolder EXCEPT ![m] = t] /\ pc' = [pc EXCEPT ![t] = "idle"]
          /\ depth' = [depth EXCEPT ![t][m] = @ + 1]
      BY <1>7 DEF TakeNow, Goto, Took
    <2>2. \A n \in Recursive, u \in Tasks : n # m /\ depth'[u][n] = depth[u][n]
      BY <1>0, <1>7, <2>1 DEF CallTypes
    <2>. QED
      BY <1>0, <1>7, <2>1, <2>2 DEF RecursionUnmoved, InCall, CallTypes, RecursionRight
  <1>10. CASE Retry(t)
    <2>1. /\ pc[t] = "top" /\ op' = op /\ UNCHANGED uxRecursiveCallCount /\ UNCHANGED prioVars
          /\ \/ TakeNow(t, op[t].mutex)
             \/ CannotTake(t, op[t].mutex, op[t].wait, xInheritanceOccurred[t])
      BY <1>10 DEF Retry
    <2>. QED
      BY <1>0, <1>2, <1>3, <1>6, <1>7, <2>1
  <1>11. ASSUME NEW m \in Mutexes, NEW wait \in Waits, Take(t, m, wait) PROVE RecursionRight'
    <2>1. /\ pc[t] = "idle" /\ UNCHANGED uxRecursiveCallCount
          /\ op' = [op EXCEPT ![t] = [mutex |-> m, wait |-> wait]]
          /\ TakeNow(t, m) \/ CannotTake(t, m, wait, FALSE)
      BY <1>11 DEF Take
    <2>2. (\A u \in Tasks \ {t} : op'[u] = op[u]) /\ op'[t].mutex = m
      BY <1>0, <2>1 DEF CallTypes
    <2>. QED
      BY <1>0, <1>2, <1>3, <1>6, <1>7, <2>1, <2>2
  <1>12. CASE Block(t)
    <2>1. PICK l \in {"final", "top"} : Goto(t, l)
      BY <1>12 DEF Block
    <2>2. pc[t] = "block" /\ UNCHANGED <<mutexVars, depth>> /\ \A u \in Tasks \ {t} : op'[u] = op[u]
      BY <1>0, <1>12 DEF Block, CallTypes
    <2>. QED
      BY <1>2, <1>4, <2>1, <2>2
  <1>13. CASE Final(t)
    <2>1. pc[t] = "final" /\ UNCHANGED <<mutexVars, op>>
      BY <1>13 DEF Final
    <2>2. CASE Failed(t, op[t].mutex)
      BY <1>0, <1>2, <1>5, <2>1, <2>2
    <2>3. CASE \E l \in {"top", "disinherit"} : Goto(t, l) /\ UNCHANGED depth
      BY <1>2, <1>4, <2>1, <2>3
    <2>. QED
      BY <1>13, <2>2, <2>3 DEF Final
  <1>14. CASE DisinheritAfterTimeout(t)
    <2>1. pc[t] = "disinherit" /\ UNCHANGED <<mutexVars, op>>
      BY <1>14 DEF DisinheritAfterTimeout
    <2>2. CASE Failed(t, op[t].mutex)
      BY <1>0, <1>2, <1>5, <2>1, <2>2
    <2>3. CASE Goto(t, "halt_own") /\ UNCHANGED depth
      BY <1>2, <1>4, <2>1, <2>3
    <2>. QED
      BY <1>14, <2>2, <2>3 DEF DisinheritAfterTimeout
  <1>15. CASE Expire(t) \/ \E x \in Tasks, p \in Prios : PrioritySet(t, x, p)
    <2>1. UNCHANGED <<mutexVars, pc, op, depth>>
      BY <1>15 DEF Expire, PrioritySet
    <2>. QED
      BY <1>0, <1>2, <2>1 DEF mutexVars, RecursionUnmoved, InCall, RecursionRight
  <1>16. ASSUME NEW m \in Mutexes, Give(t, m) PROVE RecursionRight'
    <2>1. /\ m \notin Recursive /\ pc[t] = "idle" /\ UNCHANGED <<uxRecursiveCallCount, op>>
          /\ depth' = [depth EXCEPT ![t][m] = @ - 1]
          /\ xMutexHolder' = [xMutexHolder EXCEPT ![m] = NoTask] /\ pc' = [pc EXCEPT ![t] = "idle"]
      BY <1>16 DEF Give, GiveNow, Goto
    <2>2. \A n \in Recursive, u \in Tasks : n # m /\ depth'[u][n] = depth[u][n]
      BY <1>0, <2>1 DEF CallTypes
    <2>3. RecursionUnmoved
      BY <1>0, <2>1, <2>2 DEF RecursionUnmoved, InCall, CallTypes, RecursionRight
    <2>. QED
      BY <1>2, <2>3
  <1>17. CASE GiveInside(t)
    <2>. DEFINE m == op[t].mutex
    <2>1. /\ pc[t] = "give" /\ UNCHANGED <<uxRecursiveCallCount, op, depth>>
          /\ xMutexHolder' = [xMutexHolder EXCEPT ![m] = NoTask] /\ pc' = [pc EXCEPT ![t] = "idle"]
      BY <1>17 DEF GiveInside, GiveNow, Goto
    <2>2. \A n \in Recursive \ {m}, u \in Tasks : InCall(u, n)' <=> InCall(u, n)
      BY <1>0, <2>1 DEF InCall, CallTypes
    <2>3. \A u \in Tasks : pc'[u] = "count" => op'[u].mutex \in Recursive
      BY <1>0, <2>1 DEF CallTypes, RecursionRight
    <2>4. \A n \in Recursive \ {m} :
             /\ xMutexHolder'[n] = xMutexHolder[n]
             /\ \A u \in Tasks : CountsRight(n, u)'
      BY <1>0, <2>1, <2>2 DEF RecursionRight, CountsRight
    <2>5. ASSUME m \in Recursive
          PROVE  /\ uxRecursiveCallCount[m] = 0
                 /\ \A u \in Tasks : CountsRight(m, u)'
      <3>1. xMutexHolder[m] = t /\ uxRecursiveCallCount[m] = 0 /\ depth[t][m] = 0
        BY <1>0, <2>1, <2>5 DEF RecursionRight, CountsRight, InCall
      <3>2. \A u \in Tasks \ {t} : depth[u][m] = 0 /\ ~InCall(u, m)
        BY <1>0, <2>5, <3>1 DEF RecursionRight, CountsRight
      <3>3. \A u \in Tasks : ~InCall(u, m)'
        BY <1>0, <2>1, <3>2 DEF InCall, CallTypes
      <3>. QED
        BY <1>0, <2>1, <2>5, <3>1, <3>2, <3>3 DEF CountsRight
    <2>. QED
      BY <1>0, <2>1, <2>3, <2>4, <2>5 DEF RecursionRight
  <1>18. CASE CountFirst(t)
    <2>. DEFINE m == op[t].mutex
    <2>1. /\ pc[t] = "count" /\ UNCHANGED <<xMutexHolder, op>> /\ pc' = [pc EXCEPT ![t] = "idle"]
          /\ uxRecursiveCallCount' = [uxRecursiveCallCount EXCEPT ![m] = @ + 1]
          /\ depth' = [depth EXCEPT ![t][m] = @ + 1]
      BY <1>18 DEF CountFirst, Goto, Took
    <2>2. m \in Recursive /\ xMutexHolder[m] = t /\ uxRecursiveCallCount[m] = 0 /\ depth[t][m] = 0
      BY <1>0, <2>1 DEF RecursionRight, CountsRight, InCall
    <2>3. /\ uxRecursiveCallCount'[m] = 1 /\ depth'[t][m] = 1 /\ ~InCall(t, m)'
          /\ \A u \in Tasks \ {t} : depth'[u][m] = depth[u][m] /\ (InCall(u, m)' <=> InCall(u, m))
          /\ \A n \in Recursive \ {m} :
               /\ uxRecursiveCallCount'[n] = uxRecursiveCallCount[n]
               /\ \A u \in Tasks : depth'[u][n] = depth[u][n] /\ (InCall(u, n)' <=> InCall(u, n))
      BY <1>0, <2>1, <2>2 DEF CallTypes, InCall
    <2>. QED
      BY <1>0, <2>1, <2>2, <2>3 DEF RecursionRight, CountsRight, CallTypes
  <1>19. ASSUME NEW m \in Mutexes, TakeAgain(t, m) PROVE RecursionRight'
    <2>1. /\ pc[t] = "idle" /\ UNCHANGED <<xMutexHolder, op, pc>>
          /\ uxRecursiveCallCount' = [uxRecursiveCallCount EXCEPT ![m] = @ + 1]
          /\ depth' = [depth EXCEPT ![t][m] = @ + 1] /\ m \in Recursive /\ xMutexHolder[m] = t
      BY <1>19 DEF TakeAgain, Took
    <2>2. /\ uxRecursiveCallCount'[m] = uxRecursiveCallCount[m] + 1
          /\ uxRecursiveCallCount[m] \in Nat
          /\ depth[t][m] = uxRecursiveCallCount[m] /\ depth'[t][m] = depth[t][m] + 1
          /\ \A u \in Tasks \ {t} : depth'[u][m] = depth[u][m]
          /\ \A n \in Recursive \ {m} :
               /\ uxRecursiveCallCount'[n] = uxRecursiveCallCount[n]
               /\ \A u \in Tasks : depth'[u][n] = depth[u][n]
      BY <1>0, <2>1 DEF CallTypes, RecursionRight, CountsRight
    <2>3. /\ \A u \in Tasks, n \in Recursive : InCall(u, n)' <=> InCall(u, n)
          /\ ~InCall(t, m)
      BY <1>0, <2>1 DEF InCall
    <2>. QED
      BY <1>0, <2>1, <2>2, <2>3 DEF RecursionRight, CountsRight
  <1>20. ASSUME NEW m \in Mutexes, GiveRecursive(t, m) PROVE RecursionRight'
    <2>1. /\ pc[t] = "idle" /\ UNCHANGED xMutexHolder /\ m \in Recursive /\ xMutexHolder[m] = t
          /\ uxRecursiveCallCount' = [uxRecursiveCallCount EXCEPT ![m] = @ - 1]
          /\ depth' = [depth EXCEPT ![t][m] = @ - 1]
          /\ IF uxRecursiveCallCount[m] - 1 = 0
               THEN /\ pc' = [pc EXCEPT ![t] = "give"]
                    /\ op' = [op EXCEPT ![t] = [mutex |-> m, wait |-> "none"]]
               ELSE UNCHANGED <<pc, op>>
      BY <1>20 DEF GiveRecursive, Goto, IsLast
    <2>2. /\ uxRecursiveCallCount'[m] = uxRecursiveCallCount[m] - 1
          /\ uxRecursiveCallCount[m] \in Nat /\ uxRecursiveCallCount[m] # 0
          /\ depth[t][m] = uxRecursiveCallCount[m] /\ depth'[t][m] = depth[t][m] - 1
          /\ \A u \in Tasks \ {t} : depth'[u][m] = depth[u][m]
          /\ \A n \in Recursive \ {m} :
               /\ uxRecursiveCallCount'[n] = uxRecursiveCallCount[n]
               /\ \A u \in Tasks : depth'[u][n] = depth[u][n]
      BY <1>0, <2>1 DEF CallTypes, RecursionRight, CountsRight, InCall
    <2>3. /\ InCall(t, m)' <=> uxRecursiveCallCount[m] - 1 = 0
          /\ \A u \in Tasks \ {t} : InCall(u, m)' <=> InCall(u, m)
          /\ \A u \in Tasks, n \in Recursive \ {m} : InCall(u, n)' <=> InCall(u, n)
      BY <1>0, <2>1 DEF InCall, CallTypes
    <2>4. \A u \in Tasks : pc'[u] = "count" => op'[u].mutex \in Recursive
      BY <1>0, <2>1 DEF CallTypes, RecursionRight
    <2>. QED
      BY <1>0, <2>1, <2>2, <2>3, <2>4 DEF RecursionRight, CountsRight
  <1>. QED
    BY <1>1, <1>10, <1>11, <1>12, <1>13, <1>14, <1>15, <1>16, <1>17, <1>18, <1>19, <1>20
       DEF StepOf

\* Careful tasks give plain mutexes only that they took.
PlainOwned(m, t) ==
  /\ depth[t][m] = IF xMutexHolder[m] = t THEN 1 ELSE 0
  /\ ~(pc[t] = "give" /\ op[t].mutex = m)

LEMMA PlainKept ==
  ASSUME MutexInv, Next
  PROVE  PlainRight'
  <1>0. /\ RecursionRight /\ NoTask \notin Tasks /\ Recursive \subseteq Mutexes
        /\ xMutexHolder \in [Mutexes -> Tasks \cup {NoTask}] /\ CallTypes
        /\ \A t \in Tasks : op[t].mutex \in Mutexes
    BY MutexAssumption DEF MutexInv, TypeOK, MutexAssumption, CallTypes
  <1>. SUFFICES ASSUME ~IgnoresFailure, NEW m \in Mutexes \ Recursive, NEW u \in Tasks
                PROVE  PlainOwned(m, u)'
    BY StepFacts DEF PlainRight, PlainOwned, IgnoresFailure
  <1>1. PICK t \in Tasks : StepOf(t)
    BY StepFacts
  <1>2. \A v \in Tasks : PlainOwned(m, v)
    BY DEF MutexInv, PlainRight, PlainOwned
  <1>3. ASSUME xMutexHolder'[m] = xMutexHolder[m], depth'[u][m] = depth[u][m],
               pc'[u] = "give" /\ op'[u].mutex = m => pc[u] = "give" /\ op[u].mutex = m
        PROVE  PlainOwned(m, u)'
    BY <1>2, <1>3 DEF PlainOwned
  <1>4. ASSUME NEW n \in Mutexes, TakeNow(t, n), \A v \in Tasks \ {t} : op'[v] = op[v]
        PROVE  PlainOwned(m, u)'
    <2>1. /\ xMutexHolder' = [xMutexHolder EXCEPT ![n] = t] /\ xMutexHolder[n] = NoTask
          /\ \E l \in {"count", "idle"} : pc' = [pc EXCEPT ![t] = l]
      BY <1>4 DEF TakeNow, Goto
    <2>2. pc'[u] = "give" /\ op'[u].mutex = m => pc[u] = "give" /\ op[u].mutex = m
      BY <1>0, <1>4, <2>1 DEF CallTypes
    <2>3. CASE n = m
      <3>1. depth' = [depth EXCEPT ![t][m] = @ + 1]
        BY <1>4, <2>3 DEF TakeNow, Took
      <3>2. depth[t][m] = 0 /\ depth[u][m] = 0
        BY <1>0, <1>2, <2>1, <2>3 DEF PlainOwned
      <3>. QED
        BY <1>0, <1>2, <2>1, <2>2, <2>3, <3>1, <3>2 DEF PlainOwned, CallTypes
    <2>4. CASE n # m
      <3>1. depth'[u][m] = depth[u][m]
        BY <1>0, <1>4, <2>4 DEF TakeNow, Took, CallTypes
      <3>. QED
        BY <1>0, <1>3, <2>1, <2>2, <2>4, <3>1
    <2>. QED
      BY <2>3, <2>4
  \* Whatever leaves holders and counts alone, and does not go and give.
  <1>5. ASSUME NEW l, l # "give", Goto(t, l), UNCHANGED <<xMutexHolder, depth>>,
               \A v \in Tasks \ {t} : op'[v] = op[v]
        PROVE  PlainOwned(m, u)'
    BY <1>0, <1>3, <1>5 DEF Goto, CallTypes
  <1>6. ASSUME NEW n \in Mutexes, Failed(t, n), UNCHANGED xMutexHolder,
               \A v \in Tasks \ {t} : op'[v] = op[v]
        PROVE  PlainOwned(m, u)'
    BY <1>5, <1>6 DEF Failed
  <1>7. ASSUME NEW n \in Mutexes, NEW wait, NEW inh, CannotTake(t, n, wait, inh),
               \A v \in Tasks \ {t} : op'[v] = op[v]
        PROVE  PlainOwned(m, u)'
    BY <1>5, <1>6, <1>7 DEF CannotTake
  <1>10. CASE Retry(t)
    <2>1. /\ op' = op
          /\ \/ TakeNow(t, op[t].mutex)
             \/ CannotTake(t, op[t].mutex, op[t].wait, xInheritanceOccurred[t])
      BY <1>10 DEF Retry
    <2>. QED
      BY <1>0, <1>4, <1>7, <2>1
  <1>11. ASSUME NEW n \in Mutexes, NEW wait \in Waits, Take(t, n, wait) PROVE PlainOwned(m, u)'
    <2>1. /\ op' = [op EXCEPT ![t] = [mutex |-> n, wait |-> wait]]
          /\ TakeNow(t, n) \/ CannotTake(t, n, wait, FALSE)
      BY <1>11 DEF Take
    <2>2. \A v \in Tasks \ {t} : op'[v] = op[v]
      BY <1>0, <2>1 DEF CallTypes
    <2>. QED
      BY <1>0, <1>4, <1>7, <2>1, <2>2
  <1>12. CASE Block(t)
    <2>1. PICK l \in {"final", "top"} : Goto(t, l)
      BY <1>12 DEF Block
    <2>2. UNCHANGED <<mutexVars, depth>> /\ \A v \in Tasks \ {t} : op'[v] = op[v]
      BY <1>0, <1>12 DEF Block, CallTypes
    <2>. QED
      BY <1>5, <2>1, <2>2 DEF mutexVars
  <1>13. CASE Final(t)
    <2>1. UNCHANGED <<mutexVars, op>>
      BY <1>13 DEF Final
    <2>2. CASE Failed(t, op[t].mutex)
      BY <1>0, <1>6, <2>1, <2>2 DEF mutexVars
    <2>3. CASE \E l \in {"top", "disinherit"} : Goto(t, l) /\ UNCHANGED depth
      BY <1>5, <2>1, <2>3 DEF mutexVars
    <2>. QED
      BY <1>13, <2>2, <2>3 DEF Final
  <1>14. CASE DisinheritAfterTimeout(t)
    <2>1. UNCHANGED <<mutexVars, op>>
      BY <1>14 DEF DisinheritAfterTimeout
    <2>2. CASE Failed(t, op[t].mutex)
      BY <1>0, <1>6, <2>1, <2>2 DEF mutexVars
    <2>3. CASE Goto(t, "halt_own") /\ UNCHANGED depth
      BY <1>5, <2>1, <2>3 DEF mutexVars
    <2>. QED
      BY <1>14, <2>2, <2>3 DEF DisinheritAfterTimeout
  <1>15. CASE Expire(t) \/ \E x \in Tasks, p \in Prios : PrioritySet(t, x, p)
    <2>1. UNCHANGED <<mutexVars, pc, op, depth>>
      BY <1>15 DEF Expire, PrioritySet
    <2>. QED
      BY <1>3, <2>1 DEF mutexVars
  <1>16. ASSUME NEW n \in Mutexes, Give(t, n) PROVE PlainOwned(m, u)'
    <2>1. /\ depth[t][n] > 0 /\ n \notin Recursive /\ UNCHANGED op
          /\ depth' = [depth EXCEPT ![t][n] = @ - 1]
          /\ xMutexHolder' = [xMutexHolder EXCEPT ![n] = NoTask] /\ pc' = [pc EXCEPT ![t] = "idle"]
      BY <1>16 DEF Give, GiveNow, Goto
    <2>2. pc'[u] = "give" /\ op'[u].mutex = m => pc[u] = "give" /\ op[u].mutex = m
      BY <1>0, <2>1 DEF CallTypes
    <2>3. CASE n = m
      <3>1. xMutexHolder[m] = t /\ depth[t][m] = 1
        BY <1>2, <2>1, <2>3 DEF PlainOwned
      <3>2. depth'[u][m] = 0
        BY <1>0, <1>2, <2>1, <2>3, <3>1 DEF CallTypes, PlainOwned
      <3>3. xMutexHolder'[m] # u
        BY <1>0, <2>1, <2>3
      <3>. QED
        BY <1>2, <2>2, <3>2, <3>3 DEF PlainOwned
    <2>4. CASE n # m
      <3>1. depth'[u][m] = depth[u][m] /\ xMutexHolder'[m] = xMutexHolder[m]
        BY <1>0, <2>1, <2>4 DEF CallTypes
      <3>. QED
        BY <1>3, <2>2, <3>1
    <2>. QED
      BY <2>3, <2>4
  <1>17. CASE GiveInside(t)
    <2>1. /\ pc[t] = "give" /\ UNCHANGED <<op, depth>>
          /\ xMutexHolder' = [xMutexHolder EXCEPT ![op[t].mutex] = NoTask]
          /\ pc' = [pc EXCEPT ![t] = "idle"]
      BY <1>17 DEF GiveInside, GiveNow, Goto
    <2>2. op[t].mutex # m
      BY <1>2, <2>1 DEF PlainOwned
    <2>. QED
      BY <1>0, <1>3, <2>1, <2>2 DEF CallTypes
  <1>18. CASE CountFirst(t)
    <2>1. /\ pc[t] = "count" /\ UNCHANGED <<xMutexHolder, op>> /\ pc' = [pc EXCEPT ![t] = "idle"]
          /\ depth' = [depth EXCEPT ![t][op[t].mutex] = @ + 1]
      BY <1>18 DEF CountFirst, Goto, Took
    <2>2. op[t].mutex # m
      BY <1>0, <2>1 DEF RecursionRight
    <2>. QED
      BY <1>0, <1>3, <2>1, <2>2 DEF CallTypes
  <1>19. ASSUME NEW n \in Mutexes, TakeAgain(t, n) PROVE PlainOwned(m, u)'
    <2>1. /\ UNCHANGED <<xMutexHolder, op, pc>> /\ n # m
          /\ depth' = [depth EXCEPT ![t][n] = @ + 1]
      BY <1>19 DEF TakeAgain, Took
    <2>. QED
      BY <1>0, <1>3, <2>1 DEF CallTypes
  <1>20. ASSUME NEW n \in Mutexes, GiveRecursive(t, n) PROVE PlainOwned(m, u)'
    <2>1. /\ UNCHANGED xMutexHolder /\ n # m /\ depth' = [depth EXCEPT ![t][n] = @ - 1]
          /\ \/ UNCHANGED <<pc, op>>
             \/ op' = [op EXCEPT ![t] = [mutex |-> n, wait |-> "none"]]
                /\ pc' = [pc EXCEPT ![t] = "give"]
      BY <1>20 DEF GiveRecursive, Goto
    <2>. QED
      BY <1>0, <1>3, <2>1 DEF CallTypes
  <1>. QED
    BY <1>1, <1>10, <1>11, <1>12, <1>13, <1>14, <1>15, <1>16, <1>17, <1>18, <1>19, <1>20
       DEF StepOf

LEMMA MutexInit ==
  ASSUME Init
  PROVE  MutexInv
  <1>0. /\ NoTask \notin Tasks /\ Recursive \subseteq Mutexes /\ IsFiniteSet(Mutexes)
        /\ Cardinality(Mutexes) \in Nat
    BY MutexAssumption, FS_CardinalityType DEF MutexAssumption
  <1>1. TypeOK
    <2>1. \A f \in [Tasks -> [mutex : Mutexes, wait : {"none"}]] :
             f \in [Tasks -> [mutex : Mutexes, wait : Waits]]
      BY DEF Waits
    <2>2. op \in [Tasks -> [mutex : Mutexes, wait : Waits]]
      BY <2>1 DEF Init
    <2>3. uxMutexesHeld \in [Tasks -> 0 .. Cardinality(Mutexes)]
      BY <1>0 DEF Init
    <2>4. waiting \in [Mutexes -> Seq(Tasks)] /\ pc \in [Tasks -> Labels]
      BY DEF Init, Labels
    <2>. QED
      BY <2>2, <2>3, <2>4 DEF Init, TypeOK
  <1>2. HeldCountRight
    <2>1. \A t \in Tasks : {m \in Mutexes : xMutexHolder[m] = t} = {}
      BY <1>0 DEF Init
    <2>. QED
      BY <2>1, FS_EmptySet DEF HeldCountRight, Init
  <1>3. PriorityRestored
    BY DEF Init, PriorityRestored
  <1>4. RecursionRight /\ PlainRight
    BY <1>0 DEF Init, RecursionRight, CountsRight, InCall, PlainRight
  <1>. QED
    BY <1>1, <1>2, <1>3, <1>4 DEF MutexInv, Init

LEMMA MutexStep ==
  ASSUME MutexInv, [Next]_vars
  PROVE  MutexInv'
  <1>1. CASE UNCHANGED vars
    <2>. USE <1>1 DEF vars, mutexVars, prioVars
    <2>1. TypeOK'
      BY DEF MutexInv, TypeOK
    <2>2. HeldCountRight' /\ PriorityRestored'
      BY DEF MutexInv, HeldCountRight, PriorityRestored
    <2>3. RecursionRight' /\ PlainRight' /\ usage' \in Usages
      BY DEF MutexInv, RecursionRight, CountsRight, InCall, PlainRight, IgnoresFailure
    <2>. QED
      BY <2>1, <2>2, <2>3 DEF MutexInv
  <1>2. CASE Next
    <2>1. TypeOK /\ HeldCountRight /\ usage' \in Usages
      BY <1>2, StepFacts DEF MutexInv
    <2>. QED
      BY <1>2, <2>1, MutexTypesKept, HeldStep, RestoredKept, RecursionKept, PlainKept
         DEF MutexInv
  <1>. QED
    BY <1>1, <1>2

LEMMA MutexInvAlways == Spec => []MutexInv
  <1>1. Init => MutexInv
    BY MutexInit
  <1>2. MutexInv /\ [Next]_vars => MutexInv'
    BY MutexStep
  <1>. QED
    BY <1>1, <1>2, PTL DEF Spec

\* Types and ranges of the mutexes, their lists and the calls.
THEOREM MutexTypesCorrect == Spec => []TypeOK
  <1>1. MutexInv => TypeOK
    BY DEF MutexInv
  <1>. QED
    BY <1>1, MutexInvAlways, PTL

\* Mutual exclusion, for plain and recursive mutexes: whoever has taken a mutex more
\* often than it has given it back is its holder, unless somebody gives what it failed
\* to take; and uxMutexesHeld counts the mutexes held in any case (queue.c
\* xQueueSemaphoreTake, xQueueGenericSend, the recursive calls; tasks.c
\* pvTaskIncrementMutexHeldCount, xTaskPriorityDisinherit).
THEOREM HoldersCorrect == Spec => []HoldersRight
  <1>1. MutexInv => HoldersRight
    <2>. SUFFICES ASSUME MutexInv PROVE HeldUntilGiven
      BY DEF HoldersRight, MutexInv
    <2>. SUFFICES ASSUME ~IgnoresFailure, NEW t \in Tasks, NEW m \in Mutexes, depth[t][m] > 0
                  PROVE  xMutexHolder[m] = t
      BY DEF HeldUntilGiven
    <2>1. CASE m \in Recursive
      BY <2>1 DEF MutexInv, RecursionRight, CountsRight
    <2>2. CASE m \notin Recursive
      BY <2>2 DEF MutexInv, PlainRight
    <2>. QED
      BY <2>1, <2>2
  <1>. QED
    BY <1>1, MutexInvAlways, PTL

\* What a task inherited is gone when it holds no mutex any more, however it took and
\* gave them, and whoever timed out meanwhile (tasks.c xTaskPriorityInherit,
\* xTaskPriorityDisinherit, vTaskPriorityDisinheritAfterTimeout, vTaskPrioritySet).
THEOREM PriorityRestoredCorrect == Spec => []PriorityRestored
  <1>1. MutexInv => PriorityRestored
    BY DEF MutexInv
  <1>. QED
    BY <1>1, MutexInvAlways, PTL
-----------------------------------------------------------------------------
\* No priority inversion.

\* A task in a waiting list is in its call for that mutex, and there once.
WaitersRight ==
  \A m \in Mutexes :
    /\ NoneTwice(waiting[m])
    /\ \A t \in Elems(waiting[m]) : t \in Tasks /\ pc[t] = "top" /\ op[t].mutex = m

\* In a call that waits, or has waited.
WaitLabels == {"top", "block", "final", "disinherit", "halt_time"}

\* A free mutex that tasks wait for has been given to one, as urgent as they are, that
\* has not taken it yet.
Handed(m, u) ==
  \E v \in Tasks : /\ pc[v] = "top" /\ ~IsWaiting(v) /\ op[v].mutex = m
                   /\ uxPriority[u] <= uxPriority[v]

\* Of tasks that hold nothing while they wait, at priorities of their own: places in the
\* lists are by the priority a task has, and nobody waits for a less urgent task.
CallersHoldNone == \A t \in Tasks : pc[t] \in WaitLabels => uxMutexesHeld[t] = 0
ListsOrdered == \A m \in Mutexes : Ordered(waiting[m], uxPriority)
FreeHanded ==
  \A m \in Mutexes : xMutexHolder[m] = NoTask => \A u \in Elems(waiting[m]) : Handed(m, u)
HoldersUrgent ==
  \A m \in Mutexes : \A t \in Elems(waiting[m]) :
    xMutexHolder[m] # NoTask => uxPriority[t] <= uxPriority[xMutexHolder[m]]

InversionInv ==
  /\ WaitersRight
  /\ Simple => /\ eventPriority = uxPriority
               /\ CallersHoldNone /\ ListsOrdered /\ FreeHanded /\ HoldersUrgent

\* Who moves in a step: tasks outside a waiting call may start one.
LEMMA CallMoves ==
  ASSUME TypeOK, Next, NEW v \in Tasks
  PROVE  \/ pc'[v] = pc[v] /\ op'[v] = op[v] /\ xInheritanceOccurred'[v] = xInheritanceOccurred[v]
         \/ pc[v] \notin WaitLabels /\ pc'[v] \notin WaitLabels
         \/ \E m \in Mutexes, wait \in Waits : Take(v, m, wait)
         \/ Retry(v) \/ Block(v) \/ Final(v) \/ DisinheritAfterTimeout(v)
  <1>0. CallTypes
    BY DEF TypeOK, CallTypes
  <1>1. PICK t \in Tasks : StepOf(t)
    BY StepFacts
  <1>2. CASE t # v /\ \E m \in Mutexes, wait \in Waits : Take(t, m, wait)
    <2>1. PICK m \in Mutexes, wait \in Waits : Take(t, m, wait)
      BY <1>2
    <2>2. pc'[v] = pc[v]
      BY <1>0, <1>2, <2>1 DEF Take, TakeNow, CannotTake, Failed, Goto, CallTypes
    <2>. QED
      BY <1>0, <1>2, <2>1, <2>2 DEF Take, CallTypes
  <1>3. CASE t # v /\ Retry(t)
    BY <1>0, <1>3 DEF Retry, TakeNow, CannotTake, Failed, Goto, CallTypes
  <1>4. CASE t # v /\ Block(t)
    BY <1>0, <1>4 DEF Block, PriorityInherit, Goto, CallTypes
  <1>5. CASE t # v /\ (Final(t) \/ DisinheritAfterTimeout(t))
    BY <1>0, <1>5 DEF Final, DisinheritAfterTimeout, Failed, Goto, CallTypes
  <1>6. CASE Expire(t) \/ \E m \in Mutexes : TakeAgain(t, m)
    BY <1>6 DEF Expire, TakeAgain
  <1>7. CASE \E x \in Tasks, p \in Prios : PrioritySet(t, x, p)
    BY <1>7 DEF PrioritySet
  <1>8. CASE GiveInside(t) \/ CountFirst(t) \/ \E m \in Mutexes : Give(t, m)
    BY <1>0, <1>8 DEF GiveInside, CountFirst, Give, GiveNow, Goto, CallTypes, WaitLabels
  <1>9. CASE \E m \in Mutexes : GiveRecursive(t, m)
    BY <1>0, <1>9 DEF GiveRecursive, Goto, CallTypes, WaitLabels
  <1>. QED
    BY <1>1, <1>2, <1>3, <1>4, <1>5, <1>6, <1>7, <1>8, <1>9 DEF StepOf

\* Who enters a list, and what stays true of the lists.
LEMMA ListFacts ==
  ASSUME TypeOK, WaitersRight, Next, NEW m \in Mutexes
  PROVE  /\ NoneTwice(waiting'[m])
         /\ \A u \in Elems(waiting'[m]) :
              \/ u \in Elems(waiting[m])
              \/ /\ u \in Tasks /\ Block(u) /\ op[u].mutex = m /\ xMutexHolder[m] # NoTask
                 /\ waiting' = Inserted(m, u)
         /\ Ordered(waiting[m], eventPriority) => Ordered(waiting'[m], eventPriority)
  <1>0. /\ waiting \in [Mutexes -> Seq(Tasks)] /\ \A t \in Tasks : op[t].mutex \in Mutexes
        /\ eventPriority \in [Tasks -> Nat]
    BY DEF TypeOK, Prios
  <1>1. CASE UNCHANGED waiting
    BY <1>1 DEF WaitersRight
  <1>2. ASSUME NEW t \in Tasks, Block(t), waiting' = Inserted(op[t].mutex, t)
        PROVE  /\ NoneTwice(waiting'[m])
               /\ \A u \in Elems(waiting'[m]) :
                    u \in Elems(waiting[m]) \/ (u = t /\ op[t].mutex = m)
               /\ Ordered(waiting[m], eventPriority) => Ordered(waiting'[m], eventPriority)
    <2>1. pc[t] = "block"
      BY <1>2 DEF Block
    <2>2. t \notin Elems(waiting[op[t].mutex])
      BY <1>0, <2>1 DEF WaitersRight
    <2>3. CASE m = op[t].mutex
      BY <1>0, <1>2, <2>2, <2>3, InsertedFacts DEF WaitersRight
    <2>4. CASE m # op[t].mutex
      <3>1. waiting'[m] = waiting[m]
        BY <1>0, <1>2, <2>4, InsertedFacts
      <3>. QED
        BY <3>1 DEF WaitersRight
    <2>. QED
      BY <2>3, <2>4
  <1>3. ASSUME NEW t \in Tasks, Block(t), waiting' = Inserted(op[t].mutex, t),
               xMutexHolder[op[t].mutex] = NoTask
        PROVE  UNCHANGED waiting
    BY <1>3 DEF Block
  <1>4. ASSUME NEW t \in Tasks, waiting' = [n \in Mutexes |-> Unlinked(waiting[n], t)]
        PROVE  /\ NoneTwice(waiting'[m]) /\ Elems(waiting'[m]) \subseteq Elems(waiting[m])
               /\ Ordered(waiting[m], eventPriority) => Ordered(waiting'[m], eventPriority)
    BY <1>0, <1>4, UnlinkedFacts DEF WaitersRight
  <1>5. ASSUME NEW n \in Mutexes, waiting[n] # <<>>, waiting' = [waiting EXCEPT ![n] = Tail(@)]
        PROVE  /\ NoneTwice(waiting'[m]) /\ Elems(waiting'[m]) \subseteq Elems(waiting[m])
               /\ Ordered(waiting[m], eventPriority) => Ordered(waiting'[m], eventPriority)
    <2>1. CASE n = m
      <3>1. waiting'[m] = Tail(waiting[m])
        BY <1>0, <1>5, <2>1
      <3>. QED
        BY <1>0, <1>5, <2>1, <3>1, TailFacts DEF WaitersRight
    <2>2. CASE n # m
      BY <1>0, <1>5, <2>2 DEF WaitersRight
    <2>. QED
      BY <2>1, <2>2
  <1>. QED
    BY <1>1, <1>2, <1>3, <1>4, <1>5, WaitingMoves

LEMMA WaitersKept ==
  ASSUME TypeOK, WaitersRight, Next
  PROVE  WaitersRight'
  <1>. SUFFICES ASSUME NEW m \in Mutexes, NEW u \in Elems(waiting'[m])
                PROVE  u \in Tasks /\ pc'[u] = "top" /\ op'[u].mutex = m
    BY ListFacts DEF WaitersRight
  <1>1. CASE u \in Elems(waiting[m])
    <2>1. u \in Tasks /\ pc[u] = "top" /\ op[u].mutex = m /\ IsWaiting(u)
      BY <1>1 DEF WaitersRight, IsWaiting, Waiters, Elems
    <2>2. pc'[u] = pc[u] /\ op'[u] = op[u]
      BY <2>1, CallMoves DEF WaitLabels, Take, Retry, Runs, Block, Final, DisinheritAfterTimeout
    <2>. QED
      BY <2>1, <2>2
  <1>2. CASE u \in Tasks /\ Block(u) /\ op[u].mutex = m /\ waiting' = Inserted(m, u)
    <2>1. CASE u \in Elems(waiting[m])
      BY <1>1, <2>1
    <2>2. CASE u \notin Elems(waiting[m])
      <3>1. UNCHANGED waiting \/ ~ (op[u].wait = "finite" /\ expired[u])
        BY <1>2 DEF Block
      <3>2. pc' = [pc EXCEPT ![u] = "top"] /\ op' = op
        BY <1>2, <2>2, <3>1 DEF Block, Goto
      <3>. QED
        BY <1>2, <3>2 DEF TypeOK
    <2>. QED
      BY <2>1, <2>2
  <1>. QED
    BY <1>1, <1>2, ListFacts

\* Why the priority of a task changes, where priorities are not set from outside: it
\* inherits, gives its last mutex, or loses what a task inherited that timed out.
Inherits(h) ==
  \E t \in Tasks : /\ Block(t) /\ xMutexHolder[op[t].mutex] = h /\ PriorityInherit(h, t)
                   /\ waiting' = Inserted(op[t].mutex, t)
                   /\ ~ (op[t].wait = "finite" /\ expired[t])
                   /\ uxPriority'[h] = uxPriority[t] /\ uxPriority[h] < uxPriority[t]
GivesLast(h) ==
  \E t \in Tasks, m \in Mutexes : /\ GiveNow(t, m) /\ xMutexHolder[m] = h /\ uxMutexesHeld[h] = 1
                                  /\ uxPriority'[h] = uxBasePriority[h]
LosesInherited(h) ==
  \E t \in Tasks : /\ DisinheritAfterTimeout(t) /\ xMutexHolder[op[t].mutex] = h
                   /\ uxMutexesHeld[h] = 1
                   /\ uxPriority'[h] = PriorityToUse(op[t].mutex, h)

LEMMA PriorityWay ==
  ASSUME MutexInv, Simple, Next
  PROVE  /\ uxBasePriority' = uxBasePriority
         /\ eventPriority = uxPriority => eventPriority' = uxPriority'
         /\ \A h \in Tasks : \/ uxPriority'[h] = uxPriority[h]
                             \/ Inherits(h) \/ GivesLast(h) \/ LosesInherited(h)
  <1>. DEFINE Way == /\ uxBasePriority' = uxBasePriority
                     /\ eventPriority = uxPriority => eventPriority' = uxPriority'
                     /\ \A h \in Tasks : \/ uxPriority'[h] = uxPriority[h]
                                         \/ Inherits(h) \/ GivesLast(h) \/ LosesInherited(h)
  <1>0. /\ NoTask \notin Tasks /\ xMutexHolder \in [Mutexes -> Tasks \cup {NoTask}]
        /\ \A t \in Tasks : op[t].mutex \in Mutexes
        /\ uxPriority \in [Tasks -> Prios] /\ eventPriority \in [Tasks -> Prios]
    BY MutexAssumption DEF MutexInv, TypeOK, MutexAssumption
  <1>1. PICK t \in Tasks : StepOf(t)
    BY StepFacts
  <1>2. ASSUME UNCHANGED prioVars PROVE Way
    BY <1>2 DEF prioVars
  <1>3. ASSUME NEW h \in Tasks, NEW p, SetBoth(h, p),
               uxPriority'[h] = p => Inherits(h) \/ GivesLast(h) \/ LosesInherited(h)
        PROVE  Way
    <2>1. uxPriority'[h] = p /\ \A u \in Tasks \ {h} : uxPriority'[u] = uxPriority[u]
      BY <1>0, <1>3 DEF SetBoth
    <2>. QED
      BY <1>3, <2>1 DEF SetBoth
  <1>4. ASSUME NEW m \in Mutexes, GiveNow(t, m) PROVE Way
    <2>1. CASE xMutexHolder[m] = NoTask
      BY <1>2, <1>4, <2>1 DEF GiveNow, PriorityDisinherit
    <2>2. ASSUME NEW h \in Tasks, xMutexHolder[m] = h, SetBoth(h, uxBasePriority[h]),
                 uxMutexesHeld[h] = 1
          PROVE  Way
      <3>1. uxPriority'[h] = uxBasePriority[h] => GivesLast(h)
        BY <1>4, <2>2 DEF GivesLast
      <3>. HIDE DEF Way
      <3>. QED
        BY <1>3, <2>2, <3>1
    <2>. QED
      BY <1>0, <1>2, <1>4, <2>1, <2>2 DEF GiveNow, PriorityDisinherit
  <1>5. CASE Block(t)
    <2>. DEFINE h == xMutexHolder[op[t].mutex]
    <2>1. CASE UNCHANGED prioVars
      BY <1>2, <2>1
    <2>2. CASE ~UNCHANGED prioVars
      <3>1. /\ h # NoTask /\ PriorityInherit(h, t) /\ SetBoth(h, uxPriority[t])
            /\ uxPriority[h] < uxPriority[t] /\ waiting' = Inserted(op[t].mutex, t)
            /\ ~ (op[t].wait = "finite" /\ expired[t])
        BY <1>5, <2>2 DEF Block, PriorityInherit
      <3>2. h \in Tasks
        BY <1>0, <3>1
      <3>3. uxPriority'[h] = uxPriority[t] => Inherits(h)
        BY <1>5, <3>1 DEF Inherits
      <3>4. SetBoth(h, uxPriority[t]) /\ (uxPriority'[h] = uxPriority[t] =>
              Inherits(h) \/ GivesLast(h) \/ LosesInherited(h))
        BY <3>1, <3>3
      <3>. HIDE DEF h
      <3>. QED
        BY <1>3, <3>2, <3>4
    <2>. QED
      BY <2>1, <2>2
  <1>6. CASE DisinheritAfterTimeout(t)
    <2>. DEFINE m == op[t].mutex
                h == xMutexHolder[op[t].mutex]
    <2>1. CASE UNCHANGED prioVars
      BY <1>2, <2>1
    <2>2. CASE ~UNCHANGED prioVars
      <3>1. MustLower(m, h) /\ SetBoth(h, PriorityToUse(m, h))
        BY <1>6, <2>2 DEF DisinheritAfterTimeout
      <3>2. h \in Tasks /\ uxMutexesHeld[h] = 1
        BY <1>0, <3>1 DEF MustLower
      <3>3. uxPriority'[h] = PriorityToUse(m, h) => LosesInherited(h)
        BY <1>6, <3>2 DEF LosesInherited
      <3>4. SetBoth(h, PriorityToUse(m, h)) /\ (uxPriority'[h] = PriorityToUse(m, h) =>
              Inherits(h) \/ GivesLast(h) \/ LosesInherited(h))
        BY <3>1, <3>3
      <3>. HIDE DEF h, m
      <3>. QED
        BY <1>3, <3>2, <3>4
    <2>. QED
      BY <2>1, <2>2
  <1>7. CASE GiveInside(t)
    BY <1>0, <1>4, <1>7 DEF GiveInside
  <1>8. CASE \E m \in Mutexes : Give(t, m)
    BY <1>4, <1>8 DEF Give
  <1>9. CASE \/ Retry(t) \/ Final(t) \/ Expire(t) \/ CountFirst(t)
             \/ \E m \in Mutexes : \/ TakeAgain(t, m) \/ GiveRecursive(t, m)
                                   \/ \E wait \in Waits : Take(t, m, wait)
    BY <1>2, <1>9 DEF Retry, Final, Expire, CountFirst, TakeAgain, GiveRecursive, Take
  <1>10. ~ \E x \in Tasks, p \in Prios : PrioritySet(t, x, p)
    BY DEF PrioritySet, Simple
  <1>. QED
    BY <1>1, <1>5, <1>6, <1>7, <1>8, <1>9, <1>10 DEF StepOf

\* So a task that holds nothing keeps its priority, and waiting tasks hold nothing.
LEMMA KeepsPriority ==
  ASSUME MutexInv, Simple, Next, NEW u \in Tasks, uxMutexesHeld[u] = 0
  PROVE  uxPriority'[u] = uxPriority[u]
  <1>1. \A m \in Mutexes : xMutexHolder[m] # u
    BY HeldFacts DEF MutexInv
  <1>2. \A t \in Tasks : op[t].mutex \in Mutexes
    BY DEF MutexInv, TypeOK
  <1>. QED
    BY <1>1, <1>2, PriorityWay DEF Inherits, GivesLast, LosesInherited

LEMMA WaitersHoldNothing ==
  ASSUME WaitersRight, CallersHoldNone, NEW m \in Mutexes, NEW u \in Elems(waiting[m])
  PROVE  /\ u \in Tasks /\ uxMutexesHeld[u] = 0 /\ IsWaiting(u)
         /\ pc[u] = "top" /\ op[u].mutex = m
  BY DEF WaitersRight, CallersHoldNone, WaitLabels, IsWaiting, Waiters, Elems

LEMMA CallersStep ==
  ASSUME MutexInv, InversionInv, Simple, Next
  PROVE  CallersHoldNone'
  <1>0. TypeOK /\ HeldCountRight /\ CallersHoldNone /\ CallTypes /\ NoTask \notin Tasks
        /\ uxMutexesHeld \in [Tasks -> 0 .. Cardinality(Mutexes)]
    BY MutexAssumption DEF MutexInv, InversionInv, TypeOK, CallTypes, MutexAssumption
  <1>. SUFFICES ASSUME NEW v \in Tasks, pc'[v] \in WaitLabels
                PROVE  uxMutexesHeld'[v] = 0
    BY DEF CallersHoldNone
  <1>1. uxMutexesHeld[v] = 0
    <2>1. CASE \E m \in Mutexes, wait \in Waits : Take(v, m, wait)
      <3>1. PICK m \in Mutexes, wait \in Waits : Take(v, m, wait)
        BY <2>1
      <3>2. CASE wait # "none"
        BY <3>1, <3>2 DEF Take, Simple
      <3>3. CASE wait = "none"
        <4>1. PICK l \in {"idle", "count", "give"} : Goto(v, l)
          BY <3>1, <3>3 DEF Take, TakeNow, CannotTake, Failed
        <4>2. pc'[v] = l
          BY <1>0, <4>1 DEF Goto, CallTypes
        <4>. QED
          BY <4>2 DEF WaitLabels
      <3>. QED
        BY <3>2, <3>3
    <2>. QED
      BY <1>0, <2>1, CallMoves DEF CallersHoldNone, WaitLabels, Retry, Block, Final,
                                   DisinheritAfterTimeout
  <1>2. CASE UNCHANGED <<xMutexHolder, uxMutexesHeld>>
    BY <1>1, <1>2
  <1>3. ASSUME NEW t \in Tasks, NEW m \in Mutexes, TakeNow(t, m) PROVE uxMutexesHeld'[v] = 0
    <2>1. v # t
      <3>1. PICK l \in {"idle", "count"} : Goto(t, l)
        BY <1>3 DEF TakeNow
      <3>2. pc'[t] = l
        BY <1>0, <3>1 DEF Goto, CallTypes
      <3>. QED
        BY <3>2 DEF WaitLabels
    <2>. QED
      BY <1>0, <1>1, <1>3, <2>1 DEF TakeNow
  <1>4. ASSUME NEW t \in Tasks, NEW m \in Mutexes, GiveNow(t, m) PROVE uxMutexesHeld'[v] = 0
    <2>1. xMutexHolder[m] # v
      BY <1>0, <1>1, HeldFacts
    <2>. QED
      BY <1>0, <1>1, <1>4, <2>1 DEF GiveNow, PriorityDisinherit
  <1>. QED
    BY <1>0, <1>2, <1>3, <1>4, HolderMoves DEF TakenBy

LEMMA OrderStep ==
  ASSUME MutexInv, InversionInv, Simple, Next
  PROVE  ListsOrdered' /\ eventPriority' = uxPriority'
  <1>0. /\ WaitersRight /\ CallersHoldNone /\ ListsOrdered /\ eventPriority = uxPriority /\ TypeOK
        /\ CallersHoldNone'
    BY CallersStep DEF InversionInv, MutexInv
  <1>1. ASSUME NEW m \in Mutexes PROVE Ordered(waiting'[m], uxPriority')
    <2>1. Ordered(waiting'[m], uxPriority)
      BY <1>0, ListFacts DEF ListsOrdered
    <2>2. \A u \in Elems(waiting'[m]) : uxPriority'[u] = uxPriority[u]
      <3>1. \A u \in Elems(waiting[m]) : uxPriority'[u] = uxPriority[u]
        BY <1>0, WaitersHoldNothing, KeepsPriority
      <3>2. \A u \in Tasks : Block(u) => uxPriority'[u] = uxPriority[u]
        BY <1>0, KeepsPriority DEF Block, CallersHoldNone, WaitLabels
      <3>. QED
        BY <1>0, <3>1, <3>2, ListFacts
    <2>. QED
      BY <2>1, <2>2 DEF Ordered, Elems
  <1>. QED
    BY <1>0, <1>1, PriorityWay DEF ListsOrdered

\* A mutex that stays free is still handed to the task it was handed to; one that is
\* given goes to the first of its list.
LEMMA FreeStep ==
  ASSUME MutexInv, InversionInv, Simple, Next
  PROVE  FreeHanded'
  <1>0. /\ WaitersRight /\ CallersHoldNone /\ ListsOrdered /\ FreeHanded /\ TypeOK
        /\ xMutexHolder \in [Mutexes -> Tasks \cup {NoTask}] /\ NoTask \notin Tasks
        /\ waiting \in [Mutexes -> Seq(Tasks)] /\ uxPriority \in [Tasks -> Nat]
    BY MutexAssumption DEF InversionInv, MutexInv, TypeOK, MutexAssumption, Prios
  <1>. SUFFICES ASSUME NEW m \in Mutexes, xMutexHolder'[m] = NoTask, NEW u \in Elems(waiting'[m])
                PROVE  Handed(m, u)'
    BY DEF FreeHanded
  \* Whoever is to have it: outside the lists, at the top of its call.
  <1>1. ASSUME NEW v \in Tasks, pc[v] = "top", op[v].mutex = m, uxPriority[u] <= uxPriority[v],
               u \in Elems(waiting[m]), ~Retry(v),
               \A n \in Mutexes : v \notin Elems(waiting'[n])
        PROVE  Handed(m, u)'
    <2>1. pc'[v] = "top" /\ op'[v] = op[v]
      BY <1>0, <1>1, CallMoves DEF WaitLabels, Take, Block, Final, DisinheritAfterTimeout
    <2>2. uxPriority'[u] = uxPriority[u] /\ uxPriority'[v] = uxPriority[v]
      <3>1. uxMutexesHeld[v] = 0
        BY <1>0, <1>1 DEF CallersHoldNone, WaitLabels
      <3>. QED
        BY <1>0, <1>1, <3>1, WaitersHoldNothing, KeepsPriority
    <2>3. ~IsWaiting(v)'
      BY <1>1 DEF IsWaiting, Waiters, Elems
    <2>. QED
      BY <1>1, <2>1, <2>2, <2>3 DEF Handed
  <1>2. CASE xMutexHolder[m] = NoTask
    <2>1. u \in Elems(waiting[m])
      BY <1>0, <1>2, ListFacts
    <2>2. PICK v \in Tasks : /\ pc[v] = "top" /\ ~IsWaiting(v) /\ op[v].mutex = m
                            /\ uxPriority[u] <= uxPriority[v]
      BY <1>0, <1>2, <2>1 DEF FreeHanded, Handed
    <2>3. ~Retry(v)
      <3>. SUFFICES ASSUME Retry(v) PROVE FALSE
        OBVIOUS
      <3>1. TakeNow(v, m)
        BY <1>2, <2>2 DEF Retry, CannotTake
      <3>. QED
        BY <1>0, <3>1 DEF TakeNow
    <2>4. \A n \in Mutexes : v \notin Elems(waiting'[n])
      <3>1. \A n \in Mutexes : v \notin Elems(waiting[n])
        BY <2>2 DEF IsWaiting, Waiters, Elems
      <3>2. ~Block(v)
        BY <2>2 DEF Block
      <3>. QED
        BY <1>0, <3>1, <3>2, ListFacts
    <2>. QED
      BY <1>1, <2>1, <2>2, <2>3, <2>4
  <1>3. CASE xMutexHolder[m] # NoTask
    <2>1. PICK t \in Tasks, n \in Mutexes : GiveNow(t, n) \/ TakenBy(t, n)
      BY <1>0, <1>3, HolderMoves
    <2>2. GiveNow(t, n) /\ n = m
      BY <1>0, <1>3, <2>1 DEF GiveNow, TakenBy, TakeNow
    <2>3. waiting[m] # <<>> /\ waiting' = [waiting EXCEPT ![m] = Tail(waiting[m])]
      <3>1. waiting' = IF waiting[m] = <<>> THEN waiting ELSE [waiting EXCEPT ![m] = Tail(@)]
        BY <1>3, <2>2 DEF GiveNow
      <3>2. waiting[m] = <<>> => Elems(waiting'[m]) = {}
        BY <3>1 DEF Elems
      <3>. QED
        BY <3>1, <3>2
    <2>. DEFINE v == Head(waiting[m])
    <2>4. /\ v \in Elems(waiting[m]) /\ v = waiting[m][1] /\ u \in Elems(waiting[m])
          /\ v \notin Elems(waiting'[m])
      BY <1>0, <2>3, TailFacts DEF WaitersRight
    <2>5. /\ v \in Tasks /\ pc[v] = "top" /\ op[v].mutex = m /\ IsWaiting(v) /\ u \in Tasks
      BY <1>0, <2>4, WaitersHoldNothing
    <2>6. uxPriority[u] <= uxPriority[v]
      <3>1. PICK i \in 1 .. Len(waiting[m]) : u = waiting[m][i]
        BY <2>4 DEF Elems
      <3>2. Len(waiting[m]) \in Nat /\ 1 \in 1 .. Len(waiting[m]) /\ (i = 1 \/ 1 < i)
        BY <1>0, <3>1, LenProperties
      <3>3. uxPriority[u] \in Nat
        BY <1>0, <2>5
      <3>. QED
        BY <1>0, <2>4, <3>1, <3>2, <3>3 DEF ListsOrdered, Ordered
    <2>7. \A k \in Mutexes : v \notin Elems(waiting'[k])
      <3>1. \A k \in Mutexes \ {m} : waiting'[k] = waiting[k]
        BY <1>0, <2>3
      <3>2. \A k \in Mutexes \ {m} : v \notin Elems(waiting[k])
        BY <1>0, <2>5 DEF WaitersRight
      <3>. QED
        BY <2>4, <3>1, <3>2
    <2>8. ~Retry(v)
      BY <2>5 DEF Retry, Runs
    <2>. HIDE DEF v
    <2>. QED
      BY <1>1, <2>4, <2>5, <2>6, <2>7, <2>8
  <1>. QED
    BY <1>2, <1>3

\* Who takes a free mutex is as urgent as the task it was handed to; a holder that is
\* raised stays above, one that loses what it inherited keeps what the others need.
LEMMA UrgentStep ==
  ASSUME MutexInv, InversionInv, Simple, Next
  PROVE  HoldersUrgent'
  <1>0. /\ WaitersRight /\ CallersHoldNone /\ ListsOrdered /\ FreeHanded /\ HoldersUrgent /\ TypeOK
        /\ HeldCountRight /\ eventPriority = uxPriority /\ uxBasePriority \in [Tasks -> Nat]
        /\ xMutexHolder \in [Mutexes -> Tasks \cup {NoTask}] /\ NoTask \notin Tasks
        /\ waiting \in [Mutexes -> Seq(Tasks)] /\ uxPriority \in [Tasks -> Nat]
    BY MutexAssumption DEF InversionInv, MutexInv, TypeOK, MutexAssumption, Prios
  <1>. SUFFICES ASSUME NEW m \in Mutexes, NEW u \in Elems(waiting'[m]), xMutexHolder'[m] # NoTask
                PROVE  uxPriority'[u] <= uxPriority'[xMutexHolder'[m]]
    BY DEF HoldersUrgent
  <1>1. CASE xMutexHolder[m] = NoTask
    <2>1. PICK t \in Tasks, n \in Mutexes : GiveNow(t, n) \/ TakenBy(t, n)
      BY <1>0, <1>1, HolderMoves
    <2>2. /\ TakenBy(t, n) /\ n = m /\ xMutexHolder'[m] = t /\ uxPriority' = uxPriority
          /\ Runs(t)
      BY <1>0, <1>1, <2>1 DEF GiveNow, TakenBy, TakeNow, prioVars
    <2>3. u \in Elems(waiting[m])
      BY <1>0, <1>1, ListFacts
    <2>4. PICK v \in Tasks : /\ pc[v] = "top" /\ ~IsWaiting(v) /\ op[v].mutex = m
                            /\ uxPriority[u] <= uxPriority[v]
      BY <1>0, <1>1, <2>3 DEF FreeHanded, Handed
    <2>5. uxPriority[v] <= uxPriority[t]
      BY <2>2, <2>4 DEF Runs
    <2>6. uxPriority[u] \in Nat /\ uxPriority[v] \in Nat /\ uxPriority[t] \in Nat
      BY <1>0, <2>3 DEF WaitersRight
    <2>. QED
      BY <2>2, <2>4, <2>5, <2>6
  <1>2. ASSUME NEW h \in Tasks, xMutexHolder[m] = h
        PROVE  uxPriority'[u] <= uxPriority'[xMutexHolder'[m]]
    <2>1. xMutexHolder'[m] = h
      BY <1>0, <1>2, HolderMoves DEF GiveNow, TakenBy, TakeNow
    <2>2. \A n \in Mutexes : xMutexHolder[n] = h /\ uxMutexesHeld[h] = 1 => n = m
      BY <1>0, <1>2, HeldFacts
    <2>3. CASE u \in Elems(waiting[m])
      <3>1. u \in Tasks /\ uxPriority'[u] = uxPriority[u] /\ uxPriority[u] <= uxPriority[h]
        BY <1>0, <1>2, <2>3, WaitersHoldNothing, KeepsPriority DEF HoldersUrgent
      <3>2. uxPriority[u] \in Nat /\ uxPriority[h] \in Nat
        BY <1>0, <3>1
      <3>3. CASE uxPriority'[h] = uxPriority[h]
        BY <2>1, <3>1, <3>3
      <3>4. CASE Inherits(h)
        <4>1. PICK t \in Tasks : uxPriority'[h] = uxPriority[t] /\ uxPriority[h] < uxPriority[t]
          BY <3>4 DEF Inherits
        <4>2. uxPriority[t] \in Nat
          BY <1>0
        <4>. QED
          BY <2>1, <3>1, <3>2, <4>1, <4>2
      <3>5. CASE GivesLast(h)
        <4>1. PICK t \in Tasks, n \in Mutexes : GiveNow(t, n) /\ xMutexHolder[n] = h
                                                /\ uxMutexesHeld[h] = 1
          BY <3>5 DEF GivesLast
        <4>2. n = m
          BY <2>2, <4>1
        <4>3. xMutexHolder'[m] = NoTask
          BY <1>0, <4>1, <4>2 DEF GiveNow
        <4>. QED
          BY <4>3
      <3>6. CASE LosesInherited(h)
        <4>1. PICK t \in Tasks : /\ xMutexHolder[op[t].mutex] = h /\ uxMutexesHeld[h] = 1
                                /\ uxPriority'[h] = PriorityToUse(op[t].mutex, h)
          BY <3>6 DEF LosesInherited
        <4>2. op[t].mutex = m
          BY <1>0, <2>2, <4>1 DEF TypeOK
        <4>3. waiting[m] # <<>>
          BY <2>3 DEF Elems
        <4>4. PICK i \in 1 .. Len(waiting[m]) : u = waiting[m][i]
          BY <2>3 DEF Elems
        <4>5. Len(waiting[m]) \in Nat /\ 1 \in 1 .. Len(waiting[m]) /\ (i = 1 \/ 1 < i)
          BY <1>0, <4>4, LenProperties
        <4>6. Head(waiting[m]) = waiting[m][1] /\ Head(waiting[m]) \in Tasks
          BY <1>0, <4>3, <4>5, HeadTailProperties, ElementOfSeq
        <4>7. uxPriority[u] <= uxPriority[Head(waiting[m])]
          BY <1>0, <3>2, <4>4, <4>5, <4>6 DEF ListsOrdered, Ordered
        <4>8. uxPriority'[h] = Larger(uxBasePriority[h], uxPriority[Head(waiting[m])])
          BY <1>0, <4>1, <4>2, <4>3 DEF PriorityToUse, HighestPriorityWaiting
        <4>9. uxBasePriority[h] \in Nat /\ uxPriority[Head(waiting[m])] \in Nat
          BY <1>0, <4>6
        <4>. QED
          BY <2>1, <3>1, <3>2, <4>7, <4>8, <4>9 DEF Larger
      <3>. QED
        BY <3>3, <3>4, <3>5, <3>6, PriorityWay
    <2>4. CASE u \in Tasks /\ Block(u) /\ op[u].mutex = m /\ waiting' = Inserted(m, u)
               /\ u \notin Elems(waiting[m])
      <3>1. waiting' # waiting
        BY <2>4
      <3>2. PriorityInherit(h, u)
        BY <1>2, <2>4, <3>1 DEF Block
      <3>3. u # h
        BY <1>0, <1>2, <2>4, HeldFacts DEF Block, CallersHoldNone, WaitLabels
      <3>4. uxPriority[u] \in Nat /\ uxPriority[h] \in Nat
        BY <1>0, <2>4
      <3>5. CASE uxPriority[h] < uxPriority[u]
        <4>1. uxPriority' = [uxPriority EXCEPT ![h] = uxPriority[u]]
          BY <3>2, <3>5 DEF PriorityInherit, SetBoth
        <4>. QED
          BY <1>0, <2>1, <2>4, <3>3, <3>4, <4>1
      <3>6. CASE ~ (uxPriority[h] < uxPriority[u])
        <4>1. uxPriority' = uxPriority
          BY <3>2, <3>6 DEF PriorityInherit, prioVars
        <4>. QED
          BY <2>1, <3>4, <3>6, <4>1
      <3>. QED
        BY <3>5, <3>6
    <2>. QED
      BY <1>0, <2>3, <2>4, ListFacts
  <1>. QED
    BY <1>0, <1>1, <1>2

LEMMA InversionInvStep ==
  ASSUME MutexInv, InversionInv, [Next]_vars
  PROVE  InversionInv'
  <1>1. CASE UNCHANGED vars
    BY <1>1 DEF vars, mutexVars, prioVars, InversionInv, WaitersRight, Simple, Nested,
                SetsPriority, CallersHoldNone, ListsOrdered, FreeHanded, Handed, IsWaiting, Waiters,
                HoldersUrgent
  <1>2. CASE Next
    <2>1. WaitersRight'
      BY <1>2, WaitersKept DEF MutexInv, InversionInv
    <2>2. Simple' <=> Simple
      BY <1>2, StepFacts DEF Simple, Nested, SetsPriority
    <2>. QED
      BY <1>2, <2>1, <2>2, CallersStep, OrderStep, FreeStep, UrgentStep DEF InversionInv
  <1>. QED
    BY <1>1, <1>2

LEMMA InversionInvInit ==
  ASSUME Init
  PROVE  InversionInv
  <1>1. \A m \in Mutexes : waiting[m] = <<>> /\ Elems(waiting[m]) = {}
    BY DEF Init, Elems
  <1>2. WaitersRight /\ ListsOrdered /\ FreeHanded /\ HoldersUrgent
    <2>1. \A m \in Mutexes : 1 .. Len(waiting[m]) = {}
      BY <1>1
    <2>. QED
      BY <1>1, <2>1 DEF WaitersRight, NoneTwice, ListsOrdered, Ordered, FreeHanded, HoldersUrgent
  <1>. QED
    BY <1>2 DEF InversionInv, Init, CallersHoldNone

LEMMA InversionInvAlways == Spec => [](MutexInv /\ InversionInv)
  <1>1. Init => InversionInv
    BY InversionInvInit
  <1>2. MutexInv /\ InversionInv /\ [Next]_vars => InversionInv'
    BY InversionInvStep
  <1>. QED
    BY <1>1, <1>2, MutexInvAlways, PTL DEF Spec

\* No priority inversion: of tasks that hold nothing while they wait, nobody waits for a
\* mutex whose holder is less urgent, when a holder has several mutexes too, when others
\* time out, and when another than the one woken takes the mutex (tasks.c
\* xTaskPriorityInherit, xTaskPriorityDisinherit, vTaskPriorityDisinheritAfterTimeout).
THEOREM NoInversionCorrect == Spec => []NoInversion
  <1>1. InversionInv => NoInversion
    BY DEF InversionInv, HoldersUrgent, NoInversion, Waiters, Elems
  <1>. QED
    BY <1>1, InversionInvAlways, PTL

\* The first of a waiting list is a most urgent one (tasks.c:3132-3134, list.c
\* vListInsert).
THEOREM HighestWaiterFirstCorrect == Spec => []HighestWaiterFirst
  <1>1. MutexInv /\ InversionInv => HighestWaiterFirst
    <2>. SUFFICES ASSUME MutexInv, InversionInv, Simple, NEW m \in Mutexes, NEW t \in Waiters(m)
                  PROVE  uxPriority[t] <= uxPriority[Head(waiting[m])]
      BY DEF HighestWaiterFirst
    <2>1. PICK i \in 1 .. Len(waiting[m]) : t = waiting[m][i]
      BY DEF Waiters
    <2>2. waiting[m] \in Seq(Tasks) /\ t \in Tasks /\ uxPriority[t] \in Nat
      <3>1. t \in Tasks
        BY DEF InversionInv, WaitersRight, Waiters, Elems
      <3>. QED
        BY <3>1 DEF MutexInv, TypeOK, Prios
    <2>3. waiting[m] # <<>> /\ Len(waiting[m]) \in Nat /\ 1 \in 1 .. Len(waiting[m])
          /\ (i = 1 \/ 1 < i)
      BY <2>1, <2>2, LenProperties
    <2>4. Head(waiting[m]) = waiting[m][1]
      BY <2>2, <2>3, HeadTailProperties
    <2>. QED
      BY <2>1, <2>2, <2>3, <2>4 DEF InversionInv, ListsOrdered, Ordered
  <1>. QED
    BY <1>1, InversionInvAlways, PTL
-----------------------------------------------------------------------------
\* Why a holder is raised.

\* One mutex: a waiting task that did not raise its holder need not have; a raised
\* holder has a task, as urgent, that raised it and is not done.
OnlyOneUsed ==
  /\ \A t \in Tasks : pc[t] # "idle" => op[t].mutex \in usage.mutexes
  /\ \A m \in Mutexes : xMutexHolder[m] # NoTask => m \in usage.mutexes
NotRaised ==
  \A m \in Mutexes : \A t \in Elems(waiting[m]) :
    xMutexHolder[m] # NoTask /\ ~xInheritanceOccurred[t] =>
      uxPriority[t] <= uxBasePriority[xMutexHolder[m]]
Justifies(t, h) ==
  /\ uxPriority[t] = uxPriority[h]
  /\ pc[t] \in WaitLabels /\ xMutexHolder[op[t].mutex] = h /\ xInheritanceOccurred[t]
Justified ==
  \A h \in Tasks : uxPriority[h] > uxBasePriority[h] => \E t \in Tasks : Justifies(t, h)
JustifiedInv ==
  Simple /\ Cardinality(usage.mutexes) = 1 => OnlyOneUsed /\ NotRaised /\ Justified

LEMMA OneUsedKept ==
  ASSUME MutexInv, Next, OnlyOneUsed
  PROVE  OnlyOneUsed'
  <1>0. /\ CallTypes /\ TypeOK /\ NoTask \notin Tasks /\ usage' = usage
        /\ xMutexHolder \in [Mutexes -> Tasks \cup {NoTask}]
    BY StepFacts, MutexAssumption DEF MutexInv, TypeOK, CallTypes, MutexAssumption
  <1>1. ASSUME NEW m \in Mutexes, xMutexHolder'[m] # NoTask PROVE m \in usage.mutexes
    <2>1. CASE UNCHANGED <<xMutexHolder, uxMutexesHeld>>
      BY <1>1, <2>1 DEF OnlyOneUsed
    <2>2. ASSUME NEW t \in Tasks, NEW n \in Mutexes, TakenBy(t, n) PROVE m \in usage.mutexes
      <3>1. n \in usage.mutexes
        BY <2>2 DEF TakenBy, OnlyOneUsed
      <3>. QED
        BY <1>0, <1>1, <2>2, <3>1 DEF TakenBy, TakeNow, OnlyOneUsed
    <2>3. ASSUME NEW t \in Tasks, NEW n \in Mutexes, GiveNow(t, n) PROVE m \in usage.mutexes
      BY <1>0, <1>1, <2>3 DEF GiveNow, OnlyOneUsed
    <2>. QED
      BY <1>0, <2>1, <2>2, <2>3, HolderMoves
  <1>2. ASSUME NEW v \in Tasks, pc'[v] # "idle" PROVE op'[v].mutex \in usage.mutexes
    <2>1. PICK t \in Tasks : StepOf(t)
      BY StepFacts
    <2>2. CASE pc[v] # "idle" /\ op'[v].mutex = op[v].mutex
      BY <2>2 DEF OnlyOneUsed
    <2>3. CASE pc'[v] = pc[v] /\ op'[v] = op[v]
      BY <1>2, <2>3 DEF OnlyOneUsed
    <2>4. CASE t # v
      <3>1. op'[v] = op[v]
        BY <1>0, <2>1, <2>4 DEF StepOf, Retry, Block, Final, DisinheritAfterTimeout, Expire,
             GiveInside, CountFirst, Give, TakeAgain, GiveRecursive, Take, PrioritySet, CallTypes
      <3>2. CASE \E n \in Mutexes, wait \in Waits : Take(t, n, wait)
        <4>1. \E l : Goto(t, l)
          BY <3>2 DEF Take, TakeNow, CannotTake, Failed
        <4>. QED
          BY <1>0, <2>3, <2>4, <3>1, <4>1 DEF Goto, CallTypes
      <3>3. CASE Retry(t)
        <4>1. \E l : Goto(t, l)
          BY <3>3 DEF Retry, TakeNow, CannotTake, Failed
        <4>. QED
          BY <1>0, <2>3, <2>4, <3>1, <4>1 DEF Goto, CallTypes
      <3>4. CASE \/ Block(t) \/ Final(t) \/ DisinheritAfterTimeout(t) \/ GiveInside(t)
                 \/ CountFirst(t) \/ \E n \in Mutexes : Give(t, n)
        <4>1. \E l : Goto(t, l)
          BY <3>4 DEF Block, Final, DisinheritAfterTimeout, Failed, GiveInside, CountFirst, Give,
                      GiveNow
        <4>. QED
          BY <1>0, <2>3, <2>4, <3>1, <4>1 DEF Goto, CallTypes
      <3>5. CASE \/ Expire(t) \/ \E n \in Mutexes : TakeAgain(t, n)
                 \/ \E x \in Tasks, p \in Prios : PrioritySet(t, x, p)
        BY <2>3, <3>5 DEF Expire, TakeAgain, PrioritySet
      <3>6. CASE \E n \in Mutexes : GiveRecursive(t, n)
        <4>1. pc' = pc \/ \E l : Goto(t, l)
          BY <3>6 DEF GiveRecursive
        <4>. QED
          BY <1>0, <2>3, <2>4, <3>1, <4>1 DEF Goto, CallTypes
      <3>. QED
        BY <2>1, <3>2, <3>3, <3>4, <3>5, <3>6 DEF StepOf
    <2>5. CASE t = v
      <3>1. CASE \E n \in Mutexes, wait \in Waits : Take(v, n, wait)
        BY <1>0, <3>1 DEF Take, CallTypes
      <3>2. CASE \E n \in Mutexes : GiveRecursive(v, n)
        <4>1. PICK n \in Mutexes : GiveRecursive(v, n)
          BY <3>2
        <4>2. n \in usage.mutexes
          BY <1>0, <4>1 DEF GiveRecursive, OnlyOneUsed
        <4>3. (op'[v] = op[v] /\ pc'[v] = pc[v]) \/ op'[v].mutex = n
          BY <1>0, <4>1 DEF GiveRecursive, CallTypes
        <4>. QED
          BY <2>3, <4>2, <4>3
      <3>3. CASE \/ Retry(v) \/ Final(v) \/ DisinheritAfterTimeout(v) \/ GiveInside(v)
                 \/ CountFirst(v)
        BY <2>2, <3>3 DEF Retry, Final, DisinheritAfterTimeout, GiveInside, CountFirst
      <3>4. CASE Block(v)
        BY <1>0, <2>2, <3>4 DEF Block, CallTypes
      <3>5. CASE \E n \in Mutexes : Give(v, n)
        BY <1>0, <1>2, <3>5 DEF Give, GiveNow, Goto, CallTypes
      <3>6. CASE \/ Expire(v) \/ \E n \in Mutexes : TakeAgain(v, n)
                 \/ \E x \in Tasks, p \in Prios : PrioritySet(v, x, p)
        BY <2>3, <3>6 DEF Expire, TakeAgain, PrioritySet
      <3>. QED
        BY <2>1, <2>5, <3>1, <3>2, <3>3, <3>4, <3>5, <3>6 DEF StepOf
    <2>. QED
      BY <2>4, <2>5
  <1>. QED
    BY <1>0, <1>1, <1>2 DEF OnlyOneUsed

\* With one mutex, the task that holds it holds one; when it is free, nobody holds any.
LEMMA OneHeld ==
  ASSUME TypeOK, HeldCountRight, OnlyOneUsed, NEW m \in Mutexes, usage.mutexes = {m},
         NEW h \in Tasks
  PROVE  uxMutexesHeld[h] = IF xMutexHolder[m] = h THEN 1 ELSE 0
  <1>0. NoTask \notin Tasks
    BY MutexAssumption DEF MutexAssumption
  <1>1. CASE xMutexHolder[m] = h
    <2>1. {n \in Mutexes : xMutexHolder[n] = h} = {m}
      BY <1>0, <1>1 DEF OnlyOneUsed
    <2>. QED
      BY <1>1, <2>1, FS_Singleton DEF HeldCountRight
  <1>2. CASE xMutexHolder[m] # h
    <2>1. {n \in Mutexes : xMutexHolder[n] = h} = {}
      BY <1>0, <1>2 DEF OnlyOneUsed
    <2>. QED
      BY <1>2, <2>1, FS_EmptySet DEF HeldCountRight
  <1>. QED
    BY <1>1, <1>2

\* What a step of a task that waits in a list, or starts to, leaves of its call.
LEMMA WaiterStays ==
  ASSUME TypeOK, WaitersRight, Next, NEW m \in Mutexes, NEW u \in Elems(waiting[m])
  PROVE  /\ pc'[u] = pc[u] /\ op'[u] = op[u]
         /\ xInheritanceOccurred'[u] = xInheritanceOccurred[u]
  <1>1. u \in Tasks /\ pc[u] = "top" /\ IsWaiting(u)
    BY DEF WaitersRight, IsWaiting, Waiters, Elems
  <1>. QED
    BY <1>1, CallMoves DEF WaitLabels, Take, Retry, Runs, Block, Final, DisinheritAfterTimeout

LEMMA NotRaisedStep ==
  ASSUME MutexInv, InversionInv, Simple, NEW n \in Mutexes, usage.mutexes = {n},
         OnlyOneUsed, NotRaised, Next
  PROVE  NotRaised'
  <1>0. /\ WaitersRight /\ CallersHoldNone /\ TypeOK /\ HeldCountRight /\ PriorityRestored
        /\ uxBasePriority \in [Tasks -> Nat] /\ xInheritanceOccurred \in [Tasks -> BOOLEAN]
        /\ xMutexHolder \in [Mutexes -> Tasks \cup {NoTask}] /\ NoTask \notin Tasks
        /\ uxPriority \in [Tasks -> Nat] /\ uxBasePriority' = uxBasePriority
    BY SMTT(30), PriorityWay, MutexAssumption
       DEF InversionInv, MutexInv, TypeOK, MutexAssumption, Prios
  <1>. SUFFICES ASSUME NEW m \in Mutexes, NEW u \in Elems(waiting'[m]), xMutexHolder'[m] # NoTask,
                       ~xInheritanceOccurred'[u]
                PROVE  uxPriority'[u] <= uxBasePriority[xMutexHolder'[m]]
    BY <1>0 DEF NotRaised
  <1>1. CASE xMutexHolder[m] = NoTask
    <2>1. PICK t \in Tasks, k \in Mutexes : GiveNow(t, k) \/ TakenBy(t, k)
      BY <1>0, <1>1, HolderMoves
    <2>2. /\ TakenBy(t, k) /\ k = m /\ xMutexHolder'[m] = t /\ uxPriority' = uxPriority
      BY <1>0, <1>1, <2>1 DEF GiveNow, TakenBy, TakeNow, prioVars
    <2>3. m = n
      BY <1>0, <2>2, OneUsedKept, StepFacts DEF OnlyOneUsed
    <2>4. uxPriority[t] = uxBasePriority[t]
      BY <1>0, <1>1, <2>3, OneHeld DEF PriorityRestored
    <2>5. uxPriority'[u] <= uxPriority'[t]
      BY <2>2, UrgentStep DEF HoldersUrgent
    <2>. QED
      BY <2>2, <2>4, <2>5
  <1>2. ASSUME NEW h \in Tasks, xMutexHolder[m] = h
        PROVE  uxPriority'[u] <= uxBasePriority[xMutexHolder'[m]]
    <2>1. xMutexHolder'[m] = h
      BY <1>0, <1>2, HolderMoves DEF GiveNow, TakenBy, TakeNow
    <2>2. CASE u \in Elems(waiting[m])
      BY <1>0, <1>2, <2>1, <2>2, WaitersHoldNothing, KeepsPriority, WaiterStays DEF NotRaised
    <2>3. CASE u \in Tasks /\ Block(u) /\ op[u].mutex = m /\ waiting' = Inserted(m, u)
               /\ u \notin Elems(waiting[m])
      <3>1. PriorityInherit(h, u)
        BY <1>2, <2>3 DEF Block
      <3>2. ~ (uxBasePriority[h] < uxPriority[u])
        BY <1>0, <2>3, <3>1 DEF PriorityInherit
      <3>3. uxPriority'[u] = uxPriority[u]
        BY <1>0, <2>3, KeepsPriority DEF Block, CallersHoldNone, WaitLabels
      <3>4. uxBasePriority[h] \in Nat /\ uxPriority[u] \in Nat
        BY <1>0, <2>3
      <3>. QED
        BY <2>1, <3>2, <3>3, <3>4
    <2>. QED
      BY <1>0, <2>2, <2>3, ListFacts
  <1>. QED
    BY <1>0, <1>1, <1>2

\* A holder that the list requires to be raised was raised by the first of it.
LEMMA HeadJustifies ==
  ASSUME TypeOK, WaitersRight, NotRaised, eventPriority = uxPriority, NEW m \in Mutexes,
         NEW h \in Tasks, xMutexHolder[m] = h, PriorityToUse(m, h) > uxBasePriority[h]
  PROVE  \E j \in Elems(waiting[m]) :
           uxPriority[j] = PriorityToUse(m, h) /\ xInheritanceOccurred[j]
  <1>0. /\ waiting[m] \in Seq(Tasks) /\ uxBasePriority[h] \in Nat /\ NoTask \notin Tasks
        /\ uxPriority \in [Tasks -> Nat]
    BY MutexAssumption DEF TypeOK, MutexAssumption, Prios
  <1>1. waiting[m] # <<>>
    BY <1>0 DEF PriorityToUse, HighestPriorityWaiting, Larger
  <1>. DEFINE j == Head(waiting[m])
  <1>2. j \in Elems(waiting[m]) /\ j \in Tasks
    BY <1>0, <1>1, TailFacts DEF WaitersRight
  <1>3. uxPriority[j] \in Nat /\ PriorityToUse(m, h) = Larger(uxBasePriority[h], uxPriority[j])
    BY <1>0, <1>1, <1>2 DEF PriorityToUse, HighestPriorityWaiting
  <1>. HIDE DEF j
  <1>4. PriorityToUse(m, h) = uxPriority[j] /\ ~ (uxPriority[j] <= uxBasePriority[h])
    BY <1>0, <1>3 DEF Larger
  <1>5. xInheritanceOccurred[j]
    BY <1>0, <1>2, <1>4 DEF NotRaised
  <1>. QED
    BY <1>2, <1>4, <1>5

LEMMA JustifiedStep ==
  ASSUME MutexInv, InversionInv, Simple, NEW m \in Mutexes, usage.mutexes = {m},
         OnlyOneUsed, NotRaised, Justified, Next
  PROVE  Justified'
  <1>0. /\ WaitersRight /\ CallersHoldNone /\ TypeOK /\ HeldCountRight /\ PriorityRestored
        /\ uxBasePriority \in [Tasks -> Nat] /\ xInheritanceOccurred \in [Tasks -> BOOLEAN]
        /\ xMutexHolder \in [Mutexes -> Tasks \cup {NoTask}] /\ NoTask \notin Tasks
        /\ uxPriority \in [Tasks -> Nat] /\ uxBasePriority' = uxBasePriority
        /\ CallTypes /\ eventPriority = uxPriority
        /\ uxMutexesHeld \in [Tasks -> 0 .. Cardinality(Mutexes)]
    <2>1. uxBasePriority' = uxBasePriority
      BY PriorityWay
    <2>2. /\ WaitersRight /\ CallersHoldNone /\ TypeOK /\ HeldCountRight /\ PriorityRestored
          /\ NoTask \notin Tasks /\ eventPriority = uxPriority
      BY MutexAssumption DEF InversionInv, MutexInv, MutexAssumption
    <2>. QED
      BY <2>1, <2>2 DEF TypeOK, Prios, CallTypes
  <1>1. \A t \in Tasks : pc[t] \in WaitLabels => op[t].mutex = m
    BY DEF OnlyOneUsed, WaitLabels
  <1>2. usage' = usage /\ TypeOK' /\ HeldCountRight' /\ PriorityRestored' /\ OnlyOneUsed'
    BY <1>0, StepFacts, MutexTypesKept, HeldStep, RestoredKept, OneUsedKept
  <1>. SUFFICES ASSUME NEW h \in Tasks, uxPriority'[h] > uxBasePriority[h]
                PROVE  \E j \in Tasks : Justifies(j, h)'
    BY <1>0 DEF Justified
  <1>. DEFINE Goal == \E j \in Tasks : Justifies(j, h)'
  \* Who is raised after the step holds the mutex after it.
  <1>3. xMutexHolder'[m] = h
    <2>1. uxMutexesHeld'[h] # 0
      BY <1>0, <1>2 DEF PriorityRestored, TypeOK, Prios
    <2>2. uxMutexesHeld'[h] = IF xMutexHolder'[m] = h THEN 1 ELSE 0
      <3>1. xMutexHolder'[m] # h => {k \in Mutexes : xMutexHolder'[k] = h} = {}
        BY <1>0, <1>2 DEF OnlyOneUsed
      <3>2. xMutexHolder'[m] = h => {k \in Mutexes : xMutexHolder'[k] = h} = {m}
        BY <1>0, <1>2 DEF OnlyOneUsed
      <3>. QED
        BY ZenonT(60), <1>2, <3>1, <3>2, FS_EmptySet, FS_Singleton DEF HeldCountRight
    <2>. QED
      BY <2>1, <2>2
  \* The first of the list, where it is the reason.
  <1>4. ASSUME xMutexHolder[m] = h, uxPriority'[h] = PriorityToUse(m, h) PROVE Goal
    <2>1. PICK j \in Elems(waiting[m]) :
            uxPriority[j] = PriorityToUse(m, h) /\ xInheritanceOccurred[j]
      BY <1>0, <1>4, HeadJustifies
    <2>2. /\ j \in Tasks /\ pc[j] = "top" /\ op[j].mutex = m
          /\ uxPriority'[j] = uxPriority[j] /\ pc'[j] = pc[j] /\ op'[j] = op[j]
          /\ xInheritanceOccurred'[j] = xInheritanceOccurred[j]
      BY <1>0, WaitersHoldNothing, KeepsPriority, WaiterStays
    <2>. QED
      BY <1>3, <1>4, <2>1, <2>2 DEF Justifies, WaitLabels
  \* The holder is raised in this step.
  <1>5. CASE Inherits(h)
    <2>1. PICK t \in Tasks : /\ Block(t) /\ xMutexHolder[op[t].mutex] = h /\ PriorityInherit(h, t)
                            /\ ~ (op[t].wait = "finite" /\ expired[t])
                            /\ uxPriority'[h] = uxPriority[t] /\ uxPriority[h] < uxPriority[t]
      BY <1>5 DEF Inherits
    <2>2. pc[t] = "block" /\ op'[t] = op[t] /\ pc'[t] = "top" /\ op[t].mutex = m
      BY <1>0, <1>1, <2>1 DEF Block, Goto, CallTypes, WaitLabels
    <2>3. xInheritanceOccurred'[t]
      BY <1>0, <2>1 DEF PriorityInherit
    <2>4. uxPriority'[t] = uxPriority[t]
      BY <1>0, <2>2, KeepsPriority DEF CallersHoldNone, WaitLabels
    <2>. QED
      BY <1>3, <2>1, <2>2, <2>3, <2>4 DEF Justifies, WaitLabels
  <1>6. CASE GivesLast(h)
    BY <1>0, <1>6 DEF GivesLast
  <1>7. CASE LosesInherited(h)
    <2>1. PICK t \in Tasks : /\ DisinheritAfterTimeout(t) /\ xMutexHolder[op[t].mutex] = h
                            /\ uxPriority'[h] = PriorityToUse(op[t].mutex, h)
      BY <1>7 DEF LosesInherited
    <2>2. op[t].mutex = m
      BY <1>1, <2>1 DEF DisinheritAfterTimeout, WaitLabels
    <2>. QED
      BY <1>4, <2>1, <2>2
  \* It was raised before, by a task that is still about, or done.
  <1>8. CASE uxPriority'[h] = uxPriority[h]
    <2>1. PICK j \in Tasks : Justifies(j, h)
      BY <1>8 DEF Justified
    <2>2. /\ pc[j] \in WaitLabels /\ op[j].mutex = m /\ xMutexHolder[m] = h
          /\ xInheritanceOccurred[j] /\ uxMutexesHeld[j] = 0 /\ uxPriority'[j] = uxPriority[j]
          /\ uxPriority[j] = uxPriority[h]
      BY <1>0, <1>1, <2>1, KeepsPriority DEF Justifies, CallersHoldNone
    <2>3. ASSUME pc'[j] \in WaitLabels, op'[j].mutex = m, xInheritanceOccurred'[j] PROVE Goal
      BY <1>3, <1>8, <2>2, <2>3 DEF Justifies
    <2>4. CASE pc'[j] = pc[j] /\ op'[j] = op[j]
               /\ xInheritanceOccurred'[j] = xInheritanceOccurred[j]
      BY <2>2, <2>3, <2>4
    <2>5. CASE Retry(j)
      <3>1. op' = op /\ xInheritanceOccurred' = xInheritanceOccurred
        BY <2>5 DEF Retry
      <3>2. \E l \in {"block", "halt_time"} : Goto(j, l)
        BY <1>0, <2>2, <2>5 DEF Retry, TakeNow, CannotTake
      <3>3. pc'[j] \in WaitLabels
        BY <1>0, <3>2 DEF Goto, CallTypes, WaitLabels
      <3>. QED
        BY <2>2, <2>3, <3>1, <3>3
    <2>6. CASE Block(j)
      <3>1. op'[j].mutex = m /\ \E l \in {"final", "top"} : Goto(j, l)
        BY <1>0, <2>2, <2>6 DEF Block, CallTypes
      <3>2. pc'[j] \in WaitLabels
        BY <1>0, <3>1 DEF Goto, CallTypes, WaitLabels
      <3>3. xInheritanceOccurred'[j]
        <4>1. uxBasePriority[h] < uxPriority[j]
          BY <1>0, <1>8, <2>2
        <4>. QED
          BY <1>0, <2>2, <2>6, <4>1 DEF Block, PriorityInherit
      <3>. QED
        BY <2>3, <3>1, <3>2, <3>3
    <2>7. CASE Final(j)
      <3>1. Goto(j, "disinherit") /\ op' = op /\ xInheritanceOccurred' = xInheritanceOccurred
        BY <1>0, <2>2, <2>7 DEF Final
      <3>2. pc'[j] \in WaitLabels
        BY <1>0, <3>1 DEF Goto, CallTypes, WaitLabels
      <3>. QED
        BY <2>2, <2>3, <3>1, <3>2
    <2>8. CASE DisinheritAfterTimeout(j)
      <3>1. uxMutexesHeld[h] = 1 /\ h # j /\ h # NoTask
        BY <1>0, <2>2, OneHeld
      <3>2. CASE MustLower(m, h)
        <4>1. SetBoth(h, PriorityToUse(m, h))
          BY <2>2, <2>8, <3>1, <3>2 DEF DisinheritAfterTimeout
        <4>2. uxPriority'[h] = PriorityToUse(m, h)
          BY <1>0, <4>1 DEF SetBoth
        <4>. QED
          BY <1>4, <2>2, <4>2
      <3>3. CASE ~MustLower(m, h)
        <4>1. uxPriority[h] = PriorityToUse(m, h)
          BY <3>1, <3>3 DEF MustLower
        <4>. QED
          BY <1>4, <1>8, <2>2, <4>1
      <3>. QED
        BY <3>2, <3>3
    <2>9. ~ \E k \in Mutexes, wait \in Waits : Take(j, k, wait)
      BY <2>2 DEF Take, WaitLabels
    <2>. QED
      BY <1>0, <2>2, <2>4, <2>5, <2>6, <2>7, <2>8, <2>9, CallMoves
  <1>. QED
    BY <1>5, <1>6, <1>7, <1>8, PriorityWay

LEMMA JustifiedInvStep ==
  ASSUME MutexInv, InversionInv, JustifiedInv, [Next]_vars
  PROVE  JustifiedInv'
  <1>1. CASE UNCHANGED vars
    BY <1>1 DEF vars, mutexVars, prioVars, JustifiedInv, Simple, Nested, SetsPriority, OnlyOneUsed,
                NotRaised, Justified, Justifies
  <1>2. CASE Next
    <2>1. usage' = usage /\ (Simple' <=> Simple)
      BY <1>2, StepFacts DEF Simple, Nested, SetsPriority
    <2>. SUFFICES ASSUME Simple, Cardinality(usage.mutexes) = 1
                  PROVE  OnlyOneUsed' /\ NotRaised' /\ Justified'
      BY <2>1 DEF JustifiedInv
    <2>2. usage.mutexes \in SUBSET Mutexes /\ IsFiniteSet(Mutexes)
      BY MutexAssumption DEF MutexAssumption, MutexInv
    <2>3. PICK m : usage.mutexes = {m}
      BY <2>2, FS_Subset, FS_Singleton
    <2>4. m \in Mutexes
      BY <2>2, <2>3
    <2>. QED
      BY <1>2, <2>3, <2>4, OneUsedKept, NotRaisedStep, JustifiedStep DEF JustifiedInv
  <1>. QED
    BY <1>1, <1>2

LEMMA JustifiedInvInit ==
  ASSUME Init
  PROVE  JustifiedInv
  <1>1. \A m \in Mutexes : Elems(waiting[m]) = {}
    BY DEF Init, Elems
  <1>2. \A h \in Tasks : ~ (uxPriority[h] > uxBasePriority[h])
    <2>1. uxPriority = uxBasePriority /\ \A h \in Tasks : uxBasePriority[h] \in Prios
      BY DEF Init
    <2>. QED
      BY <2>1 DEF Prios
  <1>. QED
    BY <1>1, <1>2 DEF JustifiedInv, Init, OnlyOneUsed, NotRaised, Justified

\* Where tasks use one mutex, and hold nothing else while they wait for it, its holder
\* runs above its base priority only for the sake of a task as urgent that waits for it,
\* or has timed out and is about to make the holder give the priority up - also when the
\* task whose priority was inherited timed out long after others came and went
\* (tasks.c vTaskPriorityDisinheritAfterTimeout).
THEOREM PriorityJustifiedCorrect == Spec => []PriorityJustified
  <1>1. Init => JustifiedInv
    BY JustifiedInvInit
  <1>2. MutexInv /\ InversionInv /\ JustifiedInv /\ [Next]_vars => JustifiedInv'
    BY JustifiedInvStep
  <1>3. MutexInv /\ JustifiedInv => PriorityJustified
    <2>1. \A t \in Tasks : pc[t] \in WaitLabels => pc[t] \notin {"idle", "count", "give"}
      BY DEF WaitLabels
    <2>. QED
      BY <2>1 DEF JustifiedInv, Justified, Justifies, PriorityJustified
  <1>. QED
    BY <1>1, <1>2, <1>3, InversionInvAlways, PTL DEF Spec
-----------------------------------------------------------------------------
\* The timers of RT-Thread with functions.

\* A time, with how late a timer comes into the list, is less than half a cycle of the
\* tick count.
RttTimersAssumption ==
  /\ TickMod \in Nat \ {0} /\ MaxLate \in Nat /\ Times \subseteq Nat \ {0}
  /\ \A n \in Times \cup {0} : n + MaxLate + 1 < Half
  /\ TimerUses \subseteq SUBSET Timers

\* How far ahead a time is, of one as late as a timer in the list can be.
Ahead(due, now) == (due - now + (MaxLate + 1)) % TickMod
Nearness(dues, now) == [t \in Timers |-> TickMod - Ahead(dues[t], now)]

Counts == 0 .. TickMod - 1
Due == MaxLate + 1

\* A list of timers, each once, in the order of their times.
IsTimerList(w, dues, now) ==
  /\ w \in Seq(Timers) /\ NoneTwice(w) /\ Ordered(w, Nearness(dues, now))
  /\ \A t \in Elems(w) : Ahead(dues[t], now) < Half

\* How a timer is, that no call of the thread is about.
TimerListed(list, act, want, unfl, t) ==
  t \in Elems(list) => t \in want /\ (t \in unfl \/ act[t])
TimerWanted(list, want, unfl, t) == t \in want => t \in Elems(list) \/ t \in unfl

IsCalling == call.at # "none"
Called(t) == call.timer = t /\ call.at \in {"read", "insert", "remove", "clear"}
TimersTypes ==
  /\ timerUse \in SUBSET Timers /\ timerUse \in TimerUses
  /\ timeoutTick \in [Timers -> Counts] /\ initTick \in [Timers -> Times]
  /\ activated \in [Timers -> BOOLEAN] /\ periodic \in [Timers -> BOOLEAN]
  /\ checking \in BOOLEAN /\ tick \in Counts
  /\ wanted \in SUBSET Timers /\ fresh \in SUBSET Timers /\ unflagged \in SUBSET Timers
  /\ call \in [at : {"none", "read", "insert", "remove", "clear", "store"},
              timer : Timers \cup {NoTimer}, active : BOOLEAN]
  /\ IF IsCalling THEN call.timer \in timerUse ELSE call.timer = NoTimer

\* The timers a call of the thread has taken off the list; the one it puts in is not later
\* than the bound.
CallRight ==
  /\ call.at \in {"read", "insert", "clear"} => call.timer \notin Elems(timerList)
  /\ call.at = "insert" => /\ Ahead(timeoutTick[call.timer], tick) >= 1
                           /\ Ahead(timeoutTick[call.timer], tick) < Half
\* Who comes into the list during a tick, or was in it before one, is not due.
DuesRight ==
  \A t \in Elems(timerList) :
    /\ checking \/ Ahead(timeoutTick[t], tick) >= 1
    /\ checking = (t \in fresh) => Ahead(timeoutTick[t], tick) > Due

RttTimersInv ==
  /\ TimersTypes /\ IsTimerList(timerList, timeoutTick, tick)
  /\ CallRight /\ DuesRight
  /\ \A t \in Timers : /\ TimerListed(timerList, activated, wanted, unflagged, t)
                       /\ Called(t) \/ TimerWanted(timerList, wanted, unflagged, t)

\* Counting modulo TickMod.
IsRest(r, i, m) ==
  r \in 0 .. m - 1 /\ r = IF i < 0 THEN i + m ELSE IF i < m THEN i ELSE i - m

LEMMA RestFacts ==
  ASSUME NEW m \in Nat \ {0}, NEW i \in -m .. 2 * m - 1
  PROVE  IsRest(i % m, i, m)
  <1>1. i \in Int /\ i % m \in 0 .. m - 1
    OBVIOUS
  <1>2. i \in 0 .. m - 1 => i % m = i
    OBVIOUS
  <1>3. i \in m .. 2 * m - 1 => i % m = i - m
    OBVIOUS
  <1>4. i \in -m .. -1 => i % m = i + m
    OBVIOUS
  <1>5. i \in 0 .. m - 1 \/ i \in m .. 2 * m - 1 \/ i \in -m .. -1
    OBVIOUS
  <1>. DEFINE r == i % m
  <1>. HIDE DEF r
  <1>6. r \in 0 .. m - 1 /\ (i \in 0 .. m - 1 => r = i) /\ (i \in m .. 2 * m - 1 => r = i - m)
        /\ (i \in -m .. -1 => r = i + m)
    BY <1>1, <1>2, <1>3, <1>4, Zenon DEF r
  <1>7. IsRest(r, i, m)
    BY <1>1, <1>5, <1>6 DEF IsRest
  <1>. QED
    BY <1>7 DEF r

LEMMA HalfFacts ==
  ASSUME RttTimersAssumption
  PROVE  /\ TickMod \in Nat \ {0} /\ Half \in Nat /\ 2 * Half < TickMod
         /\ MaxLate \in Nat /\ Due \in Nat \ {0} /\ Due < Half /\ Due = MaxLate + 1
         /\ \A n \in Times : n \in Nat \ {0} /\ n + Due < Half
  <1>1. TickMod \in Nat \ {0} /\ MaxLate \in Nat /\ Due = MaxLate + 1
    BY DEF RttTimersAssumption, Due
  <1>2. Half = (TickMod - 1) \div 2
    BY DEF Half
  <1>3. Half \in Nat /\ 2 * Half <= TickMod - 1
    BY <1>1, <1>2
  <1>4. \A n \in Times \cup {0} : n \in Nat /\ n + MaxLate + 1 < Half
    BY DEF RttTimersAssumption
  <1>5. 0 + MaxLate + 1 < Half
    BY <1>4
  <1>6. \A n \in Times : n \in Nat \ {0}
    BY DEF RttTimersAssumption
  <1>7. \A n \in Times : n + Due < Half
    BY <1>1, <1>4, <1>6
  <1>. QED
    BY <1>1, <1>3, <1>5, <1>6, <1>7

LEMMA AheadFacts ==
  ASSUME RttTimersAssumption, NEW a \in Counts, NEW now \in Counts
  PROVE  /\ Ahead(a, now) \in Counts /\ Ahead(a, now) \in Nat
         /\ Ahead(a, now) \in {a - now + Due, a - now + Due - TickMod, a - now + Due + TickMod}
  <1>. DEFINE i == a - now + Due
  <1>1. TickMod \in Nat \ {0} /\ Due \in Nat /\ Due < TickMod /\ Due = MaxLate + 1
    BY HalfFacts
  <1>2. i \in -TickMod .. 2 * TickMod - 1
    BY <1>1 DEF Counts
  <1>3. Ahead(a, now) = i % TickMod
    BY <1>1 DEF Ahead
  <1>. HIDE DEF i
  <1>4. IsRest(Ahead(a, now), i, TickMod)
    BY <1>1, <1>2, <1>3, RestFacts, Zenon
  <1>. QED
    BY <1>1, <1>2, <1>4 DEF i, Counts, IsRest

\* rt_timer_start() compares the times right although they wrap.
LEMMA LaterFacts ==
  ASSUME RttTimersAssumption, NEW a \in Counts, NEW b \in Counts, NEW now \in Counts,
         Ahead(a, now) < Half, Ahead(b, now) < Half
  PROVE  IsLater(a, b) <=> Ahead(a, now) > Ahead(b, now)
  <1>. DEFINE x == Ahead(a, now)
              y == Ahead(b, now)
              i == a - b
  <1>1. /\ TickMod \in Nat \ {0} /\ Half \in Nat /\ 2 * Half < TickMod /\ Due \in Nat
        /\ a \in Nat /\ a < TickMod /\ b \in Nat /\ b < TickMod /\ now \in Nat
    BY HalfFacts DEF Counts
  <1>2. /\ x \in Nat /\ x < Half
        /\ x \in {a - now + Due, a - now + Due - TickMod, a - now + Due + TickMod}
        /\ y \in Nat /\ y < Half
        /\ y \in {b - now + Due, b - now + Due - TickMod, b - now + Due + TickMod}
    BY AheadFacts
  <1>. HIDE DEF x, y
  <1>3. i \in {x - y, x - y - TickMod, x - y + TickMod} /\ i \in -TickMod .. TickMod - 1
    BY <1>1, <1>2
  <1>. HIDE DEF i
  <1>. DEFINE r == i % TickMod
  <1>4. IsRest(r, i, TickMod)
    <2>1. i \in -TickMod .. 2 * TickMod - 1 /\ TickMod \in Nat \ {0}
      BY <1>1, <1>3
    <2>. QED
      BY <2>1, RestFacts, Zenon
  <1>. HIDE DEF r
  <1>5. r \in 1 .. Half - 1 <=> x > y
    BY <1>1, <1>2, <1>3, <1>4 DEF IsRest
  <1>. QED
    BY <1>5, Zenon DEF IsLater, r, x, y, i

\* rt_timer_check() tells whether the time of a timer has come.
LEMMA DueFacts ==
  ASSUME RttTimersAssumption, NEW a \in Counts, NEW now \in Counts, Ahead(a, now) < Half
  PROVE  (now - a) % TickMod < Half <=> Ahead(a, now) <= Due
  <1>. DEFINE x == Ahead(a, now)
              i == now - a
  <1>1. /\ TickMod \in Nat \ {0} /\ Half \in Nat /\ 2 * Half < TickMod /\ Due \in Nat
        /\ Due < Half /\ a \in Nat /\ a < TickMod /\ now \in Nat /\ now < TickMod
    BY HalfFacts DEF Counts
  <1>2. /\ x \in Nat /\ x < Half
        /\ x \in {a - now + Due, a - now + Due - TickMod, a - now + Due + TickMod}
    BY AheadFacts
  <1>. HIDE DEF x
  <1>3. i \in {Due - x, Due - x - TickMod, Due - x + TickMod} /\ i \in -TickMod .. TickMod - 1
    BY <1>1, <1>2
  <1>. HIDE DEF i
  <1>. DEFINE r == i % TickMod
  <1>4. IsRest(r, i, TickMod)
    <2>1. i \in -TickMod .. 2 * TickMod - 1 /\ TickMod \in Nat \ {0}
      BY <1>1, <1>3
    <2>. QED
      BY <2>1, RestFacts, Zenon
  <1>. HIDE DEF r
  <1>5. r < Half <=> x <= Due
    BY <1>1, <1>2, <1>3, <1>4 DEF IsRest
  <1>. QED
    BY <1>5, Zenon DEF r, x, i

\* A tick brings each time nearer by one.
LEMMA TickFacts ==
  ASSUME RttTimersAssumption, NEW a \in Counts, NEW now \in Counts, Ahead(a, now) >= 1
  PROVE  /\ (now + 1) % TickMod \in Counts
         /\ Ahead(a, (now + 1) % TickMod) = Ahead(a, now) - 1
         /\ (now + 1 - a) % TickMod \notin MaxLate + 1 .. Half - 1 => Ahead(a, now) >= 2
  <1>. DEFINE x == Ahead(a, now)
              n == (now + 1) % TickMod
              y == Ahead(a, n)
              i == now + 1 - a
              r == i % TickMod
  <1>1. /\ TickMod \in Nat \ {0} /\ Half \in Nat /\ 2 * Half < TickMod /\ Due \in Nat
        /\ Due < Half /\ a \in Nat /\ a < TickMod /\ now \in Nat /\ now < TickMod
        /\ Due = MaxLate + 1
    BY HalfFacts DEF Counts
  <1>2. /\ x \in Nat /\ x >= 1 /\ x < TickMod
        /\ x \in {a - now + Due, a - now + Due - TickMod, a - now + Due + TickMod}
    BY <1>1, AheadFacts DEF Counts
  <1>3. n \in Counts /\ n \in Nat /\ n = IF now + 1 = TickMod THEN 0 ELSE now + 1
    <2>1. now + 1 \in -TickMod .. 2 * TickMod - 1 /\ TickMod \in Nat \ {0}
      BY <1>1
    <2>2. IsRest(n, now + 1, TickMod)
      BY <2>1, RestFacts, Zenon
    <2>. HIDE DEF n
    <2>. QED
      BY <1>1, <2>2 DEF IsRest, Counts
  <1>4. /\ y \in Nat /\ y < TickMod
        /\ y \in {a - n + Due, a - n + Due - TickMod, a - n + Due + TickMod}
    <2>. HIDE DEF n
    <2>1. y \in Counts /\ y \in {a - n + Due, a - n + Due - TickMod, a - n + Due + TickMod}
      BY <1>3, AheadFacts
    <2>. HIDE DEF y
    <2>. QED
      BY <2>1, <1>1 DEF Counts
  <1>5. i \in -TickMod .. 2 * TickMod - 1 /\ TickMod \in Nat \ {0}
    BY <1>1
  <1>6. IsRest(r, i, TickMod)
    BY <1>5, RestFacts, Zenon
  <1>. HIDE DEF x, n, y, r
  <1>7. y = x - 1
    BY <1>1, <1>2, <1>3, <1>4
  <1>8. x = 1 => r = Due
    BY <1>1, <1>2, <1>6 DEF IsRest
  <1>9. r \notin MaxLate + 1 .. Half - 1 => x >= 2
    BY <1>1, <1>2, <1>8
  <1>. QED
    BY <1>3, <1>7, <1>9, Zenon DEF n, x, y, i, r

\* rt_timer_start() sets the time.
LEMMA SetFacts ==
  ASSUME RttTimersAssumption, NEW now \in Counts, NEW n \in Times
  PROVE  /\ (now + n) % TickMod \in Counts
         /\ Ahead((now + n) % TickMod, now) = n + Due
  <1>. DEFINE a == (now + n) % TickMod
              x == Ahead(a, now)
  <1>1. /\ TickMod \in Nat \ {0} /\ Half \in Nat /\ 2 * Half < TickMod /\ Due \in Nat
        /\ n \in Nat \ {0} /\ n + Due < Half /\ now \in Nat /\ now < TickMod
    BY HalfFacts DEF Counts
  <1>2. a \in Counts /\ a \in Nat /\ a \in {now + n, now + n - TickMod}
    <2>1. now + n \in -TickMod .. 2 * TickMod - 1 /\ TickMod \in Nat \ {0}
      BY <1>1
    <2>2. IsRest(a, now + n, TickMod)
      BY <2>1, RestFacts, Zenon
    <2>. HIDE DEF a
    <2>. QED
      BY <1>1, <2>2 DEF IsRest, Counts
  <1>. HIDE DEF a
  <1>3. /\ x \in Nat /\ x < TickMod
        /\ x \in {a - now + Due, a - now + Due - TickMod, a - now + Due + TickMod}
    <2>1. x \in Counts /\ x \in {a - now + Due, a - now + Due - TickMod, a - now + Due + TickMod}
      BY <1>2, AheadFacts
    <2>. HIDE DEF x
    <2>. QED
      BY <2>1, <1>1 DEF Counts
  <1>. HIDE DEF x
  <1>4. x = n + Due
    BY <1>1, <1>2, <1>3
  <1>. QED
    BY <1>2, <1>4 DEF a, x

LEMMA RemovedKeeps ==
  ASSUME NEW w, NEW dues, NEW now, IsTimerList(w, dues, now), NEW t
  PROVE  /\ IsTimerList(Removed(w, t), dues, now)
         /\ Elems(Removed(w, t)) = Elems(w) \ {t}
  <1>1. /\ w \in Seq(Timers) /\ NoneTwice(w) /\ Ordered(w, Nearness(dues, now))
        /\ \A v \in Elems(w) : Ahead(dues[v], now) < Half
    BY DEF IsTimerList
  <1>2. Removed(w, t) = Unlinked(w, t)
    BY Zenon DEF Removed, Unlinked
  <1>. DEFINE x == Removed(w, t)
  <1>3. /\ x \in Seq(Timers) /\ Elems(x) \subseteq Elems(w) /\ Elems(w) \ {t} \subseteq Elems(x)
        /\ NoneTwice(x) /\ t \notin Elems(x)
    <2>1. /\ Unlinked(w, t) \in Seq(Timers) /\ Elems(Unlinked(w, t)) \subseteq Elems(w)
          /\ Elems(w) \ {t} \subseteq Elems(Unlinked(w, t))
          /\ NoneTwice(Unlinked(w, t)) /\ t \notin Elems(Unlinked(w, t))
      BY <1>1, UnlinkedFacts, Zenon
    <2>. QED
      BY <1>2, <2>1, Zenon
  <1>4. Ordered(x, Nearness(dues, now))
    <2>1. Ordered(Unlinked(w, t), Nearness(dues, now))
      BY <1>1, UnlinkedFacts, Zenon
    <2>. QED
      BY <1>2, <2>1, Zenon
  <1>. HIDE DEF x
  <1>5. Elems(x) = Elems(w) \ {t} /\ IsTimerList(x, dues, now)
    BY <1>1, <1>3, <1>4 DEF IsTimerList
  <1>. QED
    BY <1>5, Zenon DEF x

\* The first timer goes off the list, and is the nearest of them.
LEMMA TailKeeps ==
  ASSUME NEW w, NEW dues, NEW now, IsTimerList(w, dues, now), w # <<>>
  PROVE  /\ IsTimerList(Tail(w), dues, now)
         /\ Elems(Tail(w)) = Elems(w) \ {Head(w)}
         /\ Head(w) \in Elems(w) /\ Head(w) \in Timers
  <1>. DEFINE f == Nearness(dues, now)
              x == Tail(w)
  <1>1. /\ w \in Seq(Timers) /\ NoneTwice(w) /\ Ordered(w, f)
        /\ \A v \in Elems(w) : Ahead(dues[v], now) < Half
    BY DEF IsTimerList
  <1>. HIDE DEF f
  <1>2. /\ Len(w) \in Nat \ {0} /\ \A i \in 1 .. Len(w) : w[i] \in Timers
        /\ Head(w) = w[1] /\ x \in Seq(Timers) /\ Len(x) = Len(w) - 1
        /\ \A i \in 1 .. Len(x) : x[i] = w[i + 1]
    BY <1>1, EmptySeq, LenProperties, ElementOfSeq, HeadTailProperties
  <1>. HIDE DEF x
  <1>3. Head(w) \in Elems(w) /\ Head(w) \in Timers
    BY <1>2 DEF Elems
  <1>4. \A i \in 1 .. Len(x) : i + 1 \in 1 .. Len(w) /\ i + 1 # 1
    BY <1>2
  <1>5. NoneTwice(x)
    BY <1>1, <1>2, <1>4 DEF NoneTwice
  <1>6. Ordered(x, f)
    BY <1>1, <1>2, <1>4 DEF Ordered
  <1>7. Elems(x) \subseteq Elems(w) \ {Head(w)}
    <2>1. \A i \in 1 .. Len(x) : x[i] # w[1]
      BY <1>1, <1>2, <1>4 DEF NoneTwice
    <2>. QED
      BY <1>2, <1>4, <2>1 DEF Elems
  <1>8. Elems(w) \ {Head(w)} \subseteq Elems(x)
    <2>1. \A i \in 1 .. Len(w) : i = 1 \/ (i - 1 \in 1 .. Len(x) /\ w[i] = x[i - 1])
      BY <1>2
    <2>. QED
      BY <1>2, <2>1 DEF Elems
  <1>9. IsTimerList(x, dues, now)
    BY <1>1, <1>2, <1>5, <1>6, <1>7 DEF IsTimerList, f
  <1>. QED
    BY <1>3, <1>7, <1>8, <1>9 DEF x

\* Only the times of the timers in the list matter.
LEMMA SameDues ==
  ASSUME NEW w, NEW dues, NEW now, IsTimerList(w, dues, now),
         NEW next, \A t \in Elems(w) : next[t] = dues[t]
  PROVE  IsTimerList(w, next, now)
  <1>1. /\ w \in Seq(Timers) /\ NoneTwice(w) /\ Ordered(w, Nearness(dues, now))
        /\ \A v \in Elems(w) : Ahead(dues[v], now) < Half
    BY DEF IsTimerList
  <1>2. \A i \in 1 .. Len(w) : w[i] \in Elems(w) /\ w[i] \in Timers
    BY <1>1, ElementOfSeq DEF Elems
  <1>3. \A t \in Elems(w) : Ahead(next[t], now) = Ahead(dues[t], now)
    BY DEF Ahead
  <1>4. \A i \in 1 .. Len(w) : Nearness(next, now)[w[i]] = Nearness(dues, now)[w[i]]
    BY <1>2, <1>3, Zenon DEF Nearness
  <1>5. Ordered(w, Nearness(next, now))
    BY <1>1, <1>4 DEF Ordered
  <1>6. \A v \in Elems(w) : Ahead(next[v], now) < Half
    BY <1>1, <1>3
  <1>. QED
    BY <1>1, <1>5, <1>6 DEF IsTimerList

\* rt_timer_start() keeps the order.
LEMMA PlacedKeeps ==
  ASSUME RttTimersAssumption, NEW w, NEW dues \in [Timers -> Counts], NEW now \in Counts,
         IsTimerList(w, dues, now), NEW t \in Timers, t \notin Elems(w),
         Ahead(dues[t], now) < Half
  PROVE  /\ IsTimerList(Placed(w, dues, t), dues, now)
         /\ Elems(Placed(w, dues, t)) = Elems(w) \cup {t}
  <1>. DEFINE f == Nearness(dues, now)
              ok(k) == /\ \A i \in 1 .. k : ~IsLater(dues[w[i]], dues[t])
                       /\ k < Len(w) => IsLater(dues[w[k + 1]], dues[t])
              k == CHOOSE k \in 0 .. Len(w) : ok(k)
  <1>1. /\ w \in Seq(Timers) /\ NoneTwice(w) /\ Ordered(w, f)
        /\ \A v \in Elems(w) : Ahead(dues[v], now) < Half
    BY DEF IsTimerList
  <1>2. Len(w) \in Nat /\ \A i \in 1 .. Len(w) : w[i] \in Timers /\ w[i] \in Elems(w)
    BY <1>1, LenProperties, ElementOfSeq DEF Elems
  <1>3. \A v \in Timers : /\ Ahead(dues[v], now) \in Counts
                          /\ f[v] = TickMod - Ahead(dues[v], now)
    <2>1. \A v \in Timers : dues[v] \in Counts
      OBVIOUS
    <2>. QED
      BY <2>1, AheadFacts DEF Nearness
  <1>4. f \in [Timers -> Nat]
    <2>1. \A v \in Timers : TickMod - Ahead(dues[v], now) \in Nat
      BY <1>3, HalfFacts DEF Counts
    <2>. QED
      BY <2>1 DEF Nearness
  <1>5. \A i \in 1 .. Len(w) : /\ IsLater(dues[w[i]], dues[t]) <=> f[w[i]] < f[t]
                               /\ f[w[i]] \in Nat /\ f[t] \in Nat
    <2>. SUFFICES ASSUME NEW i \in 1 .. Len(w)
                  PROVE  /\ IsLater(dues[w[i]], dues[t]) <=> f[w[i]] < f[t]
                         /\ f[w[i]] \in Nat /\ f[t] \in Nat
      OBVIOUS
    <2>1. /\ dues[w[i]] \in Counts /\ dues[t] \in Counts /\ Ahead(dues[w[i]], now) < Half
          /\ w[i] \in Timers
      BY <1>1, <1>2
    <2>2. IsLater(dues[w[i]], dues[t]) <=> Ahead(dues[w[i]], now) > Ahead(dues[t], now)
      BY <2>1, LaterFacts
    <2>3. Ahead(dues[w[i]], now) \in Nat /\ Ahead(dues[t], now) \in Nat /\ TickMod \in Nat
      BY <2>1, <1>3, HalfFacts DEF Counts
    <2>4. f[w[i]] = TickMod - Ahead(dues[w[i]], now) /\ f[t] = TickMod - Ahead(dues[t], now)
      BY <1>3, <2>1
    <2>5. f[w[i]] \in Nat /\ f[t] \in Nat
      BY <1>4, <2>1
    <2>. HIDE DEF f
    <2>. QED
      BY <2>2, <2>3, <2>4, <2>5
  <1>. HIDE DEF f
  <1>6. \A n \in 0 .. Len(w) : ok(n) <=> RightPlace(w, f, f[t], n)
    <2>. SUFFICES ASSUME NEW n \in 0 .. Len(w) PROVE ok(n) <=> RightPlace(w, f, f[t], n)
      OBVIOUS
    <2>1. \A i \in 1 .. n : i \in 1 .. Len(w)
      BY <1>2
    <2>2. n < Len(w) => n + 1 \in 1 .. Len(w)
      BY <1>2
    <2>3. \A i \in 1 .. Len(w) : ~IsLater(dues[w[i]], dues[t]) <=> f[w[i]] >= f[t]
      BY <1>5
    <2>. QED
      BY <1>5, <2>1, <2>2, <2>3 DEF RightPlace
  <1>7. f[t] \in Nat
    BY <1>4
  <1>8. \E n \in 0 .. Len(w) : ok(n)
    <2>1. \E n \in 0 .. Len(w) : RightPlace(w, f, f[t], n)
      BY <1>1, <1>4, <1>7, PlaceExists
    <2>. QED
      BY <1>6, <2>1
  <1>9. k \in 0 .. Len(w) /\ ok(k)
    <2>. HIDE DEF ok
    <2>. QED
      BY <1>8
  <1>10. Placed(w, dues, t) = SubSeq(w, 1, k) \o <<t>> \o SubSeq(w, k + 1, Len(w))
    BY Zenon DEF Placed
  <1>11. RightPlace(w, f, f[t], k)
    BY <1>6, <1>9
  <1>. HIDE DEF k, ok
  <1>. DEFINE s == Placed(w, dues, t)
  <1>12. IsPutIn(Timers, s, w, t, k)
    BY <1>1, <1>9, <1>10, PutInFacts
  <1>. HIDE DEF s
  <1>13. s \in Seq(Timers) /\ Elems(s) = Elems(w) \cup {t} /\ NoneTwice(s) /\ Ordered(s, f)
    BY <1>1, <1>4, <1>9, <1>11, <1>12, PutInKeeps
  <1>14. IsTimerList(s, dues, now)
    BY <1>1, <1>13 DEF IsTimerList, f
  <1>. QED
    BY <1>13, <1>14 DEF s

\* A tick, when none is as late as the bound.
LEMMA TickKeeps ==
  ASSUME RttTimersAssumption, NEW w, NEW dues \in [Timers -> Counts], NEW now \in Counts,
         IsTimerList(w, dues, now), \A t \in Elems(w) : Ahead(dues[t], now) >= 1
  PROVE  IsTimerList(w, dues, (now + 1) % TickMod)
  <1>. DEFINE next == (now + 1) % TickMod
              f == Nearness(dues, now)
              g == Nearness(dues, next)
  <1>1. /\ w \in Seq(Timers) /\ NoneTwice(w) /\ Ordered(w, f)
        /\ \A v \in Elems(w) : Ahead(dues[v], now) < Half
    BY DEF IsTimerList
  <1>2. \A i \in 1 .. Len(w) : w[i] \in Elems(w) /\ w[i] \in Timers
    BY <1>1, ElementOfSeq DEF Elems
  <1>3. \A t \in Elems(w) : t \in Timers /\ dues[t] \in Counts
    BY <1>2 DEF Elems
  <1>4. \A t \in Elems(w) : /\ Ahead(dues[t], next) = Ahead(dues[t], now) - 1
                            /\ Ahead(dues[t], now) \in Nat
    BY <1>3, TickFacts, AheadFacts
  <1>5. \A t \in Elems(w) : Ahead(dues[t], next) < Half
    BY <1>1, <1>4, HalfFacts
  <1>6. \A i \in 1 .. Len(w) : /\ f[w[i]] = TickMod - Ahead(dues[w[i]], now)
                               /\ g[w[i]] = TickMod - Ahead(dues[w[i]], next)
    BY <1>2, Zenon DEF Nearness
  <1>7. \A i \in 1 .. Len(w) : g[w[i]] = f[w[i]] + 1 /\ f[w[i]] \in Int
    <2>. HIDE DEF f, g, next
    <2>1. TickMod \in Nat
      BY HalfFacts
    <2>. QED
      BY <1>2, <1>4, <1>6, <2>1
  <1>. HIDE DEF f
  <1>8. Ordered(w, g)
    <2>. HIDE DEF g
    <2>. QED
      BY <1>1, <1>7 DEF Ordered
  <1>. QED
    BY <1>1, <1>5, <1>8 DEF IsTimerList

\* The state of the timers while a function runs.
TimersState ==
  [list : Seq(Timers), due : [Timers -> Counts], init : [Timers -> Times],
   act : [Timers -> BOOLEAN], per : [Timers -> BOOLEAN],
   wanted : SUBSET Timers, fresh : SUBSET Timers, unflagged : SUBSET Timers]
StateRight(s) ==
  /\ s \in TimersState /\ IsTimerList(s.list, s.due, tick)
  /\ \A v \in Elems(s.list) : v \in s.fresh => Ahead(s.due[v], tick) > Due

\* One timer is as it was.
Same(d, s, v) ==
  /\ v \in Elems(d.list) <=> v \in Elems(s.list)
  /\ d.due[v] = s.due[v] /\ d.act[v] = s.act[v]
  /\ v \in d.wanted <=> v \in s.wanted
  /\ v \in d.fresh <=> v \in s.fresh
  /\ v \in d.unflagged <=> v \in s.unflagged

IsStarted(d, s, u) ==
  /\ u \in Elems(d.list) /\ u \in d.wanted /\ u \in d.fresh /\ u \notin d.unflagged
  /\ d.act[u] /\ d.per = s.per
IsStopped(d, u) ==
  /\ u \notin Elems(d.list) /\ u \notin d.wanted /\ ~d.act[u]

LEMMA StartedFacts ==
  ASSUME RttTimersAssumption, tick \in Counts, NEW s, StateRight(s), NEW u \in Timers
  PROVE  /\ StateRight(Started(s, u)) /\ IsStarted(Started(s, u), s, u)
         /\ \A v \in Timers \ {u} : Same(Started(s, u), s, v)
  <1>. DEFINE due == (tick + s.init[u]) % TickMod
              dues == [s.due EXCEPT ![u] = due]
              off == Removed(s.list, u)
              on == Placed(off, dues, u)
              d == Started(s, u)
  <1>1. s \in TimersState /\ IsTimerList(s.list, s.due, tick)
        /\ \A v \in Elems(s.list) : v \in s.fresh => Ahead(s.due[v], tick) > Due
    BY DEF StateRight
  <1>2. /\ s.list \in Seq(Timers) /\ s.due \in [Timers -> Counts] /\ s.init \in [Timers -> Times]
        /\ s.act \in [Timers -> BOOLEAN] /\ s.per \in [Timers -> BOOLEAN]
        /\ s.wanted \in SUBSET Timers /\ s.fresh \in SUBSET Timers
        /\ s.unflagged \in SUBSET Timers
    BY <1>1 DEF TimersState
  <1>3. s.init[u] \in Times
    BY <1>2
  <1>4. due \in Counts /\ Ahead(due, tick) = s.init[u] + Due
    BY <1>3, SetFacts
  <1>5. s.init[u] \in Nat \ {0} /\ s.init[u] + Due < Half /\ Due \in Nat
    BY <1>3, HalfFacts
  <1>6. Ahead(due, tick) > Due /\ Ahead(due, tick) < Half
    <2>. HIDE DEF due
    <2>. QED
      BY <1>4, <1>5
  <1>. HIDE DEF due
  <1>7. /\ dues \in [Timers -> Counts] /\ dues[u] = due
        /\ \A v \in Timers \ {u} : dues[v] = s.due[v]
    BY <1>2, <1>4
  <1>. HIDE DEF dues
  <1>8. IsTimerList(off, s.due, tick) /\ Elems(off) = Elems(s.list) \ {u}
    BY <1>1, RemovedKeeps
  <1>. HIDE DEF off
  <1>9. \A v \in Elems(off) : v \in Timers /\ v # u
    <2>1. off \in Seq(Timers)
      BY <1>8 DEF IsTimerList
    <2>2. \A i \in 1 .. Len(off) : off[i] \in Timers
      BY <2>1, ElementOfSeq
    <2>3. \A v \in Elems(off) : v \in Timers
      BY <2>2 DEF Elems
    <2>. QED
      BY <1>8, <2>3
  <1>10. IsTimerList(off, dues, tick)
    BY <1>7, <1>8, <1>9, SameDues
  <1>11. u \notin Elems(off) /\ Ahead(dues[u], tick) < Half
    BY <1>6, <1>7, <1>8
  <1>12. IsTimerList(on, dues, tick) /\ Elems(on) = Elems(off) \cup {u}
    BY <1>7, <1>10, <1>11, PlacedKeeps
  <1>. HIDE DEF on
  <1>13. d = [s EXCEPT !.list = on, !.due = dues, !.act[u] = TRUE, !.wanted = @ \cup {u},
                       !.fresh = @ \cup {u}, !.unflagged = @ \ {u}]
    BY Zenon DEF Started, on, off, dues, due
  <1>14. on \in Seq(Timers)
    BY <1>12 DEF IsTimerList
  <1>. HIDE DEF d
  <1>15. /\ d.list = on /\ d.due = dues /\ d.init = s.init /\ d.per = s.per
         /\ d.act = [s.act EXCEPT ![u] = TRUE] /\ d.wanted = s.wanted \cup {u}
         /\ d.fresh = s.fresh \cup {u} /\ d.unflagged = s.unflagged \ {u}
         /\ d \in TimersState
    <2>1. [s.act EXCEPT ![u] = TRUE] \in [Timers -> BOOLEAN]
      BY <1>2
    <2>2. /\ s.wanted \cup {u} \in SUBSET Timers /\ s.fresh \cup {u} \in SUBSET Timers
          /\ s.unflagged \ {u} \in SUBSET Timers
      BY <1>2
    <2>. QED
      BY <1>1, <1>7, <1>13, <1>14, <2>1, <2>2 DEF TimersState
  <1>16. StateRight(d)
    <2>1. \A v \in Elems(on) : v \in d.fresh => Ahead(dues[v], tick) > Due
      <3>. SUFFICES ASSUME NEW v \in Elems(on), v \in d.fresh PROVE Ahead(dues[v], tick) > Due
        OBVIOUS
      <3>1. CASE v = u
        BY <1>6, <1>7, <3>1
      <3>2. CASE v # u
        <4>1. v \in Elems(s.list) /\ v \in s.fresh /\ v \in Timers
          BY <1>8, <1>9, <1>12, <1>15, <3>2
        <4>2. dues[v] = s.due[v]
          BY <1>7, <3>2, <4>1
        <4>. QED
          BY <1>1, <4>1, <4>2
      <3>. QED
        BY <3>1, <3>2
    <2>. QED
      BY <1>12, <1>15, <2>1 DEF StateRight
  <1>17. IsStarted(d, s, u)
    BY <1>2, <1>12, <1>15 DEF IsStarted
  <1>18. ASSUME NEW v \in Timers \ {u} PROVE Same(d, s, v)
    BY <1>2, <1>7, <1>8, <1>12, <1>15, <1>18 DEF Same
  <1>. QED
    BY <1>16, <1>17, <1>18, Zenon DEF d

LEMMA StoppedFacts ==
  ASSUME NEW s, StateRight(s), NEW u \in Timers
  PROVE  /\ StateRight(Stopped(s, u))
         /\ Stopped(s, u) = s \/ IsStopped(Stopped(s, u), u)
         /\ \A v \in Timers \ {u} : Same(Stopped(s, u), s, v)
  <1>. DEFINE d == Stopped(s, u)
              off == Removed(s.list, u)
  <1>1. s \in TimersState /\ IsTimerList(s.list, s.due, tick)
        /\ \A v \in Elems(s.list) : v \in s.fresh => Ahead(s.due[v], tick) > Due
    BY DEF StateRight
  <1>2. CASE ~s.act[u]
    <2>1. d = s
      BY <1>2 DEF Stopped
    <2>. QED
      BY <2>1 DEF Same
  <1>3. CASE s.act[u]
    <2>1. d = [s EXCEPT !.list = off, !.act[u] = FALSE, !.wanted = @ \ {u},
                        !.unflagged = @ \ {u}]
      BY <1>3, Zenon DEF Stopped
    <2>2. IsTimerList(off, s.due, tick) /\ Elems(off) = Elems(s.list) \ {u}
      BY <1>1, RemovedKeeps
    <2>. HIDE DEF off, d
    <2>3. off \in Seq(Timers)
      BY <2>2 DEF IsTimerList
    <2>4. /\ s.act \in [Timers -> BOOLEAN] /\ s.wanted \in SUBSET Timers
          /\ s.unflagged \in SUBSET Timers
      BY <1>1 DEF TimersState
    <2>5. /\ d.list = off /\ d.due = s.due /\ d.init = s.init /\ d.per = s.per
          /\ d.act = [s.act EXCEPT ![u] = FALSE] /\ d.wanted = s.wanted \ {u}
          /\ d.fresh = s.fresh /\ d.unflagged = s.unflagged \ {u}
          /\ d \in TimersState
      <3>1. [s.act EXCEPT ![u] = FALSE] \in [Timers -> BOOLEAN]
        BY <2>4
      <3>2. s.wanted \ {u} \in SUBSET Timers /\ s.unflagged \ {u} \in SUBSET Timers
        BY <2>4
      <3>. QED
        BY <1>1, <2>1, <2>3, <3>1, <3>2 DEF TimersState
    <2>6. StateRight(d)
      BY <1>1, <2>2, <2>5 DEF StateRight
    <2>7. IsStopped(d, u)
      BY <2>2, <2>4, <2>5 DEF IsStopped
    <2>8. ASSUME NEW v \in Timers \ {u} PROVE Same(d, s, v)
      BY <2>2, <2>4, <2>5, <2>8 DEF Same
    <2>. QED
      BY <2>6, <2>7, <2>8, Zenon DEF d
  <1>. QED
    BY <1>2, <1>3

\* A timer that a function runs for, and one of the others.
IsOver(s, t) ==
  /\ t \in Elems(s.list) => t \in s.fresh /\ t \in s.wanted
  /\ s.act[t] => t \in s.wanted
  /\ t \in s.wanted => t \in s.unflagged \/ s.act[t]
OneRight(s, v) ==
  /\ TimerListed(s.list, s.act, s.wanted, s.unflagged, v)
  /\ Called(v) \/ TimerWanted(s.list, s.wanted, s.unflagged, v)

LEMMA SameRight ==
  ASSUME NEW d, NEW s, NEW v, Same(d, s, v)
  PROVE  (OneRight(s, v) => OneRight(d, v)) /\ (IsOver(s, v) => IsOver(d, v))
  BY DEF Same, OneRight, IsOver, TimerListed, TimerWanted

\* What a function does to a timer.
LEMMA DoneFacts ==
  ASSUME RttTimersAssumption, tick \in Counts, NEW s, StateRight(s), NEW t \in Timers,
         NEW u \in Timers, IsOver(s, t), \A v \in Timers \ {t} : OneRight(s, v),
         NEW d \in Done(s, u)
  PROVE  /\ StateRight(d) /\ IsOver(d, t) /\ \A v \in Timers \ {t} : OneRight(d, v)
         /\ \A v \in Timers \ {u} : Same(d, s, v)
  <1>1. s \in TimersState /\ IsTimerList(s.list, s.due, tick)
        /\ \A v \in Elems(s.list) : v \in s.fresh => Ahead(s.due[v], tick) > Due
    BY DEF StateRight
  <1>2. \/ d = s \/ d = Started(s, u) \/ d = Stopped(s, u)
        \/ \E n \in Times : d = [s EXCEPT !.init[u] = n]
        \/ \E b \in BOOLEAN : d = [s EXCEPT !.per[u] = b]
    BY DEF Done
  <1>3. StateRight(d) /\ \A v \in Timers \ {u} : Same(d, s, v)
    <2>1. CASE d = s
      BY <2>1 DEF Same
    <2>2. CASE d = Started(s, u)
      BY <2>2, StartedFacts, Zenon
    <2>3. CASE d = Stopped(s, u)
      BY <2>3, StoppedFacts, Zenon
    <2>4. CASE \E n \in Times : d = [s EXCEPT !.init[u] = n]
      <3>1. /\ d.list = s.list /\ d.due = s.due /\ d.act = s.act /\ d.wanted = s.wanted
            /\ d.fresh = s.fresh /\ d.unflagged = s.unflagged /\ d \in TimersState
        <4>1. PICK n \in Times : d = [s EXCEPT !.init[u] = n]
          BY <2>4
        <4>2. s.init \in [Timers -> Times]
          BY <1>1 DEF TimersState
        <4>3. [s.init EXCEPT ![u] = n] \in [Timers -> Times]
          BY <4>2
        <4>. QED
          BY <1>1, <4>1, <4>3 DEF TimersState
      <3>. QED
        BY <1>1, <3>1 DEF StateRight, Same
    <2>5. CASE \E b \in BOOLEAN : d = [s EXCEPT !.per[u] = b]
      <3>1. /\ d.list = s.list /\ d.due = s.due /\ d.act = s.act /\ d.wanted = s.wanted
            /\ d.fresh = s.fresh /\ d.unflagged = s.unflagged /\ d \in TimersState
        <4>1. PICK b \in BOOLEAN : d = [s EXCEPT !.per[u] = b]
          BY <2>5
        <4>2. s.per \in [Timers -> BOOLEAN]
          BY <1>1 DEF TimersState
        <4>3. [s.per EXCEPT ![u] = b] \in [Timers -> BOOLEAN]
          BY <4>2
        <4>. QED
          BY <1>1, <4>1, <4>3 DEF TimersState
      <3>. QED
        BY <1>1, <3>1 DEF StateRight, Same
    <2>. QED
      BY <1>2, <2>1, <2>2, <2>3, <2>4, <2>5
  <1>4. \/ Same(d, s, u)
        \/ IsStarted(d, s, u)
        \/ IsStopped(d, u)
    <2>1. CASE d = s
      BY <2>1 DEF Same
    <2>2. CASE d = Started(s, u)
      BY <2>2, StartedFacts, Zenon
    <2>3. CASE d = Stopped(s, u)
      <3>1. Stopped(s, u) = s \/ IsStopped(Stopped(s, u), u)
        BY StoppedFacts, Zenon
      <3>. QED
        BY <2>3, <3>1 DEF Same
    <2>4. CASE \E n \in Times : d = [s EXCEPT !.init[u] = n]
      BY <1>1, <2>4 DEF TimersState, Same
    <2>5. CASE \E b \in BOOLEAN : d = [s EXCEPT !.per[u] = b]
      BY <1>1, <2>5 DEF TimersState, Same
    <2>. QED
      BY <1>2, <2>1, <2>2, <2>3, <2>4, <2>5
  <1>5. (OneRight(s, u) => OneRight(d, u)) /\ (IsOver(s, u) => IsOver(d, u))
    <2>1. CASE Same(d, s, u)
      BY <2>1, SameRight, Zenon
    <2>2. CASE IsStarted(d, s, u)
      BY <2>2 DEF IsStarted, OneRight, IsOver, TimerListed, TimerWanted
    <2>3. CASE IsStopped(d, u)
      BY <2>3 DEF IsStopped, OneRight, IsOver, TimerListed, TimerWanted
    <2>. QED
      BY <1>4, <2>1, <2>2, <2>3
  <1>6. \A v \in Timers \ {u} :
          (OneRight(s, v) => OneRight(d, v)) /\ (IsOver(s, v) => IsOver(d, v))
    BY <1>3, SameRight, Zenon
  <1>7. IsOver(d, t)
    BY <1>5, <1>6
  <1>8. \A v \in Timers \ {t} : OneRight(d, v)
    BY <1>5, <1>6
  <1>. QED
    BY <1>3, <1>7, <1>8

LEMMA AfterCallFacts ==
  ASSUME RttTimersAssumption, tick \in Counts, NEW s, StateRight(s), NEW t \in Timers,
         IsOver(s, t), \A v \in Timers \ {t} : OneRight(s, v)
  PROVE  /\ StateRight(AfterCall(s, t)) /\ \A v \in Timers : OneRight(AfterCall(s, t), v)
         /\ \A v \in Timers \ {t} : Same(AfterCall(s, t), s, v)
  <1>. DEFINE again == s.per[t] /\ s.act[t]
              e == [s EXCEPT !.act[t] = FALSE,
                             !.unflagged = IF t \in s.fresh THEN @ \cup {t} ELSE @]
              c == IF again THEN Started(s, t) ELSE e
              w == IF s.per[t] \/ t \in s.fresh THEN s.wanted ELSE s.wanted \ {t}
              d == AfterCall(s, t)
  <1>1. s \in TimersState /\ IsTimerList(s.list, s.due, tick)
        /\ \A v \in Elems(s.list) : v \in s.fresh => Ahead(s.due[v], tick) > Due
    BY DEF StateRight
  <1>2. /\ s.act \in [Timers -> BOOLEAN] /\ s.per \in [Timers -> BOOLEAN]
        /\ s.wanted \in SUBSET Timers /\ s.unflagged \in SUBSET Timers
    BY <1>1 DEF TimersState
  <1>3. d = [c EXCEPT !.wanted = w]
    BY Zenon DEF AfterCall
  <1>4. /\ e.list = s.list /\ e.due = s.due /\ e.act = [s.act EXCEPT ![t] = FALSE]
        /\ e.wanted = s.wanted /\ e.fresh = s.fresh
        /\ e.unflagged = IF t \in s.fresh THEN s.unflagged \cup {t} ELSE s.unflagged
        /\ e \in TimersState
    <2>1. [s.act EXCEPT ![t] = FALSE] \in [Timers -> BOOLEAN]
      BY <1>2
    <2>2. (IF t \in s.fresh THEN s.unflagged \cup {t} ELSE s.unflagged) \in SUBSET Timers
      BY <1>2
    <2>. QED
      BY <1>1, <2>1, <2>2 DEF TimersState
  <1>5. w \in SUBSET Timers /\ (\A v \in Timers \ {t} : v \in w <=> v \in s.wanted)
    BY <1>2
  <1>. HIDE DEF e, w, d
  <1>6. CASE again
    <2>1. c = Started(s, t)
      BY <1>6
    <2>2. StateRight(c) /\ IsStarted(c, s, t) /\ \A v \in Timers \ {t} : Same(c, s, v)
      BY <2>1, StartedFacts, Zenon
    <2>. HIDE DEF c
    <2>3. c \in TimersState
      BY <2>2 DEF StateRight
    <2>4. /\ d.list = c.list /\ d.due = c.due /\ d.act = c.act /\ d.wanted = w
          /\ d.fresh = c.fresh /\ d.unflagged = c.unflagged /\ d \in TimersState
      BY <1>3, <1>5, <2>3 DEF TimersState
    <2>5. t \in w
      BY <1>6 DEF w, IsOver
    <2>6. OneRight(d, t)
      BY <2>2, <2>4, <2>5 DEF IsStarted, OneRight, TimerListed, TimerWanted
    <2>7. \A v \in Timers \ {t} : Same(d, s, v)
      BY <1>5, <2>2, <2>4 DEF Same
    <2>8. \A v \in Timers \ {t} : OneRight(d, v)
      BY <2>7, SameRight, Zenon
    <2>9. StateRight(d)
      BY <2>2, <2>4 DEF StateRight
    <2>. QED
      BY <2>6, <2>7, <2>8, <2>9 DEF d
  <1>7. CASE ~again
    <2>1. c = e
      BY <1>7
    <2>. HIDE DEF c
    <2>4. /\ d.list = e.list /\ d.due = e.due /\ d.act = e.act /\ d.wanted = w
          /\ d.fresh = e.fresh /\ d.unflagged = e.unflagged /\ d \in TimersState
      BY <1>3, <1>4, <1>5, <2>1 DEF TimersState
    <2>5. d.act[t] = FALSE /\ \A v \in Timers \ {t} : d.act[v] = s.act[v]
      BY <1>2, <1>4, <2>4
    <2>6. OneRight(d, t)
      <3>1. CASE t \in s.fresh
        <4>1. d.wanted = s.wanted /\ t \in d.unflagged
          BY <1>4, <2>4, <3>1 DEF w
        <4>. QED
          BY <1>4, <2>4, <4>1 DEF IsOver, OneRight, TimerListed, TimerWanted
      <3>2. CASE t \notin s.fresh
        <4>1. t \notin Elems(d.list) /\ d.unflagged = s.unflagged
          BY <1>4, <2>4, <3>2 DEF IsOver
        <4>2. t \in d.wanted => t \in d.unflagged
          BY <1>7, <2>4, <3>2, <4>1 DEF w, IsOver
        <4>. QED
          BY <4>1, <4>2 DEF OneRight, TimerListed, TimerWanted
      <3>. QED
        BY <3>1, <3>2
    <2>7. \A v \in Timers \ {t} : Same(d, s, v)
      BY <1>4, <1>5, <2>4, <2>5 DEF Same
    <2>8. \A v \in Timers \ {t} : OneRight(d, v)
      BY <2>7, SameRight, Zenon
    <2>9. StateRight(d)
      BY <1>1, <1>4, <2>4 DEF StateRight
    <2>. QED
      BY <2>6, <2>7, <2>8, <2>9 DEF d
  <1>. QED
    BY <1>6, <1>7

LEMMA ListedElems ==
  ASSUME timerList \in Seq(Timers), NEW t PROVE Listed(t) <=> t \in Elems(timerList)
  <1>1. DOMAIN timerList = 1 .. Len(timerList)
    BY LenProperties
  <1>. QED
    BY <1>1 DEF Listed, Elems

LEMMA RttTimersInitially ==
  ASSUME RttTimersAssumption, RttTimersInit PROVE RttTimersInv
  <1>. USE DEF RttTimersInit
  <1>1. TickMod \in Nat \ {0}
    BY HalfFacts
  <1>2. TimersTypes
    <2>1. timerUse \in SUBSET Timers
      BY DEF RttTimersAssumption
    <2>2. 0 \in Counts
      BY <1>1 DEF Counts
    <2>3. call.at = "none" /\ call.timer = NoTimer
      BY DEF NoCall
    <2>. QED
      BY <2>1, <2>2, <2>3 DEF TimersTypes, NoCall, IsCalling
  <1>3. timerList \in Seq(Timers) /\ Len(timerList) = 0 /\ Elems(timerList) = {}
    BY DEF Elems
  <1>4. IsTimerList(timerList, timeoutTick, tick)
    BY <1>3 DEF IsTimerList, NoneTwice, Ordered
  <1>5. CallRight /\ DuesRight
    BY <1>3 DEF CallRight, DuesRight, NoCall
  <1>6. \A t \in Timers : /\ TimerListed(timerList, activated, wanted, unflagged, t)
                          /\ TimerWanted(timerList, wanted, unflagged, t)
    BY <1>3 DEF TimerListed, TimerWanted
  <1>. QED
    BY <1>2, <1>4, <1>5, <1>6 DEF RttTimersInv

\* The steps of the thread.
LEMMA StartKeeps ==
  ASSUME RttTimersAssumption, RttTimersInv, NEW t \in Timers, Start(t) PROVE RttTimersInv'
  <1>. USE DEF Start, Calls, SameSetup
  <1>1. IsTimerList(timerList', timeoutTick', tick') /\ Elems(timerList') = Elems(timerList) \ {t}
    BY RemovedKeeps DEF RttTimersInv
  <1>2. call'.at = "read" /\ call'.timer = t /\ call.at = "none"
    BY DEF NoCall
  <1>3. TimersTypes'
    BY <1>2 DEF RttTimersInv, TimersTypes, NoCall, IsCalling
  <1>4. CallRight' /\ DuesRight'
    BY <1>1, <1>2 DEF RttTimersInv, CallRight, DuesRight
  <1>5. /\ activated \in [Timers -> BOOLEAN] /\ activated' = [activated EXCEPT ![t] = FALSE]
        /\ \A v \in Timers \ {t} : activated'[v] = activated[v]
    BY DEF RttTimersInv, TimersTypes
  <1>6. \A v \in Timers : TimerListed(timerList, activated, wanted, unflagged, v)'
    BY <1>1, <1>5 DEF RttTimersInv, TimerListed
  <1>7. \A v \in Timers : Called(v)' \/ TimerWanted(timerList, wanted, unflagged, v)'
    BY <1>1, <1>2 DEF RttTimersInv, Called, TimerWanted
  <1>. QED
    BY <1>1, <1>3, <1>4, <1>6, <1>7 DEF RttTimersInv

LEMMA ReadTickKeeps ==
  ASSUME RttTimersAssumption, RttTimersInv, ReadTick PROVE RttTimersInv'
  <1>. USE DEF ReadTick, At, Goes, SameSetup
  <1>. DEFINE t == call.timer
              due == (tick + initTick[t]) % TickMod
  <1>1. /\ call'.at = "insert" /\ call'.timer = t /\ call.at = "read"
        /\ t \in Timers /\ t \notin Elems(timerList)
    BY DEF RttTimersInv, TimersTypes, IsCalling, CallRight
  <1>2. tick \in Counts /\ initTick[t] \in Times
    BY <1>1 DEF RttTimersInv, TimersTypes
  <1>3. due \in Counts /\ Ahead(due, tick) = initTick[t] + Due
    BY <1>2, SetFacts
  <1>4. initTick[t] \in Nat \ {0} /\ initTick[t] + Due < Half /\ Due \in Nat
    BY <1>2, HalfFacts
  <1>5. Ahead(due, tick) >= 1 /\ Ahead(due, tick) < Half
    <2>. HIDE DEF due
    <2>. QED
      BY <1>3, <1>4
  <1>6. timeoutTick' = [timeoutTick EXCEPT ![t] = due] /\ timeoutTick \in [Timers -> Counts]
    BY DEF RttTimersInv, TimersTypes
  <1>. HIDE DEF due
  <1>7. /\ timeoutTick' \in [Timers -> Counts] /\ timeoutTick'[t] = due
        /\ \A v \in Timers \ {t} : timeoutTick'[v] = timeoutTick[v]
    BY <1>1, <1>3, <1>6
  <1>8. \A v \in Elems(timerList) : v \in Timers
    <2>1. timerList \in Seq(Timers)
      BY DEF RttTimersInv, IsTimerList
    <2>2. \A i \in 1 .. Len(timerList) : timerList[i] \in Timers
      BY <2>1, ElementOfSeq
    <2>. QED
      BY <2>2 DEF Elems
  <1>9. \A v \in Elems(timerList) : timeoutTick'[v] = timeoutTick[v]
    BY <1>1, <1>7, <1>8
  <1>10. IsTimerList(timerList', timeoutTick', tick')
    BY <1>9, SameDues DEF RttTimersInv
  <1>11. TimersTypes'
    BY <1>1, <1>7 DEF RttTimersInv, TimersTypes, IsCalling
  <1>12. CallRight'
    BY <1>1, <1>5, <1>7 DEF CallRight
  <1>13. DuesRight'
    BY <1>9 DEF RttTimersInv, DuesRight
  <1>14. \A v \in Timers : /\ TimerListed(timerList, activated, wanted, unflagged, v)'
                           /\ Called(v)' \/ TimerWanted(timerList, wanted, unflagged, v)'
    BY <1>1 DEF RttTimersInv, Called, TimerListed, TimerWanted
  <1>. QED
    BY <1>10, <1>11, <1>12, <1>13, <1>14 DEF RttTimersInv

LEMMA InsertTimerKeeps ==
  ASSUME RttTimersAssumption, RttTimersInv, InsertTimer PROVE RttTimersInv'
  <1>. USE DEF InsertTimer, At, SameSetup
  <1>. DEFINE t == call.timer
  <1>1. /\ call'.at = "none" /\ call'.timer = NoTimer /\ call.at = "insert" /\ ~checking
        /\ t \in Timers /\ t \notin Elems(timerList)
        /\ Ahead(timeoutTick[t], tick) >= 1 /\ Ahead(timeoutTick[t], tick) < Half
    BY DEF RttTimersInv, TimersTypes, IsCalling, CallRight, NoCall
  <1>2. timeoutTick \in [Timers -> Counts] /\ tick \in Counts
        /\ IsTimerList(timerList, timeoutTick, tick)
    BY DEF RttTimersInv, TimersTypes
  <1>3. /\ IsTimerList(timerList', timeoutTick', tick')
        /\ Elems(timerList') = Elems(timerList) \cup {t}
    BY <1>1, <1>2, PlacedKeeps
  <1>4. /\ activated \in [Timers -> BOOLEAN] /\ activated' = [activated EXCEPT ![t] = TRUE]
        /\ activated'[t] /\ \A v \in Timers \ {t} : activated'[v] = activated[v]
    BY <1>1 DEF RttTimersInv, TimersTypes
  <1>5. TimersTypes'
    BY <1>1 DEF RttTimersInv, TimersTypes, IsCalling, NoCall
  <1>6. CallRight'
    BY <1>1 DEF CallRight
  <1>7. DuesRight'
    BY <1>1, <1>3 DEF RttTimersInv, TimersTypes, DuesRight
  <1>8. \A v \in Timers : TimerListed(timerList, activated, wanted, unflagged, v)'
    BY <1>3, <1>4 DEF RttTimersInv, TimerListed
  <1>9. \A v \in Timers : TimerWanted(timerList, wanted, unflagged, v)'
    BY <1>1, <1>3 DEF RttTimersInv, TimerWanted, Called
  <1>. QED
    BY <1>3, <1>5, <1>6, <1>7, <1>8, <1>9 DEF RttTimersInv

LEMMA StopKeeps ==
  ASSUME RttTimersInv, NEW t \in Timers, Stop(t) PROVE RttTimersInv'
  <1>. USE DEF Stop, Calls, SameSetup
  <1>1. call'.at = "remove" /\ call'.timer = t /\ call.at = "none"
    BY DEF NoCall
  <1>2. TimersTypes'
    BY <1>1 DEF RttTimersInv, TimersTypes, NoCall, IsCalling
  <1>3. CallRight' /\ DuesRight' /\ IsTimerList(timerList, timeoutTick, tick)'
    BY <1>1 DEF RttTimersInv, CallRight, DuesRight
  <1>4. \A v \in Timers : /\ TimerListed(timerList, activated, wanted, unflagged, v)'
                          /\ Called(v)' \/ TimerWanted(timerList, wanted, unflagged, v)'
    BY <1>1 DEF RttTimersInv, Called
  <1>. QED
    BY <1>2, <1>3, <1>4 DEF RttTimersInv

LEMMA RemoveTimerKeeps ==
  ASSUME RttTimersAssumption, RttTimersInv, RemoveTimer PROVE RttTimersInv'
  <1>. USE DEF RemoveTimer, At, Goes, SameSetup
  <1>. DEFINE t == call.timer
  <1>1. call'.at = "clear" /\ call'.timer = t /\ call.at = "remove" /\ t \in Timers
    BY DEF RttTimersInv, TimersTypes, IsCalling
  <1>2. IsTimerList(timerList', timeoutTick', tick') /\ Elems(timerList') = Elems(timerList) \ {t}
    BY RemovedKeeps DEF RttTimersInv
  <1>3. TimersTypes'
    BY <1>1 DEF RttTimersInv, TimersTypes, IsCalling
  <1>4. CallRight' /\ DuesRight'
    BY <1>1, <1>2 DEF RttTimersInv, CallRight, DuesRight
  <1>5. \A v \in Timers : /\ TimerListed(timerList, activated, wanted, unflagged, v)'
                          /\ Called(v)' \/ TimerWanted(timerList, wanted, unflagged, v)'
    BY <1>1, <1>2 DEF RttTimersInv, Called, TimerListed, TimerWanted
  <1>. QED
    BY <1>2, <1>3, <1>4, <1>5 DEF RttTimersInv

LEMMA ClearFlagKeeps ==
  ASSUME RttTimersInv, ClearFlag PROVE RttTimersInv'
  <1>. USE DEF ClearFlag, At, SameSetup
  <1>. DEFINE t == call.timer
  <1>1. /\ call'.at = "none" /\ call'.timer = NoTimer /\ call.at = "clear" /\ t \in Timers
        /\ t \notin Elems(timerList)
    BY DEF RttTimersInv, TimersTypes, IsCalling, NoCall, CallRight
  <1>2. /\ activated \in [Timers -> BOOLEAN] /\ activated' = [activated EXCEPT ![t] = FALSE]
        /\ \A v \in Timers \ {t} : activated'[v] = activated[v]
    BY <1>1 DEF RttTimersInv, TimersTypes
  <1>3. TimersTypes'
    BY <1>1 DEF RttTimersInv, TimersTypes, IsCalling, NoCall
  <1>4. CallRight' /\ DuesRight' /\ IsTimerList(timerList, timeoutTick, tick)'
    BY <1>1 DEF RttTimersInv, CallRight, DuesRight
  <1>5. \A v \in Timers : TimerListed(timerList, activated, wanted, unflagged, v)'
    BY <1>1, <1>2 DEF RttTimersInv, TimerListed
  <1>6. \A v \in Timers : TimerWanted(timerList, wanted, unflagged, v)'
    BY <1>1 DEF RttTimersInv, TimerWanted, Called
  <1>. QED
    BY <1>3, <1>4, <1>5, <1>6 DEF RttTimersInv

LEMMA SetTimeKeeps ==
  ASSUME RttTimersInv, NEW t \in Timers, SetTime(t) PROVE RttTimersInv'
  <1>. USE DEF SetTime
  <1>1. TimersTypes'
    <2>1. initTick' \in [Timers -> Times]
      BY DEF RttTimersInv, TimersTypes
    <2>. QED
      BY <2>1 DEF RttTimersInv, TimersTypes, IsCalling
  <1>2. CallRight' /\ DuesRight' /\ IsTimerList(timerList, timeoutTick, tick)'
    BY DEF RttTimersInv, CallRight, DuesRight
  <1>3. \A v \in Timers : /\ TimerListed(timerList, activated, wanted, unflagged, v)'
                          /\ Called(v)' \/ TimerWanted(timerList, wanted, unflagged, v)'
    BY DEF RttTimersInv, Called
  <1>. QED
    BY <1>1, <1>2, <1>3 DEF RttTimersInv

LEMMA LoadFlagsKeeps ==
  ASSUME RttTimersInv, NEW t \in Timers, LoadFlags(t) PROVE RttTimersInv'
  <1>. USE DEF LoadFlags, SameSetup
  <1>1. call'.at = "store" /\ call'.timer = t /\ call.at = "none"
    BY DEF NoCall
  <1>2. TimersTypes'
    <2>1. activated[t] \in BOOLEAN
      BY DEF RttTimersInv, TimersTypes
    <2>. QED
      BY <1>1, <2>1 DEF RttTimersInv, TimersTypes, IsCalling
  <1>3. CallRight' /\ DuesRight' /\ IsTimerList(timerList, timeoutTick, tick)'
    BY <1>1 DEF RttTimersInv, CallRight, DuesRight
  <1>4. \A v \in Timers : /\ TimerListed(timerList, activated, wanted, unflagged, v)'
                          /\ TimerWanted(timerList, wanted, unflagged, v)'
    BY <1>1 DEF RttTimersInv, Called
  <1>. QED
    BY <1>2, <1>3, <1>4 DEF RttTimersInv

LEMMA StoreFlagsKeeps ==
  ASSUME RttTimersInv, StoreFlags PROVE RttTimersInv'
  <1>. USE DEF StoreFlags, At
  <1>. DEFINE t == call.timer
  <1>1. /\ call'.at = "none" /\ call'.timer = NoTimer /\ call.at = "store" /\ t \in Timers
        /\ call.active \in BOOLEAN
    BY DEF RttTimersInv, TimersTypes, IsCalling, NoCall
  <1>2. /\ activated \in [Timers -> BOOLEAN] /\ periodic \in [Timers -> BOOLEAN]
        /\ activated' = [activated EXCEPT ![t] = call.active]
        /\ activated'[t] = call.active /\ \A v \in Timers \ {t} : activated'[v] = activated[v]
    BY <1>1 DEF RttTimersInv, TimersTypes
  <1>3. periodic' \in [Timers -> BOOLEAN]
    BY <1>2
  <1>4. Listed(t) <=> t \in Elems(timerList)
    BY ListedElems DEF RttTimersInv, IsTimerList
  <1>5. unflagged' = IF t \in Elems(timerList) /\ ~call.active THEN unflagged \cup {t}
                     ELSE unflagged
    BY <1>4
  <1>6. TimersTypes'
    BY <1>1, <1>3, <1>5 DEF RttTimersInv, TimersTypes, IsCalling, NoCall
  <1>7. CallRight' /\ DuesRight' /\ IsTimerList(timerList, timeoutTick, tick)'
    BY <1>1 DEF RttTimersInv, CallRight, DuesRight
  <1>8. \A v \in Timers : TimerListed(timerList, activated, wanted, unflagged, v)'
    BY <1>1, <1>2, <1>5 DEF RttTimersInv, TimerListed
  <1>9. \A v \in Timers : TimerWanted(timerList, wanted, unflagged, v)'
    BY <1>1, <1>5 DEF RttTimersInv, TimerWanted, Called
  <1>. QED
    BY <1>6, <1>7, <1>8, <1>9 DEF RttTimersInv

LEMMA ListedTimers ==
  ASSUME NEW w, NEW dues, NEW now, IsTimerList(w, dues, now) PROVE Elems(w) \subseteq Timers
  <1>1. w \in Seq(Timers)
    BY DEF IsTimerList
  <1>2. \A i \in 1 .. Len(w) : w[i] \in Timers
    BY <1>1, ElementOfSeq
  <1>. QED
    BY <1>2 DEF Elems

\* The steps of the tick interrupt.
LEMMA TickingKeeps ==
  ASSUME RttTimersAssumption, RttTimersInv, Tick PROVE RttTimersInv'
  <1>. USE DEF Tick
  <1>1. /\ timeoutTick \in [Timers -> Counts] /\ tick \in Counts
        /\ IsTimerList(timerList, timeoutTick, tick) /\ Elems(timerList) \subseteq Timers
    BY ListedTimers DEF RttTimersInv, TimersTypes
  <1>2. \A t \in Elems(timerList) : Ahead(timeoutTick[t], tick) >= 1
    BY DEF RttTimersInv, DuesRight
  <1>3. IsTimerList(timerList, timeoutTick, (tick + 1) % TickMod)
    BY <1>1, <1>2, TickKeeps
  <1>4. tick' \in Counts
    <2>1. TickMod \in Nat \ {0} /\ tick + 1 \in Int
      BY <1>1, HalfFacts DEF Counts
    <2>. QED
      BY <2>1 DEF Counts
  <1>5. TimersTypes'
    BY <1>4 DEF RttTimersInv, TimersTypes, IsCalling
  <1>6. CallRight'
    <2>1. call.at \in {"read", "insert", "clear"} => call.timer \notin Elems(timerList)
      BY DEF RttTimersInv, CallRight
    <2>2. ASSUME call.at = "insert"
          PROVE  /\ Ahead(timeoutTick[call.timer], tick') >= 1
                 /\ Ahead(timeoutTick[call.timer], tick') < Half
      <3>. DEFINE a == timeoutTick[call.timer]
      <3>1. call.timer \in Timers /\ a \in Counts
        BY <1>1, <2>2 DEF RttTimersInv, TimersTypes, IsCalling
      <3>2. Ahead(a, tick) >= 1 /\ Ahead(a, tick) < Half
        BY <2>2 DEF RttTimersInv, CallRight
      <3>3. (tick + 1 - a) % TickMod \notin MaxLate + 1 .. Half - 1
        BY <2>2 DEF InTime
      <3>. HIDE DEF a
      <3>4. Ahead(a, (tick + 1) % TickMod) = Ahead(a, tick) - 1 /\ Ahead(a, tick) >= 2
        BY <1>1, <3>1, <3>2, <3>3, TickFacts
      <3>5. Ahead(a, tick) \in Nat /\ Half \in Nat
        BY <1>1, <3>1, AheadFacts, HalfFacts
      <3>6. Ahead(a, tick') = Ahead(a, tick) - 1
        BY <3>4
      <3>7. Ahead(a, tick') >= 1 /\ Ahead(a, tick') < Half
        BY <3>2, <3>4, <3>5, <3>6
      <3>. QED
        BY <3>7 DEF a
    <2>. QED
      BY <2>1, <2>2 DEF CallRight
  <1>7. DuesRight'
    BY DEF DuesRight
  <1>8. \A v \in Timers : /\ TimerListed(timerList, activated, wanted, unflagged, v)'
                          /\ Called(v)' \/ TimerWanted(timerList, wanted, unflagged, v)'
    BY DEF RttTimersInv, Called
  <1>. QED
    BY <1>3, <1>5, <1>6, <1>7, <1>8 DEF RttTimersInv

LEMMA CallFirstKeeps ==
  ASSUME RttTimersAssumption, RttTimersInv, CallFirst PROVE RttTimersInv'
  <1>. USE DEF CallFirst
  <1>. DEFINE t == Head(timerList)
              s == [State EXCEPT !.list = Tail(@)]
  <1>0. PICK u \in (Timers \ timerUse) \cup {t} : \E d \in Done(s, u) : Becomes(AfterCall(d, t))
    OBVIOUS
  <1>1. PICK d \in Done(s, u) : Becomes(AfterCall(d, t))
    BY <1>0
  <1>2. /\ TimersTypes /\ IsTimerList(timerList, timeoutTick, tick) /\ CallRight /\ DuesRight
        /\ \A v \in Timers : /\ TimerListed(timerList, activated, wanted, unflagged, v)
                             /\ Called(v) \/ TimerWanted(timerList, wanted, unflagged, v)
    BY DEF RttTimersInv
  <1>3. /\ IsTimerList(Tail(timerList), timeoutTick, tick)
        /\ Elems(Tail(timerList)) = Elems(timerList) \ {t}
        /\ t \in Elems(timerList) /\ t \in Timers
    BY <1>2, TailKeeps
  <1>4. tick \in Counts /\ timeoutTick[t] \in Counts
    BY <1>2, <1>3 DEF TimersTypes
  <1>5. t \notin fresh
    <2>1. (tick - timeoutTick[t]) % TickMod < Half
      BY DEF IsDue
    <2>2. Ahead(timeoutTick[t], tick) < Half /\ Ahead(timeoutTick[t], tick) \in Nat /\ Due \in Nat
      BY <1>2, <1>3, <1>4, AheadFacts, HalfFacts DEF IsTimerList
    <2>3. Ahead(timeoutTick[t], tick) <= Due
      BY <1>4, <2>1, <2>2, DueFacts
    <2>4. ~(Ahead(timeoutTick[t], tick) > Due)
      BY <2>2, <2>3
    <2>. QED
      BY <1>2, <1>3, <2>4 DEF DuesRight
  <1>. HIDE DEF t
  <1>6. /\ s.list = Tail(timerList) /\ s.due = timeoutTick /\ s.init = initTick
        /\ s.act = activated /\ s.per = periodic /\ s.wanted = wanted /\ s.fresh = fresh
        /\ s.unflagged = unflagged
    BY DEF State
  <1>7. s \in TimersState
    <2>1. Tail(timerList) \in Seq(Timers)
      BY <1>3 DEF IsTimerList
    <2>. QED
      BY <1>2, <2>1 DEF State, TimersState, TimersTypes
  <1>. HIDE DEF s
  <1>8. StateRight(s)
    BY <1>2, <1>3, <1>6, <1>7 DEF StateRight, DuesRight
  <1>9. IsOver(s, t)
    BY <1>2, <1>3, <1>5, <1>6 DEF IsOver, TimerListed
  <1>10. \A v \in Timers \ {t} : OneRight(s, v)
    BY <1>2, <1>3, <1>6 DEF OneRight, TimerListed, TimerWanted
  <1>11. u \in Timers
    BY <1>0, <1>3
  <1>12. /\ StateRight(d) /\ IsOver(d, t) /\ \A v \in Timers \ {t} : OneRight(d, v)
         /\ \A v \in Timers \ {u} : Same(d, s, v)
    BY <1>1, <1>3, <1>4, <1>8, <1>9, <1>10, <1>11, DoneFacts
  <1>. DEFINE e == AfterCall(d, t)
  <1>13. /\ StateRight(e) /\ \A v \in Timers : OneRight(e, v)
         /\ \A v \in Timers \ {t} : Same(e, d, v)
    BY <1>3, <1>4, <1>12, AfterCallFacts
  <1>. HIDE DEF e
  <1>14. /\ timerList' = e.list /\ timeoutTick' = e.due /\ initTick' = e.init
         /\ activated' = e.act /\ periodic' = e.per
         /\ wanted' = e.wanted /\ fresh' = e.fresh /\ unflagged' = e.unflagged
    BY <1>1 DEF Becomes, e
  <1>15. e \in TimersState /\ IsTimerList(e.list, e.due, tick)
         /\ \A v \in Elems(e.list) : v \in e.fresh => Ahead(e.due[v], tick) > Due
    BY <1>13 DEF StateRight
  <1>16. TimersTypes'
    BY <1>2, <1>14, <1>15 DEF TimersTypes, TimersState, IsCalling
  <1>17. IsTimerList(timerList', timeoutTick', tick')
    BY <1>14, <1>15
  <1>18. CallRight'
    <2>. SUFFICES ASSUME call.at \in {"read", "insert", "clear"}
                  PROVE  CallRight'
      BY DEF CallRight
    <2>. DEFINE c == call.timer
    <2>1. c \notin Elems(timerList) /\ c \in timerUse /\ c \in Timers
      BY <1>2 DEF CallRight, TimersTypes, IsCalling
    <2>2. c # t /\ c # u
      BY <1>0, <1>3, <2>1
    <2>3. Same(e, d, c) /\ Same(d, s, c)
      BY <1>12, <1>13, <2>1, <2>2
    <2>4. c \notin Elems(timerList') /\ timeoutTick'[c] = timeoutTick[c]
      BY <1>3, <1>6, <1>14, <2>1, <2>3 DEF Same
    <2>. QED
      BY <1>2, <2>4 DEF CallRight
  <1>19. DuesRight'
    BY <1>14, <1>15 DEF DuesRight
  <1>20. \A v \in Timers : /\ TimerListed(timerList, activated, wanted, unflagged, v)'
                           /\ Called(v)' \/ TimerWanted(timerList, wanted, unflagged, v)'
    BY <1>13, <1>14 DEF OneRight, Called
  <1>. QED
    BY <1>16, <1>17, <1>18, <1>19, <1>20 DEF RttTimersInv

LEMMA LeaveCheckKeeps ==
  ASSUME RttTimersAssumption, RttTimersInv, LeaveCheck PROVE RttTimersInv'
  <1>. USE DEF LeaveCheck
  <1>1. /\ timeoutTick \in [Timers -> Counts] /\ tick \in Counts /\ Due \in Nat
        /\ IsTimerList(timerList, timeoutTick, tick) /\ Elems(timerList) \subseteq Timers
    BY ListedTimers, HalfFacts DEF RttTimersInv, TimersTypes
  <1>2. TimersTypes'
    BY DEF RttTimersInv, TimersTypes, IsCalling
  <1>3. \A v \in Elems(timerList) : Ahead(timeoutTick[v], tick) > Due
    <2>. SUFFICES ASSUME NEW v \in Elems(timerList)
                  PROVE  Ahead(timeoutTick[v], tick) > Due
      OBVIOUS
    <2>. DEFINE ahead(t) == Ahead(timeoutTick[t], tick)
                f == Nearness(timeoutTick, tick)
    <2>1. PICK i \in 1 .. Len(timerList) : v = timerList[i]
      BY DEF Elems
    <2>2. timerList \in Seq(Timers) /\ Ordered(timerList, f)
          /\ \A t \in Elems(timerList) : ahead(t) < Half
      BY <1>1 DEF IsTimerList
    <2>3. timerList # <<>> /\ Head(timerList) = timerList[1] /\ Len(timerList) \in Nat
      BY <2>1, <2>2, LenProperties, HeadTailProperties
    <2>4. 1 \in 1 .. Len(timerList) /\ (i = 1 \/ 1 < i)
      BY <2>1, <2>3
    <2>5. \A t \in Elems(timerList) : ahead(t) \in Nat /\ f[t] = TickMod - ahead(t)
      <3>1. \A t \in Elems(timerList) : timeoutTick[t] \in Counts /\ t \in Timers
        BY <1>1
      <3>. QED
        BY <1>1, <3>1, AheadFacts DEF Nearness
    <2>6. timerList[1] \in Elems(timerList)
      BY <2>4 DEF Elems
    <2>7. ahead(timerList[1]) > Due
      <3>. DEFINE a == timeoutTick[timerList[1]]
      <3>1. a \in Counts /\ Ahead(a, tick) < Half /\ Ahead(a, tick) \in Nat
        BY <1>1, <2>2, <2>5, <2>6
      <3>2. ~((tick - a) % TickMod < Half)
        BY <2>3 DEF IsDue
      <3>. HIDE DEF a
      <3>3. ~(Ahead(a, tick) <= Due)
        BY <1>1, <3>1, <3>2, DueFacts
      <3>4. Ahead(a, tick) > Due
        BY <1>1, <3>1, <3>3
      <3>. QED
        BY <3>4 DEF a
    <2>. HIDE DEF f
    <2>8. i = 1 \/ f[timerList[1]] >= f[v]
      BY <2>1, <2>2, <2>4 DEF Ordered
    <2>9. ahead(v) \in Nat /\ f[v] = TickMod - ahead(v)
          /\ ahead(timerList[1]) \in Nat /\ f[timerList[1]] = TickMod - ahead(timerList[1])
      BY <2>5, <2>6
    <2>10. TickMod \in Nat
      BY HalfFacts
    <2>. HIDE DEF ahead
    <2>11. ahead(v) > Due
      BY <1>1, <2>1, <2>7, <2>8, <2>9, <2>10
    <2>. QED
      BY <2>11 DEF ahead
  <1>4. \A v \in Elems(timerList) : Ahead(timeoutTick[v], tick) >= 1
    <2>1. \A v \in Elems(timerList) : Ahead(timeoutTick[v], tick) \in Nat
      <3>1. \A v \in Elems(timerList) : timeoutTick[v] \in Counts
        BY <1>1
      <3>. QED
        BY <1>1, <3>1, AheadFacts
    <2>. QED
      BY <1>1, <1>3, <2>1
  <1>5. CallRight' /\ DuesRight'
    BY <1>3, <1>4 DEF RttTimersInv, CallRight, DuesRight
  <1>6. \A v \in Timers : /\ TimerListed(timerList, activated, wanted, unflagged, v)'
                          /\ Called(v)' \/ TimerWanted(timerList, wanted, unflagged, v)'
    BY DEF RttTimersInv, Called
  <1>. QED
    BY <1>1, <1>2, <1>5, <1>6 DEF RttTimersInv

LEMMA RttTimersStep ==
  ASSUME RttTimersAssumption, RttTimersInv, [RttTimersNext]_rttTimerVars PROVE RttTimersInv'
  <1>1. ASSUME NEW t \in Timers, Start(t) \/ Stop(t) \/ SetTime(t) \/ LoadFlags(t)
        PROVE  RttTimersInv'
    BY <1>1, StartKeeps, StopKeeps, SetTimeKeeps, LoadFlagsKeeps
  <1>2. CASE ReadTick
    BY <1>2, ReadTickKeeps
  <1>3. CASE InsertTimer
    BY <1>3, InsertTimerKeeps
  <1>4. CASE RemoveTimer
    BY <1>4, RemoveTimerKeeps
  <1>5. CASE ClearFlag
    BY <1>5, ClearFlagKeeps
  <1>6. CASE StoreFlags
    BY <1>6, StoreFlagsKeeps
  <1>7. CASE Tick
    BY <1>7, TickingKeeps
  <1>8. CASE CallFirst
    BY <1>8, CallFirstKeeps
  <1>9. CASE LeaveCheck
    BY <1>9, LeaveCheckKeeps
  <1>10. CASE UNCHANGED rttTimerVars
    <2>. USE <1>10 DEF rttTimerVars
    <2>1. TimersTypes' /\ CallRight' /\ DuesRight'
      BY DEF RttTimersInv, TimersTypes, IsCalling, CallRight, DuesRight
    <2>2. \A v \in Timers : /\ TimerListed(timerList, activated, wanted, unflagged, v)'
                            /\ Called(v)' \/ TimerWanted(timerList, wanted, unflagged, v)'
      BY DEF RttTimersInv, Called
    <2>3. IsTimerList(timerList, timeoutTick, tick)'
      BY DEF RttTimersInv
    <2>. QED
      BY <2>1, <2>2, <2>3 DEF RttTimersInv
  <1>. QED
    BY <1>1, <1>2, <1>3, <1>4, <1>5, <1>6, <1>7, <1>8, <1>9, <1>10 DEF RttTimersNext

LEMMA RttTimersImplied ==
  ASSUME RttTimersAssumption, RttTimersInv PROVE RttTimersTypeOK /\ RttTimersRight
  <1>1. /\ TimersTypes /\ IsTimerList(timerList, timeoutTick, tick) /\ DuesRight
        /\ \A v \in Timers : /\ TimerListed(timerList, activated, wanted, unflagged, v)
                             /\ Called(v) \/ TimerWanted(timerList, wanted, unflagged, v)
    BY DEF RttTimersInv
  <1>2. /\ timerList \in Seq(Timers) /\ NoneTwice(timerList)
        /\ Ordered(timerList, Nearness(timeoutTick, tick))
        /\ \A v \in Elems(timerList) : Ahead(timeoutTick[v], tick) < Half
    BY <1>1 DEF IsTimerList
  <1>3. timeoutTick \in [Timers -> Counts] /\ tick \in Counts
    BY <1>1 DEF TimersTypes
  <1>4. DOMAIN timerList = 1 .. Len(timerList) /\ Len(timerList) \in Nat
        /\ \A i \in 1 .. Len(timerList) :
             timerList[i] \in Timers /\ timerList[i] \in Elems(timerList)
    BY <1>2, LenProperties, ElementOfSeq DEF Elems
  <1>5. RttTimersTypeOK
    BY <1>1, <1>2 DEF TimersTypes, RttTimersTypeOK, Counts, IsCalling
  <1>6. SortedOnce
    <2>. SUFFICES ASSUME NEW i \in 1 .. Len(timerList), NEW j \in 1 .. Len(timerList), i < j
                  PROVE  /\ timerList[i] # timerList[j]
                         /\ ~IsLater(timeoutTick[timerList[i]], timeoutTick[timerList[j]])
      BY <1>4 DEF SortedOnce
    <2>. DEFINE x == timerList[i]
                y == timerList[j]
                f == Nearness(timeoutTick, tick)
    <2>1. x # y
      BY <1>2 DEF NoneTwice
    <2>2. f[x] >= f[y]
      BY <1>2 DEF Ordered
    <2>3. /\ x \in Timers /\ y \in Timers /\ timeoutTick[x] \in Counts /\ timeoutTick[y] \in Counts
          /\ Ahead(timeoutTick[x], tick) < Half /\ Ahead(timeoutTick[y], tick) < Half
      BY <1>2, <1>3, <1>4
    <2>4. /\ f[x] = TickMod - Ahead(timeoutTick[x], tick)
          /\ f[y] = TickMod - Ahead(timeoutTick[y], tick)
      BY <2>3 DEF Nearness
    <2>5. /\ Ahead(timeoutTick[x], tick) \in Nat /\ Ahead(timeoutTick[y], tick) \in Nat
          /\ TickMod \in Nat
      BY <1>3, <2>3, AheadFacts, HalfFacts
    <2>6. IsLater(timeoutTick[x], timeoutTick[y])
            <=> Ahead(timeoutTick[x], tick) > Ahead(timeoutTick[y], tick)
      BY <1>3, <2>3, LaterFacts
    <2>. HIDE DEF f
    <2>. QED
      BY <2>1, <2>2, <2>4, <2>5, <2>6
  <1>7. NoneOverdue
    <2>. SUFFICES ASSUME ~checking, NEW t \in Timers, Listed(t), t \notin fresh
                  PROVE  ~IsDue(t)
      BY DEF NoneOverdue
    <2>1. t \in Elems(timerList) /\ timeoutTick[t] \in Counts
      BY <1>2, <1>3, ListedElems
    <2>2. Ahead(timeoutTick[t], tick) < Half /\ Ahead(timeoutTick[t], tick) \in Nat /\ Due \in Nat
      BY <1>2, <1>3, <2>1, AheadFacts, HalfFacts
    <2>3. Ahead(timeoutTick[t], tick) > Due
      BY <1>1, <2>1 DEF DuesRight, TimersTypes
    <2>4. ~(Ahead(timeoutTick[t], tick) <= Due)
      BY <2>2, <2>3
    <2>5. ~((tick - timeoutTick[t]) % TickMod < Half)
      BY <1>3, <2>1, <2>2, <2>4, DueFacts
    <2>. QED
      BY <2>5 DEF IsDue
  <1>8. WantedListed
    <2>. SUFFICES ASSUME NEW t \in Timers \ unflagged, ~(call.timer = t /\ call.at # "store")
                  PROVE  Listed(t) = (t \in wanted)
      BY DEF WantedListed
    <2>1. Listed(t) <=> t \in Elems(timerList)
      BY <1>2, ListedElems
    <2>2. ~Called(t)
      BY DEF Called
    <2>3. Listed(t) \in BOOLEAN
      BY DEF Listed
    <2>4. t \in Elems(timerList) <=> t \in wanted
      BY <1>1, <2>2 DEF TimerListed, TimerWanted
    <2>5. Listed(t) <=> t \in wanted
      BY <2>1, <2>4
    <2>. QED
      BY <2>3, <2>5
  <1>. QED
    BY <1>5, <1>6, <1>7, <1>8 DEF RttTimersRight

\* The timers of RT-Thread with functions to call (rt_timer_start, rt_timer_stop,
\* rt_timer_control and rt_timer_check, timer.c): the list has each timer once at most, in
\* the order of their times over the wrap of the tick count; after the tick interrupt no
\* time has passed of a timer that was in the list before; and the timers in the list are
\* those that were started and neither stopped nor over, except those a call is about and
\* those whose flag was cleared behind them.
THEOREM RttTimersCorrect ==
  ASSUME RttTimersAssumption
  PROVE  RttTimersSpec => [](RttTimersTypeOK /\ RttTimersRight)
  <1>1. RttTimersInit => RttTimersInv
    BY RttTimersInitially
  <1>2. RttTimersInv /\ [RttTimersNext]_rttTimerVars => RttTimersInv'
    BY RttTimersStep
  <1>3. RttTimersInv => RttTimersTypeOK /\ RttTimersRight
    BY RttTimersImplied
  <1>. QED
    BY <1>1, <1>2, <1>3, PTL DEF RttTimersSpec
=============================================================================
