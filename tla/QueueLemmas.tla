---------------------------- MODULE QueueLemmas ----------------------------
(***************************************************************************)
(* What the operations on a list of objects do to its elements: the lists  *)
(* of AWeb are sequences here, a list holds an object once, and ADDTAIL,   *)
(* INSERT, REMOVE and REMHEAD keep it so.                                  *)
(***************************************************************************)
EXTENDS Naturals, FiniteSets, SequencesExt, Lists, SequenceTheorems,
        FiniteSetTheorems, WellFoundedInduction, TLAPS

\* A set of natural numbers that is not empty has a least element: the
\* intervals 1..n of its elements n have a least one under inclusion.
LEMMA MinOfNaturals ==
  ASSUME NEW S \in SUBSET Nat, S # {}
  PROVE  Min(S) \in S /\ \A n \in S : Min(S) <= n
<1> DEFINE T == {1 .. n : n \in S}
<1>1. T \subseteq FiniteSubsetsOf(Nat)
  <2> SUFFICES ASSUME NEW n \in S PROVE 1 .. n \in FiniteSubsetsOf(Nat)
    BY Zenon
  <2>1. IsFiniteSet(1 .. n)
    BY FS_Interval, SMT
  <2> QED
    BY <2>1 DEF FiniteSubsetsOf
<1>2. PICK x \in T : \A y \in T : <<y, x>> \notin StrictSubsetOrdering(Nat)
  <2>1. T # {}
    OBVIOUS
  <2> QED
    BY <1>1, <2>1, FS_StrictSubsetOrderingWellFounded, WFMin, Zenon
<1>3. PICK m \in S : x = 1 .. m
  BY <1>2
<1>4. ASSUME NEW n \in S PROVE m <= n
  <2> SUFFICES ASSUME n < m PROVE FALSE
    BY SMT
  <2>1. 1 .. n \subseteq 1 .. m /\ 1 .. n # 1 .. m /\ 1 .. m \subseteq Nat
    BY SMT
  <2>2. << 1 .. n, 1 .. m >> \in StrictSubsetOrdering(Nat)
    BY <2>1 DEF StrictSubsetOrdering
  <2> QED
    BY <1>2, <1>3, <2>2
<1> QED
  BY <1>4, Zenon DEF Min

\* Induction, with a set for what is shown of every number up to n.
LEMMA UpTo ==
  ASSUME NEW n \in Nat, NEW S, 0 \in S,
         \A k \in 1 .. n : k - 1 \in S => k \in S
  PROVE  \A k \in 0 .. n : k \in S
<1> DEFINE Bad == {k \in Nat : k <= n /\ k \notin S}
<1>1. SUFFICES ASSUME Bad # {} PROVE FALSE
  BY <1>1, SMT
<1>2. PICK m \in Bad : \A k \in Bad : m <= k
  BY <1>1, MinOfNaturals, Zenon
<1>3. m \in 1 .. n /\ m - 1 \in Nat /\ m - 1 <= n /\ ~(m <= m - 1)
  BY <1>2, SMT
<1>4. m - 1 \in S
  BY <1>2, <1>3, Zenon
<1> QED
  BY <1>2, <1>3, <1>4, Zenon

\* InsertAt, element by element.
LEMMA InsertAtElements ==
  ASSUME NEW S, NEW q \in Seq(S), NEW i \in 1 .. Len(q), NEW e \in S
  PROVE  /\ InsertAt(q, i, e) \in Seq(S)
         /\ Len(InsertAt(q, i, e)) = Len(q) + 1
         /\ \A j \in 1 .. Len(q) + 1 :
              InsertAt(q, i, e)[j] = IF j < i THEN q[j]
                                     ELSE IF j = i THEN e ELSE q[j - 1]
<1> DEFINE a == SubSeq(q, 1, i - 1)
           b == SubSeq(q, i, Len(q))
           c == a \o <<e>>
<1>1. /\ Len(q) \in Nat /\ i \in Int /\ i - 1 \in Int
      /\ \A j \in 1 .. i - 1 : j \in 1 .. Len(q)
      /\ \A j \in i .. Len(q) : j \in 1 .. Len(q)
      /\ \A j \in 1 .. Len(q) : q[j] \in S
  BY SMT
<1>2. a \in Seq(S) /\ Len(a) = i - 1 /\ \A j \in 1 .. i - 1 : a[j] = q[j]
  BY <1>1, SubSeqProperties
<1>3. b \in Seq(S) /\ Len(b) = Len(q) + 1 - i
      /\ \A j \in 1 .. Len(q) + 1 - i : b[j] = q[i + j - 1]
  BY <1>1, SubSeqProperties
<1>4. InsertAt(q, i, e) = c \o b
  BY DEF InsertAt
<1> HIDE DEF a, b
<1>5. c \in Seq(S) /\ Len(c) = i /\ c[i] = e /\ \A j \in 1 .. i - 1 : c[j] = q[j]
  <2> DEFINE d == <<e>>
  <2>1. d \in Seq(S) /\ Len(d) = 1 /\ d[1] = e
    BY SMT
  <2> HIDE DEF d
  <2>2. /\ a \o d \in Seq(S) /\ Len(a \o d) = Len(a) + Len(d)
        /\ \A j \in 1 .. Len(a) + Len(d) :
             (a \o d)[j] = IF j <= Len(a) THEN a[j] ELSE d[j - Len(a)]
    BY <1>2, <2>1, ConcatProperties
  <2>3. /\ \A j \in 1 .. i - 1 : j \in 1 .. i /\ j <= i - 1
        /\ i \in 1 .. i /\ ~(i <= i - 1) /\ i - (i - 1) = 1 /\ (i - 1) + 1 = i
    BY <1>1, SMT
  <2>4. c = a \o d
    BY DEF d
  <2> HIDE DEF c
  <2>5. /\ c \in Seq(S) /\ Len(c) = i
        /\ \A j \in 1 .. i : c[j] = IF j <= i - 1 THEN a[j] ELSE d[j - (i - 1)]
    BY <1>2, <2>1, <2>2, <2>3, <2>4, Zenon
  <2>6. c[i] = e
    BY <2>1, <2>3, <2>5, Zenon
  <2>7. ASSUME NEW j \in 1 .. i - 1 PROVE c[j] = q[j]
    BY <1>2, <2>3, <2>5, Zenon
  <2> QED
    BY <2>5, <2>6, <2>7, Zenon
<1> HIDE DEF c
<1>6. /\ c \o b \in Seq(S) /\ Len(c \o b) = Len(q) + 1
      /\ \A j \in 1 .. Len(q) + 1 : (c \o b)[j] =
           IF j <= i THEN c[j] ELSE b[j - i]
  <2>1. Len(c) + Len(b) = Len(q) + 1
    BY <1>1, <1>3, <1>5, SMT
  <2>2. /\ c \o b \in Seq(S) /\ Len(c \o b) = Len(c) + Len(b)
        /\ \A j \in 1 .. Len(c) + Len(b) :
             (c \o b)[j] = IF j <= Len(c) THEN c[j] ELSE b[j - Len(c)]
    BY <1>3, <1>5, ConcatProperties
  <2> QED
    BY <1>5, <2>1, <2>2, Zenon
<1>7. ASSUME NEW j \in 1 .. Len(q) + 1
      PROVE  (c \o b)[j] = IF j < i THEN q[j] ELSE IF j = i THEN e ELSE q[j - 1]
  <2>1. j > i => b[j - i] = q[j - 1]
    BY <1>1, <1>3, SMT
  <2> HIDE DEF c
  <2> QED
    BY <1>1, <1>5, <1>6, <2>1, SMT
<1> QED
  BY <1>4, <1>6, <1>7, Zenon

\* RemoveAt, element by element.
LEMMA RemoveAtElements ==
  ASSUME NEW S, NEW q \in Seq(S), NEW i \in 1 .. Len(q)
  PROVE  /\ RemoveAt(q, i) \in Seq(S)
         /\ Len(RemoveAt(q, i)) = Len(q) - 1
         /\ \A j \in 1 .. Len(q) - 1 :
              RemoveAt(q, i)[j] = IF j < i THEN q[j] ELSE q[j + 1]
<1> DEFINE a == SubSeq(q, 1, i - 1)
           b == SubSeq(q, i + 1, Len(q))
<1>1. /\ a \in Seq(S) /\ Len(a) = i - 1
      /\ \A j \in 1 .. i - 1 : a[j] = q[j]
  BY SMT
<1>2. /\ b \in Seq(S) /\ Len(b) = Len(q) - i
      /\ \A j \in 1 .. Len(q) - i : b[j] = q[i + j]
  BY SMT
<1> HIDE DEF a, b
<1>3. /\ a \o b \in Seq(S) /\ Len(a \o b) = Len(q) - 1
      /\ \A j \in 1 .. Len(q) - 1 :
           (a \o b)[j] = IF j <= i - 1 THEN a[j] ELSE b[j - (i - 1)]
  <2>1. /\ a \o b \in Seq(S) /\ Len(a \o b) = Len(a) + Len(b)
        /\ \A j \in 1 .. Len(a) + Len(b) :
             (a \o b)[j] = IF j <= Len(a) THEN a[j] ELSE b[j - Len(a)]
    BY <1>1, <1>2, ConcatProperties
  <2>2. Len(a) = i - 1 /\ Len(a) + Len(b) = Len(q) - 1
    BY <1>1, <1>2, SMT
  <2> QED
    BY <2>1, <2>2
<1>4. \A j \in 1 .. Len(q) - 1 :
        (a \o b)[j] = IF j < i THEN q[j] ELSE q[j + 1]
  <2> SUFFICES ASSUME NEW j \in 1 .. Len(q) - 1
               PROVE  (a \o b)[j] = IF j < i THEN q[j] ELSE q[j + 1]
    OBVIOUS
  <2>1. CASE j < i
    BY <1>1, <1>3, <2>1, SMT
  <2>2. CASE ~(j < i)
    <3>1. j - (i - 1) \in 1 .. Len(q) - i /\ i + (j - (i - 1)) = j + 1
      BY <2>2, SMT
    <3> QED
      BY <1>2, <1>3, <2>2, <3>1, SMT
  <2> QED
    BY <2>1, <2>2
<1> QED
  BY <1>3, <1>4 DEF RemoveAt, a, b

\* ToSet by indices.
LEMMA InToSet ==
  ASSUME NEW S, NEW q \in Seq(S)
  PROVE  /\ \A x : x \in ToSet(q) <=> \E i \in 1 .. Len(q) : q[i] = x
         /\ IsInjective(q) <=> \A i, j \in 1 .. Len(q) : q[i] = q[j] => i = j
  BY SMT DEF ToSet, IsInjective

\* ADDTAIL of an object that is not in the list.
LEMMA AppendSet ==
  ASSUME NEW S, NEW q \in Seq(S), NEW e \in S
  PROVE  /\ Append(q, e) \in Seq(S)
         /\ ToSet(Append(q, e)) = ToSet(q) \cup {e}
         /\ IsInjective(q) /\ e \notin ToSet(q) => IsInjective(Append(q, e))
<1> DEFINE r == Append(q, e)
<1>1. /\ r \in Seq(S) /\ Len(r) = Len(q) + 1
      /\ \A i \in 1 .. Len(q) : r[i] = q[i]
      /\ r[Len(q) + 1] = e
  BY AppendProperties
<1> HIDE DEF r
<1>2. ASSUME NEW x PROVE x \in ToSet(r) <=> x \in ToSet(q) \cup {e}
  BY <1>1, InToSet, SMT
<1>3. ASSUME IsInjective(q), e \notin ToSet(q) PROVE IsInjective(r)
  BY <1>1, <1>3, InToSet, SMT
<1> QED
  BY <1>1, <1>2, <1>3 DEF r

\* INSERT of an object that is not in the list.
LEMMA InsertAtSet ==
  ASSUME NEW S, NEW q \in Seq(S), NEW i \in 1 .. Len(q), NEW e \in S
  PROVE  /\ InsertAt(q, i, e) \in Seq(S)
         /\ ToSet(InsertAt(q, i, e)) = ToSet(q) \cup {e}
         /\ IsInjective(q) /\ e \notin ToSet(q)
              => IsInjective(InsertAt(q, i, e))
<1> DEFINE r == InsertAt(q, i, e)
<1>1. /\ r \in Seq(S) /\ Len(r) = Len(q) + 1
      /\ \A j \in 1 .. Len(q) + 1 :
           r[j] = IF j < i THEN q[j] ELSE IF j = i THEN e ELSE q[j - 1]
  BY InsertAtElements
<1> HIDE DEF r
<1>2. ASSUME NEW x \in ToSet(r) PROVE x \in ToSet(q) \cup {e}
  <2>1. PICK j \in 1 .. Len(q) + 1 : r[j] = x
    BY <1>1, InToSet
  <2>2. CASE j = i
    BY <1>1, <2>1, <2>2
  <2>3. CASE j < i
    <3>1. j \in 1 .. Len(q)
      BY <2>3, SMT
    <3>2. x = q[j]
      BY <1>1, <2>1, <2>3
    <3> QED
      BY <3>1, <3>2, InToSet
  <2>4. CASE j > i
    <3>1. j - 1 \in 1 .. Len(q)
      BY <2>4, SMT
    <3>2. ~(j < i) /\ j # i
      BY <2>4, SMT
    <3>3. r[j] = q[j - 1]
      BY <1>1, <3>2
    <3>4. x = q[j - 1]
      BY <2>1, <3>3
    <3> QED
      BY <3>1, <3>4, InToSet
  <2> QED
    BY <2>2, <2>3, <2>4, SMT
<1>3. ASSUME NEW x \in ToSet(q) \cup {e} PROVE x \in ToSet(r)
  <2>1. CASE x = e
    BY <1>1, <2>1, InToSet, SMT
  <2>2. CASE x \in ToSet(q)
    <3>1. PICK j \in 1 .. Len(q) : q[j] = x
      BY <2>2, InToSet
    <3>2. CASE j < i
      <4>1. j \in 1 .. Len(q) + 1
        BY <3>2, SMT
      <4>2. r[j] = x
        BY <1>1, <3>1, <3>2, <4>1
      <4> QED
        BY <1>1, <4>1, <4>2, InToSet
    <3>3. CASE ~(j < i)
      <4>1. j + 1 \in 1 .. Len(q) + 1 /\ ~(j + 1 < i) /\ j + 1 # i
        BY <3>3, SMT
      <4>2. r[j + 1] = x
        BY <1>1, <3>1, <4>1, SMT
      <4> QED
        BY <1>1, <4>1, <4>2, InToSet
    <3> QED
      BY <3>2, <3>3
  <2> QED
    BY <2>1, <2>2
<1>4. ASSUME IsInjective(q), e \notin ToSet(q) PROVE IsInjective(r)
  <2> SUFFICES ASSUME NEW j \in 1 .. Len(q) + 1, NEW k \in 1 .. Len(q) + 1,
                      r[j] = r[k], j < k
               PROVE  FALSE
    BY <1>1, InToSet, SMT
  <2>1. \A n \in 1 .. Len(q) : q[n] # e
    BY <1>4, InToSet
  <2>2. \A m, n \in 1 .. Len(q) : q[m] = q[n] => m = n
    BY <1>4, InToSet
  <2>3. k > i => k - 1 \in 1 .. Len(q) /\ r[k] = q[k - 1]
    BY <1>1, SMT
  <2>4. j > i => j - 1 \in 1 .. Len(q) /\ r[j] = q[j - 1]
    BY <1>1, SMT
  <2>5. j < i => j \in 1 .. Len(q) /\ r[j] = q[j]
    BY <1>1, SMT
  <2>6. k < i => k \in 1 .. Len(q) /\ r[k] = q[k]
    BY <1>1, SMT
  <2>7. r[i] = e
    BY <1>1, SMT
  <2> QED
    BY <2>1, <2>2, <2>3, <2>4, <2>5, <2>6, <2>7, SMT
<1> QED
  BY <1>1, <1>2, <1>3, <1>4 DEF r

\* REMHEAD.
LEMMA TailSet ==
  ASSUME NEW S, NEW q \in Seq(S), q # << >>, IsInjective(q)
  PROVE  /\ Head(q) \in ToSet(q)
         /\ Tail(q) \in Seq(S)
         /\ ToSet(Tail(q)) = ToSet(q) \ {Head(q)}
         /\ IsInjective(Tail(q))
<1> DEFINE r == Tail(q)
<1>1. /\ r \in Seq(S) /\ Len(r) = Len(q) - 1 /\ Len(q) > 0 /\ Head(q) = q[1]
      /\ \A i \in 1 .. Len(q) - 1 : r[i] = q[i + 1]
  BY HeadTailProperties, EmptySeq, SMT
<1> HIDE DEF r
<1>2. \A i, j \in 1 .. Len(q) : q[i] = q[j] => i = j
  BY InToSet
<1>3. ASSUME NEW x \in ToSet(r) PROVE x \in ToSet(q) \ {q[1]}
  <2>1. PICK i \in 1 .. Len(q) - 1 : r[i] = x
    BY <1>1, InToSet
  <2>2. i + 1 \in 1 .. Len(q) /\ i + 1 # 1 /\ 1 \in 1 .. Len(q)
    BY <1>1, SMT
  <2>3. x = q[i + 1]
    BY <1>1, <2>1
  <2> QED
    BY <1>2, <2>2, <2>3, InToSet
<1>4. ASSUME NEW x \in ToSet(q) \ {q[1]} PROVE x \in ToSet(r)
  <2>1. PICK i \in 1 .. Len(q) : q[i] = x
    BY <1>4, InToSet
  <2>2. i - 1 \in 1 .. Len(q) - 1 /\ (i - 1) + 1 = i
    BY <1>4, <2>1, SMT
  <2>3. r[i - 1] = x
    BY <1>1, <2>1, <2>2
  <2> QED
    BY <1>1, <2>2, <2>3, InToSet
<1>5. IsInjective(r)
  <2> SUFFICES ASSUME NEW i \in 1 .. Len(q) - 1, NEW j \in 1 .. Len(q) - 1,
                      r[i] = r[j]
               PROVE  i = j
    BY <1>1, InToSet
  <2>1. i + 1 \in 1 .. Len(q) /\ j + 1 \in 1 .. Len(q)
    BY <1>1, SMT
  <2>2. q[i + 1] = q[j + 1]
    BY <1>1
  <2> QED
    BY <1>2, <2>1, <2>2, SMT
<1>6. q[1] \in ToSet(q)
  BY <1>1, InToSet, SMT
<1> QED
  BY <1>1, <1>3, <1>4, <1>5, <1>6 DEF r

\* REMOVE of an object, also when it is in another list.
LEMMA RemoveFirstSet ==
  ASSUME NEW S, NEW q \in Seq(S), NEW e, IsInjective(q)
  PROVE  /\ RemoveFirst(q, e) \in Seq(S)
         /\ ToSet(RemoveFirst(q, e)) = ToSet(q) \ {e}
         /\ IsInjective(RemoveFirst(q, e))
<1>1. CASE e \notin ToSet(q)
  <2>1. ~(\E i \in 1 .. Len(q) : q[i] = e)
    BY <1>1, InToSet
  <2>2. RemoveFirst(q, e) = q
    BY <2>1, Zenon DEF RemoveFirst
  <2> QED
    BY <1>1, <2>2
<1>2. CASE e \in ToSet(q)
  <2> DEFINE I == {k \in 1 .. Len(q) : q[k] = e}
             n == Min(I)
             r == RemoveAt(q, n)
  <2>1. I # {} /\ I \in SUBSET Nat
    BY <1>2, InToSet, SMT
  <2>2. RemoveFirst(q, e) = r
    BY <2>1 DEF RemoveFirst, SelectInSeq
  <2>3. n \in 1 .. Len(q) /\ q[n] = e
    BY <2>1, MinOfNaturals
  <2> HIDE DEF n
  <2>4. /\ r \in Seq(S) /\ Len(r) = Len(q) - 1
        /\ \A j \in 1 .. Len(q) - 1 : r[j] = IF j < n THEN q[j] ELSE q[j + 1]
    BY <2>3, RemoveAtElements
  <2> HIDE DEF r
  <2>5. \A i, j \in 1 .. Len(q) : q[i] = q[j] => i = j
    BY InToSet
  <2>6. ASSUME NEW x \in ToSet(r) PROVE x \in ToSet(q) \ {e}
    <3>1. PICK j \in 1 .. Len(q) - 1 : r[j] = x
      BY <2>4, InToSet
    <3>2. PICK k \in 1 .. Len(q) : k # n /\ x = q[k]
      <4>1. j \in 1 .. Len(q) /\ j + 1 \in 1 .. Len(q)
        BY SMT
      <4>2. CASE j < n
        BY <2>3, <2>4, <3>1, <4>1, <4>2, SMT
      <4>3. CASE ~(j < n)
        <5>1. j + 1 # n
          BY <2>3, <4>3, SMT
        <5> QED
          BY <2>4, <3>1, <4>1, <4>3, <5>1
      <4> QED
        BY <4>2, <4>3
    <3> QED
      BY <2>3, <2>5, <3>2, InToSet
  <2>7. ASSUME NEW x \in ToSet(q) \ {e} PROVE x \in ToSet(r)
    <3>1. PICK k \in 1 .. Len(q) : x = q[k]
      BY <2>7, InToSet
    <3>2. k # n
      BY <2>3, <2>7, <3>1
    <3>3. CASE k < n
      <4>1. k \in 1 .. Len(q) - 1
        BY <2>3, <3>3, SMT
      <4> QED
        BY <2>4, <3>1, <3>3, <4>1, InToSet
    <3>4. CASE ~(k < n)
      <4>1. k - 1 \in 1 .. Len(q) - 1 /\ ~(k - 1 < n) /\ (k - 1) + 1 = k
        BY <2>3, <3>2, <3>4, SMT
      <4> QED
        BY <2>4, <3>1, <4>1, InToSet
    <3> QED
      BY <3>3, <3>4
  <2>8. IsInjective(r)
    <3> SUFFICES ASSUME NEW i \in 1 .. Len(q) - 1, NEW j \in 1 .. Len(q) - 1,
                        r[i] = r[j]
                 PROVE  i = j
      BY <2>4, InToSet
    <3> DEFINE shift(m) == IF m < n THEN m ELSE m + 1
    <3>1. shift(i) \in 1 .. Len(q) /\ shift(j) \in 1 .. Len(q)
      BY SMT
    <3>2. q[shift(i)] = q[shift(j)]
      BY <2>4
    <3>3. shift(i) = shift(j)
      BY <2>5, <3>1, <3>2
    <3> QED
      BY <2>3, <3>3, SMT
  <2> QED
    BY <2>2, <2>4, <2>6, <2>7, <2>8
<1> QED
  BY <1>1, <1>2


-----------------------------------------------------------------------------
(* REMOVE of several objects (Lists!Without).                              *)

\* What is left of the first objects of a list.
LeftIs(s, gone, n, f) ==
  f = [i \in 0 .. n |->
         IF i = 0 THEN << >>
         ELSE IF s[i] \in gone THEN f[i - 1] ELSE Append(f[i - 1], s[i])]
Left(s, gone) ==
  CHOOSE left : left =
    [i \in 0 .. Len(s) |->
       IF i = 0 THEN << >>
       ELSE IF s[i] \in gone THEN left[i - 1] ELSE Append(left[i - 1], s[i])]

LEMMA WithoutLeft ==
  ASSUME NEW s, NEW gone
  PROVE  Without(s, gone) = Left(s, gone)[Len(s)]
  BY Zenon DEF Without, Left

LEMMA LeftExists ==
  ASSUME NEW s, NEW gone, NEW n \in Nat
  PROVE  \E f : LeftIs(s, gone, n, f)
<1> DEFINE Bad == {k \in Nat : ~ \E f : LeftIs(s, gone, k, f)}
<1>1. SUFFICES ASSUME Bad # {} PROVE FALSE
  BY <1>1
<1>2. PICK m \in Bad : \A k \in Bad : m <= k
  BY <1>1, MinOfNaturals, Zenon
<1>3. CASE m = 0
  <2> DEFINE f == [i \in 0 .. 0 |-> << >>]
  <2>1. \A i \in 0 .. 0 : i = 0
    BY SMT
  <2>2. LeftIs(s, gone, 0, f)
    BY <2>1, Zenon DEF LeftIs
  <2> QED
    BY <1>2, <1>3, <2>2, Zenon
<1>4. CASE m # 0
  <2>1. m - 1 \in Nat /\ ~(m <= m - 1)
    BY <1>2, <1>4, SMT
  <2>2. PICK g : LeftIs(s, gone, m - 1, g)
    BY <1>2, <2>1, Zenon
  <2> DEFINE Next(h) == [i \in 0 .. m |->
               IF i = 0 THEN << >>
               ELSE IF s[i] \in gone THEN h[i - 1] ELSE Append(h[i - 1], s[i])]
             f == Next(g)
  <2>3. \A i \in 0 .. m - 1 : g[i] = f[i]
    <3>1. \A i \in 0 .. m - 1 : i \in 0 .. m
      BY <1>2, SMT
    <3> QED
      BY <2>2, <3>1, Zenon DEF LeftIs
  <2>4. \A i \in 0 .. m : i # 0 => i - 1 \in 0 .. m - 1
    BY <1>2, SMT
  <2>5. f = Next(f)
    BY <2>3, <2>4, Zenon
  <2> QED
    BY <1>2, <2>5, Zenon DEF LeftIs
<1> QED
  BY <1>3, <1>4

LEMMA LeftSteps ==
  ASSUME NEW S, NEW s \in Seq(S), NEW gone
  PROVE  /\ Left(s, gone)[0] = << >>
         /\ \A i \in 1 .. Len(s) :
              Left(s, gone)[i] = IF s[i] \in gone THEN Left(s, gone)[i - 1]
                                 ELSE Append(Left(s, gone)[i - 1], s[i])
<1>1. Len(s) \in Nat
  BY SMT
<1>2. LeftIs(s, gone, Len(s), Left(s, gone))
  <2>1. PICK f : LeftIs(s, gone, Len(s), f)
    BY <1>1, LeftExists, Zenon
  <2> QED
    BY <2>1, Zenon DEF Left, LeftIs
<1>3. 0 \in 0 .. Len(s) /\ \A i \in 1 .. Len(s) : i \in 0 .. Len(s) /\ i # 0
  BY <1>1, SMT
<1> QED
  BY <1>2, <1>3, Zenon DEF LeftIs

\* The objects that are not removed stay, each once.
LEMMA WithoutSet ==
  ASSUME NEW S, NEW s \in Seq(S), NEW gone
  PROVE  /\ Without(s, gone) \in Seq(S)
         /\ ToSet(Without(s, gone)) = ToSet(s) \ gone
         /\ IsInjective(s) => IsInjective(Without(s, gone))
<1> DEFINE l == Left(s, gone)
           To(k) == {x \in S : \E i \in 1 .. k : s[i] = x} \ gone
           Fits(k) == /\ l[k] \in Seq(S) /\ ToSet(l[k]) = To(k)
                      /\ IsInjective(s) => IsInjective(l[k])
           Fit == {k \in 0 .. Len(s) : Fits(k)}
<1>1. /\ Len(s) \in Nat /\ \A i \in 1 .. Len(s) : s[i] \in S
      /\ \A x : x \in ToSet(s) <=> \E i \in 1 .. Len(s) : s[i] = x
      /\ IsInjective(s) => \A i, j \in 1 .. Len(s) : s[i] = s[j] => i = j
  BY InToSet, SMT
<1>2. /\ l[0] = << >>
      /\ \A i \in 1 .. Len(s) : l[i] = IF s[i] \in gone THEN l[i - 1]
                                       ELSE Append(l[i - 1], s[i])
  BY LeftSteps
<1> HIDE DEF l
<1>3. 0 \in Fit
  <2> DEFINE e == << >>
  <2>1. e \in Seq(S) /\ ToSet(e) = {} /\ IsInjective(e)
    BY SMT DEF ToSet, IsInjective
  <2>2. To(0) = {} /\ 0 \in 0 .. Len(s)
    BY <1>1, SMT
  <2> HIDE DEF e, To
  <2>3. l[0] = e
    BY <1>2 DEF e
  <2> QED
    BY <2>1, <2>2, <2>3, Zenon
<1>4. ASSUME NEW k \in 1 .. Len(s), k - 1 \in Fit PROVE k \in Fit
  <2>1. /\ k \in 0 .. Len(s) /\ s[k] \in S
        /\ \A i \in 1 .. k - 1 : i \in 1 .. k /\ i \in 1 .. Len(s) /\ i # k
        /\ \A i \in 1 .. k : i = k \/ i \in 1 .. k - 1
        /\ k \in 1 .. k
    BY <1>1, SMT
  <2>2. Fits(k - 1)
    BY <1>4, Zenon
  <2>3. \A x \in S : x \in To(k) <=> x \notin gone /\ (x = s[k] \/ x \in To(k - 1))
    BY <2>1, Zenon
  <2>4. \A x \in To(k) : x \in S
    BY Zenon
  <2>5. \A x \in To(k - 1) : x \in S /\ x \notin gone
    BY Zenon
  <2>6. IsInjective(s) => s[k] \notin To(k - 1)
    BY <1>1, <2>1, Zenon
  <2> HIDE DEF To
  <2>7. CASE s[k] \in gone
    <3>1. To(k) = To(k - 1)
      BY <2>3, <2>4, <2>5, <2>7, Zenon
    <3>2. l[k] = l[k - 1]
      BY <1>2, <2>7, Zenon
    <3> QED
      BY <2>1, <2>2, <3>1, <3>2, Zenon
  <2>8. CASE s[k] \notin gone
    <3>1. To(k) = To(k - 1) \cup {s[k]}
      BY <2>1, <2>3, <2>4, <2>5, <2>8, Zenon
    <3>2. l[k] = Append(l[k - 1], s[k])
      BY <1>2, <2>8, Zenon
    <3>3. /\ Append(l[k - 1], s[k]) \in Seq(S)
          /\ ToSet(Append(l[k - 1], s[k])) = ToSet(l[k - 1]) \cup {s[k]}
          /\ IsInjective(l[k - 1]) /\ s[k] \notin ToSet(l[k - 1])
               => IsInjective(Append(l[k - 1], s[k]))
      BY <2>1, <2>2, AppendSet, Zenon
    <3> QED
      BY <2>1, <2>2, <2>6, <3>1, <3>2, <3>3, Zenon
  <2> QED
    BY <2>7, <2>8
<1> HIDE DEF Fit
<1>5. \A k \in 0 .. Len(s) : k \in Fit
  BY <1>1, <1>3, <1>4, UpTo, Zenon
<1>6. Len(s) \in 0 .. Len(s)
  BY <1>1, SMT
<1>7. Fits(Len(s))
  BY <1>5, <1>6, Zenon DEF Fit
<1>8. To(Len(s)) = ToSet(s) \ gone
  <2>1. ASSUME NEW x PROVE x \in To(Len(s)) <=> x \in ToSet(s) \ gone
    <3>1. x \in ToSet(s) <=> \E i \in 1 .. Len(s) : s[i] = x
      BY <1>1, Zenon
    <3>2. ASSUME x \in ToSet(s) PROVE x \in S
      <4>1. PICK i \in 1 .. Len(s) : s[i] = x
        BY <3>1, <3>2, Zenon
      <4>2. s[i] \in S
        BY <1>1, Zenon
      <4> QED
        BY <4>1, <4>2
    <3>3. x \in To(Len(s)) <=> /\ x \in S /\ x \notin gone
                              /\ \E i \in 1 .. Len(s) : s[i] = x
      BY Zenon
    <3> HIDE DEF To
    <3> QED
      BY <3>1, <3>2, <3>3, Zenon
  <2> HIDE DEF To
  <2> QED
    BY <2>1, Zenon
<1> HIDE DEF To
<1> QED
  BY <1>7, <1>8, WithoutLeft, Zenon DEF l

\* The elements of t are of the first k of s, in their order.
KeptInOrder(t, s, gone, k) ==
  /\ \A i \in 1 .. Len(t) : \E a \in 1 .. k : t[i] = s[a] /\ s[a] \notin gone
  /\ \A i, j \in 1 .. Len(t) : i < j =>
       \E a, b \in 1 .. k : a < b /\ t[i] = s[a] /\ t[j] = s[b]

\* What is left keeps its order.
LEMMA WithoutOrder ==
  ASSUME NEW S, NEW s \in Seq(S), NEW gone, NEW t, t = Without(s, gone)
  PROVE  /\ \A i \in 1 .. Len(t) : \E a \in 1 .. Len(s) :
              t[i] = s[a] /\ s[a] \notin gone
         /\ \A i, j \in 1 .. Len(t) : i < j =>
              \E a, b \in 1 .. Len(s) :
                a < b /\ t[i] = s[a] /\ t[j] = s[b]
<1> DEFINE l == Left(s, gone)
           Fit == {k \in 0 .. Len(s) : l[k] \in Seq(S) /\ KeptInOrder(l[k], s, gone, k)}
<1>1. Len(s) \in Nat /\ \A i \in 1 .. Len(s) : s[i] \in S
  BY SMT
<1>2. /\ l[0] = << >>
      /\ \A i \in 1 .. Len(s) : l[i] = IF s[i] \in gone THEN l[i - 1]
                                       ELSE Append(l[i - 1], s[i])
  BY LeftSteps
<1> HIDE DEF l
<1>3. 0 \in Fit
  <2>1. l[0] \in Seq(S) /\ Len(l[0]) = 0 /\ 0 \in 0 .. Len(s)
    BY <1>1, <1>2, SMT
  <2>2. \A i \in 1 .. Len(l[0]) : FALSE
    BY <2>1, SMT
  <2> QED
    BY <2>1, <2>2, Zenon DEF KeptInOrder
<1>4. ASSUME NEW k \in 1 .. Len(s), k - 1 \in Fit PROVE k \in Fit
  <2> DEFINE o == l[k - 1]
             z == l[k]
  <2>1. /\ k \in 0 .. Len(s) /\ s[k] \in S /\ k \in 1 .. k
        /\ \A a \in 1 .. k - 1 : a \in 1 .. k /\ a < k
    BY <1>1, SMT
  <2>2. /\ o \in Seq(S)
        /\ \A i \in 1 .. Len(o) : \E a \in 1 .. k - 1 :
             o[i] = s[a] /\ s[a] \notin gone
        /\ \A i, j \in 1 .. Len(o) : i < j =>
             \E a, b \in 1 .. k - 1 : a < b /\ o[i] = s[a] /\ o[j] = s[b]
    BY <1>4, Zenon DEF KeptInOrder
  <2>3. z = IF s[k] \in gone THEN o ELSE Append(o, s[k])
    BY <1>2
  <2> HIDE DEF o, z
  <2>4. /\ z \in Seq(S)
        /\ \A i \in 1 .. Len(z) : \E a \in 1 .. k : z[i] = s[a] /\ s[a] \notin gone
        /\ \A i, j \in 1 .. Len(z) : i < j =>
             \E a, b \in 1 .. k : a < b /\ z[i] = s[a] /\ z[j] = s[b]
    <3>1. CASE s[k] \in gone
      <4>1. z = o
        BY <2>3, <3>1
      <4>2. /\ \A i \in 1 .. Len(o) : \E a \in 1 .. k :
                 o[i] = s[a] /\ s[a] \notin gone
            /\ \A i, j \in 1 .. Len(o) : i < j =>
                 \E a, b \in 1 .. k : a < b /\ o[i] = s[a] /\ o[j] = s[b]
        <5>1. ASSUME NEW i \in 1 .. Len(o), NEW j \in 1 .. Len(o), i < j
              PROVE  \E a, b \in 1 .. k : a < b /\ o[i] = s[a] /\ o[j] = s[b]
          <6>1. PICK a \in 1 .. k - 1, b \in 1 .. k - 1 :
                  a < b /\ o[i] = s[a] /\ o[j] = s[b]
            BY <2>2, <5>1, Zenon
          <6> QED
            BY <2>1, <6>1, Zenon
        <5>2. ASSUME NEW i \in 1 .. Len(o)
              PROVE  \E a \in 1 .. k : o[i] = s[a] /\ s[a] \notin gone
          BY <2>1, <2>2, Zenon
        <5> QED
          BY <5>1, <5>2, Zenon
      <4> QED
        BY <2>2, <4>1, <4>2
    <3>2. CASE s[k] \notin gone
      <4>1. /\ z \in Seq(S) /\ Len(z) = Len(o) + 1 /\ z[Len(o) + 1] = s[k]
            /\ \A i \in 1 .. Len(o) : z[i] = o[i]
        BY <2>1, <2>2, <2>3, <3>2, AppendProperties
      <4>2. /\ \A i \in 1 .. Len(z) : i \in 1 .. Len(o) \/ i = Len(o) + 1
            /\ \A i, j \in 1 .. Len(z) : i < j => i \in 1 .. Len(o)
        <5>1. Len(o) \in Nat
          BY <2>2, SMT
        <5> QED
          BY <4>1, <5>1, SMT
      <4>3. ASSUME NEW i \in 1 .. Len(z)
            PROVE  \E a \in 1 .. k : z[i] = s[a] /\ s[a] \notin gone
        <5>1. CASE i \in 1 .. Len(o)
          <6>1. PICK a \in 1 .. k - 1 : o[i] = s[a] /\ s[a] \notin gone
            BY <2>2, <5>1, Zenon
          <6>2. z[i] = s[a] /\ a \in 1 .. k
            BY <2>1, <4>1, <5>1, <6>1
          <6> QED
            BY <6>1, <6>2, Zenon
        <5>2. CASE i = Len(o) + 1
          <6>1. z[i] = s[k]
            BY <4>1, <5>2
          <6> QED
            BY <2>1, <3>2, <6>1, Zenon
        <5> QED
          BY <4>2, <5>1, <5>2
      <4>4. ASSUME NEW i \in 1 .. Len(z), NEW j \in 1 .. Len(z), i < j
            PROVE  \E a, b \in 1 .. k : a < b /\ z[i] = s[a] /\ z[j] = s[b]
        <5>1. i \in 1 .. Len(o) /\ z[i] = o[i]
          BY <4>1, <4>2, <4>4, Zenon
        <5>2. CASE j \in 1 .. Len(o)
          <6>1. z[j] = o[j]
            BY <4>1, <5>2, Zenon
          <6>2. PICK a \in 1 .. k - 1, b \in 1 .. k - 1 :
                  a < b /\ o[i] = s[a] /\ o[j] = s[b]
            BY <2>2, <4>4, <5>1, <5>2, Zenon
          <6> QED
            BY <2>1, <5>1, <6>1, <6>2, Zenon
        <5>3. CASE j = Len(o) + 1
          <6>1. z[j] = s[k]
            BY <4>1, <5>3
          <6>2. PICK a \in 1 .. k - 1 : o[i] = s[a]
            BY <2>2, <5>1, Zenon
          <6> QED
            BY <2>1, <5>1, <6>1, <6>2, Zenon
        <5> QED
          BY <4>2, <5>2, <5>3
      <4> QED
        BY <4>1, <4>3, <4>4, Zenon
    <3> QED
      BY <3>1, <3>2
  <2>5. KeptInOrder(z, s, gone, k)
    BY <2>4, Zenon DEF KeptInOrder
  <2>6. l[k] \in Seq(S) /\ KeptInOrder(l[k], s, gone, k)
    BY <2>4, <2>5 DEF z
  <2> QED
    BY <2>1, <2>6, Zenon
<1> HIDE DEF Fit
<1>5. \A k \in 0 .. Len(s) : k \in Fit
  BY <1>1, <1>3, <1>4, UpTo, Zenon
<1>6. Len(s) \in 0 .. Len(s)
  BY <1>1, SMT
<1>7. KeptInOrder(l[Len(s)], s, gone, Len(s))
  BY <1>5, <1>6, Zenon DEF Fit
<1>8. t = l[Len(s)]
  BY WithoutLeft, Zenon DEF l
<1>9. KeptInOrder(t, s, gone, Len(s))
  BY <1>7, <1>8
<1> QED
  BY <1>9, Zenon DEF KeptInOrder
=============================================================================
