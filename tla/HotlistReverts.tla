--------------------------- MODULE HotlistReverts ---------------------------
(***************************************************************************)
(* The list is renewed under no manager's nodes, proved for any number of  *)
(* messages under way and any depth of waits in which the manager is asked *)
(* to revert again.                                                        *)
(*                                                                         *)
(* An answer need not be the one that the main task waits for: a wait that *)
(* was begun earlier has its answer behind, or already dropped.  What      *)
(* makes the awaited answer mean that the manager is detached now is that  *)
(* the waits are nested, so the latest has the largest number, and that    *)
(* the messages and answers of the manager come in the order of their      *)
(* numbers.                                                                *)
(***************************************************************************)
EXTENDS HotlistProofs

-----------------------------------------------------------------------------
(* The job q of the main task.                                             *)

WaitsIn(q) == {i \in DOMAIN q : q[i].do = "await"}
Depth(q) == Cardinality(WaitsIn(q))

\* Each wait has its number, and the latest has the largest.
Nesting(q) ==
  /\ \A i \in 1 .. Len(q) : q[i].do = "await" => q[i].id <= Depth(q)
  /\ \A i, j \in 1 .. Len(q) :
       i < j /\ q[i].do = "await" /\ q[j].do = "await" => q[j].id < q[i].id

\* What is before what: the manager disposes its nodes before the list is
\* renewed, which is before the news.
Follows(q) ==
  \A i \in 1 .. Len(q) - 1 :
    /\ q[i + 1].do \in {"reread", "replace"} =>
         q[i].do \in {"tell", "await"} /\ q[i].w = "manager"
    /\ q[i + 1].do = "put" /\ q[i + 1].w = "manager" =>
         q[i].do = "put" /\ q[i].w = "viewer"
    /\ q[i + 1].do = "put" /\ q[i + 1].w = "viewer" => q[i].do \in Changes
    /\ q[i + 1].do # "add"

Disposes(q) == \A i \in 1 .. Len(q) : q[i].do = "tell" => q[i].is = "dispose"

Orderly(q) == Nesting(q) /\ Follows(q) /\ Disposes(q)

\* A wait for the manager with this number.
Awaits(q, id) ==
  \E k \in 1 .. Len(q) :
    q[k].do = "await" /\ q[k].w = "manager" /\ q[k].id = id

RenewNext(q) == q # << >> /\ q[1].do \in {"reread", "replace"}

\* The manager is told the news next, or once the list is changed.
NewsNext(q) ==
  /\ q # << >>
  /\ \/ q[1].do \in Changes
     \/ q[1].do = "put" /\ q[1].w = "manager"
     \/ q[1].do = "put" /\ Len(q) > 1 /\ q[2].do = "put"

-----------------------------------------------------------------------------
(* The manager: where its subtask is, s, its nodes n, l if it is locked,   *)
(* its inbox b and the port p of the main task.                            *)

IsAnswer(m) == m.from = "manager" /\ m.is = "answer"
NoAnswer(p) == \A i \in 1 .. Len(p) : ~IsAnswer(p[i])
NoOrder(b) == \A i \in 1 .. Len(b) : b[i].id = 0
NoNews(b) == \A i \in 1 .. Len(b) : b[i].is \notin News

\* Answers, and then the synchronous messages, come in the order of their
\* numbers, each of them of a wait in q.
InOrder(p, b) ==
  /\ \A i, j \in 1 .. Len(p) :
       i < j /\ IsAnswer(p[i]) /\ IsAnswer(p[j]) => p[i].id < p[j].id
  /\ \A i, j \in 1 .. Len(b) :
       i < j /\ b[i].id # 0 /\ b[j].id # 0 => b[i].id < b[j].id
  /\ \A i \in 1 .. Len(p), j \in 1 .. Len(b) :
       IsAnswer(p[i]) /\ b[j].id # 0 => p[i].id < b[j].id
  /\ \A i \in 1 .. Len(b) : b[i].id # 0 => b[i].is = "dispose"
Wanted(p, b, q) ==
  /\ \A i \in 1 .. Len(p) : IsAnswer(p[i]) => Awaits(q, p[i].id)
  /\ \A i \in 1 .. Len(b) : b[i].id # 0 => Awaits(q, b[i].id)
NoNewsBehind(b) ==
  \A i, j \in 1 .. Len(b) : i < j /\ b[i].id # 0 => b[j].is \notin News

Off(s) == s \in {"none", "leaving", "ended"}
Detached(s, n, l, b) ==
  Off(s) \/ (n = {} /\ l /\ s # "build" /\ NoNews(b))
Clear(s, p, b) == Off(s) \/ (NoAnswer(p) /\ NoOrder(b))
Away(s, n, p, b) ==
  /\ s \in {"none", "ended"} => b = << >>
  /\ s \in {"none", "build"} => NoAnswer(p)
  /\ s = "build" \/ Off(s) => n = {}

Manages(s, n, l, b, p, q) ==
  /\ Orderly(q) /\ InOrder(p, b) /\ Wanted(p, b, q) /\ Away(s, n, p, b)
  /\ Off(s) \/ NoNewsBehind(b)
  /\ NoAnswer(p) \/ Detached(s, n, l, b)
  /\ RenewNext(q) => Detached(s, n, l, b)
  /\ NewsNext(q) => Clear(s, p, b)

Reverts ==
  Manages(sub["manager"], nodes["manager"], locked["manager"],
          inbox["manager"], port, job)

-----------------------------------------------------------------------------
(* How deep the waits are nested.                                          *)

LEMMA WaitsFinite ==
  ASSUME NEW q \in Seq(Steps)
  PROVE  /\ IsFiniteSet(WaitsIn(q)) /\ Depth(q) \in Nat
         /\ WaitsIn(q) = {i \in 1 .. Len(q) : q[i].do = "await"}
<1>1. DOMAIN q = 1 .. Len(q) /\ Len(q) \in Nat
  BY SMT
<1>2. WaitsIn(q) = {i \in 1 .. Len(q) : q[i].do = "await"}
  BY <1>1, Zenon DEF WaitsIn
<1>3. IsFiniteSet(1 .. Len(q))
  BY <1>1, FS_Interval, SMT
<1>4. WaitsIn(q) \subseteq 1 .. Len(q)
  BY <1>2, Zenon
<1>5. IsFiniteSet(WaitsIn(q))
  BY <1>3, <1>4, FS_Subset
<1> QED
  BY <1>2, <1>5, FS_CardinalityType, Zenon DEF Depth

LEMMA Shifted ==
  ASSUME NEW W \in SUBSET Nat, IsFiniteSet(W), NEW V, NEW n \in Nat,
         \A i \in W : i + n \in V, \A j \in V : \E i \in W : i + n = j
  PROVE  Cardinality(V) = Cardinality(W)
<1> DEFINE f == [i \in W |-> i + n]
<1>1. f \in [W -> V] /\ DOMAIN f = W
  BY Zenon
<1>2. \A i, j \in W : f[i] = f[j] => i = j
  BY SMT
<1>3. \A v \in V : \E i \in W : f[i] = v
  BY Zenon
<1> HIDE DEF f
<1>4. f \in Injection(W, V) /\ f \in Surjection(W, V)
  BY <1>1, <1>2, <1>3, Zenon DEF Injection, IsInjective, Surjection
<1>5. ExistsBijection(W, V)
  BY <1>4, Zenon DEF ExistsBijection, Bijection
<1> QED
  BY <1>5, FS_Bijection

LEMMA TailOf ==
  ASSUME NEW q \in Seq(Steps), q # << >>
  PROVE  /\ Tail(q) \in Seq(Steps) /\ Len(q) \in Nat /\ Len(q) > 0
         /\ Len(Tail(q)) = Len(q) - 1 /\ Head(q) = q[1] /\ q[1] \in Steps
         /\ \A i \in 1 .. Len(Tail(q)) : /\ i + 1 \in 1 .. Len(q) /\ i + 1 # 1
                                         /\ Tail(q)[i] = q[i + 1]
         /\ \A i \in 1 .. Len(q) : i # 1 => /\ i - 1 \in 1 .. Len(Tail(q))
                                            /\ Tail(q)[i - 1] = q[i]
<1> DEFINE t == Tail(q)
<1>1. Len(q) \in Nat /\ Len(q) > 0 /\ Head(q) = q[1] /\ q[1] \in Steps
  BY SMT
<1>2. /\ t \in Seq(Steps) /\ Len(t) = Len(q) - 1
      /\ \A i \in 1 .. Len(t) : t[i] = q[i + 1]
  BY HeadTailProperties, Zenon
<1> HIDE DEF t
<1>3. \A i \in 1 .. Len(t) : i + 1 \in 1 .. Len(q) /\ i + 1 # 1 /\ t[i] = q[i + 1]
  BY <1>1, <1>2, SMT
<1>4. ASSUME NEW i \in 1 .. Len(q), i # 1
      PROVE  i - 1 \in 1 .. Len(t) /\ t[i - 1] = q[i]
  <2>1. i - 1 \in 1 .. Len(t) /\ (i - 1) + 1 = i
    BY <1>1, <1>2, <1>4, SMT
  <2> QED
    BY <1>2, <2>1, Zenon
<1> QED
  BY <1>1, <1>2, <1>3, <1>4, Zenon DEF t

\* A step is done.
LEMMA PopsDepth ==
  ASSUME NEW q \in Seq(Steps), q # << >>
  PROVE  Depth(Tail(q)) = IF q[1].do = "await" THEN Depth(q) - 1 ELSE Depth(q)
<1> DEFINE t == Tail(q)
           W == WaitsIn(t)
           V == WaitsIn(q) \ {1}
<1>1. /\ t \in Seq(Steps) /\ Len(q) \in Nat /\ Len(q) > 0
      /\ \A i \in 1 .. Len(t) : /\ i + 1 \in 1 .. Len(q) /\ i + 1 # 1
                                /\ t[i] = q[i + 1]
      /\ \A i \in 1 .. Len(q) : i # 1 => i - 1 \in 1 .. Len(t) /\ t[i - 1] = q[i]
  BY TailOf, Zenon
<1> HIDE DEF t
<1>2. /\ WaitsIn(q) = {i \in 1 .. Len(q) : q[i].do = "await"}
      /\ W = {i \in 1 .. Len(t) : t[i].do = "await"}
      /\ IsFiniteSet(WaitsIn(q)) /\ Depth(q) = Cardinality(WaitsIn(q))
      /\ Depth(t) = Cardinality(W)
  BY <1>1, WaitsFinite, Zenon DEF Depth
<1> HIDE DEF W, V
<1>3. \A i \in W : i + 1 \in V
  BY <1>1, <1>2, Zenon DEF V
<1>4. \A j \in V : \E i \in W : i + 1 = j
  <2> SUFFICES ASSUME NEW j \in V PROVE \E i \in W : i + 1 = j
    OBVIOUS
  <2>1. j \in 1 .. Len(q) /\ j # 1 /\ q[j].do = "await"
    BY <1>2, Zenon DEF V
  <2>2. j - 1 \in W
    BY <1>1, <1>2, <2>1, Zenon
  <2>3. (j - 1) + 1 = j
    BY <2>1, SMT
  <2> QED
    BY <2>2, <2>3
<1>5. Cardinality(V) = Cardinality(W)
  <2>1. IsFiniteSet(W)
    BY <1>1, WaitsFinite, Zenon DEF W
  <2>2. \A i \in 1 .. Len(t) : i \in Nat
    BY SMT
  <2>3. W \in SUBSET Nat
    BY <1>2, <2>2, Zenon
  <2>4. 1 \in Nat
    BY SMT
  <2> QED
    BY <1>3, <1>4, <2>1, <2>3, <2>4, Shifted
<1>6. Cardinality(V) = IF 1 \in WaitsIn(q) THEN Depth(q) - 1 ELSE Depth(q)
  BY <1>2, FS_RemoveElement, Zenon DEF V
<1>7. 1 \in WaitsIn(q) <=> q[1].do = "await"
  BY <1>1, <1>2, SMT
<1> QED
  BY <1>2, <1>5, <1>6, <1>7, Zenon DEF t

LEMMA PopsOrderly ==
  ASSUME NEW q \in Seq(Steps), q # << >>, Orderly(q)
  PROVE  /\ Orderly(Tail(q))
         /\ RenewNext(Tail(q)) =>
              q[1].do \in {"tell", "await"} /\ q[1].w = "manager"
         /\ NewsNext(Tail(q)) =>
              NewsNext(q) \/ (q[1].do \in {"tell", "await"} /\ q[1].w = "manager")
         /\ \A id : Awaits(q, id) =>
              Awaits(Tail(q), id) \/ (q[1].do = "await" /\ q[1].id = id)
<1> DEFINE t == Tail(q)
<1>1. /\ t \in Seq(Steps) /\ Len(q) \in Nat /\ Len(q) > 0
      /\ Len(t) = Len(q) - 1
      /\ \A i \in 1 .. Len(t) : /\ i + 1 \in 1 .. Len(q) /\ i + 1 # 1
                                /\ t[i] = q[i + 1]
      /\ \A i \in 1 .. Len(q) : i # 1 => i - 1 \in 1 .. Len(t) /\ t[i - 1] = q[i]
  BY TailOf, Zenon
<1>2. Depth(t) = (IF q[1].do = "await" THEN Depth(q) - 1 ELSE Depth(q))
      /\ Depth(q) \in Nat
  BY PopsDepth, WaitsFinite, Zenon
<1>3. Nesting(q) /\ Follows(q) /\ Disposes(q)
  BY DEF Orderly
<1> HIDE DEF t
<1>4. \A i \in 1 .. Len(q) : q[i].do = "await" => q[i].id \in Nat
  <2>1. \A i \in 1 .. Len(q) : q[i] \in Steps
    BY SMT
  <2> QED
    BY <2>1, StepFields, Zenon
<1>5. Nesting(t)
  <2>1. ASSUME NEW i \in 1 .. Len(t), t[i].do = "await"
        PROVE  t[i].id <= Depth(t)
    <3>1. /\ i + 1 \in 1 .. Len(q) /\ t[i] = q[i + 1]
          /\ 1 \in 1 .. Len(q) /\ 1 < i + 1
      BY <1>1, SMT
    <3>2. q[i + 1].id <= Depth(q) /\ q[i + 1].id \in Nat
      BY <1>3, <1>4, <2>1, <3>1, Zenon DEF Nesting
    <3>3. CASE q[1].do = "await"
      <4>1. q[i + 1].id < q[1].id /\ q[1].id <= Depth(q) /\ q[1].id \in Nat
        BY <1>3, <1>4, <2>1, <3>1, <3>3, Zenon DEF Nesting
      <4>2. Depth(t) = Depth(q) - 1
        BY <1>2, <3>3
      <4> QED
        BY <1>2, <3>1, <3>2, <4>1, <4>2, SMT
    <3>4. CASE q[1].do # "await"
      BY <1>2, <3>1, <3>2, <3>4, Zenon
    <3> QED
      BY <3>3, <3>4
  <2>2. ASSUME NEW i \in 1 .. Len(t), NEW j \in 1 .. Len(t), i < j,
               t[i].do = "await", t[j].do = "await"
        PROVE  t[j].id < t[i].id
    <3>1. i + 1 < j + 1
      BY <2>2, SMT
    <3> QED
      BY <1>1, <1>3, <2>2, <3>1, SMT DEF Nesting
  <2> QED
    BY <2>1, <2>2, Zenon DEF Nesting
<1>6. Follows(t)
  <2> SUFFICES ASSUME NEW i \in 1 .. Len(t) - 1
               PROVE  /\ t[i + 1].do \in {"reread", "replace"} =>
                           t[i].do \in {"tell", "await"} /\ t[i].w = "manager"
                      /\ t[i + 1].do = "put" /\ t[i + 1].w = "manager" =>
                           t[i].do = "put" /\ t[i].w = "viewer"
                      /\ t[i + 1].do = "put" /\ t[i + 1].w = "viewer" =>
                           t[i].do \in Changes
                      /\ t[i + 1].do # "add"
    BY Zenon DEF Follows
  <2>1. i \in 1 .. Len(t) /\ i + 1 \in 1 .. Len(t) /\ i + 1 \in 1 .. Len(q) - 1
    BY <1>1, SMT
  <2>2. t[i] = q[i + 1] /\ t[i + 1] = q[(i + 1) + 1]
    BY <1>1, <2>1, Zenon
  <2> QED
    BY <1>3, <2>1, <2>2, Zenon DEF Follows
<1>7. Disposes(t)
  BY <1>1, <1>3, SMT DEF Disposes
<1>8. ASSUME t # << >>
      PROVE  t[1] = q[2] /\ 1 \in 1 .. Len(q) - 1 /\ 1 + 1 = 2 /\ q[2] \in Steps
             /\ q[1] \in Steps
             /\ (Len(t) > 1 => t[2] = q[3] /\ 2 \in 1 .. Len(q) - 1 /\ 2 + 1 = 3)
  <2>1. Len(t) > 0
    BY <1>1, <1>8, SMT
  <2>2. t[1] = q[1 + 1] /\ (Len(t) > 1 => t[2] = q[2 + 1])
    <3>1. 1 \in 1 .. Len(t) /\ (Len(t) > 1 => 2 \in 1 .. Len(t))
      BY <1>1, <2>1, SMT
    <3> QED
      BY <1>1, <3>1, Zenon
  <2> QED
    BY <1>1, <2>1, <2>2, SMT
<1>9. RenewNext(t) => q[1].do \in {"tell", "await"} /\ q[1].w = "manager"
  BY <1>3, <1>8, Zenon DEF RenewNext, Follows
<1>10. ASSUME NewsNext(t)
       PROVE  NewsNext(q) \/ (q[1].do \in {"tell", "await"} /\ q[1].w = "manager")
  <2>1. t # << >> /\ q # << >>
    BY <1>10 DEF NewsNext
  <2>2. CASE t[1].do \in Changes
    <3>1. q[2].do # "add"
      BY <1>3, <1>8, <2>1, Zenon DEF Follows
    <3>2. RenewNext(t)
      BY <1>8, <2>1, <2>2, <3>1, SMT DEF Changes, RenewNext
    <3> QED
      BY <1>9, <3>2
  <2>3. CASE t[1].do = "put" /\ t[1].w = "manager"
    <3>1. q[1].do = "put" /\ q[2].do = "put"
      BY <1>3, <1>8, <2>1, <2>3, SMT DEF Follows
    <3>2. Len(q) > 1
      BY <1>1, <1>8, <2>1, SMT
    <3> QED
      BY <2>1, <3>1, <3>2, Zenon DEF NewsNext
  <2>4. CASE t[1].do = "put" /\ t[1].w # "manager"
    <3>1. t[1].w = "viewer"
      BY <1>8, <2>1, <2>4, StepFields, Zenon DEF Windows
    <3>2. q[1].do \in Changes
      BY <1>3, <1>8, <2>1, <2>4, <3>1, SMT DEF Follows
    <3> QED
      BY <2>1, <3>2, Zenon DEF NewsNext
  <2> QED
    BY <1>10, <2>2, <2>3, <2>4, Zenon DEF NewsNext
<1>11. ASSUME NEW id, Awaits(q, id)
       PROVE  Awaits(t, id) \/ (q[1].do = "await" /\ q[1].id = id)
  <2>1. PICK k \in 1 .. Len(q) :
          q[k].do = "await" /\ q[k].w = "manager" /\ q[k].id = id
    BY <1>11, Zenon DEF Awaits
  <2>2. CASE k = 1
    BY <2>1, <2>2
  <2>3. CASE k # 1
    BY <1>1, <2>1, <2>3, SMT DEF Awaits
  <2> QED
    BY <2>2, <2>3
<1> QED
  BY <1>5, <1>6, <1>7, <1>9, <1>10, <1>11, Zenon DEF t, Orderly

\* The number of the latest wait is the largest.
LEMMA LatestWait ==
  ASSUME NEW q \in Seq(Steps), q # << >>, Nesting(q), q[1].do = "await",
         NEW id, Awaits(q, id)
  PROVE  id \in Nat /\ q[1].id \in Nat /\ id <= q[1].id
<1>1. Len(q) \in Nat /\ 1 \in 1 .. Len(q) /\ \A i \in 1 .. Len(q) : q[i] \in Steps
  BY SMT
<1>2. PICK k \in 1 .. Len(q) : q[k].do = "await" /\ q[k].id = id
  BY Zenon DEF Awaits
<1>3. id \in Nat /\ q[1].id \in Nat
  BY <1>1, <1>2, StepFields, Zenon
<1>4. k = 1 \/ 1 < k
  BY <1>1, SMT
<1>5. 1 < k => id < q[1].id
  BY <1>1, <1>2, Zenon DEF Nesting
<1> QED
  BY <1>2, <1>3, <1>4, <1>5, SMT

\* Steps that are put in front of others: those of a handler or a command.
Brief(r) ==
  Follows(r) /\ Disposes(r) /\ \A i \in 1 .. Len(r) : r[i].do # "await"
Inert(r) ==
  r # << >> => /\ r[1].do \notin Changes
               /\ r[1].do = "put" => r[1].w = "viewer" /\ Len(r) = 1

LEMMA ConcatOf ==
  ASSUME NEW r \in Seq(Steps), NEW q \in Seq(Steps)
  PROVE  /\ r \o q \in Seq(Steps) /\ Len(r) \in Nat /\ Len(q) \in Nat
         /\ Len(r \o q) = Len(r) + Len(q)
         /\ \A i \in 1 .. Len(r \o q) :
              \/ i \in 1 .. Len(r) /\ (r \o q)[i] = r[i]
              \/ /\ i > Len(r) /\ i - Len(r) \in 1 .. Len(q)
                 /\ (r \o q)[i] = q[i - Len(r)]
         /\ \A i \in 1 .. Len(r) : i \in 1 .. Len(r \o q) /\ (r \o q)[i] = r[i]
         /\ \A i \in 1 .. Len(q) : /\ i + Len(r) \in 1 .. Len(r \o q)
                                   /\ (r \o q)[i + Len(r)] = q[i]
<1> DEFINE c == r \o q
<1>1. /\ c \in Seq(Steps) /\ Len(c) = Len(r) + Len(q)
      /\ \A i \in 1 .. Len(r) + Len(q) :
           c[i] = IF i <= Len(r) THEN r[i] ELSE q[i - Len(r)]
  BY ConcatProperties
<1>2. Len(r) \in Nat /\ Len(q) \in Nat
  BY SMT
<1> HIDE DEF c
<1>3. /\ \A i \in 1 .. Len(c) :
           \/ i \in 1 .. Len(r) /\ c[i] = r[i]
           \/ /\ i > Len(r) /\ i - Len(r) \in 1 .. Len(q)
              /\ c[i] = q[i - Len(r)]
      /\ \A i \in 1 .. Len(r) : i \in 1 .. Len(c) /\ c[i] = r[i]
  BY <1>1, <1>2, SMT
<1>4. ASSUME NEW i \in 1 .. Len(q)
      PROVE  i + Len(r) \in 1 .. Len(c) /\ c[i + Len(r)] = q[i]
  <2>1. /\ i + Len(r) \in 1 .. Len(r) + Len(q) /\ ~(i + Len(r) <= Len(r))
        /\ (i + Len(r)) - Len(r) = i
    BY <1>2, SMT
  <2> QED
    BY <1>1, <2>1, Zenon
<1> QED
  BY <1>1, <1>2, <1>3, <1>4, Zenon DEF c

LEMMA FrontsDepth ==
  ASSUME NEW r \in Seq(Steps), NEW q \in Seq(Steps),
         \A i \in 1 .. Len(r) : r[i].do # "await"
  PROVE  Depth(r \o q) = Depth(q)
<1> DEFINE c == r \o q
           W == WaitsIn(q)
           V == WaitsIn(c)
<1>1. /\ c \in Seq(Steps) /\ Len(r) \in Nat
      /\ \A i \in 1 .. Len(c) :
           \/ i \in 1 .. Len(r) /\ c[i] = r[i]
           \/ /\ i > Len(r) /\ i - Len(r) \in 1 .. Len(q)
              /\ c[i] = q[i - Len(r)]
      /\ \A i \in 1 .. Len(q) : /\ i + Len(r) \in 1 .. Len(c)
                                /\ c[i + Len(r)] = q[i]
  BY ConcatOf, Zenon
<1> HIDE DEF c
<1>2. /\ V = {i \in 1 .. Len(c) : c[i].do = "await"}
      /\ W = {i \in 1 .. Len(q) : q[i].do = "await"} /\ IsFiniteSet(W)
  BY <1>1, WaitsFinite, Zenon
<1> HIDE DEF V, W
<1>3. \A i \in W : i + Len(r) \in V
  BY <1>1, <1>2, SMT
<1>4. \A j \in V : \E i \in W : i + Len(r) = j
  <2> SUFFICES ASSUME NEW j \in V PROVE \E i \in W : i + Len(r) = j
    OBVIOUS
  <2>1. j \in 1 .. Len(c) /\ c[j].do = "await"
    BY <1>2, Zenon
  <2>2. j - Len(r) \in 1 .. Len(q) /\ c[j] = q[j - Len(r)]
    BY <1>1, <2>1, SMT
  <2>3. j - Len(r) \in W
    BY <1>2, <2>1, <2>2, SMT
  <2>4. (j - Len(r)) + Len(r) = j
    BY <1>1, <2>1, SMT
  <2> QED
    BY <2>3, <2>4
<1>5. W \in SUBSET Nat
  <2>1. \A i \in 1 .. Len(q) : i \in Nat
    BY SMT
  <2> QED
    BY <1>2, <2>1, Zenon
<1>6. Cardinality(V) = Cardinality(W)
  BY <1>1, <1>2, <1>3, <1>4, <1>5, Shifted
<1> QED
  BY <1>6, Zenon DEF Depth, V, W, c

LEMMA FrontsOrderly ==
  ASSUME NEW r \in Seq(Steps), NEW q \in Seq(Steps), Orderly(q), Brief(r),
         q # << >> => q[1].do \in {"await", "drain"}
  PROVE  /\ Orderly(r \o q)
         /\ \A id : Awaits(q, id) => Awaits(r \o q, id)
         /\ Inert(r) => ~RenewNext(r \o q) /\ ~NewsNext(r \o q)
<1> DEFINE c == r \o q
           n == Len(r)
<1>1. /\ c \in Seq(Steps) /\ n \in Nat /\ Len(q) \in Nat /\ Len(c) = n + Len(q)
      /\ \A i \in 1 .. Len(c) :
           \/ i \in 1 .. n /\ c[i] = r[i]
           \/ /\ i > n /\ i - n \in 1 .. Len(q) /\ c[i] = q[i - n]
      /\ \A i \in 1 .. n : i \in 1 .. Len(c) /\ c[i] = r[i]
      /\ \A i \in 1 .. Len(q) : i + n \in 1 .. Len(c) /\ c[i + n] = q[i]
  BY ConcatOf, Zenon
<1>2. /\ Nesting(q) /\ Follows(q) /\ Disposes(q)
      /\ Follows(r) /\ Disposes(r) /\ \A i \in 1 .. n : r[i].do # "await"
  BY DEF Orderly, Brief
<1>3. Depth(c) = Depth(q)
  BY <1>2, FrontsDepth
<1> HIDE DEF c, n
<1>0. n \in Nat /\ Len(q) \in Nat /\ Len(c) = n + Len(q) /\ Len(c) \in Nat
  BY <1>1, SMT
<1>4. \A i \in 1 .. Len(c) : c[i].do = "await" =>
        i > n /\ i - n \in 1 .. Len(q) /\ c[i] = q[i - n]
  BY <1>1, <1>2, SMT
<1>5. Nesting(c)
  <2>1. \A i \in 1 .. Len(c) : c[i].do = "await" => c[i].id <= Depth(c)
    BY <1>2, <1>3, <1>4, SMT DEF Nesting
  <2>2. ASSUME NEW i \in 1 .. Len(c), NEW j \in 1 .. Len(c), i < j,
               c[i].do = "await", c[j].do = "await"
        PROVE  c[j].id < c[i].id
    <3>1. i - n < j - n
      BY <1>1, <2>2, SMT
    <3>2. /\ i - n \in 1 .. Len(q) /\ c[i] = q[i - n]
          /\ j - n \in 1 .. Len(q) /\ c[j] = q[j - n]
      BY <1>4, <2>2, Zenon
    <3>3. q[i - n].do = "await" /\ q[j - n].do = "await"
      BY <2>2, <3>2, SMT
    <3>4. q[j - n].id < q[i - n].id
      BY <1>2, <3>1, <3>2, <3>3, Zenon DEF Nesting
    <3> QED
      BY <3>2, <3>4, SMT
  <2> QED
    BY <2>1, <2>2, Zenon DEF Nesting
<1>6. Follows(c)
  <2> SUFFICES ASSUME NEW i \in 1 .. Len(c) - 1
               PROVE  /\ c[i + 1].do \in {"reread", "replace"} =>
                           c[i].do \in {"tell", "await"} /\ c[i].w = "manager"
                      /\ c[i + 1].do = "put" /\ c[i + 1].w = "manager" =>
                           c[i].do = "put" /\ c[i].w = "viewer"
                      /\ c[i + 1].do = "put" /\ c[i + 1].w = "viewer" =>
                           c[i].do \in Changes
                      /\ c[i + 1].do # "add"
    BY Zenon DEF Follows
  <2>1. CASE i < n
    <3>1. i \in 1 .. n - 1 /\ c[i] = r[i] /\ c[i + 1] = r[i + 1]
      <4>1. i \in 1 .. n - 1 /\ i \in 1 .. n /\ i + 1 \in 1 .. n
        BY <1>0, <2>1, SMT
      <4> QED
        BY <1>1, <4>1, Zenon
    <3>2. /\ r[i + 1].do \in {"reread", "replace"} =>
               r[i].do \in {"tell", "await"} /\ r[i].w = "manager"
          /\ r[i + 1].do = "put" /\ r[i + 1].w = "manager" =>
               r[i].do = "put" /\ r[i].w = "viewer"
          /\ r[i + 1].do = "put" /\ r[i + 1].w = "viewer" => r[i].do \in Changes
          /\ r[i + 1].do # "add"
      BY <1>2, <3>1, Zenon DEF Follows, n
    <3> QED
      BY <3>1, <3>2
  <2>2. CASE i = n
    <3>1. i + 1 \in 1 .. Len(c) /\ i + 1 > n /\ (i + 1) - n = 1
      BY <1>1, <2>2, SMT
    <3>2. c[i + 1] = q[1] /\ q # << >>
      BY <1>1, <3>1, SMT
    <3>3. q[1].do \in {"await", "drain"}
      BY <3>2
    <3> QED
      BY <3>2, <3>3, SMT DEF Changes
  <2>3. CASE i > n
    <3>1. i - n \in 1 .. Len(q) - 1 /\ c[i] = q[i - n] /\ c[i + 1] = q[(i - n) + 1]
      <4>1. /\ i - n \in 1 .. Len(q) - 1 /\ i \in 1 .. Len(c)
            /\ i + 1 \in 1 .. Len(c) /\ i + 1 > n /\ (i + 1) - n = (i - n) + 1
        BY <1>1, <2>3, SMT
      <4>2. i \notin 1 .. n /\ i + 1 \notin 1 .. n
        BY <1>1, <2>3, SMT
      <4>3. c[i] = q[i - n] /\ c[i + 1] = q[(i + 1) - n]
        BY <1>1, <4>1, <4>2, Zenon
      <4> QED
        BY <4>1, <4>3
    <3> QED
      BY <1>2, <3>1, SMT DEF Follows
  <2> QED
    BY <1>1, <2>1, <2>2, <2>3, SMT
<1>7. Disposes(c)
  <2> SUFFICES ASSUME NEW i \in 1 .. Len(c), c[i].do = "tell"
               PROVE  c[i].is = "dispose"
    BY Zenon DEF Disposes
  <2>1. /\ \A j \in 1 .. n : r[j].do = "tell" => r[j].is = "dispose"
        /\ \A j \in 1 .. Len(q) : q[j].do = "tell" => q[j].is = "dispose"
    BY <1>2, Zenon DEF Disposes, n
  <2>2. \/ i \in 1 .. n /\ c[i] = r[i]
        \/ i - n \in 1 .. Len(q) /\ c[i] = q[i - n]
    BY <1>1, Zenon
  <2> QED
    BY <2>1, <2>2, SMT
<1>8. ASSUME NEW id, Awaits(q, id) PROVE Awaits(c, id)
  <2>1. PICK k \in 1 .. Len(q) :
          q[k].do = "await" /\ q[k].w = "manager" /\ q[k].id = id
    BY <1>8, Zenon DEF Awaits
  <2>2. k + n \in 1 .. Len(c) /\ c[k + n] = q[k]
    BY <1>1, Zenon
  <2>3. c[k + n].do = "await" /\ c[k + n].w = "manager" /\ c[k + n].id = id
    BY <2>1, <2>2
  <2> QED
    BY <2>2, <2>3, Zenon DEF Awaits
<1>9. ASSUME Inert(r) PROVE ~RenewNext(c) /\ ~NewsNext(c)
  <2>1. CASE r = << >>
    <3>1. c = q
      BY <2>1, ConcatEmptySeq DEF c
    <3> QED
      BY <3>1, SMT DEF RenewNext, NewsNext, Changes
  <2>2. CASE r # << >>
    <3>1. /\ 1 \in 1 .. n /\ c[1] = r[1]
          /\ r[1].do \notin Changes
          /\ r[1].do = "put" => r[1].w = "viewer" /\ n = 1
      <4>1. Len(r) \in Nat /\ Len(r) # 0 /\ n = Len(r)
        BY <2>2, SMT DEF n
      <4>2. 1 \in 1 .. n
        BY <4>1, SMT
      <4> QED
        BY <1>1, <1>9, <2>2, <4>1, <4>2, Zenon DEF Inert
    <3>2. ~RenewNext(c)
      BY <3>1, SMT DEF RenewNext, Changes
    <3>3. ASSUME r[1].do = "put", Len(c) > 1 PROVE c[2].do # "put"
      <4>1. n = 1 /\ 2 \in 1 .. Len(c) /\ 2 > n /\ 2 - n = 1
        <5>1. n = 1 /\ Len(c) \in Nat
          BY <1>0, <3>1, <3>3, Zenon
        <5> QED
          BY <3>3, <5>1, SMT
      <4>2. c[2] = q[1] /\ q # << >>
        BY <1>1, <4>1, SMT
      <4> QED
        BY <4>2, SMT
    <3>4. ~NewsNext(c)
      BY <3>1, <3>3, SMT DEF NewsNext
    <3> QED
      BY <3>2, <3>4
  <2> QED
    BY <2>1, <2>2
<1> QED
  BY <1>5, <1>6, <1>7, <1>8, <1>9, Zenon DEF c, Orderly

\* Another step takes the place of the first.
Instead(q, s, c) ==
  /\ c \in Seq(Steps) /\ Len(q) \in Nat /\ Len(q) > 0 /\ Len(c) = Len(q)
  /\ c[1] = s /\ \A i \in 1 .. Len(q) : i # 1 => c[i] = q[i]

LEMMA ReplacedBy ==
  ASSUME NEW q \in Seq(Steps), q # << >>, NEW s \in Steps
  PROVE  Instead(q, s, <<s>> \o Tail(q))
<1> DEFINE a == <<s>>
           t == Tail(q)
           c == a \o t
<1>1. /\ t \in Seq(Steps) /\ Len(q) \in Nat /\ Len(q) > 0
      /\ Len(t) = Len(q) - 1
      /\ \A i \in 1 .. Len(q) : i # 1 => i - 1 \in 1 .. Len(t) /\ t[i - 1] = q[i]
  BY TailOf, Zenon
<1>2. a \in Seq(Steps) /\ Len(a) = 1 /\ a[1] = s
  BY SingleStep
<1> HIDE DEF a, t
<1>3. /\ c \in Seq(Steps) /\ Len(c) = Len(a) + Len(t)
      /\ \A i \in 1 .. Len(a) : c[i] = a[i]
      /\ \A i \in 1 .. Len(t) : c[i + Len(a)] = t[i]
  BY <1>1, <1>2, ConcatOf, Zenon
<1> HIDE DEF c
<1>4. ASSUME NEW i \in 1 .. Len(q), i # 1 PROVE c[i] = q[i]
  <2>1. i - 1 \in 1 .. Len(t) /\ t[i - 1] = q[i]
    BY <1>1, <1>4, Zenon
  <2>2. (i - 1) + Len(a) = i
    BY <1>1, <1>2, SMT
  <2> QED
    BY <1>3, <2>1, <2>2, Zenon
<1>5. 1 \in 1 .. Len(a) /\ Len(a) + Len(t) = Len(q)
  BY <1>1, <1>2, SMT
<1>6. Instead(q, s, c)
  BY <1>1, <1>2, <1>3, <1>4, <1>5, Zenon DEF Instead
<1> QED
  BY <1>6 DEF c, a, t

\* A wait takes the place of the message, or that for the end of a window that
\* of the request to stop.
LEMMA ReplacesOrderly ==
  ASSUME NEW q \in Seq(Steps), q # << >>, Orderly(q), NEW s \in Steps,
         NEW c, Instead(q, s, c),
         \/ q[1].do = "stop" /\ s.do = "drain"
         \/ /\ q[1].do = "tell" /\ s.do = "await" /\ s.w = q[1].w
            /\ s.id = Depth(q) + 1
  PROVE  /\ Orderly(c)
         /\ \A id : Awaits(q, id) => Awaits(c, id)
         /\ ~RenewNext(c) /\ ~NewsNext(c)
         /\ s.do = "await" /\ s.w = "manager" => Awaits(c, s.id)
         /\ s.do = "await" => \A id : Awaits(q, id) => id < s.id
<1>1. /\ c \in Seq(Steps) /\ Len(q) \in Nat /\ Len(q) > 0 /\ Len(c) = Len(q)
      /\ c[1] = s /\ \A i \in 1 .. Len(q) : i # 1 => c[i] = q[i]
  BY DEF Instead
<1>2. Nesting(q) /\ Follows(q) /\ Disposes(q)
  BY DEF Orderly
<1>3. /\ WaitsIn(q) = {i \in 1 .. Len(q) : q[i].do = "await"}
      /\ WaitsIn(c) = {i \in 1 .. Len(c) : c[i].do = "await"}
      /\ IsFiniteSet(WaitsIn(q)) /\ Depth(q) \in Nat
  BY <1>1, WaitsFinite, Zenon
<1>4. \A i \in 1 .. Len(q) : q[i].do = "await" =>
        i # 1 /\ c[i] = q[i] /\ q[i].id \in Nat /\ q[i].id <= Depth(q)
  <2>1. \A i \in 1 .. Len(q) : q[i] \in Steps
    BY SMT
  <2>2. \A i \in 1 .. Len(q) : q[i].do = "await" => i # 1
    BY SMT
  <2> QED
    BY <1>1, <1>2, <2>1, <2>2, StepFields, Zenon DEF Nesting
<1>5. \A i \in 1 .. Len(c) : c[i].do = "await" =>
        \/ i = 1 /\ s.do = "await"
        \/ 1 < i /\ i \in 1 .. Len(q) /\ c[i] = q[i] /\ q[i].do = "await"
  BY <1>1, SMT
<1>6. ASSUME s.do = "drain" PROVE Nesting(c)
  <2>1. WaitsIn(c) = WaitsIn(q)
    BY <1>1, <1>3, <1>4, <1>5, <1>6, SMT
  <2>2. Depth(c) = Depth(q)
    BY <2>1, Zenon DEF Depth
  <2>3. Nesting(c)
    <3>1. \A i \in 1 .. Len(c) : c[i].do = "await" => c[i].id <= Depth(c)
      BY <1>4, <1>5, <1>6, <2>2, SMT
    <3>2. ASSUME NEW i \in 1 .. Len(c), NEW j \in 1 .. Len(c), i < j,
                 c[i].do = "await", c[j].do = "await"
          PROVE  c[j].id < c[i].id
      BY <1>2, <1>5, <1>6, <3>2, SMT DEF Nesting
    <3> QED
      BY <3>1, <3>2, Zenon DEF Nesting
  <2> QED
    BY <2>3
<1>7. ASSUME s.do = "await" PROVE Nesting(c)
  <2>1. q[1].do = "tell" /\ s.w = q[1].w /\ s.id = Depth(q) + 1
    BY <1>7, SMT
  <2>2. WaitsIn(c) = WaitsIn(q) \cup {1} /\ 1 \notin WaitsIn(q)
    BY <1>1, <1>3, <1>4, <1>5, <1>7, SMT
  <2>3. Depth(c) = Depth(q) + 1
    <3>1. Cardinality(WaitsIn(q) \cup {1}) = Cardinality(WaitsIn(q)) + 1
      BY <1>3, <2>2, FS_AddElement
    <3> QED
      BY <2>2, <3>1, Zenon DEF Depth
  <2>4. Nesting(c)
    <3>1. ASSUME NEW i \in 1 .. Len(c), c[i].do = "await"
          PROVE  c[i].id <= Depth(c)
      BY <1>1, <1>3, <1>4, <1>5, <2>1, <2>3, <3>1, SMT
    <3>2. ASSUME NEW i \in 1 .. Len(c), NEW j \in 1 .. Len(c), i < j,
                 c[i].do = "await", c[j].do = "await"
          PROVE  c[j].id < c[i].id
      <4>1. 1 < j /\ j \in 1 .. Len(q) /\ c[j] = q[j] /\ q[j].do = "await"
        BY <1>1, <1>5, <3>2, SMT
      <4>2. CASE i = 1
        BY <1>1, <1>3, <1>4, <2>1, <4>1, <4>2, SMT
      <4>3. CASE i # 1
        <5>1. i \in 1 .. Len(q) /\ c[i] = q[i] /\ q[i].do = "await"
          BY <1>5, <3>2, <4>3, Zenon
        <5>2. q[j].id < q[i].id
          BY <1>2, <3>2, <4>1, <5>1, Zenon DEF Nesting
        <5> QED
          BY <4>1, <5>1, <5>2
      <4> QED
        BY <4>2, <4>3
    <3> QED
      BY <3>1, <3>2, Zenon DEF Nesting
  <2> QED
    BY <2>4
<1>8. Nesting(c)
  BY <1>6, <1>7, Zenon
<1>9. Follows(c)
  <2> SUFFICES ASSUME NEW i \in 1 .. Len(c) - 1
               PROVE  /\ c[i + 1].do \in {"reread", "replace"} =>
                           c[i].do \in {"tell", "await"} /\ c[i].w = "manager"
                      /\ c[i + 1].do = "put" /\ c[i + 1].w = "manager" =>
                           c[i].do = "put" /\ c[i].w = "viewer"
                      /\ c[i + 1].do = "put" /\ c[i + 1].w = "viewer" =>
                           c[i].do \in Changes
                      /\ c[i + 1].do # "add"
    BY Zenon DEF Follows
  <2>1. i \in 1 .. Len(q) - 1 /\ i + 1 \in 1 .. Len(q) /\ i + 1 # 1
        /\ i \in 1 .. Len(q)
    BY <1>1, SMT
  <2>2. c[i + 1] = q[i + 1]
    BY <1>1, <2>1, Zenon
  <2>3. /\ q[i + 1].do \in {"reread", "replace"} =>
             q[i].do \in {"tell", "await"} /\ q[i].w = "manager"
        /\ q[i + 1].do = "put" /\ q[i + 1].w = "manager" =>
             q[i].do = "put" /\ q[i].w = "viewer"
        /\ q[i + 1].do = "put" /\ q[i + 1].w = "viewer" => q[i].do \in Changes
        /\ q[i + 1].do # "add"
    BY <1>2, <2>1, Zenon DEF Follows
  <2>4. CASE i # 1
    <3>1. c[i] = q[i]
      BY <1>1, <2>1, <2>4, Zenon
    <3> QED
      BY <2>2, <2>3, <3>1
  <2>5. CASE i = 1
    BY <1>1, <2>2, <2>3, <2>5, SMT DEF Changes
  <2> QED
    BY <2>4, <2>5
<1>10. Disposes(c)
  <2> SUFFICES ASSUME NEW i \in 1 .. Len(c), c[i].do = "tell"
               PROVE  c[i].is = "dispose"
    BY Zenon DEF Disposes
  <2>1. i # 1 /\ c[i] = q[i] /\ i \in 1 .. Len(q)
    BY <1>1, SMT
  <2>2. q[i].do = "tell" => q[i].is = "dispose"
    BY <1>2, <2>1, Zenon DEF Disposes
  <2> QED
    BY <2>1, <2>2
<1>11. ASSUME NEW id, Awaits(q, id)
       PROVE  Awaits(c, id) /\ (s.do = "await" => id < s.id)
  <2>1. PICK k \in 1 .. Len(q) :
          q[k].do = "await" /\ q[k].w = "manager" /\ q[k].id = id
    BY <1>11, Zenon DEF Awaits
  <2>2. c[k] = q[k] /\ k \in 1 .. Len(c) /\ q[k].id <= Depth(q) /\ q[k].id \in Nat
    BY <1>1, <1>4, <2>1, Zenon
  <2>3. c[k].do = "await" /\ c[k].w = "manager" /\ c[k].id = id
    BY <2>1, <2>2
  <2>4. s.do = "await" => id < s.id
    BY <1>3, <2>1, <2>2, SMT
  <2> QED
    BY <2>2, <2>3, <2>4, Zenon DEF Awaits
<1>12. ~RenewNext(c) /\ ~NewsNext(c)
  BY <1>1, SMT DEF RenewNext, NewsNext, Changes
<1>13. s.do = "await" /\ s.w = "manager" => Awaits(c, s.id)
  <2>1. 1 \in 1 .. Len(c)
    BY <1>1, SMT
  <2> QED
    BY <1>1, <2>1, Zenon DEF Awaits
<1> QED
  BY <1>8, <1>9, <1>10, <1>11, <1>12, <1>13, Zenon DEF Orderly

LEMMA UpToTwo ==
  ASSUME NEW n \in Nat, n = 0 \/ n = 1 \/ n = 2
  PROVE  /\ \A i \in 1 .. n : i = 1 \/ (i = 2 /\ n > 1)
         /\ \A i \in 1 .. n - 1 : i = 1 /\ i + 1 = 2 /\ n > 1
  BY SMT

\* A single step, or one that is followed by the reply.
LEMMA BriefStep ==
  ASSUME NEW r \in Seq(Steps),
         \/ r = << >>
         \/ \E s : /\ r = <<s>>
                   /\ \/ s.do \in {"save", "open", "stop", "drain", "reply"}
                      \/ s.do = "put" /\ s.w = "viewer"
         \/ \E s, t : /\ r = <<s, t>> /\ t.do = "reply"
                      /\ s.do \in {"save", "open"}
  PROVE  Brief(r) /\ Inert(r)
<1>0. /\ Len(r) = 0 \/ Len(r) = 1 \/ Len(r) = 2
      /\ Len(r) > 0 => r[1].do \in {"save", "open", "stop", "drain", "reply"}
                       \/ (Len(r) = 1 /\ r[1].do = "put" /\ r[1].w = "viewer")
      /\ Len(r) > 1 => r[2].do = "reply"
      /\ r # << >> => Len(r) > 0
  <2>1. CASE r = << >>
    BY <2>1, SMT
  <2>2. ASSUME NEW s, r = <<s>>,
               \/ s.do \in {"save", "open", "stop", "drain", "reply"}
               \/ s.do = "put" /\ s.w = "viewer"
        PROVE  /\ Len(r) = 1
               /\ \/ r[1].do \in {"save", "open", "stop", "drain", "reply"}
                  \/ r[1].do = "put" /\ r[1].w = "viewer"
    BY <2>2, SMT
  <2>3. ASSUME NEW s, NEW t, r = <<s, t>>, t.do = "reply", s.do \in {"save", "open"}
        PROVE  Len(r) = 2 /\ r[1].do \in {"save", "open"} /\ r[2].do = "reply"
    BY <2>3, SMT
  <2>4. Len(r) = 0 => r = << >>
    BY SMT
  <2>5. \/ r = << >>
        \/ /\ Len(r) = 1
           /\ \/ r[1].do \in {"save", "open", "stop", "drain", "reply"}
              \/ r[1].do = "put" /\ r[1].w = "viewer"
        \/ Len(r) = 2 /\ r[1].do \in {"save", "open"} /\ r[2].do = "reply"
    BY <2>2, <2>3, Zenon
  <2> QED
    BY <2>1, <2>5, SMT
<1>1. Len(r) \in Nat
  BY SMT
<1>2. /\ \A i \in 1 .. Len(r) : i = 1 \/ (i = 2 /\ Len(r) > 1)
      /\ \A i \in 1 .. Len(r) - 1 : i = 1 /\ i + 1 = 2 /\ Len(r) > 1
  BY <1>0, <1>1, UpToTwo
<1>3. Follows(r)
  BY <1>0, <1>2, SMT DEF Follows
<1>4. \A i \in 1 .. Len(r) : r[i].do # "await" /\ r[i].do # "tell"
  <2>1. \A i \in 1 .. Len(r) : i = 2 => r[i].do = "reply"
    BY <1>0, <1>2, SMT
  <2>2. \A i \in 1 .. Len(r) : i = 1 => r[i].do \notin {"await", "tell"}
    BY <1>0, SMT
  <2> QED
    BY <1>2, <2>1, <2>2, SMT
<1>5. Disposes(r)
  BY <1>4, Zenon DEF Disposes
<1>6. Inert(r)
  BY <1>0, SMT DEF Inert, Changes
<1> QED
  BY <1>3, <1>4, <1>5, <1>6, Zenon DEF Brief

LEMMA RenewedBrief ==
  ASSUME NEW do \in {"reread", "replace"}
  PROVE  Brief(Renewed(do)) /\ Inert(Renewed(do))
<1> DEFINE r == Renewed(do)
<1>1. /\ r \in Seq(Steps) /\ Len(r) = 5
      /\ r[1] = Send("tell", "viewer", "dispose")
      /\ r[2] = Send("tell", "manager", "dispose")
      /\ r[3] = Do(do)
      /\ r[4] = Send("put", "viewer", "newlist")
      /\ r[5] = Send("put", "manager", "newlist")
  BY RenewedSteps
<1> HIDE DEF r
<1>2. /\ r[1].do = "tell" /\ r[1].is = "dispose"
      /\ r[2].do = "tell" /\ r[2].w = "manager" /\ r[2].is = "dispose"
      /\ r[3].do = do
      /\ r[4].do = "put" /\ r[4].w = "viewer"
      /\ r[5].do = "put" /\ r[5].w = "manager"
  BY <1>1, SMT DEF Do, Send
<1>3. /\ \A i \in 1 .. Len(r) : i \in {1, 2, 3, 4, 5}
      /\ \A i \in 1 .. Len(r) - 1 : i \in {1, 2, 3, 4}
      /\ 1 + 1 = 2 /\ 2 + 1 = 3 /\ 3 + 1 = 4 /\ 4 + 1 = 5
  BY <1>1, SMT
<1>4. Follows(r)
  BY <1>2, <1>3, SMT DEF Follows, Changes
<1>5. Disposes(r) /\ \A i \in 1 .. Len(r) : r[i].do # "await"
  BY <1>2, <1>3, SMT DEF Disposes
<1>6. Inert(r)
  BY <1>2, SMT DEF Inert, Changes
<1> QED
  BY <1>4, <1>5, <1>6, Zenon DEF Brief, r

LEMMA AddBrief ==
  ASSUME NEW is \in News
  PROVE  Brief(Addtohotlist(is)) /\ Addtohotlist(is)[1].do = "add"
<1> DEFINE r == Addtohotlist(is)
<1>1. /\ r \in Seq(Steps) /\ Len(r) = 4
      /\ r[1] = Do("add")
      /\ r[2] = Send("put", "viewer", is)
      /\ r[3] = Send("put", "manager", is)
      /\ r[4] = Do("save")
  BY AddtohotlistSteps
<1> HIDE DEF r
<1>2. /\ r[1].do = "add" /\ r[4].do = "save"
      /\ r[2].do = "put" /\ r[2].w = "viewer"
      /\ r[3].do = "put" /\ r[3].w = "manager"
  BY <1>1, SMT DEF Do, Send
<1>3. /\ \A i \in 1 .. Len(r) : i \in {1, 2, 3, 4}
      /\ \A i \in 1 .. Len(r) - 1 : i \in {1, 2, 3}
      /\ 1 + 1 = 2 /\ 2 + 1 = 3 /\ 3 + 1 = 4
  BY <1>1, SMT
<1>4. Follows(r)
  BY <1>2, <1>3, SMT DEF Follows, Changes
<1>5. Disposes(r) /\ \A i \in 1 .. Len(r) : r[i].do # "await"
  BY <1>2, <1>3, SMT DEF Disposes
<1> QED
  BY <1>2, <1>4, <1>5, Zenon DEF Brief, r

LEMMA ReactionBrief ==
  ASSUME NEW m \in Msgs
  PROVE  /\ Reaction(m) \in Seq(Steps)
         /\ Brief(Reaction(m)) /\ Inert(Reaction(m))
<1> DEFINE r == Reaction(m)
<1>1. r \in Seq(Steps)
  BY ReactionSteps, Zenon DEF Reacts
<1>2. \/ r = << >> \/ r = Restorehotlist
      \/ \E s : /\ r = <<s>>
                /\ \/ s = Send("put", "viewer", "addentry")
                   \/ s = On("drain", m.from) \/ s = On("reply", m.from)
      \/ \E s, t : /\ r = <<s, t>> /\ t = On("reply", m.from)
                   /\ s = On("open", "manager") \/ s = Do("save")
  BY Reactions, Zenon
<1> HIDE DEF r
<1>3. CASE r = Restorehotlist
  BY <1>1, <1>3, RenewedBrief, Zenon DEF Restorehotlist, r
<1>4. /\ Send("put", "viewer", "addentry").do = "put"
      /\ Send("put", "viewer", "addentry").w = "viewer"
      /\ \A do, w : On(do, w).do = do
      /\ Do("save").do = "save"
  BY Zenon DEF Send, On, Do
<1>5. CASE r # Restorehotlist
  <2>1. \/ r = << >>
        \/ \E s : /\ r = <<s>>
                  /\ \/ s.do \in {"save", "open", "stop", "drain", "reply"}
                     \/ s.do = "put" /\ s.w = "viewer"
        \/ \E s, t : /\ r = <<s, t>> /\ t.do = "reply" /\ s.do \in {"save", "open"}
    <3>1. ASSUME NEW s, r = <<s>>,
                 \/ s = Send("put", "viewer", "addentry")
                 \/ s = On("drain", m.from) \/ s = On("reply", m.from)
          PROVE  \/ s.do \in {"save", "open", "stop", "drain", "reply"}
                 \/ s.do = "put" /\ s.w = "viewer"
      BY <1>4, <3>1, SMT
    <3>2. ASSUME NEW s, NEW t, r = <<s, t>>, t = On("reply", m.from),
                 s = On("open", "manager") \/ s = Do("save")
          PROVE  t.do = "reply" /\ s.do \in {"save", "open"}
      BY <1>4, <3>2, SMT
    <3> QED
      BY <1>2, <1>5, <3>1, <3>2, Zenon
  <2>2. Brief(r) /\ Inert(r)
    BY <1>1, <2>1, BriefStep, Zenon DEF r
  <2> QED
    BY <1>1, <2>2 DEF r
<1> QED
  BY <1>3, <1>5

LEMMA CommandBrief ==
  ASSUME NEW c \in Commands
  PROVE  /\ c \in Seq(Steps) /\ Brief(c)
         /\ Inert(c) \/ c[1].do = "add"
<1>1. c \in Seq(Steps)
  BY CommandIs, DeinstallCommand, Zenon
<1>2. \/ c \in {Addtohotlist("addentry"), Addtohotlist("newlist"), <<Do("save")>>,
                 Restorehotlist, Sethotlistcontents, Deinstallhotwindow}
      \/ c \in {<<On("open", w)>> : w \in Windows}
      \/ c \in {<<On("stop", w)>> : w \in Windows}
  BY DEF Commands
<1>3. CASE c = Addtohotlist("addentry") \/ c = Addtohotlist("newlist")
  BY <1>1, <1>3, AddBrief, Zenon DEF News
<1>4. CASE c = Restorehotlist \/ c = Sethotlistcontents
  BY <1>1, <1>4, RenewedBrief, Zenon DEF Restorehotlist, Sethotlistcontents
<1>5. CASE \E s : c = <<s>> /\ s.do \in {"save", "open", "stop"}
  <2>1. \E s : /\ c = <<s>>
               /\ \/ s.do \in {"save", "open", "stop", "drain", "reply"}
                  \/ s.do = "put" /\ s.w = "viewer"
    BY <1>5, Zenon
  <2> QED
    BY <1>1, <2>1, BriefStep, Zenon
<1>6. CASE c = Deinstallhotwindow
  <2>1. /\ Len(c) = 3 /\ c[1].do = "stop" /\ c[2].do = "stop"
        /\ c[3].do = "lastsave"
    BY <1>6, SMT DEF Deinstallhotwindow, On, Do
  <2>2. /\ \A i \in 1 .. Len(c) : i \in {1, 2, 3}
        /\ \A i \in 1 .. Len(c) - 1 : i \in {1, 2}
        /\ 1 + 1 = 2 /\ 2 + 1 = 3
    BY <2>1, SMT
  <2>3. Follows(c)
    BY <2>1, <2>2, SMT DEF Follows
  <2>4. Disposes(c) /\ \A i \in 1 .. Len(c) : c[i].do # "await"
    BY <2>1, <2>2, SMT DEF Disposes
  <2>5. Inert(c)
    BY <2>1, SMT DEF Inert, Changes
  <2> QED
    BY <1>1, <2>3, <2>4, <2>5, Zenon DEF Brief
<1>7. \/ c = Addtohotlist("addentry") \/ c = Addtohotlist("newlist")
      \/ c = Restorehotlist \/ c = Sethotlistcontents
      \/ c = Deinstallhotwindow
      \/ \E s : c = <<s>> /\ s.do \in {"save", "open", "stop"}
  <2>1. \A w : On("open", w).do = "open" /\ On("stop", w).do = "stop"
    BY StepDo, Zenon
  <2>2. Do("save").do = "save"
    BY StepDo, Zenon
  <2> QED
    BY <1>2, <2>1, <2>2, Zenon
<1> QED
  BY <1>3, <1>4, <1>5, <1>6, <1>7, Zenon

-----------------------------------------------------------------------------
(* The messages of the manager.                                            *)

LEMMA NewsNever ==
  ASSUME NEW b, NoNews(b)
  PROVE  NoNewsBehind(b)
BY Zenon DEF NoNews, NoNewsBehind

\* All answers in the port p2 were in p, f says where.
Fewer(p, p2, f) ==
  /\ \A j \in 1 .. Len(p2) : IsAnswer(p2[j]) =>
       f[j] \in 1 .. Len(p) /\ p2[j] = p[f[j]]
  /\ \A i, j \in 1 .. Len(p2) :
       i < j /\ IsAnswer(p2[i]) /\ IsAnswer(p2[j]) => f[i] < f[j]

LEMMA FewerKeeps ==
  ASSUME NEW p, NEW p2, NEW f, Fewer(p, p2, f), NEW b, NEW q
  PROVE  /\ InOrder(p, b) => InOrder(p2, b)
         /\ Wanted(p, b, q) => Wanted(p2, b, q)
         /\ NoAnswer(p) => NoAnswer(p2)
<1>1. /\ \A j \in 1 .. Len(p2) : IsAnswer(p2[j]) =>
           f[j] \in 1 .. Len(p) /\ p2[j] = p[f[j]] /\ IsAnswer(p[f[j]])
      /\ \A i, j \in 1 .. Len(p2) :
           i < j /\ IsAnswer(p2[i]) /\ IsAnswer(p2[j]) => f[i] < f[j]
  BY Zenon DEF Fewer
<1>2. ASSUME InOrder(p, b) PROVE InOrder(p2, b)
  <2>1. ASSUME NEW i \in 1 .. Len(p2), NEW j \in 1 .. Len(p2), i < j,
               IsAnswer(p2[i]), IsAnswer(p2[j])
        PROVE  p2[i].id < p2[j].id
    <3>1. /\ f[i] \in 1 .. Len(p) /\ p2[i] = p[f[i]] /\ IsAnswer(p[f[i]])
          /\ f[j] \in 1 .. Len(p) /\ p2[j] = p[f[j]] /\ IsAnswer(p[f[j]])
          /\ f[i] < f[j]
      BY <1>1, <2>1, Zenon
    <3>2. p[f[i]].id < p[f[j]].id
      BY <1>2, <3>1, Zenon DEF InOrder
    <3> QED
      BY <3>1, <3>2
  <2>2. ASSUME NEW i \in 1 .. Len(p2), NEW j \in 1 .. Len(b),
               IsAnswer(p2[i]), b[j].id # 0
        PROVE  p2[i].id < b[j].id
    <3>1. f[i] \in 1 .. Len(p) /\ p2[i] = p[f[i]] /\ IsAnswer(p[f[i]])
      BY <1>1, <2>2, Zenon
    <3>2. p[f[i]].id < b[j].id
      BY <1>2, <2>2, <3>1, Zenon DEF InOrder
    <3> QED
      BY <3>1, <3>2
  <2> QED
    BY <1>2, <2>1, <2>2, Zenon DEF InOrder
<1>3. ASSUME Wanted(p, b, q) PROVE Wanted(p2, b, q)
  <2>1. ASSUME NEW i \in 1 .. Len(p2), IsAnswer(p2[i])
        PROVE  Awaits(q, p2[i].id)
    <3>1. f[i] \in 1 .. Len(p) /\ p2[i] = p[f[i]] /\ IsAnswer(p[f[i]])
      BY <1>1, <2>1, Zenon
    <3>2. Awaits(q, p[f[i]].id)
      BY <1>3, <3>1, Zenon DEF Wanted
    <3> QED
      BY <3>1, <3>2
  <2> QED
    BY <1>3, <2>1, Zenon DEF Wanted
<1>4. NoAnswer(p) => NoAnswer(p2)
  BY <1>1, Zenon DEF NoAnswer
<1> QED
  BY <1>2, <1>3, <1>4

LEMMA ThinnedFewer ==
  ASSUME NEW f, Thinned(f)
  PROVE  Fewer(port, port', f)
BY Zenon DEF Thinned, Fewer

\* Other messages than answers of the manager.
LEMMA ConcatFewer ==
  ASSUME NEW p \in Seq(Msgs), NEW news \in Seq(Msgs),
         \A i \in 1 .. Len(news) : ~IsAnswer(news[i])
  PROVE  \E f : Fewer(p, p \o news, f)
<1> DEFINE p2 == p \o news
           f == [j \in 1 .. Len(p) |-> j]
<1>1. /\ Len(p2) = Len(p) + Len(news)
      /\ \A i \in 1 .. Len(p) + Len(news) :
           p2[i] = IF i <= Len(p) THEN p[i] ELSE news[i - Len(p)]
  BY ConcatProperties
<1>2. Len(p) \in Nat /\ Len(news) \in Nat
  BY SMT
<1>3. \A i \in 1 .. Len(p) : f[i] = i
  BY Zenon
<1> HIDE DEF p2, f
<1>4. \A j \in 1 .. Len(p2) :
        \/ j \in 1 .. Len(p) /\ p2[j] = p[j]
        \/ j - Len(p) \in 1 .. Len(news) /\ p2[j] = news[j - Len(p)]
  BY <1>1, <1>2, SMT
<1>5. ASSUME NEW j \in 1 .. Len(p2), IsAnswer(p2[j])
      PROVE  j \in 1 .. Len(p) /\ f[j] = j /\ p2[j] = p[j]
  <2>1. CASE j \in 1 .. Len(p) /\ p2[j] = p[j]
    BY <1>3, <2>1, Zenon
  <2>2. CASE j - Len(p) \in 1 .. Len(news) /\ p2[j] = news[j - Len(p)]
    <3>1. ~IsAnswer(news[j - Len(p)])
      BY <2>2, Zenon
    <3> QED
      BY <1>5, <2>2, <3>1, Zenon
  <2> QED
    BY <1>4, <2>1, <2>2
<1>6. Fewer(p, p2, f)
  <2>1. ASSUME NEW j \in 1 .. Len(p2), IsAnswer(p2[j])
        PROVE  f[j] \in 1 .. Len(p) /\ p2[j] = p[f[j]]
    <3>1. j \in 1 .. Len(p) /\ f[j] = j /\ p2[j] = p[j]
      BY <1>5, <2>1, Zenon
    <3> QED
      BY <3>1
  <2>2. ASSUME NEW i \in 1 .. Len(p2), NEW j \in 1 .. Len(p2), i < j,
               IsAnswer(p2[i]), IsAnswer(p2[j])
        PROVE  f[i] < f[j]
    <3>1. f[i] = i /\ f[j] = j
      BY <1>5, <2>2, Zenon
    <3> QED
      BY <2>2, <3>1
  <2> QED
    BY <2>1, <2>2, Zenon DEF Fewer
<1> QED
  BY <1>6, Zenon DEF p2

LEMMA AppendsFewer ==
  ASSUME NEW p \in Seq(Msgs), NEW m \in Msgs, ~IsAnswer(m)
  PROVE  \E f : Fewer(p, Append(p, m), f)
<1> DEFINE news == <<m>>
<1>1. news \in Seq(Msgs) /\ Len(news) = 1 /\ news[1] = m
  BY SMT
<1>2. Append(p, m) = p \o news
  BY AppendIsConcat
<1> HIDE DEF news
<1>3. \A i \in 1 .. Len(news) : ~IsAnswer(news[i])
  <2>1. \A i \in 1 .. Len(news) : i = 1
    BY <1>1, SMT
  <2> QED
    BY <1>1, <2>1, Zenon
<1> QED
  BY <1>1, <1>2, <1>3, ConcatFewer

-----------------------------------------------------------------------------
(* Steps that send the manager nothing and take none of its messages.      *)

LEMMA Carried ==
  ASSUME NEW s, NEW n, NEW l, NEW b, NEW p, NEW q, Manages(s, n, l, b, p, q),
         NEW s2, NEW n2, NEW l2, NEW p2, NEW q2, NEW f, Fewer(p, p2, f),
         Off(s) => Off(s2),
         Detached(s, n, l, b) => Detached(s2, n2, l2, b),
         Away(s2, n2, p2, b),
         Orderly(q2), \A id : Awaits(q, id) => Awaits(q2, id),
         RenewNext(q2) => Detached(s, n, l, b),
         NewsNext(q2) => Clear(s, p, b)
  PROVE  Manages(s2, n2, l2, b, p2, q2)
<1>1. /\ Orderly(q) /\ InOrder(p, b) /\ Wanted(p, b, q)
      /\ Off(s) \/ NoNewsBehind(b)
      /\ NoAnswer(p) \/ Detached(s, n, l, b)
  BY DEF Manages
<1>2. InOrder(p2, b) /\ Wanted(p2, b, q) /\ (NoAnswer(p) => NoAnswer(p2))
  BY <1>1, FewerKeeps
<1>3. Wanted(p2, b, q2)
  BY <1>2, Zenon DEF Wanted
<1>4. NoAnswer(p2) \/ Detached(s2, n2, l2, b)
  BY <1>1, <1>2
<1>5. Clear(s, p, b) => Clear(s2, p2, b)
  BY <1>2, Zenon DEF Clear
<1> QED
  BY <1>1, <1>2, <1>3, <1>4, <1>5, Zenon DEF Manages

\* The first step of the main task is done, and it is neither a wait for the
\* manager nor a message to it.
LEMMA Done ==
  ASSUME NEW s, NEW n, NEW l, NEW b, NEW p, NEW q \in Seq(Steps),
         Manages(s, n, l, b, p, q), q # << >>,
         NEW s2, NEW n2, NEW l2, NEW p2, NEW f, Fewer(p, p2, f),
         Off(s) => Off(s2),
         Detached(s, n, l, b) => Detached(s2, n2, l2, b),
         Away(s2, n2, p2, b),
         q[1].do \in {"tell", "await"} /\ q[1].w = "manager" =>
           q[1].do = "tell" /\ Off(s)
  PROVE  Manages(s2, n2, l2, b, p2, Tail(q))
<1>1. Orderly(q) /\ (NewsNext(q) => Clear(s, p, b)) /\ Wanted(p, b, q)
  BY DEF Manages
<1>2. /\ Orderly(Tail(q))
      /\ RenewNext(Tail(q)) => Off(s)
      /\ NewsNext(Tail(q)) => NewsNext(q) \/ Off(s)
  BY <1>1, PopsOrderly, Zenon
<1>3. Off(s) => Detached(s, n, l, b) /\ Clear(s, p, b)
  BY Zenon DEF Detached, Clear
<1>4. \A id : Awaits(q, id) => Awaits(Tail(q), id)
  <2> SUFFICES ASSUME NEW id, Awaits(q, id) PROVE Awaits(Tail(q), id)
    OBVIOUS
  <2>1. PICK k \in 1 .. Len(q) :
          q[k].do = "await" /\ q[k].w = "manager" /\ q[k].id = id
    BY Zenon DEF Awaits
  <2>2. k # 1
    BY <2>1, Zenon
  <2>3. k - 1 \in 1 .. Len(Tail(q)) /\ Tail(q)[k - 1] = q[k]
    BY <2>2, TailOf, Zenon
  <2>4. /\ Tail(q)[k - 1].do = "await" /\ Tail(q)[k - 1].w = "manager"
        /\ Tail(q)[k - 1].id = id
    BY <2>1, <2>3
  <2> QED
    BY <2>3, <2>4, Zenon DEF Awaits
<1>5. /\ RenewNext(Tail(q)) => Detached(s, n, l, b)
      /\ NewsNext(Tail(q)) => Clear(s, p, b)
  BY <1>1, <1>2, <1>3, Zenon
<1>6. Orderly(Tail(q))
  BY <1>2
<1> QED
  BY <1>4, <1>5, <1>6, Carried

\* A reaction, and a command that does not add an entry.
LEMMA Fronted ==
  ASSUME NEW s, NEW n, NEW l, NEW b, NEW p, NEW q \in Seq(Steps),
         Manages(s, n, l, b, p, q),
         NEW r \in Seq(Steps), Brief(r), Inert(r),
         q # << >> => q[1].do \in {"await", "drain"},
         NEW p2, NEW f, Fewer(p, p2, f), Away(s, n, p2, b)
  PROVE  Manages(s, n, l, b, p2, r \o q)
<1>1. Orderly(q)
  BY DEF Manages
<1>2. /\ Orderly(r \o q)
      /\ \A id : Awaits(q, id) => Awaits(r \o q, id)
      /\ ~RenewNext(r \o q) /\ ~NewsNext(r \o q)
  BY <1>1, FrontsOrderly, Zenon
<1> QED
  BY <1>2, Carried, Zenon

-----------------------------------------------------------------------------
(* Messages and answers.                                                   *)

\* The answer with the number of the latest wait is the last one, and no
\* message is unanswered.
LEMMA LastAnswer ==
  ASSUME NEW s, NEW n, NEW l, NEW b, NEW p \in Seq(Msgs), NEW q \in Seq(Steps),
         Manages(s, n, l, b, p, q), b \in Seq(Orders),
         q # << >>, q[1].do = "await",
         NEW k \in 1 .. Len(p), IsAnswer(p[k]), p[k].id = q[1].id
  PROVE  /\ \A j \in 1 .. Len(p) : k < j => ~IsAnswer(p[j])
         /\ NoOrder(b) /\ Detached(s, n, l, b)
<1>1. /\ Nesting(q) /\ InOrder(p, b) /\ Wanted(p, b, q)
      /\ NoAnswer(p) \/ Detached(s, n, l, b)
  BY DEF Manages, Orderly
<1>2. \A id : Awaits(q, id) => id \in Nat /\ q[1].id \in Nat /\ id <= q[1].id
  BY <1>1, LatestWait
<1>3. ASSUME NEW j \in 1 .. Len(p), k < j, IsAnswer(p[j]) PROVE FALSE
  <2>1. p[k].id < p[j].id
    BY <1>1, <1>3, Zenon DEF InOrder
  <2>2. Awaits(q, p[j].id)
    BY <1>1, <1>3, Zenon DEF Wanted
  <2>3. p[j].id \in Nat /\ q[1].id \in Nat /\ p[j].id <= q[1].id
    BY <1>2, <2>2
  <2> QED
    BY <2>1, <2>3, SMT
<1>4. ASSUME NEW j \in 1 .. Len(b), b[j].id # 0 PROVE FALSE
  <2>1. p[k].id < b[j].id
    BY <1>1, <1>4, Zenon DEF InOrder
  <2>2. Awaits(q, b[j].id)
    BY <1>1, <1>4, Zenon DEF Wanted
  <2>3. b[j].id \in Nat /\ q[1].id \in Nat /\ b[j].id <= q[1].id
    BY <1>2, <2>2
  <2> QED
    BY <2>1, <2>3, SMT
<1>5. NoOrder(b)
  BY <1>4, Zenon DEF NoOrder
<1>6. Detached(s, n, l, b)
  BY <1>1, Zenon DEF NoAnswer
<1> QED
  BY <1>3, <1>5, <1>6

LEMMA AppendOf ==
  ASSUME NEW S, NEW b \in Seq(S), NEW m \in S, NEW c, c = Append(b, m)
  PROVE  /\ c \in Seq(S) /\ c # << >>
         /\ \A i \in 1 .. Len(b) : i \in 1 .. Len(c) /\ c[i] = b[i]
         /\ \A i \in 1 .. Len(c) : \/ i \in 1 .. Len(b) /\ c[i] = b[i]
                                   \/ i = Len(b) + 1 /\ c[i] = m
         /\ \A i, j \in 1 .. Len(c) : i < j => i \in 1 .. Len(b)
<1>1. /\ c \in Seq(S) /\ Len(c) = Len(b) + 1 /\ c[Len(b) + 1] = m
      /\ \A i \in 1 .. Len(b) : c[i] = b[i]
  BY AppendProperties
<1>2. Len(b) \in Nat
  BY SMT
<1>3. c # << >>
  BY <1>1, <1>2, SMT
<1>4. /\ \A i \in 1 .. Len(b) : i \in 1 .. Len(c) /\ c[i] = b[i]
      /\ \A i \in 1 .. Len(c) : i \in 1 .. Len(b) \/ i = Len(b) + 1
      /\ \A i, j \in 1 .. Len(c) : i < j => i \in 1 .. Len(b)
  BY <1>1, <1>2, SMT
<1> QED
  BY <1>1, <1>3, <1>4, Zenon

\* Asetattrsasync to the manager.
LEMMA PutsNews ==
  ASSUME NEW s, NEW n, NEW l, NEW b \in Seq(Orders), NEW p, NEW q \in Seq(Steps),
         Manages(s, n, l, b, p, q), s \notin {"none", "ended"},
         q # << >>, q[1].do = "put", q[1].w = "manager",
         NEW m \in Orders, m.id = 0
  PROVE  Manages(s, n, l, Append(b, m), p, Tail(q))
<1> DEFINE c == Append(b, m)
<1>1. /\ \A i \in 1 .. Len(b) : c[i] = b[i]
      /\ \A i \in 1 .. Len(c) : \/ i \in 1 .. Len(b) /\ c[i] = b[i]
                                \/ i = Len(b) + 1 /\ c[i] = m
      /\ \A i, j \in 1 .. Len(c) : i < j => i \in 1 .. Len(b)
  BY AppendOf
<1> HIDE DEF c
<1>2. /\ Orderly(q) /\ InOrder(p, b) /\ Wanted(p, b, q) /\ Away(s, n, p, b)
      /\ NoAnswer(p) \/ Detached(s, n, l, b)
      /\ NewsNext(q) => Clear(s, p, b)
  BY DEF Manages
<1>3. Clear(s, p, b)
  BY <1>2, Zenon DEF NewsNext
<1>4. \A i \in 1 .. Len(c) : c[i].id # 0 => i \in 1 .. Len(b) /\ c[i] = b[i]
  BY <1>1, SMT
<1>5. InOrder(p, c)
  BY <1>2, <1>4, SMT DEF InOrder
<1>6. /\ Orderly(Tail(q)) /\ ~RenewNext(Tail(q))
      /\ \A id : Awaits(q, id) => Awaits(Tail(q), id)
  <2>1. q[1].do \notin {"tell", "await"}
    BY SMT
  <2> QED
    BY <1>2, <2>1, PopsOrderly, Zenon
<1>7. Wanted(p, c, Tail(q))
  BY <1>2, <1>4, <1>6, SMT DEF Wanted
<1>8. Away(s, n, p, c)
  BY <1>2, Zenon DEF Away
<1>9. NoOrder(b) => NoOrder(c) /\ NoNewsBehind(c)
  <2>1. NoOrder(b) => NoOrder(c)
    BY <1>4, SMT DEF NoOrder
  <2>2. NoOrder(c) => NoNewsBehind(c)
    BY Zenon DEF NoOrder, NoNewsBehind
  <2> QED
    BY <2>1, <2>2
<1>10. Clear(s, p, c) /\ (Off(s) \/ NoNewsBehind(c))
  BY <1>3, <1>9, Zenon DEF Clear
<1>11. NoAnswer(p) \/ Detached(s, n, l, c)
  BY <1>3, Zenon DEF Clear, Detached
<1>12. Manages(s, n, l, c, p, Tail(q))
  BY <1>5, <1>6, <1>7, <1>8, <1>10, <1>11, Zenon DEF Manages
<1> QED
  BY <1>12 DEF c

\* Asetattrssync to the manager.
LEMMA TellsManager ==
  ASSUME NEW s, NEW n, NEW l, NEW b \in Seq(Orders), NEW p, NEW q \in Seq(Steps),
         Manages(s, n, l, b, p, q), s \notin {"none", "ended"},
         q # << >>, q[1].do = "tell", q[1].w = "manager",
         NEW st \in Steps, st.do = "await", st.w = "manager", st.id = Depth(q) + 1,
         NEW d, Instead(q, st, d),
         NEW m \in Orders, m.id = st.id, m.is = "dispose"
  PROVE  Manages(s, n, l, Append(b, m), p, d)
<1> DEFINE c == Append(b, m)
<1>1. /\ \A i \in 1 .. Len(b) : c[i] = b[i]
      /\ \A i \in 1 .. Len(c) : \/ i \in 1 .. Len(b) /\ c[i] = b[i]
                                \/ i = Len(b) + 1 /\ c[i] = m
      /\ \A i, j \in 1 .. Len(c) : i < j => i \in 1 .. Len(b)
  BY AppendOf
<1> HIDE DEF c
<1>2. /\ Orderly(q) /\ InOrder(p, b) /\ Wanted(p, b, q) /\ Away(s, n, p, b)
      /\ Off(s) \/ NoNewsBehind(b)
      /\ NoAnswer(p) \/ Detached(s, n, l, b)
  BY DEF Manages
<1>3. /\ Orderly(d) /\ ~RenewNext(d) /\ ~NewsNext(d) /\ Awaits(d, m.id)
      /\ \A id : Awaits(q, id) => Awaits(d, id) /\ id < m.id
  BY <1>2, ReplacesOrderly, Zenon
<1>4. /\ \A i \in 1 .. Len(p) : IsAnswer(p[i]) =>
           Awaits(d, p[i].id) /\ p[i].id < m.id
      /\ \A i \in 1 .. Len(b) : b[i].id # 0 =>
           Awaits(d, b[i].id) /\ b[i].id < m.id
  BY <1>2, <1>3, Zenon DEF Wanted
<1>5. Wanted(p, c, d)
  <2>1. ASSUME NEW i \in 1 .. Len(c), c[i].id # 0 PROVE Awaits(d, c[i].id)
    BY <1>1, <1>3, <1>4, <2>1, SMT
  <2> QED
    BY <1>4, <2>1, Zenon DEF Wanted
<1>6. InOrder(p, c)
  <2>1. ASSUME NEW i \in 1 .. Len(c), NEW j \in 1 .. Len(c), i < j,
               c[i].id # 0, c[j].id # 0
        PROVE  c[i].id < c[j].id
    <3>1. i \in 1 .. Len(b) /\ c[i] = b[i]
      BY <1>1, <2>1, Zenon
    <3>2. CASE j \in 1 .. Len(b) /\ c[j] = b[j]
      <4>1. b[i].id # 0 /\ b[j].id # 0
        BY <2>1, <3>1, <3>2
      <4>2. b[i].id < b[j].id
        BY <1>2, <2>1, <3>1, <3>2, <4>1, Zenon DEF InOrder
      <4> QED
        BY <3>1, <3>2, <4>2
    <3>3. CASE c[j] = m
      BY <1>4, <2>1, <3>1, <3>3, SMT
    <3> QED
      BY <1>1, <3>2, <3>3, Zenon
  <2>2. ASSUME NEW i \in 1 .. Len(p), NEW j \in 1 .. Len(c),
               IsAnswer(p[i]), c[j].id # 0
        PROVE  p[i].id < c[j].id
    BY <1>1, <1>2, <1>4, <2>2, SMT DEF InOrder
  <2>3. ASSUME NEW i \in 1 .. Len(c), c[i].id # 0 PROVE c[i].is = "dispose"
    BY <1>1, <1>2, <2>3, SMT DEF InOrder
  <2> QED
    BY <1>2, <2>1, <2>2, <2>3, Zenon DEF InOrder
<1>7. Away(s, n, p, c)
  BY <1>2, Zenon DEF Away
<1>8. m.is \notin News
  BY SMT DEF News
<1>9. NoNewsBehind(b) => NoNewsBehind(c)
  <2> SUFFICES ASSUME NoNewsBehind(b), NEW i \in 1 .. Len(c), NEW j \in 1 .. Len(c),
                      i < j, c[i].id # 0
               PROVE  c[j].is \notin News
    BY Zenon DEF NoNewsBehind
  <2>1. i \in 1 .. Len(b) /\ c[i] = b[i]
    BY <1>1, Zenon
  <2>2. CASE j \in 1 .. Len(b) /\ c[j] = b[j]
    <3>1. b[i].id # 0
      BY <2>1
    <3>2. b[j].is \notin News
      BY <2>1, <2>2, <3>1, Zenon DEF NoNewsBehind
    <3> QED
      BY <2>2, <3>2
  <2>3. CASE c[j] = m
    BY <1>8, <2>3
  <2> QED
    BY <1>1, <2>2, <2>3, Zenon
<1>10. NoNews(b) => NoNews(c)
  BY <1>1, <1>8, SMT DEF NoNews
<1>11. Detached(s, n, l, b) => Detached(s, n, l, c)
  BY <1>10, Zenon DEF Detached
<1>12. Manages(s, n, l, c, p, d)
  BY <1>2, <1>3, <1>5, <1>6, <1>7, <1>9, <1>11, Zenon DEF Manages
<1> QED
  BY <1>12 DEF c

\* A message to the viewer leaves the wait for its answer, with the next number;
\* a stop leaves the wait for the end of a window.
LEMMA ReplacesReverts ==
  ASSUME NEW s, NEW n, NEW l, NEW b, NEW p, NEW q \in Seq(Steps),
         Manages(s, n, l, b, p, q), q # << >>,
         NEW st \in Steps, NEW d, Instead(q, st, d),
         \/ q[1].do = "stop" /\ st.do = "drain"
         \/ /\ q[1].do = "tell" /\ st.do = "await" /\ st.w = q[1].w
            /\ st.id = Depth(q) + 1
  PROVE  Manages(s, n, l, b, p, d)
<1>1. /\ Orderly(q) /\ InOrder(p, b) /\ Wanted(p, b, q) /\ Away(s, n, p, b)
      /\ Off(s) \/ NoNewsBehind(b)
      /\ NoAnswer(p) \/ Detached(s, n, l, b)
  BY DEF Manages
<1>2. /\ Orderly(d) /\ ~RenewNext(d) /\ ~NewsNext(d)
      /\ \A id : Awaits(q, id) => Awaits(d, id)
  BY <1>1, ReplacesOrderly, Zenon
<1>3. Wanted(p, b, d)
  BY <1>1, <1>2, Zenon DEF Wanted
<1> QED
  BY <1>1, <1>2, <1>3, Zenon DEF Manages

LEMMA TailOfOrders ==
  ASSUME NEW b \in Seq(Orders), b # << >>, NEW t, t = Tail(b)
  PROVE  /\ Head(b) = b[1] /\ b[1] \in Orders /\ 1 \in 1 .. Len(b)
         /\ t \in Seq(Orders)
         /\ \A i \in 1 .. Len(t) : /\ i + 1 \in 1 .. Len(b) /\ 1 < i + 1
                                   /\ t[i] = b[i + 1]
         /\ \A i, j \in 1 .. Len(t) : i < j => i + 1 < j + 1
<1>1. Len(b) \in Nat /\ Len(b) > 0 /\ Head(b) = b[1] /\ b[1] \in Orders
  BY SMT
<1>2. /\ t \in Seq(Orders) /\ Len(t) = Len(b) - 1
      /\ \A i \in 1 .. Len(t) : t[i] = b[i + 1]
  BY HeadTailProperties, Zenon
<1>3. /\ \A i \in 1 .. Len(t) : i + 1 \in 1 .. Len(b) /\ 1 < i + 1
      /\ \A i, j \in 1 .. Len(t) : i < j => i + 1 < j + 1
      /\ 1 \in 1 .. Len(b)
  BY <1>1, <1>2, SMT
<1> QED
  BY <1>1, <1>2, <1>3, Zenon

\* The messages but the first are still in order.
LEMMA RestOfOrders ==
  ASSUME NEW b \in Seq(Orders), b # << >>, NEW t, t = Tail(b)
  PROVE  /\ \A p : InOrder(p, b) => InOrder(p, t)
         /\ \A p, q : Wanted(p, b, q) => Wanted(p, t, q)
         /\ NoOrder(b) => NoOrder(t)
         /\ NoNews(b) => NoNews(t)
         /\ NoNewsBehind(b) => /\ NoNewsBehind(t)
                               /\ b[1].id # 0 => NoNews(t)
<1>1. /\ 1 \in 1 .. Len(b)
      /\ \A i \in 1 .. Len(t) : /\ i + 1 \in 1 .. Len(b) /\ 1 < i + 1
                                /\ t[i] = b[i + 1]
      /\ \A i, j \in 1 .. Len(t) : i < j => i + 1 < j + 1
  BY TailOfOrders, Zenon
<1>2. ASSUME NEW p, InOrder(p, b) PROVE InOrder(p, t)
  <2>1. ASSUME NEW i \in 1 .. Len(t), NEW j \in 1 .. Len(t), i < j,
               t[i].id # 0, t[j].id # 0
        PROVE  t[i].id < t[j].id
    <3>1. b[i + 1].id # 0 /\ b[j + 1].id # 0
      BY <1>1, <2>1
    <3>2. b[i + 1].id < b[j + 1].id
      BY <1>1, <1>2, <2>1, <3>1, Zenon DEF InOrder
    <3> QED
      BY <1>1, <3>2
  <2>2. ASSUME NEW i \in 1 .. Len(p), NEW j \in 1 .. Len(t),
               IsAnswer(p[i]), t[j].id # 0
        PROVE  p[i].id < t[j].id
    <3>1. b[j + 1].id # 0
      BY <1>1, <2>2
    <3>2. p[i].id < b[j + 1].id
      BY <1>1, <1>2, <2>2, <3>1, Zenon DEF InOrder
    <3> QED
      BY <1>1, <3>2
  <2>3. ASSUME NEW i \in 1 .. Len(t), t[i].id # 0 PROVE t[i].is = "dispose"
    <3>1. b[i + 1].id # 0
      BY <1>1, <2>3
    <3>2. b[i + 1].is = "dispose"
      BY <1>1, <1>2, <3>1, Zenon DEF InOrder
    <3> QED
      BY <1>1, <3>2
  <2> QED
    BY <1>2, <2>1, <2>2, <2>3, Zenon DEF InOrder
<1>3. ASSUME NEW p, NEW q, Wanted(p, b, q) PROVE Wanted(p, t, q)
  <2>1. ASSUME NEW i \in 1 .. Len(t), t[i].id # 0 PROVE Awaits(q, t[i].id)
    <3>1. b[i + 1].id # 0
      BY <1>1, <2>1
    <3>2. Awaits(q, b[i + 1].id)
      BY <1>1, <1>3, <3>1, Zenon DEF Wanted
    <3> QED
      BY <1>1, <3>2
  <2> QED
    BY <1>3, <2>1, Zenon DEF Wanted
<1>4. (NoOrder(b) => NoOrder(t)) /\ (NoNews(b) => NoNews(t))
  BY <1>1, SMT DEF NoOrder, NoNews
<1>5. ASSUME NoNewsBehind(b) PROVE NoNewsBehind(t) /\ (b[1].id # 0 => NoNews(t))
  <2>1. ASSUME NEW i \in 1 .. Len(t), NEW j \in 1 .. Len(t), i < j, t[i].id # 0
        PROVE  t[j].is \notin News
    <3>1. b[i + 1].id # 0
      BY <1>1, <2>1
    <3>2. b[j + 1].is \notin News
      BY <1>1, <1>5, <2>1, <3>1, Zenon DEF NoNewsBehind
    <3> QED
      BY <1>1, <3>2
  <2>2. ASSUME NEW j \in 1 .. Len(t), b[1].id # 0 PROVE t[j].is \notin News
    <3>1. b[j + 1].is \notin News
      BY <1>1, <1>5, <2>2, Zenon DEF NoNewsBehind
    <3> QED
      BY <1>1, <3>1
  <2> QED
    BY <2>1, <2>2, Zenon DEF NoNewsBehind, NoNews
<1> QED
  BY <1>2, <1>3, <1>4, <1>5, Zenon

\* The manager handles a message, and answers one that is waited for.
LEMMA Handles ==
  ASSUME NEW n, NEW l, NEW b \in Seq(Orders), NEW p \in Seq(Msgs), NEW q,
         Manages("loop", n, l, b, p, q), b # << >>,
         NEW n2, NEW l2, NEW p2, NEW a \in Msgs,
         b[1].is = "dispose" => n2 = {} /\ l2,
         b[1].id = 0 => p2 = p,
         b[1].id # 0 => p2 = Append(p, a) /\ IsAnswer(a) /\ a.id = b[1].id
  PROVE  Manages("loop", n2, l2, Tail(b), p2, q)
<1> DEFINE t == Tail(b)
<1>1. 1 \in 1 .. Len(b) /\ b[1] \in Orders
      /\ \A i \in 1 .. Len(t) : /\ i + 1 \in 1 .. Len(b) /\ 1 < i + 1
                                /\ t[i] = b[i + 1]
  BY TailOfOrders, Zenon
<1>2. /\ \A o : InOrder(o, b) => InOrder(o, t)
      /\ \A o, r : Wanted(o, b, r) => Wanted(o, t, r)
      /\ NoOrder(b) => NoOrder(t)
      /\ NoNews(b) => NoNews(t)
      /\ NoNewsBehind(b) => NoNewsBehind(t) /\ (b[1].id # 0 => NoNews(t))
  BY RestOfOrders
<1> HIDE DEF t
<1>3. /\ Orderly(q) /\ InOrder(p, b) /\ Wanted(p, b, q)
      /\ NoAnswer(p) \/ Detached("loop", n, l, b)
      /\ RenewNext(q) => Detached("loop", n, l, b)
      /\ NewsNext(q) => Clear("loop", p, b)
      /\ Off("loop") \/ NoNewsBehind(b)
  BY DEF Manages
<1>4. ~Off("loop") /\ \A z : Away("loop", n2, z, t)
  BY SMT DEF Off, Away
<1>5. NoNewsBehind(b)
  BY <1>3, <1>4
<1>6. CASE b[1].id = 0
  <2>1. Detached("loop", n, l, b) => Detached("loop", n2, l2, t)
    <3> SUFFICES ASSUME Detached("loop", n, l, b) PROVE Detached("loop", n2, l2, t)
      OBVIOUS
    <3>1. NoNews(b)
      BY <1>4, Zenon DEF Detached
    <3>2. b[1].is \notin News
      BY <1>1, <3>1, Zenon DEF NoNews
    <3>3. b[1].is = "dispose"
      <4>1. b[1].is \in {"addentry", "dispose", "newlist"}
        BY <1>1, Zenon DEF Orders
      <4> QED
        BY <3>2, <4>1, Zenon DEF News
    <3> QED
      BY <1>2, <3>1, <3>3, SMT DEF Detached
  <2>2. Clear("loop", p, b) => Clear("loop", p, t)
    BY <1>2, Zenon DEF Clear
  <2>3. InOrder(p, t) /\ Wanted(p, t, q) /\ NoNewsBehind(t)
    BY <1>2, <1>3, <1>5, Zenon
  <2>4. Manages("loop", n2, l2, t, p, q)
    BY <1>3, <1>4, <2>1, <2>2, <2>3, Zenon DEF Manages
  <2> QED
    BY <1>6, <2>4 DEF t
<1>7. CASE b[1].id # 0
  <2>1. /\ \A i \in 1 .. Len(p) : p2[i] = p[i]
        /\ \A i \in 1 .. Len(p2) : \/ i \in 1 .. Len(p) /\ p2[i] = p[i]
                                   \/ i = Len(p) + 1 /\ p2[i] = a
        /\ \A i, j \in 1 .. Len(p2) : i < j => i \in 1 .. Len(p)
    <3>1. p2 = Append(p, a)
      BY <1>7
    <3> HIDE <1>3
    <3> QED
      BY <3>1, AppendOf
  <2>2. b[1].is = "dispose" /\ NoNews(t) /\ NoNewsBehind(t)
    BY <1>1, <1>2, <1>3, <1>5, <1>7, Zenon DEF InOrder
  <2>3. Detached("loop", n2, l2, t)
    BY <2>2, SMT DEF Detached
  <2>4. /\ \A i \in 1 .. Len(p) : IsAnswer(p[i]) => p[i].id < a.id
        /\ \A i \in 1 .. Len(t) : t[i].id # 0 => a.id < t[i].id
        /\ Awaits(q, a.id)
    <3>1. \A i \in 1 .. Len(p) : IsAnswer(p[i]) => p[i].id < b[1].id
      BY <1>1, <1>3, <1>7, Zenon DEF InOrder
    <3>2. ASSUME NEW i \in 1 .. Len(t), t[i].id # 0 PROVE b[1].id < t[i].id
      <4>1. b[i + 1].id # 0
        BY <1>1, <3>2
      <4>2. b[1].id < b[i + 1].id
        BY <1>1, <1>3, <1>7, <4>1, Zenon DEF InOrder
      <4> QED
        BY <1>1, <4>2
    <3>3. Awaits(q, b[1].id)
      BY <1>1, <1>3, <1>7, Zenon DEF Wanted
    <3> QED
      BY <1>7, <3>1, <3>2, <3>3
  <2>5. InOrder(p, t) /\ Wanted(p, t, q)
    BY <1>2, <1>3
  <2>6. InOrder(p2, t)
    <3>1. ASSUME NEW i \in 1 .. Len(p2), NEW j \in 1 .. Len(p2), i < j,
                 IsAnswer(p2[i]), IsAnswer(p2[j])
          PROVE  p2[i].id < p2[j].id
      <4>1. i \in 1 .. Len(p) /\ p2[i] = p[i]
        BY <2>1, <3>1, Zenon
      <4>2. IsAnswer(p[i])
        BY <3>1, <4>1
      <4>3. CASE j \in 1 .. Len(p) /\ p2[j] = p[j]
        <5>1. IsAnswer(p[j])
          BY <3>1, <4>3
        <5>2. p[i].id < p[j].id
          BY <2>5, <3>1, <4>1, <4>2, <4>3, <5>1, Zenon DEF InOrder
        <5> QED
          BY <4>1, <4>3, <5>2
      <4>4. CASE p2[j] = a
        BY <2>4, <4>1, <4>2, <4>4, SMT
      <4> QED
        BY <2>1, <4>3, <4>4, Zenon
    <3>2. ASSUME NEW i \in 1 .. Len(p2), NEW j \in 1 .. Len(t),
                 IsAnswer(p2[i]), t[j].id # 0
          PROVE  p2[i].id < t[j].id
      <4>1. CASE i \in 1 .. Len(p) /\ p2[i] = p[i]
        <5>1. IsAnswer(p[i])
          BY <3>2, <4>1
        <5>2. p[i].id < t[j].id
          BY <2>5, <3>2, <4>1, <5>1, Zenon DEF InOrder
        <5> QED
          BY <4>1, <5>2
      <4>2. CASE p2[i] = a
        BY <2>4, <3>2, <4>2, SMT
      <4> QED
        BY <2>1, <4>1, <4>2, Zenon
    <3> QED
      BY <2>5, <3>1, <3>2, Zenon DEF InOrder
  <2>7. Wanted(p2, t, q)
    <3>1. ASSUME NEW i \in 1 .. Len(p2), IsAnswer(p2[i]) PROVE Awaits(q, p2[i].id)
      <4>1. CASE i \in 1 .. Len(p) /\ p2[i] = p[i]
        <5>1. IsAnswer(p[i])
          BY <3>1, <4>1
        <5>2. Awaits(q, p[i].id)
          BY <2>5, <4>1, <5>1, Zenon DEF Wanted
        <5> QED
          BY <4>1, <5>2
      <4>2. CASE p2[i] = a
        BY <2>4, <4>2
      <4> QED
        BY <2>1, <4>1, <4>2, Zenon
    <3> QED
      BY <2>5, <3>1, Zenon DEF Wanted
  <2>8. ~NewsNext(q)
    <3>1. ~NoOrder(b)
      BY <1>1, <1>7, Zenon DEF NoOrder
    <3> QED
      BY <1>3, <1>4, <3>1, Zenon DEF Clear
  <2>9. Manages("loop", n2, l2, t, p2, q)
    BY <1>3, <1>4, <2>2, <2>3, <2>6, <2>7, <2>8, Zenon DEF Manages
  <2> QED
    BY <2>9 DEF t
<1> QED
  BY <1>6, <1>7

\* The subtask ends: its messages are answered in their order.
AnswersTo(news, b) ==
  /\ \A i \in 1 .. Len(news) : \E a \in 1 .. Len(b) :
       IsAnswer(news[i]) /\ news[i].id = b[a].id /\ b[a].id # 0
  /\ \A i, j \in 1 .. Len(news) : i < j => \E a, c \in 1 .. Len(b) :
       /\ a < c /\ b[a].id # 0 /\ b[c].id # 0
       /\ news[i].id = b[a].id /\ news[j].id = b[c].id

LEMMA Leaves ==
  ASSUME NEW n, NEW l, NEW b, NEW p, NEW q, Manages("leaving", n, l, b, p, q),
         p \in Seq(Msgs), NEW news \in Seq(Msgs),
         AnswersTo(news, b),
         NEW p2, p2 = p \o news
  PROVE  Manages("ended", n, l, << >>, p2, q)
<1>1. /\ Len(p) \in Nat /\ Len(news) \in Nat /\ Len(p2) = Len(p) + Len(news)
      /\ \A i \in 1 .. Len(p) + Len(news) :
           p2[i] = IF i <= Len(p) THEN p[i] ELSE news[i - Len(p)]
  BY ConcatProperties
<1>2. \A i \in 1 .. Len(p2) :
        \/ i \in 1 .. Len(p) /\ p2[i] = p[i]
        \/ i > Len(p) /\ i - Len(p) \in 1 .. Len(news) /\ p2[i] = news[i - Len(p)]
  BY <1>1, SMT
<1>3. /\ Orderly(q) /\ InOrder(p, b) /\ Wanted(p, b, q) /\ Away("leaving", n, p, b)
  BY DEF Manages
<1>4. \A i \in 1 .. Len(<< >>) : FALSE
  BY SMT
<1>5. InOrder(p2, << >>)
  <2>1. ASSUME NEW i \in 1 .. Len(p2), NEW j \in 1 .. Len(p2), i < j,
               IsAnswer(p2[i]), IsAnswer(p2[j])
        PROVE  p2[i].id < p2[j].id
    <3>1. CASE j \in 1 .. Len(p) /\ p2[j] = p[j]
      <4>1. i \in 1 .. Len(p) /\ p2[i] = p[i]
        BY <1>1, <1>2, <2>1, <3>1, SMT
      <4>2. IsAnswer(p[i]) /\ IsAnswer(p[j])
        BY <2>1, <3>1, <4>1
      <4>3. p[i].id < p[j].id
        BY <1>3, <2>1, <3>1, <4>1, <4>2, Zenon DEF InOrder
      <4> QED
        BY <3>1, <4>1, <4>3
    <3>2. CASE /\ j > Len(p) /\ j - Len(p) \in 1 .. Len(news)
               /\ p2[j] = news[j - Len(p)]
      <4>1. CASE i \in 1 .. Len(p) /\ p2[i] = p[i]
        <5>1. IsAnswer(p[i])
          BY <2>1, <4>1
        <5>2. PICK a \in 1 .. Len(b) :
                news[j - Len(p)].id = b[a].id /\ b[a].id # 0
          BY <3>2, Zenon DEF AnswersTo
        <5>3. p[i].id < b[a].id
          BY <1>3, <4>1, <5>1, <5>2, Zenon DEF InOrder
        <5>4. p2[j].id = b[a].id /\ p2[i].id = p[i].id
          BY <3>2, <4>1, <5>2
        <5> QED
          BY <5>3, <5>4
      <4>2. CASE /\ i > Len(p) /\ i - Len(p) \in 1 .. Len(news)
                 /\ p2[i] = news[i - Len(p)]
        <5>1. i - Len(p) < j - Len(p)
          BY <1>1, <2>1, SMT
        <5>2. PICK a \in 1 .. Len(b), c \in 1 .. Len(b) :
                /\ a < c /\ b[a].id # 0 /\ b[c].id # 0
                /\ news[i - Len(p)].id = b[a].id
                /\ news[j - Len(p)].id = b[c].id
          BY <3>2, <4>2, <5>1, Zenon DEF AnswersTo
        <5>3. b[a].id < b[c].id
          BY <1>3, <5>2, Zenon DEF InOrder
        <5>4. p2[i].id = b[a].id /\ p2[j].id = b[c].id
          BY <3>2, <4>2, <5>2
        <5> QED
          BY <5>3, <5>4
      <4> QED
        BY <1>2, <4>1, <4>2
    <3> QED
      BY <1>2, <3>1, <3>2
  <2> QED
    BY <1>4, <2>1, Zenon DEF InOrder
<1>6. Wanted(p2, << >>, q)
  <2>1. ASSUME NEW i \in 1 .. Len(p2), IsAnswer(p2[i]) PROVE Awaits(q, p2[i].id)
    <3>1. CASE i \in 1 .. Len(p) /\ p2[i] = p[i]
      <4>1. IsAnswer(p[i])
        BY <2>1, <3>1
      <4>2. Awaits(q, p[i].id)
        BY <1>3, <3>1, <4>1, Zenon DEF Wanted
      <4> QED
        BY <3>1, <4>2
    <3>2. CASE /\ i > Len(p) /\ i - Len(p) \in 1 .. Len(news)
               /\ p2[i] = news[i - Len(p)]
      <4>1. PICK a \in 1 .. Len(b) :
              news[i - Len(p)].id = b[a].id /\ b[a].id # 0
        BY <3>2, Zenon DEF AnswersTo
      <4>2. Awaits(q, b[a].id)
        BY <1>3, <4>1, Zenon DEF Wanted
      <4>3. p2[i].id = b[a].id
        BY <3>2, <4>1
      <4> QED
        BY <4>2, <4>3
    <3> QED
      BY <1>2, <3>1, <3>2
  <2> QED
    BY <1>4, <2>1, Zenon DEF Wanted
<1>7. Off("ended") /\ Off("leaving") /\ n = {}
  <2>1. Off("ended") /\ Off("leaving")
    BY SMT DEF Off
  <2> QED
    BY <1>3, <2>1, Zenon DEF Away
<1>8. Away("ended", n, p2, << >>)
  BY <1>7, SMT DEF Away
<1> QED
  BY <1>3, <1>5, <1>6, <1>7, <1>8, Zenon DEF Manages, Detached, Clear

\* The manager is opened.
LEMMA Opens ==
  ASSUME NEW n, NEW l, NEW b, NEW p, NEW q \in Seq(Steps),
         Manages("none", n, l, b, p, q), q # << >>, q[1].do = "open"
  PROVE  Manages("build", n, l, b, p, Tail(q))
<1>1. /\ Orderly(q) /\ InOrder(p, b) /\ Wanted(p, b, q) /\ Away("none", n, p, b)
  BY DEF Manages
<1>2. Off("none") /\ Len(<< >>) = 0 /\ \A i \in 1 .. 0 : FALSE
  BY SMT DEF Off
<1>3. b = << >> /\ NoAnswer(p) /\ n = {}
  BY <1>1, <1>2, Zenon DEF Away
<1>4. NoOrder(b) /\ NoNewsBehind(b)
  BY <1>2, <1>3, SMT DEF NoOrder, NoNewsBehind
<1>5. Orderly(Tail(q)) /\ ~RenewNext(Tail(q))
  BY <1>1, PopsOrderly, SMT
<1>6. Wanted(p, b, Tail(q))
  BY <1>3, <1>4, Zenon DEF Wanted, NoAnswer, NoOrder
<1>7. Away("build", n, p, b)
  BY <1>3, SMT DEF Away
<1> QED
  BY <1>1, <1>3, <1>4, <1>5, <1>6, <1>7, Zenon DEF Manages, Clear

\* The wait for the manager's answer is over.
LEMMA WaitOver ==
  ASSUME NEW s, NEW n, NEW l, NEW b \in Seq(Orders), NEW p \in Seq(Msgs),
         NEW q \in Seq(Steps),
         Manages(s, n, l, b, p, q), q # << >>, q[1].do = "await",
         NEW k \in 1 .. Len(p), IsAnswer(p[k]), p[k].id = q[1].id,
         \A j \in 1 .. Len(p) : j < k => ~IsAnswer(p[j]),
         NEW p2, \A j \in 1 .. Len(p2) : \E i \in 1 .. Len(p) :
                   i # k /\ p2[j] = p[i]
  PROVE  Manages(s, n, l, b, p2, Tail(q))
<1>1. /\ Orderly(q) /\ InOrder(p, b) /\ Wanted(p, b, q) /\ Away(s, n, p, b)
      /\ Off(s) \/ NoNewsBehind(b)
  BY DEF Manages
<1>2. (\A j \in 1 .. Len(p) : k < j => ~IsAnswer(p[j]))
      /\ NoOrder(b) /\ Detached(s, n, l, b)
  BY LastAnswer
<1>3. NoAnswer(p2)
  <2>1. \A i \in 1 .. Len(p) : i # k => i < k \/ k < i
    BY SMT
  <2>2. \A i \in 1 .. Len(p) : i # k => ~IsAnswer(p[i])
    BY <1>2, <2>1, Zenon
  <2> SUFFICES ASSUME NEW j \in 1 .. Len(p2) PROVE ~IsAnswer(p2[j])
    BY Zenon DEF NoAnswer
  <2>3. PICK i \in 1 .. Len(p) : i # k /\ p2[j] = p[i]
    BY Zenon
  <2> QED
    BY <2>2, <2>3
<1>4. InOrder(p2, b) /\ Wanted(p2, b, Tail(q))
  BY <1>1, <1>2, <1>3, Zenon DEF InOrder, Wanted, NoAnswer, NoOrder
<1>5. Away(s, n, p2, b)
  BY <1>1, <1>3, Zenon DEF Away
<1>6. Orderly(Tail(q))
  BY <1>1, PopsOrderly
<1> QED
  BY <1>1, <1>2, <1>3, <1>4, <1>5, <1>6, Zenon DEF Manages, Clear

-----------------------------------------------------------------------------
(* What a step makes of it.                                                *)

Mgr == "manager"

LEMMA RevertsIs ==
  /\ Mgr \in Windows
  /\ Reverts <=> Manages(sub[Mgr], nodes[Mgr], locked[Mgr], inbox[Mgr], port, job)
  /\ Reverts' <=>
       Manages(sub'[Mgr], nodes'[Mgr], locked'[Mgr], inbox'[Mgr], port', job')
<1>1. Mgr \in Windows
  BY Zenon DEF Mgr, Windows
<1>2. /\ Reverts <=>
           Manages(sub[Mgr], nodes[Mgr], locked[Mgr], inbox[Mgr], port, job)
      /\ Reverts' <=>
           Manages(sub'[Mgr], nodes'[Mgr], locked'[Mgr], inbox'[Mgr], port', job')
  BY Zenon DEF Mgr, Reverts
<1> QED
  BY <1>1, <1>2

\* A step of the main task is done, other than a wait for the manager.
LEMMA StepDone ==
  ASSUME TypeOK, Reverts, job # << >>, job' = Tail(job), NEW f, Thinned(f),
         inbox'[Mgr] = inbox[Mgr], locked'[Mgr] = locked[Mgr],
         nodes[Mgr] = {} => nodes'[Mgr] = {},
         \/ sub'[Mgr] = sub[Mgr]
         \/ /\ sub[Mgr] \notin {"none", "build", "leaving", "ended"}
            /\ sub'[Mgr] \notin {"none", "build", "leaving", "ended"}
         \/ /\ sub[Mgr] = "ended" /\ sub'[Mgr] = "none"
            /\ NoAnswer(port) /\ nodes'[Mgr] = nodes[Mgr],
         Head(job).do \in {"tell", "await"} /\ Head(job).w = Mgr =>
           Head(job).do = "tell" /\ Off(sub[Mgr])
  PROVE  Reverts'
<1>1. job \in Seq(Steps) /\ Head(job) = job[1]
  BY HeadStep
<1>2. /\ Manages(sub[Mgr], nodes[Mgr], locked[Mgr], inbox[Mgr], port, job)
      /\ Away(sub[Mgr], nodes[Mgr], port, inbox[Mgr])
  BY RevertsIs, Zenon DEF Manages
<1>3. Fewer(port, port', f) /\ (NoAnswer(port) => NoAnswer(port'))
  BY ThinnedFewer, FewerKeeps
<1>4. /\ Off(sub[Mgr]) => Off(sub'[Mgr])
      /\ Detached(sub[Mgr], nodes[Mgr], locked[Mgr], inbox[Mgr]) =>
           Detached(sub'[Mgr], nodes'[Mgr], locked'[Mgr], inbox[Mgr])
  BY Zenon DEF Off, Detached
<1>5. Away(sub'[Mgr], nodes'[Mgr], port', inbox[Mgr])
  BY <1>2, <1>3, SMT DEF Away, Off
<1>6. Manages(sub'[Mgr], nodes'[Mgr], locked'[Mgr], inbox[Mgr], port', Tail(job))
  BY <1>1, <1>2, <1>3, <1>4, <1>5, Done DEF Mgr
<1> QED
  BY <1>6, RevertsIs

\* The main task reacts to an update.
LEMMA ReactsReverts ==
  ASSUME TypeOK, Reverts, NEW k, Reacting(k), port[k] \in Msgs,
         UNCHANGED <<nodes, locked, inbox>>
  PROVE  Reverts'
<1> DEFINE r == Reaction(port[k])
<1>1. /\ Takes(k) /\ job' = r \o job /\ sub' = sub
      /\ job # << >> => Head(job).do \in {"await", "drain"}
  BY DEF Reacting
<1>2. r \in Seq(Steps) /\ Brief(r) /\ Inert(r)
  BY ReactionBrief
<1> HIDE DEF r
<1>3. job \in Seq(Steps) /\ port \in Seq(Msgs)
  BY Zenon DEF TypeOK, Msgs
<1>4. job # << >> => job[1].do \in {"await", "drain"}
  BY <1>1, HeadStep
<1>5. PICK f : Thinned(f)
  BY <1>1, <1>3, TakenFromPort
<1>6. Fewer(port, port', f) /\ (NoAnswer(port) => NoAnswer(port'))
  BY <1>5, ThinnedFewer, FewerKeeps
<1>7. /\ Manages(sub[Mgr], nodes[Mgr], locked[Mgr], inbox[Mgr], port, job)
      /\ Away(sub[Mgr], nodes[Mgr], port, inbox[Mgr])
  BY RevertsIs, Zenon DEF Manages
<1>8. Away(sub[Mgr], nodes[Mgr], port', inbox[Mgr])
  BY <1>6, <1>7, Zenon DEF Away
<1>9. Manages(sub[Mgr], nodes[Mgr], locked[Mgr], inbox[Mgr], port', r \o job)
  BY <1>2, <1>3, <1>4, <1>6, <1>7, <1>8, Fronted
<1> QED
  BY <1>1, <1>9, RevertsIs

\* A window goes on and tells something, but answers nothing.
Tells(news) == /\ news \in Seq(Msgs) /\ port' = port \o news
               /\ \A i \in 1 .. Len(news) : ~IsAnswer(news[i])

LEMMA GoesOnReverts ==
  ASSUME TypeOK, Reverts, job' = job, NEW news, Tells(news),
         inbox'[Mgr] = inbox[Mgr],
         Off(sub[Mgr]) => Off(sub'[Mgr]),
         Detached(sub[Mgr], nodes[Mgr], locked[Mgr], inbox[Mgr]) =>
           Detached(sub'[Mgr], nodes'[Mgr], locked'[Mgr], inbox[Mgr]),
         NoAnswer(port') => Away(sub'[Mgr], nodes'[Mgr], port', inbox[Mgr]),
         \/ Away(sub'[Mgr], nodes'[Mgr], port', inbox[Mgr])
         \/ NoAnswer(port)
  PROVE  Reverts'
<1>1. /\ Manages(sub[Mgr], nodes[Mgr], locked[Mgr], inbox[Mgr], port, job)
      /\ Orderly(job)
      /\ RenewNext(job) => Detached(sub[Mgr], nodes[Mgr], locked[Mgr], inbox[Mgr])
      /\ NewsNext(job) => Clear(sub[Mgr], port, inbox[Mgr])
  BY RevertsIs, Zenon DEF Manages
<1>2. port \in Seq(Msgs)
  BY Zenon DEF TypeOK, Msgs
<1>3. PICK f : Fewer(port, port', f)
  BY <1>2, ConcatFewer DEF Tells
<1>4. NoAnswer(port) => NoAnswer(port')
  BY <1>3, FewerKeeps
<1>5. Away(sub'[Mgr], nodes'[Mgr], port', inbox[Mgr])
  BY <1>4
<1>6. Manages(sub'[Mgr], nodes'[Mgr], locked'[Mgr], inbox[Mgr], port', job)
  BY <1>1, <1>3, <1>5, Carried
<1> QED
  BY <1>6, RevertsIs

\* The synchronous messages that a window leaves, and the answers to them.
Unanswered(w) == Without(inbox[w], {m \in Orders : m.id = 0})
Replies(w) == [i \in DOMAIN Unanswered(w) |->
                 [from |-> w, is |-> "answer", id |-> Unanswered(w)[i].id]]

LEMMA RepliesAre ==
  ASSUME TypeOK, NEW w \in Windows
  PROVE  /\ Replies(w) \in Seq(Msgs)
         /\ \A i \in 1 .. Len(Replies(w)) :
              Replies(w)[i].from = w /\ Replies(w)[i].is = "answer"
         /\ w = Mgr => AnswersTo(Replies(w), inbox[w])
<1> DEFINE b == inbox[w]
           gone == {m \in Orders : m.id = 0}
           sync == Unanswered(w)
           news == Replies(w)
<1>1. b \in Seq(Orders)
  BY Zenon DEF TypeOK
<1>2. sync = Without(b, gone) /\ sync \in Seq(Orders)
  BY <1>1, WithoutSet DEF Unanswered
<1>3. /\ \A i \in 1 .. Len(sync) : \E a \in 1 .. Len(b) :
           sync[i] = b[a] /\ b[a] \notin gone
      /\ \A i, j \in 1 .. Len(sync) : i < j =>
           \E a, c \in 1 .. Len(b) : a < c /\ sync[i] = b[a] /\ sync[j] = b[c]
  <2> HIDE DEF sync, b, gone
  <2> QED
    BY <1>1, <1>2, WithoutOrder
<1>4. \A a \in 1 .. Len(b) : b[a] \in Orders
  BY <1>1, SMT
<1>5. \A a \in 1 .. Len(b) : b[a] \notin gone => b[a].id # 0
  BY <1>4, Zenon
<1> HIDE DEF sync, b, gone
<1>6. /\ DOMAIN sync = 1 .. Len(sync) /\ Len(sync) \in Nat
      /\ \A i \in 1 .. Len(sync) : sync[i] \in Orders
  BY <1>2, SMT
<1>7. \A m \in Orders : m.id \in Nat
  BY SMT DEF Orders
<1>8. \A i \in 1 .. Len(sync) :
        [from |-> w, is |-> "answer", id |-> sync[i].id] \in Msgs
  BY <1>6, <1>7, MsgForms, Zenon
<1>9. news = [i \in 1 .. Len(sync) |->
                [from |-> w, is |-> "answer", id |-> sync[i].id]]
  BY <1>6, Zenon DEF Replies, sync
<1>10. news \in [1 .. Len(sync) -> Msgs]
  BY <1>8, <1>9, Zenon
<1>11. \A i \in 1 .. Len(sync) :
         news[i].from = w /\ news[i].is = "answer" /\ news[i].id = sync[i].id
  <2> HIDE DEF news
  <2> SUFFICES ASSUME NEW i \in 1 .. Len(sync)
               PROVE  /\ news[i].from = w /\ news[i].is = "answer"
                      /\ news[i].id = sync[i].id
    OBVIOUS
  <2>1. news[i] = [from |-> w, is |-> "answer", id |-> sync[i].id]
    BY <1>9
  <2> QED
    BY <2>1
<1> HIDE DEF news
<1>12. news \in Seq(Msgs) /\ Len(news) = Len(sync)
  BY <1>6, <1>10, SMT
<1>13. ASSUME w = Mgr PROVE AnswersTo(news, b)
  <2>1. ASSUME NEW i \in 1 .. Len(news)
        PROVE  \E a \in 1 .. Len(b) :
                 IsAnswer(news[i]) /\ news[i].id = b[a].id /\ b[a].id # 0
    <3>1. PICK a \in 1 .. Len(b) : sync[i] = b[a] /\ b[a] \notin gone
      BY <1>3, <1>12, Zenon
    <3>2. b[a].id # 0 /\ news[i].id = b[a].id
      BY <1>5, <1>11, <1>12, <3>1
    <3>3. IsAnswer(news[i])
      BY <1>11, <1>12, <1>13, Zenon DEF IsAnswer, Mgr
    <3> QED
      BY <3>2, <3>3, Zenon
  <2>2. ASSUME NEW i \in 1 .. Len(news), NEW j \in 1 .. Len(news), i < j
        PROVE  \E a, c \in 1 .. Len(b) :
                 /\ a < c /\ b[a].id # 0 /\ b[c].id # 0
                 /\ news[i].id = b[a].id /\ news[j].id = b[c].id
    <3>1. PICK a \in 1 .. Len(b), c \in 1 .. Len(b) :
            a < c /\ sync[i] = b[a] /\ sync[j] = b[c]
      <4>1. i \in 1 .. Len(sync) /\ j \in 1 .. Len(sync)
        BY <1>12
      <4> QED
        BY <1>3, <2>2, <4>1, Zenon
    <3>2. sync[i].id # 0 /\ sync[j].id # 0
      <4>1. PICK x \in 1 .. Len(b) : sync[i] = b[x] /\ b[x] \notin gone
        BY <1>3, <1>12, Zenon
      <4>2. PICK y \in 1 .. Len(b) : sync[j] = b[y] /\ b[y] \notin gone
        BY <1>3, <1>12, Zenon
      <4> QED
        BY <1>5, <4>1, <4>2
    <3>3. news[i].id = sync[i].id /\ news[j].id = sync[j].id
      BY <1>11, <1>12, Zenon
    <3>4. /\ b[a].id # 0 /\ b[c].id # 0
          /\ news[i].id = b[a].id /\ news[j].id = b[c].id
      BY <3>1, <3>2, <3>3
    <3> QED
      BY <3>1, <3>4, Zenon
  <2> QED
    BY <2>1, <2>2, Zenon DEF AnswersTo
<1> QED
  BY <1>11, <1>12, <1>13, Zenon DEF news, b

LEMMA SingleMsg ==
  ASSUME port \in Seq(Msgs), NEW m \in Msgs, port' = Append(port, m), ~IsAnswer(m)
  PROVE  \E news : Tells(news)
<1> DEFINE news == <<m>>
<1>1. port' = port \o news /\ news \in Seq(Msgs) /\ Len(news) = 1 /\ news[1] = m
  BY AppendIsConcat, SMT
<1> HIDE DEF news
<1>2. \A i \in 1 .. Len(news) : i = 1
  BY <1>1, SMT
<1>3. Tells(news)
  BY <1>1, <1>2 DEF Tells
<1> QED
  BY <1>3

LEMMA SilentTells ==
  ASSUME port \in Seq(Msgs), port' = port
  PROVE  \E news : Tells(news)
<1> DEFINE news == << >>
<1>1. port' = port \o news /\ news \in Seq(Msgs)
  BY SMT
<1>2. \A i \in 1 .. Len(news) : ~IsAnswer(news[i])
  BY SMT
<1> HIDE DEF news
<1>3. Tells(news)
  BY <1>1, <1>2 DEF Tells
<1> QED
  BY <1>3

LEMMA WindowTells ==
  ASSUME TypeOK, NEW w \in Windows, WindowStep(w) \/ User(w)
  PROVE  \/ \E news : Tells(news)
         \/ w = Mgr /\ (Handletaskmsg(w) \/ Leave(w))
<1>1. port \in Seq(Msgs)
  BY Zenon DEF TypeOK, Msgs
<1>2. CASE UNCHANGED port
  BY <1>1, <1>2, SilentTells
<1>3. ASSUME NEW is \in Async \cup Synchronous, Update(w, is)
      PROVE  \E news : Tells(news)
  <2>1. "answer" \notin Async \cup Synchronous
    BY Zenon DEF Async, Synchronous
  <2> DEFINE m == [from |-> w, is |-> is]
  <2>2. m \in Msgs /\ m.is = is /\ port' = Append(port, m)
    BY <1>3, MsgForms, Zenon DEF Update
  <2> HIDE DEF m
  <2>3. ~IsAnswer(m)
    BY <2>1, <2>2, Zenon DEF IsAnswer
  <2> QED
    BY <1>1, <2>2, <2>3, SingleMsg
<1>4. CASE \E is \in Async \cup Synchronous : Update(w, is)
  BY <1>3, <1>4
<1>5. CASE w # Mgr /\ Handletaskmsg(w)
  <2> DEFINE m == Head(inbox[w])
             a == [from |-> w, is |-> "answer", id |-> m.id]
  <2>1. port' = IF m.id = 0 THEN port ELSE Append(port, a)
    BY <1>5, Zenon DEF Handletaskmsg
  <2>2. m \in Orders
    BY <1>5, HandletaskmsgTypes
  <2>3. m.id \in Nat
    BY <2>2, SMT DEF Orders
  <2>4. a \in Msgs /\ a.from = w
    BY <2>3, MsgForms, Zenon
  <2> HIDE DEF a, m
  <2>5. ~IsAnswer(a)
    BY <1>5, <2>4, Zenon DEF IsAnswer, Mgr
  <2>6. CASE port' = Append(port, a)
    BY <1>1, <2>4, <2>5, <2>6, SingleMsg
  <2> QED
    BY <1>2, <2>1, <2>6
<1>6. CASE w # Mgr /\ Leave(w)
  <2> DEFINE news == Replies(w)
  <2>1. port' = port \o news
    BY <1>6, Zenon DEF Leave, Replies, Unanswered
  <2>2. /\ news \in Seq(Msgs)
        /\ \A i \in 1 .. Len(news) : news[i].from = w
    BY RepliesAre, Zenon
  <2> HIDE DEF news
  <2>3. \A i \in 1 .. Len(news) : ~IsAnswer(news[i])
    BY <1>6, <2>2, Zenon DEF IsAnswer, Mgr
  <2>4. Tells(news)
    BY <2>1, <2>2, <2>3 DEF Tells
  <2> QED
    BY <2>4
<1>7. \/ UNCHANGED port \/ Handletaskmsg(w) \/ Leave(w)
      \/ \E is \in Async \cup Synchronous : Update(w, is)
  <2>1. CASE WindowStep(w)
    <3>1. {"close", "dims"} \subseteq Async \cup Synchronous
      BY Zenon DEF Async, Synchronous
    <3> QED
      BY <2>1, <3>1, Zenon DEF WindowStep, Build, BuildFails, Handlewindow,
         Lastevent, Asked, Saved, Close, Closed
  <2>2. CASE User(w)
    <3>1. {"follow", "manager", "changed", "restore", "save"}
            \subseteq Async \cup Synchronous
      BY Zenon DEF Async, Synchronous
    <3> QED
      BY <2>2, <3>1, Zenon DEF User, Ask, Rebuild, Showhide, Edit, Revert, Save
  <2> QED
    BY <2>1, <2>2
<1> QED
  BY <1>2, <1>4, <1>5, <1>6, <1>7

LEMMA WindowKeepsJob ==
  ASSUME NEW w \in Windows, WindowStep(w) \/ User(w)
  PROVE  job' = job
BY Zenon DEF WindowStep, Build, BuildFails, Handletaskmsg, Handlewindow,
   Lastevent, Asked, Saved, Close, Closed, Leave, User, Ask, Rebuild, Showhide,
   Edit, Revert, Save, main

\* The viewer does nothing to the manager.
LEMMA ViewerReverts ==
  ASSUME TypeOK, Reverts, NEW w \in Windows, w # Mgr, WindowStep(w) \/ User(w)
  PROVE  Reverts'
<1>1. job' = job
  BY WindowKeepsJob
<1>2. PICK news : Tells(news)
  BY WindowTells
<1>3. w = "viewer" /\ w # "manager" /\ Mgr \in Windows
  BY Zenon DEF Windows, Mgr
<1>4. /\ nodes' = nodes \/ \E S : nodes' = [nodes EXCEPT ![w] = S]
      /\ inbox' = inbox \/ \E q : inbox' = [inbox EXCEPT ![w] = q]
      /\ sub' = sub \/ \E s : sub' = [sub EXCEPT ![w] = s]
      /\ locked' = locked \/ \E l : locked' = [locked EXCEPT ![w] = l]
  <2>1. nodes' = nodes \/ \E S : nodes' = [nodes EXCEPT ![w] = S]
    BY <1>3, Zenon DEF WindowStep, Build, BuildFails, Handletaskmsg, Handlewindow,
       Lastevent, Asked, Saved, Close, Closed, Leave, User, Ask, Rebuild, Showhide,
       Revert, Save, window
  <2>2. inbox' = inbox \/ \E q : inbox' = [inbox EXCEPT ![w] = q]
    BY <1>3, Zenon DEF WindowStep, Build, BuildFails, Handletaskmsg, Handlewindow,
       Lastevent, Asked, Saved, Close, Closed, Leave, User, Ask, Rebuild, Showhide,
       Revert, Save
  <2>3. sub' = sub \/ \E s : sub' = [sub EXCEPT ![w] = s]
    BY <1>3, Zenon DEF WindowStep, Build, BuildFails, Handletaskmsg, Handlewindow,
       Lastevent, Asked, Saved, Close, Closed, Leave, User, Ask, Rebuild, Showhide,
       Revert, Save, Goto
  <2>4. locked' = locked \/ \E l : locked' = [locked EXCEPT ![w] = l]
    BY <1>3, Zenon DEF WindowStep, Build, BuildFails, Handletaskmsg, Handlewindow,
       Lastevent, Asked, Saved, Close, Closed, Leave, User, Ask, Rebuild, Showhide,
       Revert, Save, window
  <2> QED
    BY <2>1, <2>2, <2>3, <2>4
<1>5. /\ nodes'[Mgr] = nodes[Mgr] /\ inbox'[Mgr] = inbox[Mgr]
      /\ sub'[Mgr] = sub[Mgr] /\ locked'[Mgr] = locked[Mgr]
  BY <1>3, <1>4, Zenon DEF TypeOK
<1>6. Away(sub[Mgr], nodes[Mgr], port, inbox[Mgr])
  BY RevertsIs, Zenon DEF Manages
<1>7. /\ NoAnswer(port') => Away(sub[Mgr], nodes[Mgr], port', inbox[Mgr])
      /\ Away(sub[Mgr], nodes[Mgr], port', inbox[Mgr]) \/ NoAnswer(port)
  BY <1>6, Zenon DEF Away
<1> QED
  BY <1>1, <1>2, <1>5, <1>7, GoesOnReverts

\* The manager builds or rebuilds its list, or closes.
LEMMA ManagerMoves ==
  ASSUME TypeOK, Reverts, job' = job, NEW news, Tells(news),
         inbox' = inbox, locked'[Mgr] = locked[Mgr],
         sub[Mgr] \notin {"none", "leaving", "ended"},
         sub'[Mgr] \notin {"none", "build", "ended"},
         \/ sub'[Mgr] = "leaving" /\ sub[Mgr] = "build" /\ nodes' = nodes
         \/ sub'[Mgr] # "leaving"
            /\ (nodes'[Mgr] = nodes[Mgr] \/ sub[Mgr] = "build" \/ ~locked[Mgr])
  PROVE  Reverts'
<1>1. ~Off(sub[Mgr])
  BY Zenon DEF Off
<1>2. Away(sub[Mgr], nodes[Mgr], port, inbox[Mgr])
  BY RevertsIs, Zenon DEF Manages
<1>3. sub'[Mgr] = "leaving" => nodes'[Mgr] = {}
  BY <1>2, Zenon DEF Away
<1>4. Away(sub'[Mgr], nodes'[Mgr], port', inbox[Mgr])
  BY <1>3, SMT DEF Away, Off
<1>5. Detached(sub[Mgr], nodes[Mgr], locked[Mgr], inbox[Mgr]) =>
        Detached(sub'[Mgr], nodes'[Mgr], locked'[Mgr], inbox[Mgr])
  <2>1. CASE sub'[Mgr] = "leaving"
    BY <2>1, Zenon DEF Detached, Off
  <2>2. CASE sub'[Mgr] # "leaving"
    BY <1>1, <2>2, Zenon DEF Detached
  <2> QED
    BY <2>1, <2>2
<1>6. inbox'[Mgr] = inbox[Mgr]
  OBVIOUS
<1> QED
  BY <1>1, <1>4, <1>5, <1>6, GoesOnReverts

LEMMA ManagerHandles ==
  ASSUME TypeOK, Reverts, Handletaskmsg(Mgr)
  PROVE  Reverts'
<1> DEFINE b == inbox[Mgr]
           m == Head(b)
           a == [from |-> Mgr, is |-> "answer", id |-> m.id]
           l == locked[Mgr]
           l2 == (m.is = "dispose" \/ (l /\ m.is # "newlist"))
<1>1. Mgr \in Windows
  BY RevertsIs
<1>2. /\ sub[Mgr] = "loop" /\ b # << >> /\ sub' = sub /\ job' = job
      /\ nodes' = [nodes EXCEPT ![Mgr] = Handled(Mgr, m.is)]
      /\ locked' = [locked EXCEPT ![Mgr] =
                      m.is = "dispose" \/ (@ /\ m.is # "newlist")]
      /\ port' = IF m.id = 0 THEN port ELSE Append(port, a)
      /\ inbox' = [inbox EXCEPT ![Mgr] = Tail(@)]
  BY Zenon DEF Handletaskmsg, main
<1>3. /\ b \in Seq(Orders) /\ port \in Seq(Msgs)
  BY <1>1, Zenon DEF TypeOK, Msgs
<1>4. m = b[1] /\ m \in Orders
  BY <1>2, <1>3, TailOfOrders
<1>5. m.id \in Nat
  BY <1>4, SMT DEF Orders
<1>6. a \in Msgs /\ IsAnswer(a) /\ a.id = m.id
  BY <1>1, <1>5, MsgForms, Zenon DEF IsAnswer, Mgr
<1>7. /\ nodes'[Mgr] = Handled(Mgr, m.is) /\ locked'[Mgr] = l2
      /\ inbox'[Mgr] = Tail(b) /\ sub'[Mgr] = "loop"
  BY <1>1, <1>2, Zenon DEF TypeOK
<1> HIDE DEF a, l2
<1>8. m.is = "dispose" => Handled(Mgr, m.is) = {} /\ l2
  BY SMT DEF Handled, l2
<1>9. /\ m.id = 0 => port' = port
      /\ m.id # 0 => port' = Append(port, a)
  BY <1>2
<1>10. Manages("loop", nodes[Mgr], l, b, port, job)
  BY <1>2, RevertsIs
<1> HIDE DEF m, b, l
<1>11. Manages("loop", nodes'[Mgr], locked'[Mgr], Tail(b), port', job)
  <2>1. b[1].is = "dispose" => nodes'[Mgr] = {} /\ locked'[Mgr]
    BY <1>4, <1>7, <1>8
  <2>2. /\ b[1].id = 0 => port' = port
        /\ b[1].id # 0 => port' = Append(port, a) /\ IsAnswer(a) /\ a.id = b[1].id
    BY <1>4, <1>6, <1>9
  <2> QED
    BY <1>2, <1>3, <1>6, <1>10, <2>1, <2>2, Handles
<1> QED
  BY <1>2, <1>7, <1>11, RevertsIs DEF b

LEMMA ManagerLeaves ==
  ASSUME TypeOK, Reverts, Leave(Mgr)
  PROVE  Reverts'
<1>1. Mgr \in Windows
  BY RevertsIs
<1>2. /\ sub[Mgr] = "leaving" /\ sub' = [sub EXCEPT ![Mgr] = "ended"]
      /\ port' = port \o Replies(Mgr) /\ inbox' = [inbox EXCEPT ![Mgr] = << >>]
      /\ job' = job /\ nodes' = nodes /\ locked' = locked
  BY Zenon DEF Leave, Goto, Replies, Unanswered, main, window
<1>3. sub'[Mgr] = "ended" /\ inbox'[Mgr] = << >> /\ port \in Seq(Msgs)
  BY <1>1, <1>2, Zenon DEF TypeOK, Msgs
<1>4. Replies(Mgr) \in Seq(Msgs) /\ AnswersTo(Replies(Mgr), inbox[Mgr])
  BY <1>1, RepliesAre
<1>5. Manages("leaving", nodes[Mgr], locked[Mgr], inbox[Mgr], port, job)
  BY <1>2, RevertsIs
<1>6. Manages("ended", nodes[Mgr], locked[Mgr], << >>, port', job)
  BY <1>2, <1>3, <1>4, <1>5, Leaves
<1> QED
  BY <1>2, <1>3, <1>6, RevertsIs

LEMMA ManagerReverts ==
  ASSUME TypeOK, Reverts, WindowStep(Mgr) \/ User(Mgr)
  PROVE  Reverts'
<1>1. Mgr \in Windows /\ Mgr = "manager" /\ Mgr # "viewer"
  BY RevertsIs, Zenon DEF Mgr
<1>2. job' = job
  BY <1>1, WindowKeepsJob
<1>3. (\E news : Tells(news)) \/ Handletaskmsg(Mgr) \/ Leave(Mgr)
  BY <1>1, WindowTells
<1>4. CASE Handletaskmsg(Mgr)
  BY <1>4, ManagerHandles
<1>5. CASE Leave(Mgr)
  BY <1>5, ManagerLeaves
<1>6. CASE \E news : Tells(news)
  <2>1. PICK news : Tells(news)
    BY <1>6
  <2>2. CASE BuildFails(Mgr)
    <3>1. /\ sub[Mgr] = "build" /\ sub' = [sub EXCEPT ![Mgr] = "leaving"]
          /\ inbox' = inbox /\ nodes' = nodes /\ locked' = locked
      BY <2>2, Zenon DEF BuildFails, Goto, window
    <3>2. sub'[Mgr] = "leaving"
      BY <1>1, <3>1, Zenon DEF TypeOK
    <3>3. sub[Mgr] \notin {"none", "leaving", "ended"}
      BY <3>1, Zenon
    <3> QED
      BY <1>2, <2>1, <3>1, <3>2, <3>3, ManagerMoves
  <2>3. CASE Build(Mgr)
    <3>1. /\ sub[Mgr] = "build" /\ sub' = [sub EXCEPT ![Mgr] = "loop"]
          /\ inbox' = inbox
          /\ locked' = [locked EXCEPT !["viewer"] = @ /\ Mgr # "viewer"]
      BY <2>3, Zenon DEF Build, Goto
    <3>2. sub'[Mgr] = "loop" /\ locked'[Mgr] = locked[Mgr]
      BY <1>1, <3>1, Zenon DEF TypeOK
    <3> QED
      BY <1>2, <2>1, <3>1, <3>2, ManagerMoves
  <2>4. CASE Closed(Mgr)
    <3>1. /\ sub[Mgr] = "closed" /\ sub' = [sub EXCEPT ![Mgr] = "leaving"]
          /\ inbox' = inbox /\ locked' = locked
          /\ nodes' = [nodes EXCEPT ![Mgr] = {}]
      BY <2>4, Zenon DEF Closed, Goto
    <3>2. sub'[Mgr] = "leaving" /\ nodes'[Mgr] = {}
      BY <1>1, <3>1, Zenon DEF TypeOK
    <3>3. Away(sub'[Mgr], nodes'[Mgr], port', inbox[Mgr])
      BY <3>2, SMT DEF Away
    <3>4. Off(sub'[Mgr])
      BY <3>2, Zenon DEF Off
    <3>5. Detached(sub'[Mgr], nodes'[Mgr], locked'[Mgr], inbox[Mgr])
      BY <3>4, Zenon DEF Detached
    <3> QED
      BY <1>2, <2>1, <3>1, <3>3, <3>4, <3>5, GoesOnReverts
  <2>5. CASE Rebuild(Mgr)
    <3>1. /\ sub[Mgr] = "events" /\ sub' = sub /\ ~locked[Mgr]
          /\ inbox' = inbox /\ locked' = locked
      BY <2>5, Zenon DEF Rebuild, Event
    <3> QED
      BY <1>2, <2>1, <3>1, ManagerMoves
  <2>6. CASE Edit
    <3>1. /\ sub[Mgr] = "events" /\ sub' = sub
          /\ inbox' = inbox /\ locked' = locked
          /\ nodes' = [nodes EXCEPT !["viewer"] = Aged(@)]
      BY <1>1, <2>6, Zenon DEF Edit, Event
    <3>2. nodes'[Mgr] = nodes[Mgr]
      BY <1>1, <3>1, Zenon DEF TypeOK
    <3> QED
      BY <1>2, <2>1, <3>1, <3>2, ManagerMoves
  <2>7. CASE \/ Handlewindow(Mgr) \/ Lastevent(Mgr) \/ Asked(Mgr) \/ Saved
             \/ Close(Mgr) \/ Revert \/ Save
             \/ \E is \in {"follow", "manager"} : Ask(Mgr, is)
    <3>1. /\ sub[Mgr] \in {"loop", "events", "asked", "saved"}
          /\ nodes' = nodes /\ inbox' = inbox /\ locked' = locked
          /\ \/ sub' = sub
             \/ \E s \in {"loop", "events", "asking", "saving", "closing"} :
                  sub' = [sub EXCEPT ![Mgr] = s]
      BY <1>1, <2>7, Zenon DEF Handlewindow, Lastevent, Asked, Saved, Close, Revert,
         Save, Ask, Event, Goto, window
    <3>2. sub'[Mgr] \in {"loop", "events", "asking", "saving", "closing",
                         "asked", "saved"}
      BY <1>1, <3>1, Zenon DEF TypeOK
    <3> QED
      BY <1>2, <2>1, <3>1, <3>2, ManagerMoves
  <2>8. \/ BuildFails(Mgr) \/ Build(Mgr) \/ Closed(Mgr) \/ Rebuild(Mgr) \/ Edit
        \/ Handletaskmsg(Mgr) \/ Leave(Mgr)
        \/ Handlewindow(Mgr) \/ Lastevent(Mgr) \/ Asked(Mgr) \/ Saved
        \/ Close(Mgr) \/ Revert \/ Save
        \/ \E is \in {"follow", "manager"} : Ask(Mgr, is)
    BY <1>1, Zenon DEF WindowStep, User
  <2> QED
    BY <1>4, <1>5, <2>2, <2>3, <2>4, <2>5, <2>6, <2>7, <2>8, Zenon
<1> QED
  BY <1>3, <1>4, <1>5, <1>6

-----------------------------------------------------------------------------
(* The steps of the main task.                                             *)

LEMMA CommandReverts ==
  ASSUME TypeOK, Reverts, Command
  PROVE  Reverts'
<1>1. /\ job = << >> /\ job' \in Commands
      /\ UNCHANGED <<sub, nodes, locked, inbox, port>>
  BY Zenon DEF Command, window
<1> DEFINE q == << >>
           s == sub[Mgr]
           n == nodes[Mgr]
           l == locked[Mgr]
           b == inbox[Mgr]
           p == port
<1>2. /\ Manages(s, n, l, b, p, q)
      /\ Orderly(q) /\ Wanted(p, b, q) /\ Away(s, n, p, b)
  BY <1>1, RevertsIs, Zenon DEF Manages
<1>3. \A c \in Commands :
        /\ c \in Seq(Steps) /\ Brief(c) /\ c \o q = c
        /\ Inert(c) \/ c[1].do = "add"
  <2>1. \A c \in Seq(Steps) : c \o << >> = c
    BY ConcatEmptySeq
  <2> QED
    BY <2>1, CommandBrief
<1>4. q \in Seq(Steps) /\ Len(q) = 0 /\ q = << >> /\ \A i \in 1 .. Len(q) : FALSE
  BY SMT
<1>5. p \in Seq(Msgs)
  BY Zenon DEF TypeOK, Msgs
<1>6. Fewer(p, p, [j \in 1 .. Len(p) |-> j])
  BY Zenon DEF Fewer
<1> HIDE DEF q, s, n, l, b, p
<1>7. NoAnswer(p) /\ NoOrder(b)
  <2>1. \A id : ~Awaits(q, id)
    BY <1>4, Zenon DEF Awaits
  <2> QED
    BY <1>2, <2>1, Zenon DEF Wanted, NoAnswer, NoOrder
<1>8. ASSUME NEW c \in Commands PROVE Manages(s, n, l, b, p, c)
  <2>1. c \in Seq(Steps) /\ Brief(c) /\ c \o q = c
    BY <1>3
  <2>2. CASE Inert(c)
    <3>1. Manages(s, n, l, b, p, c \o q)
      BY <1>2, <1>4, <1>6, <2>1, <2>2, Fronted
    <3> QED
      BY <2>1, <3>1
  <2>3. CASE c[1].do = "add"
    <3>1. Orderly(c \o q) /\ \A id : Awaits(q, id) => Awaits(c \o q, id)
      BY <1>2, <1>4, <2>1, FrontsOrderly
    <3>2. Orderly(c) /\ \A id : Awaits(q, id) => Awaits(c, id)
      BY <2>1, <3>1
    <3>3. ~RenewNext(c)
      BY <2>3, SMT DEF RenewNext
    <3>4. Clear(s, p, b)
      BY <1>7, Zenon DEF Clear
    <3> QED
      BY <1>2, <1>6, <3>2, <3>3, <3>4, Carried
  <2> QED
    BY <1>3, <2>2, <2>3
<1>9. Manages(s, n, l, b, p, job')
  BY <1>1, <1>8
<1> QED
  BY <1>1, <1>9, RevertsIs DEF s, n, l, b, p

\* A step that leaves the manager as it is.
LEMMA PlainStep ==
  ASSUME TypeOK, Reverts, job # << >>, job' = Tail(job), port' = port,
         UNCHANGED <<sub, nodes, locked, inbox>>,
         Head(job).do \in {"tell", "await"} /\ Head(job).w = Mgr =>
           Head(job).do = "tell" /\ Off(sub[Mgr])
  PROVE  Reverts'
<1>1. port \in Seq(Msgs)
  BY Zenon DEF TypeOK, Msgs
<1>2. PICK f : Thinned(f)
  BY <1>1, SamePort
<1>3. /\ sub'[Mgr] = sub[Mgr] /\ nodes'[Mgr] = nodes[Mgr]
      /\ locked'[Mgr] = locked[Mgr] /\ inbox'[Mgr] = inbox[Mgr]
  OBVIOUS
<1>4. nodes[Mgr] = {} => nodes'[Mgr] = {}
  BY <1>3
<1> QED
  BY <1>2, <1>3, <1>4, StepDone, Zenon

LEMMA PutReverts ==
  ASSUME TypeOK, Protocol, Reverts, Put
  PROVE  Reverts'
<1> DEFINE s == Head(job)
           m == [is |-> s.is, id |-> 0]
<1>1. /\ job # << >> /\ s.do = "put" /\ job' = Tail(job)
      /\ UNCHANGED <<sub, nodes, locked, port>>
      /\ \/ Accepts(s.w) /\ inbox' = [inbox EXCEPT ![s.w] = Append(@, m)]
         \/ inbox' = inbox
  BY Zenon DEF Put, Doing, Proceed, window
<1>2. s \in Steps /\ job \in Seq(Steps) /\ s = job[1]
  BY <1>1, HeadStep
<1>3. s.w \in Windows /\ s.is \in {"addentry", "dispose", "newlist"}
  BY <1>1, <1>2, StepFields, Zenon
<1>4. 0 \in Nat
  BY SMT
<1>5. m \in Orders /\ m.id = 0
  BY <1>3, <1>4, OrderForms, Zenon
<1>6. inbox \in [Windows -> Seq(Orders)] /\ Mgr \in Windows
  BY RevertsIs, Zenon DEF TypeOK
<1> HIDE DEF s, m
<1>7. s.do \notin {"tell", "await"}
  BY <1>1, SMT
<1>8. CASE inbox' = inbox
  BY <1>1, <1>7, <1>8, PlainStep DEF s
<1>9. CASE s.w # Mgr /\ inbox' = [inbox EXCEPT ![s.w] = Append(@, m)]
  <2>1. inbox'[Mgr] = inbox[Mgr]
    BY <1>3, <1>6, <1>9, Zenon
  <2>2. port \in Seq(Msgs)
    BY Zenon DEF TypeOK, Msgs
  <2>3. PICK f : Thinned(f)
    BY <1>1, <2>2, SamePort
  <2> QED
    BY <1>1, <1>7, <2>1, <2>3, StepDone DEF s
<1>10. CASE /\ s.w = Mgr /\ Accepts(s.w)
            /\ inbox' = [inbox EXCEPT ![s.w] = Append(@, m)]
  <2>1. inbox'[Mgr] = Append(inbox[Mgr], m) /\ inbox[Mgr] \in Seq(Orders)
    BY <1>6, <1>10, Zenon
  <2>2. sub[Mgr] \notin {"none", "ended"}
    BY <1>10, Zenon DEF Accepts
  <2>3. job[1].do = "put" /\ job[1].w = "manager"
    BY <1>1, <1>2, <1>10 DEF Mgr
  <2>4. Manages(sub[Mgr], nodes[Mgr], locked[Mgr], inbox[Mgr], port, job)
    BY RevertsIs
  <2>5. Manages(sub[Mgr], nodes[Mgr], locked[Mgr], Append(inbox[Mgr], m), port,
                Tail(job))
    BY <1>1, <1>2, <1>5, <2>1, <2>2, <2>3, <2>4, PutsNews
  <2> QED
    BY <1>1, <2>1, <2>5, RevertsIs
<1> QED
  BY <1>1, <1>8, <1>9, <1>10, Zenon

LEMMA TellReverts ==
  ASSUME TypeOK, Protocol, Reverts, Tell
  PROVE  Reverts'
<1> DEFINE s == Head(job)
           m == [is |-> s.is, id |-> Awaited]
           a == [do |-> "await", w |-> s.w, id |-> Awaited]
<1>1. /\ job # << >> /\ s.do = "tell" /\ UNCHANGED <<sub, nodes, locked, port>>
      /\ \/ /\ Accepts(s.w) /\ inbox' = [inbox EXCEPT ![s.w] = Append(@, m)]
            /\ job' = <<a>> \o Tail(job)
         \/ ~Accepts(s.w) /\ job' = Tail(job) /\ inbox' = inbox
  BY Zenon DEF Tell, Doing, Proceed, window
<1>2. s \in Steps /\ job \in Seq(Steps) /\ s = job[1] /\ 1 \in 1 .. Len(job)
  BY <1>1, HeadStep
<1>3. s.w \in Windows /\ s.is \in {"addentry", "dispose", "newlist"}
  BY <1>1, <1>2, StepFields, Zenon
<1>4. Awaited \in Nat /\ Awaited = Depth(job) + 1
  BY AwaitedType, Zenon DEF Awaited, Depth, WaitsIn
<1>5. m \in Orders /\ m.id = Awaited /\ m.is = s.is
  BY <1>3, <1>4, OrderForms, Zenon
<1>6. a \in Steps /\ a.do = "await" /\ a.w = s.w /\ a.id = Awaited
  BY <1>3, <1>4, StepForms, Zenon
<1>7. inbox \in [Windows -> Seq(Orders)] /\ Mgr \in Windows
  BY RevertsIs, Zenon DEF TypeOK
<1>8. /\ Manages(sub[Mgr], nodes[Mgr], locked[Mgr], inbox[Mgr], port, job)
      /\ Disposes(job)
  BY RevertsIs, Zenon DEF Manages, Orderly
<1> HIDE DEF s, m, a
<1>9. CASE ~Accepts(s.w) /\ job' = Tail(job) /\ inbox' = inbox
  <2>1. s.w = Mgr => Off(sub[Mgr])
    <3>1. s.do # "drain"
      BY <1>1, SMT
    <3>2. s.w = Mgr => task[Mgr] \/ Gone(Mgr)
      BY <1>7, <3>1, NotDraining DEF s
    <3> QED
      BY <1>9, <3>2, Zenon DEF Accepts, Gone, Off
  <2> QED
    BY <1>1, <1>9, <2>1, PlainStep DEF s
<1>10. ASSUME job' = <<a>> \o Tail(job)
       PROVE  Instead(job, a, job')
  BY <1>1, <1>2, <1>6, <1>10, ReplacedBy
<1>11. CASE /\ s.w # Mgr /\ inbox' = [inbox EXCEPT ![s.w] = Append(@, m)]
            /\ job' = <<a>> \o Tail(job)
  <2>1. inbox'[Mgr] = inbox[Mgr]
    BY <1>3, <1>7, <1>11, Zenon
  <2>2. Instead(job, a, job')
    BY <1>10, <1>11
  <2>3. /\ job[1].do = "tell" /\ a.do = "await" /\ a.w = job[1].w
        /\ a.id = Depth(job) + 1
    BY <1>1, <1>2, <1>4, <1>6
  <2>4. Manages(sub[Mgr], nodes[Mgr], locked[Mgr], inbox[Mgr], port, job')
    BY <1>1, <1>2, <1>6, <1>8, <2>2, <2>3, ReplacesReverts
  <2> QED
    BY <1>1, <2>1, <2>4, RevertsIs
<1>12. CASE /\ s.w = Mgr /\ Accepts(s.w)
            /\ inbox' = [inbox EXCEPT ![s.w] = Append(@, m)]
            /\ job' = <<a>> \o Tail(job)
  <2>1. inbox'[Mgr] = Append(inbox[Mgr], m) /\ inbox[Mgr] \in Seq(Orders)
    BY <1>7, <1>12, Zenon
  <2>2. sub[Mgr] \notin {"none", "ended"}
    BY <1>12, Zenon DEF Accepts
  <2>3. Instead(job, a, job')
    BY <1>10, <1>12
  <2>4. /\ job[1].do = "tell" /\ job[1].w = "manager" /\ a.do = "await"
        /\ a.w = "manager" /\ a.id = Depth(job) + 1 /\ m.id = a.id
    BY <1>1, <1>2, <1>4, <1>5, <1>6, <1>12 DEF Mgr
  <2>5. m.is = "dispose"
    BY <1>1, <1>2, <1>5, <1>8, Zenon DEF Disposes
  <2>6. Manages(sub[Mgr], nodes[Mgr], locked[Mgr], Append(inbox[Mgr], m), port, job')
    BY <1>1, <1>2, <1>5, <1>6, <1>8, <2>1, <2>2, <2>3, <2>4, <2>5, TellsManager
  <2> QED
    BY <1>1, <2>1, <2>6, RevertsIs
<1> QED
  BY <1>1, <1>9, <1>11, <1>12, Zenon

\* Waitformsg takes the answer.
LEMMA AnsweredReverts ==
  ASSUME TypeOK, Reverts, Answered, NEW k, Takes(k), k = FirstFrom(Head(job).w),
         job # << >>, Head(job).do = "await", UNCHANGED <<sub, nodes, locked, inbox>>
  PROVE  Reverts'
<1>1. /\ job \in Seq(Steps) /\ port \in Seq(Msgs) /\ Head(job) = job[1]
  BY HeadStep
<1>2. /\ job' = Tail(job)
      /\ port[k] = [from |-> job[1].w, is |-> "answer", id |-> job[1].id]
  BY <1>1, Zenon DEF Answered, Proceed
<1>3. port[k].from = job[1].w /\ port[k].is = "answer" /\ port[k].id = job[1].id
  BY <1>2
<1>4. CASE Head(job).w = Mgr
  <2>1. IsAnswer(port[k])
    BY <1>1, <1>3, <1>4, Zenon DEF IsAnswer, Mgr
  <2>2. /\ Len(port) \in Nat /\ k \in 1 .. Len(port)
        /\ \A j \in 1 .. Len(port') :
             /\ Before(k, j) \in 1 .. Len(port) /\ Before(k, j) # k
             /\ port'[j] = port[Before(k, j)]
    BY <1>1, Stays
  <2>3. ASSUME NEW j \in 1 .. Len(port), j < k PROVE ~IsAnswer(port[j])
    <3>1. j \in 1 .. k - 1
      BY <2>2, <2>3, SMT
    <3>2. port[j].from # port[k].from
      BY <3>1, Zenon DEF Takes
    <3> QED
      BY <2>1, <3>2, Zenon DEF IsAnswer
  <2>4. \A j \in 1 .. Len(port') : \E i \in 1 .. Len(port) :
          i # k /\ port'[j] = port[i]
    BY <2>2, Zenon
  <2>5. inbox[Mgr] \in Seq(Orders)
    BY RevertsIs, Zenon DEF TypeOK
  <2>6. Manages(sub[Mgr], nodes[Mgr], locked[Mgr], inbox[Mgr], port, job)
    BY RevertsIs
  <2>7. Manages(sub[Mgr], nodes[Mgr], locked[Mgr], inbox[Mgr], port', Tail(job))
    BY <1>1, <1>3, <2>1, <2>2, <2>3, <2>4, <2>5, <2>6, WaitOver
  <2> QED
    BY <1>2, <2>7, RevertsIs
<1>5. CASE Head(job).w # Mgr
  <2>1. PICK f : Thinned(f)
    BY <1>1, TakenFromPort
  <2>2. /\ sub'[Mgr] = sub[Mgr] /\ nodes'[Mgr] = nodes[Mgr]
        /\ locked'[Mgr] = locked[Mgr] /\ inbox'[Mgr] = inbox[Mgr]
    OBVIOUS
  <2>3. nodes[Mgr] = {} => nodes'[Mgr] = {}
    BY <2>2
  <2> QED
    BY <1>2, <1>5, <2>1, <2>2, <2>3, StepDone, Zenon
<1> QED
  BY <1>4, <1>5

LEMMA OpenReverts ==
  ASSUME TypeOK, Protocol, Reverts, Open
  PROVE  Reverts'
<1> DEFINE w == Head(job).w
<1>1. /\ job # << >> /\ Head(job).do = "open" /\ job' = Tail(job)
      /\ UNCHANGED <<nodes, locked, inbox, port>>
      /\ \/ sub' = sub
         \/ ~task[w] /\ sub' = [sub EXCEPT ![w] = "build"]
  BY Zenon DEF Open, Doing, Proceed
<1>2. job \in Seq(Steps) /\ Head(job) = job[1] /\ Head(job) \in Steps
  BY <1>1, HeadStep
<1>3. w \in Windows /\ Mgr \in Windows
  BY <1>1, <1>2, RevertsIs, StepFields, Zenon
<1> HIDE DEF w
<1>4. Head(job).do \notin {"tell", "await", "drain"}
  BY <1>1, SMT
<1>5. CASE sub' = sub
  BY <1>1, <1>4, <1>5, PlainStep
<1>6. CASE w # Mgr /\ sub' = [sub EXCEPT ![w] = "build"]
  <2>1. sub'[Mgr] = sub[Mgr]
    BY <1>3, <1>6, Zenon DEF TypeOK
  <2>2. port \in Seq(Msgs)
    BY Zenon DEF TypeOK, Msgs
  <2>3. PICK f : Thinned(f)
    BY <1>1, <2>2, SamePort
  <2> QED
    BY <1>1, <1>4, <2>1, <2>3, StepDone
<1>7. CASE w = Mgr /\ ~task[w] /\ sub' = [sub EXCEPT ![w] = "build"]
  <2>1. sub'[Mgr] = "build"
    BY <1>3, <1>7, Zenon DEF TypeOK
  <2>2. sub[Mgr] = "none"
    <3>1. task[Mgr] \/ Gone(Mgr)
      BY <1>3, <1>4, NotDraining
    <3> QED
      BY <1>7, <3>1 DEF Gone
  <2>3. Manages("none", nodes[Mgr], locked[Mgr], inbox[Mgr], port, job)
    BY <2>2, RevertsIs
  <2>4. Manages("build", nodes[Mgr], locked[Mgr], inbox[Mgr], port, Tail(job))
    BY <1>1, <1>2, <2>3, Opens
  <2> QED
    BY <1>1, <2>1, <2>4, RevertsIs
<1> QED
  BY <1>1, <1>5, <1>6, <1>7

LEMMA DrainReverts ==
  ASSUME TypeOK, Protocol, Reverts, Drain
  PROVE  Reverts'
<1> DEFINE w == Head(job).w
           k == FirstFrom(w)
<1>1. /\ w \in Windows
      /\ \/ UNCHANGED <<sub, port, job>>
         \/ Takes(k) /\ port[k] \in Msgs /\ Reacting(k)
         \/ /\ From(w) = {} /\ sub[w] = "ended" /\ Proceed
            /\ sub' = [sub EXCEPT ![w] = "none"] /\ port' = port
  BY DrainsProtocol
<1>2. job # << >> /\ Head(job).do = "drain" /\ UNCHANGED <<nodes, locked, inbox>>
  BY Zenon DEF Drain, Doing
<1> HIDE DEF w, k
<1>3. CASE UNCHANGED <<sub, port, job>>
  BY <1>2, <1>3, RevertsIs
<1>4. CASE Takes(k) /\ port[k] \in Msgs /\ Reacting(k)
  BY <1>2, <1>4, ReactsReverts
<1>5. CASE /\ From(w) = {} /\ sub[w] = "ended" /\ Proceed
           /\ sub' = [sub EXCEPT ![w] = "none"] /\ port' = port
  <2>1. port \in Seq(Msgs) /\ Mgr \in Windows /\ job' = Tail(job)
    BY <1>5, RevertsIs, Zenon DEF TypeOK, Msgs, Proceed
  <2>2. PICK f : Thinned(f)
    BY <1>5, <2>1, SamePort
  <2>3. sub'[Mgr] = IF w = Mgr THEN "none" ELSE sub[Mgr]
    BY <1>1, <1>5, <2>1, Zenon DEF TypeOK
  <2>4. w = Mgr => NoAnswer(port)
    <3>1. DOMAIN port = 1 .. Len(port)
      BY <2>1, SMT
    <3> QED
      BY <1>5, <3>1, Zenon DEF From, NoAnswer, IsAnswer, Mgr
  <2>5. Head(job).do \notin {"tell", "await"}
    BY <1>2, SMT
  <2>6. /\ nodes'[Mgr] = nodes[Mgr] /\ locked'[Mgr] = locked[Mgr]
        /\ inbox'[Mgr] = inbox[Mgr]
    BY <1>2
  <2>7. \/ sub'[Mgr] = sub[Mgr]
        \/ sub[Mgr] = "ended" /\ sub'[Mgr] = "none" /\ NoAnswer(port)
    BY <1>5, <2>3, <2>4
  <2>8. nodes[Mgr] = {} => nodes'[Mgr] = {}
    BY <2>6
  <2> QED
    BY <1>2, <2>1, <2>2, <2>5, <2>6, <2>7, <2>8, StepDone, Zenon
<1> QED
  BY <1>1, <1>3, <1>4, <1>5

LEMMA ReplyReverts ==
  ASSUME TypeOK, Protocol, Reverts, Reply
  PROVE  Reverts'
<1> DEFINE w == Head(job).w
<1>1. /\ job # << >> /\ Head(job) = On("reply", w) /\ w \in Windows
      /\ sub[w] \in Waits
  BY ReplyWaits
<1>2. \A v \in Windows : sub'[v] =
        IF v # w THEN sub[v]
        ELSE IF sub[v] = "asking" THEN "asked"
        ELSE IF sub[v] = "saving" THEN "saved" ELSE "closed"
  BY ReplyProtocol
<1> HIDE DEF w
<1>3. /\ job' = Tail(job) /\ UNCHANGED <<nodes, locked, inbox, port>>
  BY Zenon DEF Reply, Proceed, window
<1>4. port \in Seq(Msgs) /\ Mgr \in Windows
  BY RevertsIs, Zenon DEF TypeOK, Msgs
<1>5. PICK f : Thinned(f)
  BY <1>3, <1>4, SamePort
<1>6. \/ sub'[Mgr] = sub[Mgr]
      \/ /\ sub[Mgr] \notin {"none", "build", "leaving", "ended"}
         /\ sub'[Mgr] \notin {"none", "build", "leaving", "ended"}
  BY <1>1, <1>2, <1>4, SMT DEF Waits
<1>7. Head(job).do \notin {"tell", "await"}
  <2>1. Head(job).do = "reply"
    BY <1>1, StepDo
  <2> QED
    BY <2>1, SMT
<1>8. /\ nodes'[Mgr] = nodes[Mgr] /\ locked'[Mgr] = locked[Mgr]
      /\ inbox'[Mgr] = inbox[Mgr]
  BY <1>3
<1>9. nodes[Mgr] = {} => nodes'[Mgr] = {}
  BY <1>8
<1> QED
  BY <1>1, <1>3, <1>5, <1>6, <1>7, <1>8, <1>9, StepDone, Zenon

LEMMA SectionReverts ==
  ASSUME TypeOK, Reverts, Add \/ Savehotlist \/ Renew \/ Lastsave
  PROVE  Reverts'
<1>1. /\ job # << >> /\ job' = Tail(job) /\ UNCHANGED <<sub, locked, inbox, port>>
      /\ Head(job).do \in {"add", "save", "reread", "replace", "lastsave"}
      /\ nodes' = nodes \/ nodes' = [w \in Windows |-> Aged(nodes[w])]
  BY Zenon DEF Add, Savehotlist, Renew, Lastsave, Doing, Proceed, window
<1>2. port \in Seq(Msgs) /\ Mgr \in Windows
  BY RevertsIs, Zenon DEF TypeOK, Msgs
<1>3. PICK f : Thinned(f)
  BY <1>1, <1>2, SamePort
<1>4. nodes[Mgr] = {} => nodes'[Mgr] = {}
  BY <1>1, <1>2, SMT DEF Aged
<1>5. Head(job).do \notin {"tell", "await"}
  BY <1>1, SMT
<1>6. /\ sub'[Mgr] = sub[Mgr] /\ locked'[Mgr] = locked[Mgr]
      /\ inbox'[Mgr] = inbox[Mgr]
  BY <1>1
<1> QED
  BY <1>1, <1>3, <1>4, <1>5, <1>6, StepDone, Zenon

LEMMA StopReverts ==
  ASSUME TypeOK, Reverts, Stop
  PROVE  Reverts'
<1> DEFINE w == Head(job).w
           a == On("drain", w)
<1>1. /\ job # << >> /\ Head(job).do = "stop"
      /\ UNCHANGED <<sub, nodes, locked, inbox, port>>
      /\ job' = <<a>> \o Tail(job) \/ job' = Tail(job)
  BY Zenon DEF Stop, Doing, Proceed, window
<1>2. job \in Seq(Steps) /\ Head(job) = job[1] /\ Head(job) \in Steps
  BY <1>1, HeadStep
<1>3. w \in Windows
  BY <1>1, <1>2, StepFields, Zenon
<1>4. a \in Steps /\ a.do = "drain"
  BY <1>3, StepForms, StepDo, Zenon
<1> HIDE DEF a
<1>5. CASE job' = Tail(job)
  <2>1. Head(job).do \notin {"tell", "await"}
    BY <1>1, SMT
  <2> QED
    BY <1>1, <1>5, <2>1, PlainStep
<1>6. CASE job' = <<a>> \o Tail(job)
  <2>1. Instead(job, a, job')
    BY <1>1, <1>2, <1>4, <1>6, ReplacedBy
  <2>2. job[1].do = "stop"
    BY <1>1, <1>2
  <2>3. Manages(sub[Mgr], nodes[Mgr], locked[Mgr], inbox[Mgr], port, job)
    BY RevertsIs
  <2>4. Manages(sub[Mgr], nodes[Mgr], locked[Mgr], inbox[Mgr], port, job')
    BY <1>1, <1>2, <1>4, <2>1, <2>2, <2>3, ReplacesReverts
  <2> QED
    BY <1>1, <2>4, RevertsIs
<1> QED
  BY <1>1, <1>5, <1>6

LEMMA MainReverts ==
  ASSUME TypeOK, Protocol, Reverts, MainStep \/ Command
  PROVE  Reverts'
<1>1. CASE Processtask
  <2>1. Reacting(1) /\ port[1] \in Msgs
    BY <1>1, ProcesstaskTakes
  <2>2. UNCHANGED <<nodes, locked, inbox>>
    BY <1>1, Zenon DEF Processtask, window
  <2> QED
    BY <2>1, <2>2, ReactsReverts
<1>2. CASE Waitformsg
  <2> DEFINE k == FirstFrom(Head(job).w)
  <2>1. /\ Takes(k) /\ port[k] \in Msgs
        /\ (Answered /\ port[k].is = "answer") \/ Reacting(k)
    BY <1>2, WaitformsgTakes
  <2>2. /\ UNCHANGED <<sub, nodes, locked, inbox>> /\ job # << >>
        /\ Head(job).do = "await"
    BY <1>2, Zenon DEF Waitformsg, Doing, window
  <2>3. CASE Answered
    BY <2>1, <2>2, <2>3, AnsweredReverts
  <2>4. CASE Reacting(k)
    BY <2>1, <2>2, <2>4, ReactsReverts
  <2> QED
    BY <2>1, <2>3, <2>4
<1> QED
  BY <1>1, <1>2, CommandReverts, PutReverts, TellReverts, StopReverts, DrainReverts,
     OpenReverts, ReplyReverts, SectionReverts, Zenon DEF MainStep

LEMMA InitReverts ==
  ASSUME Init
  PROVE  Reverts
<1>1. /\ sub[Mgr] = "none" /\ nodes[Mgr] = {} /\ inbox[Mgr] = << >>
      /\ port = << >> /\ job = << >>
  BY RevertsIs, Zenon DEF Init
<1> DEFINE e == << >>
<1>2. e \in Seq(Steps) /\ \A i \in 1 .. Len(e) : FALSE
  BY SMT
<1>3. /\ \A i \in 1 .. Len(e) - 1 : FALSE
      /\ e = << >>
  BY SMT
<1> HIDE DEF e
<1>4. Orderly(e)
  BY <1>2, <1>3, Zenon DEF Orderly, Nesting, Follows, Disposes
<1>5. InOrder(e, e) /\ Wanted(e, e, e) /\ NoAnswer(e) /\ NoNewsBehind(e)
  BY <1>2, Zenon DEF InOrder, Wanted, NoAnswer, NoNewsBehind
<1>6. ~RenewNext(e) /\ ~NewsNext(e) /\ Off("none")
  BY <1>3, SMT DEF RenewNext, NewsNext, Off
<1>7. Away("none", {}, e, e)
  BY <1>3, <1>5, SMT DEF Away
<1>8. Manages("none", {}, locked[Mgr], e, e, e)
  BY <1>4, <1>5, <1>6, <1>7, Zenon DEF Manages
<1>9. Manages(sub[Mgr], nodes[Mgr], locked[Mgr], inbox[Mgr], port, job)
  BY <1>1, <1>3, <1>8
<1> QED
  BY <1>9, RevertsIs

LEMMA NextReverts ==
  ASSUME TypeOK, Protocol, Reverts, Next
  PROVE  Reverts'
<1>1. CASE MainStep \/ Command
  BY <1>1, MainReverts
<1>2. ASSUME NEW w \in Windows, WindowStep(w) \/ User(w) PROVE Reverts'
  <2>1. CASE w = Mgr
    BY <1>2, <2>1, ManagerReverts
  <2>2. CASE w # Mgr
    BY <1>2, <2>2, ViewerReverts
  <2> QED
    BY <2>1, <2>2
<1> QED
  BY <1>1, <1>2, Zenon DEF Next

\* When the list is to be renewed next, the manager is detached.
LEMMA RevertsFrees ==
  ASSUME TypeOK, Reverts
  PROVE  FreesDetachedList
<1> SUFFICES ASSUME Doing("reread") \/ Doing("replace")
             PROVE  nodes["manager"] = {}
  BY DEF FreesDetachedList
<1>1. job # << >> /\ Head(job).do \in {"reread", "replace"}
  BY Zenon DEF Doing
<1>2. Head(job) = job[1]
  BY <1>1, HeadStep
<1>3. RenewNext(job)
  BY <1>1, <1>2 DEF RenewNext
<1>4. /\ Detached(sub[Mgr], nodes[Mgr], locked[Mgr], inbox[Mgr])
      /\ Away(sub[Mgr], nodes[Mgr], port, inbox[Mgr])
  BY <1>3, RevertsIs, Zenon DEF Manages
<1>5. nodes[Mgr] = {}
  BY <1>4, Zenon DEF Detached, Away
<1> QED
  BY <1>5 DEF Mgr

\* The strengthening is inductive: whatever a window, a user or a handler of the
\* main task does, the manager's messages stay in the order of the waits.
THEOREM RevertsInductive == Spec => [](IInv /\ Reverts)
<1>1. Init => IInv /\ Reverts
  BY InitHolds, InitReverts
<1>2. IInv /\ Reverts /\ [Next]_vars => IInv' /\ Reverts'
  <2> SUFFICES ASSUME IInv, Reverts, [Next]_vars PROVE IInv' /\ Reverts'
    OBVIOUS
  <2>1. TypeOK /\ Protocol
    BY DEF IInv
  <2>2. CASE Next
    BY <2>1, <2>2, NextHolds, NextReverts
  <2>3. CASE UNCHANGED vars
    <3>1. UNCHANGED <<sub, nodes, locked, inbox, port, job>>
      BY <2>3, Zenon DEF vars, window, main
    <3>2. Reverts'
      BY <3>1, RevertsIs
    <3> QED
      BY <2>3, <3>2, StutterHolds
  <2> QED
    BY <2>2, <2>3
<1> QED
  BY <1>1, <1>2, PTL DEF Spec

\* "Dispose the gadget lists and disable" (hotlist.h:103-104): the items of the
\* list are freed and made anew while no nodes of the manager hang on them,
\* however deep the requests to revert are nested.
THEOREM FreesDetachedListHolds == Spec => []FreesDetachedList
<1>1. IInv /\ Reverts => FreesDetachedList
  BY RevertsFrees DEF IInv
<1> QED
  BY <1>1, RevertsInductive, PTL
=============================================================================
