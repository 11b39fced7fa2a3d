--------------------------- MODULE RegistryProofs ---------------------------
(***************************************************************************)
(* Theorems about the registration of the disk cache (Registry.tla): what  *)
(* a start reads in a registration of any length, and the safety of the    *)
(* cache for any addresses, files and checkpoints.                         *)
(***************************************************************************)
EXTENDS Registry, QueueLemmas

-----------------------------------------------------------------------------
(* Reading a registration of any length.                                   *)

\* What a start has in memory after each entry.
Begun(r) == [Empty EXCEPT !.cachenr = r.lastnr]
Upto(r) ==
  CHOOSE upto : upto = [i \in 0 .. Len(r.entries) |->
                          IF i = 0 THEN Begun(r)
                          ELSE Readentry(upto[i - 1], r.entries[i])]

LEMMA ReadsUpto ==
  ASSUME NEW r, r.is = "readable"
  PROVE  Readcachereg(r) = Upto(r)[Len(r.entries)]
  BY Zenon DEF Readcachereg, Upto, Begun

\* The first n entries.
UptoIs(r, n, f) ==
  f = [i \in 0 .. n |-> IF i = 0 THEN Begun(r)
                        ELSE Readentry(f[i - 1], r.entries[i])]

LEMMA UptoExists ==
  ASSUME NEW r, NEW n \in Nat
  PROVE  \E f : UptoIs(r, n, f)
<1> DEFINE Bad == {k \in Nat : ~ \E f : UptoIs(r, k, f)}
<1>1. SUFFICES ASSUME Bad # {} PROVE FALSE
  BY <1>1
<1>2. PICK m \in Bad : \A k \in Bad : m <= k
  BY <1>1, MinOfNaturals, Zenon
<1>3. CASE m = 0
  <2> DEFINE f == [i \in 0 .. 0 |-> Begun(r)]
  <2>1. f = [i \in 0 .. 0 |-> IF i = 0 THEN Begun(r)
                              ELSE Readentry(f[i - 1], r.entries[i])]
    <3>1. \A i \in 0 .. 0 : i = 0
      BY SMT
    <3> QED
      BY <3>1, Zenon
  <2> QED
    BY <1>2, <1>3, <2>1, Zenon DEF UptoIs
<1>4. CASE m # 0
  <2>1. m - 1 \in Nat /\ ~(m <= m - 1)
    BY <1>2, <1>4, SMT
  <2>2. PICK g : UptoIs(r, m - 1, g)
    BY <1>2, <2>1, Zenon
  <2> DEFINE f == [i \in 0 .. m |-> IF i = 0 THEN Begun(r)
                                    ELSE Readentry(g[i - 1], r.entries[i])]
  <2>3. \A i \in 0 .. m - 1 : g[i] = f[i]
    <3>1. \A i \in 0 .. m - 1 : i \in 0 .. m
      BY <1>2, SMT
    <3> QED
      BY <2>2, <3>1, Zenon DEF UptoIs
  <2>4. \A i \in 0 .. m : i # 0 => i - 1 \in 0 .. m - 1
    BY <1>2, SMT
  <2>5. f = [i \in 0 .. m |-> IF i = 0 THEN Begun(r)
                              ELSE Readentry(f[i - 1], r.entries[i])]
    BY <2>3, <2>4, Zenon
  <2> QED
    BY <1>2, <2>5, Zenon DEF UptoIs
<1> QED
  BY <1>3, <1>4

LEMMA UptoSteps ==
  ASSUME NEW r, Len(r.entries) \in Nat
  PROVE  /\ Upto(r)[0] = Begun(r)
         /\ \A i \in 1 .. Len(r.entries) :
              Upto(r)[i] = Readentry(Upto(r)[i - 1], r.entries[i])
<1> DEFINE n == Len(r.entries)
<1>1. UptoIs(r, n, Upto(r))
  BY UptoExists, Zenon DEF Upto, UptoIs
<1>2. 0 \in 0 .. n /\ \A i \in 1 .. n : i \in 0 .. n /\ i # 0
  BY SMT
<1> QED
  BY <1>1, <1>2, Zenon DEF UptoIs

\* What is in memory while a registration is read.
CacheSets == {S \in SUBSET Caches : IsFiniteSet(S)}
Memory(S, o, n, g) == [cac |-> S, objects |-> o, cachenr |-> n, gone |-> g]
Memories == [cac : CacheSets, objects : [Urls -> Nat], cachenr : 0 .. MaxNr,
             gone : SUBSET Numbers]

LEMMA MemoryIs ==
  ASSUME NEW m \in Memories
  PROVE  /\ m = Memory(m.cac, m.objects, m.cachenr, m.gone)
         /\ m.cac \in CacheSets /\ m.objects \in [Urls -> Nat]
         /\ m.cachenr \in 0 .. MaxNr /\ m.gone \in SUBSET Numbers
<1>1. m = Memory(m.cac, m.objects, m.cachenr, m.gone)
  BY SMT DEF Memories, Memory
<1> QED
  BY <1>1, Zenon DEF Memories

Recovered(u, o, n) ==
  [url |-> u, obj |-> o, nr |-> n, stage |-> "closed", held |-> TRUE]

\* What one entry does.
Hit(m, e) == {c \in m.cac : Deletes(m, e, c)}

LEMMA ReadDeletion ==
  ASSUME NEW m \in Memories, NEW e \in Entries, e.del
  PROVE  /\ Readentry(m, e) \in Memories
         /\ Readentry(m, e).cac = m.cac \ Hit(m, e)
         /\ Readentry(m, e).cachenr = m.cachenr
         /\ \A u \in Urls : Readentry(m, e).objects[u] =
              IF u = e.url /\ m.objects[u] = 0 THEN 1 ELSE m.objects[u]
<1> DEFINE r == Memory(m.cac, m.objects, m.cachenr, m.gone)
           S == m.cac \ Hit(m, e)
           o == [m.objects EXCEPT ![e.url] = IF @ = 0 THEN 1 ELSE @]
           g == m.gone \cup {c.nr : c \in Hit(m, e)}
           x == Memory(S, o, m.cachenr, g)
<1>1. Readentry(m, e) = x
  <2>1. Readentry(m, e) = [m EXCEPT !.cac = S, !.objects = o, !.gone = g]
    BY Zenon DEF Readentry, Hit
  <2>2. m = r
    BY MemoryIs
  <2>3. [m EXCEPT !.cac = S, !.objects = o, !.gone = g] = x
    <3> HIDE DEF S, o, g
    <3> DEFINE a == [m EXCEPT !.cac = S]
               b == [a EXCEPT !.objects = o]
    <3>1. a = Memory(S, m.objects, m.cachenr, m.gone)
      BY <2>2, SMT DEF Memory
    <3> HIDE DEF a
    <3>2. b = Memory(S, o, m.cachenr, m.gone)
      BY <3>1, SMT DEF Memory
    <3> HIDE DEF b
    <3>3. [b EXCEPT !.gone = g] = x
      BY <3>2, SMT DEF Memory
    <3> QED
      BY <3>3, SMT DEF a, b
  <2> QED
    BY <2>1, <2>3
<1>2. m.cac \in CacheSets /\ m.objects \in [Urls -> Nat] /\ e.url \in Urls
      /\ m.cachenr \in 0 .. MaxNr /\ m.gone \in SUBSET Numbers
  BY MemoryIs, SMT DEF Entries
<1>3. S \in CacheSets
  BY <1>2, FS_Subset DEF Hit, CacheSets
<1>4. g \in SUBSET Numbers
  BY <1>2, SMT DEF Hit, Caches, CacheSets
<1>5. /\ o \in [Urls -> Nat]
      /\ \A u \in Urls : o[u] =
           IF u = e.url /\ m.objects[u] = 0 THEN 1 ELSE m.objects[u]
  BY <1>2, SMT
<1>6. x \in Memories /\ x.cac = S /\ x.cachenr = m.cachenr /\ x.objects = o
  BY <1>2, <1>3, <1>4, <1>5, SMT DEF Memories, Memory
<1> HIDE DEF x, o, g
<1> QED
  BY <1>1, <1>5, <1>6, Zenon

LEMMA ReadAddition ==
  ASSUME NEW m \in Memories, NEW e \in Entries, ~e.del
  PROVE  /\ Readentry(m, e) \in Memories
         /\ Readentry(m, e).cac =
              IF e.url \in Expiring THEN m.cac
              ELSE m.cac \cup
                   {Recovered(e.url, Readentry(m, e).objects[e.url], e.nr)}
         /\ Readentry(m, e).cachenr >= m.cachenr
         /\ e.url \notin Expiring => Readentry(m, e).cachenr >= e.nr
         /\ \A u \in Urls : Readentry(m, e).objects[u] =
              IF u = e.url THEN m.objects[u] + 1 ELSE m.objects[u]
<1> DEFINE r == Memory(m.cac, m.objects, m.cachenr, m.gone)
           o == [m.objects EXCEPT ![e.url] = @ + 1]
           c == Recovered(e.url, m.objects[e.url] + 1, e.nr)
<1>1. m.cac \in CacheSets /\ m.objects \in [Urls -> Nat] /\ e.url \in Urls
      /\ m.cachenr \in 0 .. MaxNr /\ m.gone \in SUBSET Numbers
      /\ e.nr \in Numbers /\ m = r
  BY MemoryIs, SMT DEF Entries
<1>2. o \in [Urls -> Nat] /\ o[e.url] = m.objects[e.url] + 1
      /\ \A u \in Urls : o[u] =
           IF u = e.url THEN m.objects[u] + 1 ELSE m.objects[u]
  BY <1>1, SMT
<1>3. CASE e.url \in Expiring
  <2> DEFINE g == m.gone \cup {e.nr}
             x == Memory(m.cac, o, m.cachenr, g)
  <2>1. Readentry(m, e) = [m EXCEPT !.objects = o, !.gone = g]
    BY <1>3, Zenon DEF Readentry
  <2>2. [m EXCEPT !.objects = o, !.gone = g] = x
    <3> HIDE DEF o, g
    <3> DEFINE b == [m EXCEPT !.objects = o]
    <3>1. b = Memory(m.cac, o, m.cachenr, m.gone)
      BY <1>1, SMT DEF Memory
    <3> HIDE DEF b
    <3>2. [b EXCEPT !.gone = g] = x
      BY <3>1, SMT DEF Memory
    <3> QED
      BY <3>2, SMT DEF b
  <2>3. Readentry(m, e) = x
    BY <2>1, <2>2
  <2>4. x \in Memories /\ x.cac = m.cac /\ x.cachenr = m.cachenr
        /\ x.objects = o /\ x.cachenr >= m.cachenr
    BY <1>1, <1>2, SMT DEF Memories, Memory
  <2> QED
    BY <1>2, <1>3, <2>3, <2>4, Zenon
<1>4. CASE e.url \notin Expiring
  <2> DEFINE S == m.cac \cup {c}
             k == Known(m.cachenr, e.nr)
             x == Memory(S, o, k, m.gone)
  <2>1. Readentry(m, e) =
          [m EXCEPT !.cac = S, !.objects = o, !.cachenr = k]
    BY <1>4, Zenon DEF Readentry, Recovered
  <2>2. [m EXCEPT !.cac = S, !.objects = o, !.cachenr = k] = x
    <3> HIDE DEF o, S, k
    <3> DEFINE a == [m EXCEPT !.cac = S]
               b == [a EXCEPT !.objects = o]
    <3>1. a = Memory(S, m.objects, m.cachenr, m.gone)
      BY <1>1, SMT DEF Memory
    <3> HIDE DEF a
    <3>2. b = Memory(S, o, m.cachenr, m.gone)
      BY <3>1, SMT DEF Memory
    <3> HIDE DEF b
    <3>3. [b EXCEPT !.cachenr = k] = x
      BY <3>2, SMT DEF Memory
    <3> QED
      BY <3>3, SMT DEF a, b
  <2>3. Readentry(m, e) = x
    BY <2>1, <2>2
  <2>4. k \in 0 .. MaxNr /\ k >= m.cachenr /\ k >= e.nr
    BY <1>1, RegistryAssumption, SMT DEF Known, Numbers
  <2>5. c \in Caches
    BY <1>1, SMT DEF Recovered, Caches
  <2>6. S \in CacheSets
    BY <1>1, <2>5, FS_AddElement DEF CacheSets
  <2>7. x \in Memories /\ x.cac = S /\ x.cachenr = k /\ x.objects = o
    BY <1>1, <1>2, <2>4, <2>6, SMT DEF Memories, Memory
  <2> QED
    BY <1>2, <1>4, <2>3, <2>4, <2>7, Zenon
<1> QED
  BY <1>3, <1>4

LEMMA ReadTypes ==
  ASSUME NEW r, r.is = "readable", IsRegistry(r)
  PROVE  /\ Len(r.entries) \in Nat
         /\ \A i \in 1 .. Len(r.entries) : r.entries[i] \in Entries
         /\ \A i \in 0 .. Len(r.entries) : Upto(r)[i] \in Memories
<1> DEFINE n == Len(r.entries)
           S == {k \in 0 .. n : Upto(r)[k] \in Memories}
<1>1. /\ n \in Nat /\ r.lastnr \in 0 .. MaxNr
      /\ \A i \in 1 .. n : r.entries[i] \in Entries
  BY SMT DEF IsRegistry, NoFile, Torn
<1>2. Begun(r) \in Memories
  <2>1. {} \in CacheSets
    BY FS_EmptySet DEF CacheSets
  <2>2. Begun(r) = Memory({}, [u \in Urls |-> 0], r.lastnr, {})
    BY SMT DEF Begun, Empty, Memory
  <2> QED
    BY <1>1, <2>1, <2>2, SMT DEF Memory, Memories
<1>3. 0 \in S
  BY <1>1, <1>2, UptoSteps, SMT
<1>4. \A k \in 1 .. n : k - 1 \in S => k \in S
  <2> SUFFICES ASSUME NEW k \in 1 .. n, Upto(r)[k - 1] \in Memories
               PROVE  Upto(r)[k] \in Memories
    BY SMT
  <2>1. Upto(r)[k] = Readentry(Upto(r)[k - 1], r.entries[k])
    BY <1>1, UptoSteps, Zenon
  <2>2. r.entries[k] \in Entries
    BY <1>1
  <2>3. CASE r.entries[k].del
    BY <2>1, <2>2, <2>3, ReadDeletion
  <2>4. CASE ~r.entries[k].del
    BY <2>1, <2>2, <2>4, ReadAddition
  <2> QED
    BY <2>3, <2>4
<1>5. \A k \in 0 .. n : k \in S
  BY <1>1, <1>3, <1>4, UpTo, Zenon
<1> QED
  BY <1>1, <1>5

LEMMA ReadIsMemory ==
  ASSUME NEW r, IsRegistry(r)
  PROVE  Readcachereg(r) \in Memories
<1>1. CASE r.is # "readable"
  <2>1. Readcachereg(r) = Empty
    BY <1>1, Zenon DEF Readcachereg
  <2>2. {} \in CacheSets
    BY FS_EmptySet DEF CacheSets
  <2> QED
    BY <2>1, <2>2, RegistryAssumption, SMT DEF Empty, Memories
<1>2. CASE r.is = "readable"
  <2>1. Len(r.entries) \in 0 .. Len(r.entries)
    BY <1>2, ReadTypes, SMT
  <2> QED
    BY <1>2, <2>1, ReadTypes, ReadsUpto
<1> QED
  BY <1>1, <1>2

-----------------------------------------------------------------------------
(* What a log means.                                                       *)

LEMMA DeletionOf ==
  ASSUME NEW e \in Entries, NEW f \in Entries
  PROVE  f = [e EXCEPT !.del = TRUE] <=> f.del /\ f.url = e.url /\ f.nr = e.nr
<1>1. /\ e = [del |-> e.del, url |-> e.url, nr |-> e.nr]
      /\ f = [del |-> f.del, url |-> f.url, nr |-> f.nr]
      /\ f.del \in BOOLEAN
  BY SMT DEF Entries
<1>3. [e EXCEPT !.del = TRUE] = [del |-> TRUE, url |-> e.url, nr |-> e.nr]
  <2> DEFINE a == e.del
             b == e.url
             c == e.nr
             t == TRUE
  <2>1. e = [del |-> a, url |-> b, nr |-> c]
    BY <1>1
  <2> HIDE DEF a, b, c, t
  <2>2. [e EXCEPT !.del = t] = [del |-> t, url |-> b, nr |-> c]
    BY <2>1, SMT
  <2> QED
    BY <2>2, Zenon DEF b, c, t
<1> QED
  BY <1>1, <1>3, SMT

\* Entry j deletes what entry a added.
Deletion(e, a, j) ==
  /\ e[j].del /\ e[j].url = e[a].url /\ e[j].nr = e[a].nr
  /\ \A k \in a + 1 .. j - 1 : e[k].url = e[a].url => e[k].del

\* The additions among the first n entries that none of these deletes.
Standing(e, n) ==
  {a \in 1 .. n : ~e[a].del /\ \A j \in a + 1 .. n : ~Deletion(e, a, j)}

LEMMA DocumentsAre ==
  ASSUME NEW r, r.is = "readable", IsRegistry(r)
  PROVE  Documents(r) = {<<r.entries[a].url, r.entries[a].nr>> :
                           a \in Standing(r.entries, Len(r.entries))}
<1> DEFINE e == r.entries
           n == Len(e)
           Deleted(a, j) == /\ e[j] = [e[a] EXCEPT !.del = TRUE]
                            /\ \A k \in a + 1 .. j - 1 :
                                 e[k].url = e[a].url => e[k].del
           Undeleted == {a \in DOMAIN e : /\ ~e[a].del
                                          /\ \A j \in a + 1 .. n : ~Deleted(a, j)}
<1>1. n \in Nat /\ DOMAIN e = 1 .. n /\ \A a \in 1 .. n : e[a] \in Entries
  BY SMT DEF IsRegistry, NoFile, Torn
<1>2. \A a \in 1 .. n : \A j \in a + 1 .. n : j \in 1 .. n
  BY <1>1, SMT
<1>3. \A a \in 1 .. n : \A j \in a + 1 .. n :
        Deleted(a, j) <=> Deletion(e, a, j)
  <2> SUFFICES ASSUME NEW a \in 1 .. n, NEW j \in a + 1 .. n
               PROVE  Deleted(a, j) <=> Deletion(e, a, j)
    OBVIOUS
  <2>1. e[a] \in Entries /\ e[j] \in Entries
    BY <1>1, <1>2
  <2>2. e[j] = [e[a] EXCEPT !.del = TRUE] <=>
          e[j].del /\ e[j].url = e[a].url /\ e[j].nr = e[a].nr
    BY <2>1, DeletionOf
  <2> QED
    BY <2>2, Zenon DEF Deletion
<1>4. Undeleted = Standing(e, n)
  BY <1>1, <1>3, Zenon DEF Standing
<1>5. Documents(r) = {<<e[a].url, e[a].nr>> : a \in Undeleted}
  BY Zenon DEF Documents
<1> QED
  BY <1>4, <1>5, Zenon

\* The url object that addition a makes, and whether it is the one Findurl
\* finds after n entries.
Object(r, a) == Upto(r)[a].objects[r.entries[a].url]
Found(r, a, n) == Upto(r)[n].objects[r.entries[a].url]
Numbered(r, a, n) ==
  /\ 0 < Object(r, a) /\ Object(r, a) <= Found(r, a, n)
  /\ Object(r, a) = Found(r, a, n) <=>
       \A k \in a + 1 .. n :
         r.entries[k].url = r.entries[a].url => r.entries[k].del

LEMMA ObjectsNumbered ==
  ASSUME NEW r, r.is = "readable", IsRegistry(r)
  PROVE  \A n \in 0 .. Len(r.entries) : \A a \in 1 .. n :
           ~r.entries[a].del => Numbered(r, a, n)
<1> DEFINE e == r.entries
           z == Len(e)
           S == {n \in 0 .. z : \A a \in 1 .. n :
                                  ~e[a].del => Numbered(r, a, n)}
<1>1. /\ z \in Nat /\ \A i \in 1 .. z : e[i] \in Entries
      /\ \A i \in 0 .. z : Upto(r)[i] \in Memories
      /\ \A i \in 1 .. z : Upto(r)[i] = Readentry(Upto(r)[i - 1], e[i])
  BY ReadTypes, UptoSteps
<1>2. 0 \in S
  BY <1>1, SMT
<1>3. ASSUME NEW n \in 1 .. z, n - 1 \in S,
             NEW a \in 1 .. n, ~e[a].del
      PROVE  Numbered(r, a, n)
  <2> DEFINE m == Upto(r)[n - 1]
             x == Upto(r)[n]
             u == e[a].url
  <2>1. /\ n - 1 \in 0 .. z /\ n \in 0 .. z /\ a \in 1 .. z /\ a \in 0 .. z
        /\ a # n => a \in 1 .. n - 1
    BY <1>1, SMT
  <2>2. m \in Memories /\ e[n] \in Entries /\ x = Readentry(m, e[n])
        /\ e[a] \in Entries
    BY <1>1, <2>1
  <2>3. /\ u \in Urls /\ e[n].url \in Urls /\ m.objects[u] \in Nat
    BY <2>2, MemoryIs, SMT DEF Entries
  <2>4. e[n].del =>
          x.objects[u] = IF u = e[n].url /\ m.objects[u] = 0 THEN 1
                         ELSE m.objects[u]
    BY <2>2, <2>3, ReadDeletion
  <2>5. ~e[n].del =>
          x.objects[u] = IF u = e[n].url THEN m.objects[u] + 1
                         ELSE m.objects[u]
    <3> SUFFICES ASSUME ~e[n].del
                 PROVE  x.objects[u] = IF u = e[n].url THEN m.objects[u] + 1
                                       ELSE m.objects[u]
      OBVIOUS
    <3>1. \A v \in Urls : Readentry(m, e[n]).objects[v] =
            IF v = e[n].url THEN m.objects[v] + 1 ELSE m.objects[v]
      BY <2>2, ReadAddition
    <3> QED
      BY <2>2, <2>3, <3>1, Zenon
  <2>6. CASE a = n
    <3>1. x.objects[u] = m.objects[u] + 1
      BY <1>3, <2>5, <2>6
    <3>2. \A k \in a + 1 .. n : FALSE
      BY <2>6, SMT
    <3>3. Object(r, a) = x.objects[u] /\ Found(r, a, n) = x.objects[u]
      BY <2>6 DEF Object, Found
    <3>4. 0 < Object(r, a) /\ Object(r, a) <= Found(r, a, n)
      BY <2>3, <3>1, <3>3, SMT
    <3> QED
      BY <3>2, <3>3, <3>4, Zenon DEF Numbered
  <2>7. CASE a # n
    <3>1. Numbered(r, a, n - 1)
      BY <1>3, <2>1, <2>7, Zenon
    <3> DEFINE o == Object(r, a)
               All(k) == \A l \in a + 1 .. k : e[l].url = u => e[l].del
    <3>2. /\ 0 < o /\ o <= m.objects[u]
          /\ o = m.objects[u] <=> All(n - 1)
      BY <3>1 DEF Numbered, Found
    <3>3. \A l : l \in a + 1 .. n <=> l \in a + 1 .. n - 1 \/ l = n
      BY <2>1, <2>7, SMT
    <3>4. All(n) <=> All(n - 1) /\ (e[n].url = u => e[n].del)
      BY <3>3, Zenon
    <3>5. o \in Nat
      <4>1. e[a].url \in Urls /\ Upto(r)[a].objects \in [Urls -> Nat]
        BY <1>1, <2>1, <2>3, MemoryIs
      <4> QED
        BY <4>1 DEF Object
    <3> HIDE DEF o, All, m, x, u
    <3>6. 0 < o /\ o <= x.objects[u] /\ (o = x.objects[u] <=> All(n))
      <4>1. CASE e[n].del
        BY <2>3, <2>4, <3>2, <3>4, <3>5, <4>1, SMT
      <4>2. CASE ~e[n].del
        BY <2>3, <2>5, <3>2, <3>4, <3>5, <4>2, SMT
      <4> QED
        BY <4>1, <4>2
    <3> QED
      BY <3>6, Zenon DEF Numbered, Found, o, x, u, All
  <2> QED
    BY <2>6, <2>7
<1>4. \A n \in 1 .. z : n - 1 \in S => n \in S
  <2> SUFFICES ASSUME NEW n \in 1 .. z, n - 1 \in S PROVE n \in S
    OBVIOUS
  <2>1. n \in 0 .. z
    BY SMT
  <2> QED
    BY <1>3, <2>1, Zenon
<1>5. \A n \in 0 .. z : n \in S
  BY <1>1, <1>2, <1>4, UpTo, Zenon
<1> QED
  BY <1>5, Zenon

\* What entry n does to the additions that stand.
LEMMA StandingSteps ==
  ASSUME NEW e, NEW n \in Nat, n > 0
  PROVE  Standing(e, n) =
           IF e[n].del THEN {a \in Standing(e, n - 1) : ~Deletion(e, a, n)}
           ELSE Standing(e, n - 1) \cup {n}
<1>1. /\ \A a : a \in 1 .. n <=> a \in 1 .. n - 1 \/ a = n
      /\ \A a \in 1 .. n - 1 : \A j : j \in a + 1 .. n <=>
                                        j \in a + 1 .. n - 1 \/ j = n
      /\ n + 1 .. n = {} /\ n \notin 1 .. n - 1
  BY SMT
<1>2. ~e[n].del => \A a : ~Deletion(e, a, n)
  BY Zenon DEF Deletion
<1>3. \A a \in 1 .. n - 1 : a \in Standing(e, n) <=>
        a \in Standing(e, n - 1) /\ ~Deletion(e, a, n)
  BY <1>1, Zenon DEF Standing
<1>4. n \in Standing(e, n) <=> ~e[n].del
  BY <1>1, Zenon DEF Standing
<1>5. /\ Standing(e, n) \subseteq 1 .. n
      /\ Standing(e, n - 1) \subseteq 1 .. n - 1
  BY Zenon DEF Standing
<1> QED
  BY <1>1, <1>2, <1>3, <1>4, <1>5, Zenon

\* The caches that are made of them.
Kept(r, n) ==
  {Recovered(r.entries[a].url, Object(r, a), r.entries[a].nr) :
     a \in {a \in Standing(r.entries, n) : r.entries[a].url \notin Expiring}}

LEMMA KeptIsRead ==
  ASSUME NEW r, r.is = "readable", IsRegistry(r)
  PROVE  \A n \in 0 .. Len(r.entries) : Upto(r)[n].cac = Kept(r, n)
<1> DEFINE e == r.entries
           z == Len(e)
           S == {n \in 0 .. z : Upto(r)[n].cac = Kept(r, n)}
           Lasting(n) == {a \in Standing(e, n) : e[a].url \notin Expiring}
           Made(a) == Recovered(e[a].url, Object(r, a), e[a].nr)
<1>1. /\ z \in Nat /\ \A i \in 1 .. z : e[i] \in Entries
      /\ \A i \in 0 .. z : Upto(r)[i] \in Memories
      /\ \A i \in 1 .. z : Upto(r)[i] = Readentry(Upto(r)[i - 1], e[i])
      /\ Upto(r)[0] = Begun(r)
  BY ReadTypes, UptoSteps
<1>2. 0 \in S
  <2>1. 0 \in 0 .. z /\ 1 .. 0 = {}
    BY <1>1, SMT
  <2>2. Kept(r, 0) = {}
    BY <2>1, Zenon DEF Kept, Standing
  <2>3. Begun(r).cac = {}
    BY SMT DEF Begun, Empty
  <2> QED
    BY <1>1, <2>1, <2>2, <2>3
<1>3. ASSUME NEW n \in 1 .. z, Upto(r)[n - 1].cac = Kept(r, n - 1)
      PROVE  Upto(r)[n].cac = Kept(r, n)
  <2> DEFINE m == Upto(r)[n - 1]
             x == Upto(r)[n]
  <2>1. /\ n - 1 \in 0 .. z /\ n \in 0 .. z /\ n \in Nat /\ n > 0
        /\ 1 .. n - 1 \subseteq 1 .. z
    BY <1>1, SMT
  <2>2. m \in Memories /\ e[n] \in Entries /\ x = Readentry(m, e[n])
    BY <1>1, <2>1
  <2>3. m.cac = {Made(a) : a \in Lasting(n - 1)}
    BY <1>3 DEF Kept
  <2>4. Kept(r, n) = {Made(a) : a \in Lasting(n)}
    BY DEF Kept
  <2>5. CASE e[n].del
    <3>1. Lasting(n) = {a \in Lasting(n - 1) : ~Deletion(e, a, n)}
      BY <2>1, <2>5, StandingSteps, Zenon
    <3>2. ASSUME NEW a \in Lasting(n - 1)
          PROVE  Made(a) \in Hit(m, e[n]) <=> Deletion(e, a, n)
      <4>1. a \in 1 .. n - 1 /\ ~e[a].del
        BY Zenon DEF Standing
      <4>2. Numbered(r, a, n - 1)
        BY <2>1, <4>1, ObjectsNumbered
      <4>3. Made(a) \in m.cac
        BY <2>3
      <4>4. /\ Made(a).url = e[a].url /\ Made(a).nr = e[a].nr
            /\ Made(a).obj = Object(r, a)
        BY SMT DEF Recovered
      <4>5. Made(a) \in Hit(m, e[n]) <=>
              /\ e[a].url = e[n].url /\ e[a].nr = e[n].nr
              /\ Object(r, a) = m.objects[e[n].url]
        BY <4>3, <4>4, Zenon DEF Hit, Deletes
      <4>6. e[a].url = e[n].url =>
              (Object(r, a) = m.objects[e[n].url] <=>
                 \A k \in a + 1 .. n - 1 : e[k].url = e[a].url => e[k].del)
        BY <4>2, Zenon DEF Numbered, Found
      <4> QED
        BY <2>5, <4>5, <4>6, Zenon DEF Deletion
    <3>3. x.cac = m.cac \ Hit(m, e[n])
      BY <2>2, <2>5, ReadDeletion
    <3>4. ASSUME NEW a \in Lasting(n)
          PROVE  Made(a) \in x.cac
      BY <2>3, <3>1, <3>2, <3>3, Zenon
    <3>5. ASSUME NEW c \in x.cac
          PROVE  \E a \in Lasting(n) : c = Made(a)
      <4>1. PICK a \in Lasting(n - 1) : c = Made(a)
        BY <2>3, <3>3, Zenon
      <4>2. Made(a) \notin Hit(m, e[n])
        BY <3>3, <4>1, Zenon
      <4> QED
        BY <3>1, <3>2, <4>1, <4>2, Zenon
    <3> HIDE DEF x, m, Lasting, Made
    <3> QED
      BY <2>4, <3>4, <3>5, Zenon DEF x
  <2>6. CASE ~e[n].del
    <3>1. Lasting(n) = Lasting(n - 1) \cup
                       (IF e[n].url \in Expiring THEN {} ELSE {n})
      <4>1. Standing(e, n) = Standing(e, n - 1) \cup {n}
        BY <2>1, <2>6, StandingSteps
      <4> QED
        BY <4>1, Zenon
    <3>2. x.cac = IF e[n].url \in Expiring THEN m.cac
                  ELSE m.cac \cup {Made(n)}
      <4>1. Readentry(m, e[n]).cac =
              IF e[n].url \in Expiring THEN m.cac
              ELSE m.cac \cup
                {Recovered(e[n].url, Readentry(m, e[n]).objects[e[n].url],
                           e[n].nr)}
        <5> DEFINE d == e[n]
        <5>1. m \in Memories /\ d \in Entries /\ ~d.del
          BY <2>2, <2>6, Zenon
        <5> HIDE DEF m, d
        <5>2. Readentry(m, d).cac =
                IF d.url \in Expiring THEN m.cac
                ELSE m.cac \cup
                  {Recovered(d.url, Readentry(m, d).objects[d.url], d.nr)}
          BY <5>1, ReadAddition
        <5> QED
          BY <5>2, Zenon DEF d
      <4> QED
        BY <2>2, <4>1, Zenon DEF Object
    <3>3. CASE e[n].url \in Expiring
      BY <2>3, <2>4, <3>1, <3>2, <3>3, Zenon
    <3>4. CASE e[n].url \notin Expiring
      BY <2>3, <2>4, <3>1, <3>2, <3>4, Zenon
    <3> QED
      BY <3>3, <3>4
  <2> QED
    BY <2>5, <2>6
<1>4. \A n \in 1 .. z : n - 1 \in S => n \in S
  <2> SUFFICES ASSUME NEW n \in 1 .. z, n - 1 \in S PROVE n \in S
    OBVIOUS
  <2>1. n \in 0 .. z
    BY SMT
  <2> QED
    BY <1>3, <2>1, Zenon
<1>5. \A n \in 0 .. z : n \in S
  BY <1>1, <1>2, <1>4, UpTo, Zenon
<1> QED
  BY <1>5, Zenon

\* The last number known.
LEMMA NumbersKnown ==
  ASSUME NEW r, r.is = "readable", IsRegistry(r)
  PROVE  \A n \in 0 .. Len(r.entries) :
           /\ r.lastnr <= Upto(r)[n].cachenr
           /\ \A a \in 1 .. n :
                ~r.entries[a].del /\ r.entries[a].url \notin Expiring
                  => r.entries[a].nr <= Upto(r)[n].cachenr
<1> DEFINE e == r.entries
           z == Len(e)
           Knows(n) ==
             /\ r.lastnr <= Upto(r)[n].cachenr
             /\ \A a \in 1 .. n : ~e[a].del /\ e[a].url \notin Expiring
                                    => e[a].nr <= Upto(r)[n].cachenr
           S == {n \in 0 .. z : Knows(n)}
<1>1. /\ z \in Nat /\ \A i \in 1 .. z : e[i] \in Entries
      /\ \A i \in 0 .. z : Upto(r)[i] \in Memories
      /\ \A i \in 1 .. z : Upto(r)[i] = Readentry(Upto(r)[i - 1], e[i])
      /\ Upto(r)[0] = Begun(r) /\ r.lastnr \in 0 .. MaxNr
  BY ReadTypes, UptoSteps, SMT DEF IsRegistry, NoFile, Torn
<1>2. 0 \in S
  <2>1. Begun(r).cachenr = r.lastnr
    BY SMT DEF Begun, Empty
  <2> QED
    BY <1>1, <2>1, SMT
<1>3. ASSUME NEW n \in 1 .. z, Knows(n - 1)
      PROVE  Knows(n)
  <2> DEFINE m == Upto(r)[n - 1]
             x == Upto(r)[n]
  <2>1. /\ n - 1 \in 0 .. z /\ n \in 0 .. z
        /\ \A a \in 1 .. n : a \in 1 .. n - 1 \/ a = n
        /\ \A a \in 1 .. n - 1 : a \in 1 .. z
    BY <1>1, SMT
  <2>2. m \in Memories /\ x \in Memories /\ e[n] \in Entries
        /\ x = Readentry(m, e[n])
    BY <1>1, <2>1
  <2>3. m.cachenr \in 0 .. MaxNr /\ x.cachenr \in 0 .. MaxNr
    BY <2>2, MemoryIs
  <2>4. m.cachenr <= x.cachenr
    <3>1. CASE e[n].del
      <4>1. x.cachenr = m.cachenr
        BY <2>2, <3>1, ReadDeletion
      <4> QED
        BY <2>3, <4>1, RegistryAssumption, SMT
    <3>2. CASE ~e[n].del
      <4>1. x.cachenr >= m.cachenr
        BY <2>2, <3>2, ReadAddition
      <4> QED
        BY <2>3, <4>1, RegistryAssumption, SMT
    <3> QED
      BY <3>1, <3>2
  <2>5. ~e[n].del /\ e[n].url \notin Expiring => e[n].nr <= x.cachenr
    <3> SUFFICES ASSUME ~e[n].del, e[n].url \notin Expiring
                 PROVE  e[n].nr <= x.cachenr
      OBVIOUS
    <3>1. x.cachenr >= e[n].nr
      <4> HIDE DEF m, x
      <4> DEFINE f == e[n]
      <4>1. f \in Entries /\ ~f.del /\ f.url \notin Expiring /\ x = Readentry(m, f)
        BY <2>2
      <4> HIDE DEF f
      <4>2. Readentry(m, f).cachenr >= f.nr
        BY <2>2, <4>1, ReadAddition
      <4> QED
        BY <4>1, <4>2 DEF f
    <3> QED
      BY <2>2, <2>3, <3>1, RegistryAssumption, SMT DEF Entries, Numbers
  <2>6. \A a \in 1 .. n - 1 : e[a].nr \in Numbers
    BY <1>1, <2>1, SMT DEF Entries
  <2> HIDE DEF x, m
  <2>7. r.lastnr <= x.cachenr
    BY <1>1, <1>3, <2>3, <2>4, RegistryAssumption, SMT DEF m
  <2>8. \A a \in 1 .. n - 1 : ~e[a].del /\ e[a].url \notin Expiring
                                 => e[a].nr <= x.cachenr
    BY <1>3, <2>3, <2>4, <2>6, RegistryAssumption, SMT DEF m, Numbers
  <2> QED
    BY <2>1, <2>5, <2>7, <2>8, Zenon DEF x
<1>4. \A n \in 1 .. z : n - 1 \in S => n \in S
  <2> SUFFICES ASSUME NEW n \in 1 .. z, n - 1 \in S PROVE n \in S
    OBVIOUS
  <2>1. n \in 0 .. z
    BY SMT
  <2> QED
    BY <1>3, <2>1, Zenon
<1>5. \A n \in 0 .. z : n \in S
  BY <1>1, <1>2, <1>4, UpTo, Zenon
<1> QED
  BY <1>5, Zenon

\* A start reads exactly what a registration means, of every length: the caches
\* that are made of it stand for the documents it names, as far as they have
\* not expired, and their numbers are known.
MeansWhatIsRead(r) ==
  LET m == Readcachereg(r)
  IN  /\ {<<c.url, c.nr>> : c \in m.cac} =
           {d \in Documents(r) : d[1] \notin Expiring}
      /\ \A c \in m.cac : c.nr <= m.cachenr

THEOREM ReadIsMeant ==
  ASSUME NEW r, IsRegistry(r)
  PROVE  MeansWhatIsRead(r)
<1>1. CASE r.is # "readable"
  <2>1. Readcachereg(r) = Empty /\ Documents(r) = {}
    BY <1>1, Zenon DEF Readcachereg, Documents
  <2>2. Empty.cac = {}
    BY SMT DEF Empty
  <2> QED
    BY <2>1, <2>2, Zenon DEF MeansWhatIsRead
<1>2. CASE r.is = "readable"
  <2> DEFINE e == r.entries
             z == Len(e)
             m == Upto(r)[z]
             Lasting == {a \in Standing(e, z) : e[a].url \notin Expiring}
             Made(a) == Recovered(e[a].url, Object(r, a), e[a].nr)
  <2>1. Readcachereg(r) = m
    BY <1>2, ReadsUpto
  <2>2. z \in 0 .. z
    BY <1>2, ReadTypes, SMT
  <2>3. m.cac = {Made(a) : a \in Lasting}
    BY <1>2, <2>2, KeptIsRead DEF Kept
  <2>4. \A a : Made(a).url = e[a].url /\ Made(a).nr = e[a].nr
    BY SMT DEF Recovered
  <2>5. Documents(r) = {<<e[a].url, e[a].nr>> : a \in Standing(e, z)}
    BY <1>2, DocumentsAre
  <2>6. \A a : <<e[a].url, e[a].nr>>[1] = e[a].url
    BY SMT
  <2>7. \A a \in Lasting : e[a].nr <= m.cachenr
    <3>1. \A a \in Lasting : a \in 1 .. z /\ ~e[a].del
      BY Zenon DEF Standing
    <3> QED
      BY <1>2, <2>2, <3>1, NumbersKnown
  <2> HIDE DEF Made, m
  <2>8. {<<c.url, c.nr>> : c \in m.cac} =
          {<<e[a].url, e[a].nr>> : a \in Lasting}
    <3>1. \A a \in Lasting : Made(a) \in m.cac
      BY <2>3, Zenon
    <3>2. \A c \in m.cac : \E a \in Lasting : c = Made(a)
      BY <2>3, Zenon
    <3>3. \A c \in m.cac : \E a \in Lasting :
            <<c.url, c.nr>> = <<e[a].url, e[a].nr>>
      BY <2>4, <3>2, Zenon
    <3>4. \A a \in Lasting : \E c \in m.cac :
            <<c.url, c.nr>> = <<e[a].url, e[a].nr>>
      BY <2>4, <3>1, Zenon
    <3> DEFINE A == {<<c.url, c.nr>> : c \in m.cac}
               B == {<<e[a].url, e[a].nr>> : a \in Lasting}
    <3>5. \A d \in A : d \in B
      BY <3>3, Zenon
    <3>6. \A d \in B : d \in A
      BY <3>4, Zenon
    <3> HIDE DEF A, B
    <3>7. A = B
      BY <3>5, <3>6, Zenon
    <3> QED
      BY <3>7 DEF A, B
  <2>9. {d \in Documents(r) : d[1] \notin Expiring} =
          {<<e[a].url, e[a].nr>> : a \in Lasting}
    BY <2>5, <2>6, Zenon
  <2>10. \A c \in m.cac : c.nr <= m.cachenr
    BY <2>3, <2>4, <2>7, Zenon
  <2> QED
    BY <2>1, <2>8, <2>9, <2>10, Zenon DEF MeansWhatIsRead
<1> QED
  BY <1>1, <1>2

-----------------------------------------------------------------------------
(* Sequences of steps.                                                     *)

LEMMA SetToSeqIs ==
  ASSUME NEW S, IsFiniteSet(S)
  PROVE  /\ SetToSeq(S) \in Seq(S)
         /\ \A x \in S : \E i \in 1 .. Len(SetToSeq(S)) : SetToSeq(S)[i] = x
<1> DEFINE n == Cardinality(S)
           s == SetToSeq(S)
<1>1. n \in Nat /\ ExistsBijection(1 .. n, S)
  BY FS_CardinalityType
<1>2. PICK f : f \in Bijection(1 .. n, S)
  BY <1>1 DEF ExistsBijection
<1>3. f \in [1 .. n -> S] /\ IsInjective(f)
  BY <1>2, Zenon DEF Bijection, Injection
<1>4. s \in [1 .. n -> S] /\ IsInjective(s)
  BY <1>3, Zenon DEF SetToSeq
<1>5. s \in Seq(S) /\ Len(s) = n
  BY <1>1, <1>4, SMT
<1>6. IsFiniteSet(1 .. n) /\ Cardinality(1 .. n) = n
  BY <1>1, FS_Interval, SMT
<1>7. s \in Surjection(1 .. n, S)
  <2>1. s \in Injection(1 .. n, S)
    BY <1>4, Zenon DEF Injection
  <2> QED
    BY <1>6, <2>1, FS_Injection
<1> QED
  BY <1>5, <1>7, Zenon DEF Surjection

\* The steps that a handler ends with, those that only begin a job, those that
\* any step may follow.  A number is left for the new object if k is the last.
Final == {"new", "eof", "restore", "exit"}
Fitting(k) == {s \in Steps : s.do = "new" => k < MaxNr}
Later(k) == {s \in Fitting(k) : /\ s.do \notin {"purge", "create", "header"}
                                /\ s.do = "append" => s.entry.del}
Plain == {s \in Later(0) : s.do \notin Final \cup {"open", "close"}}

Shape(q) ==
  \A i \in 1 .. Len(q) :
    /\ q[i].do \in Final => i = Len(q)
    /\ q[i].do = "open" => i < Len(q) /\ q[i + 1].do = "close"
    /\ q[i].do \in {"close", "purge"} =>
         i < Len(q) /\ q[i + 1].do \in {"rename", "exit"}

JobOK(q, k) == /\ q \in Seq(Fitting(k)) /\ Shape(q)
               /\ q # << >> => Tail(q) \in Seq(Later(k))

LEMMA StepIs ==
  /\ \A do \in {"open", "close", "purge", "discard", "rename", "create",
                "header", "exit"} : Step(do) \in Steps /\ Step(do).do = do
  /\ \A n \in Numbers : [do |-> "unlink", nr |-> n] \in Steps
  /\ \A e \in Entries : [do |-> "append", entry |-> e] \in Steps
  /\ \A c \in Caches : [do |-> "dispose", cac |-> c] \in Steps
  /\ \A do \in {"new", "eof", "restore"}, u \in Urls :
       [do |-> do, url |-> u] \in Steps
<1>1. \A do \in {"open", "close", "purge", "discard", "rename", "create",
                 "header", "exit"} : Step(do) \in Steps /\ Step(do).do = do
  BY SMT DEF Step, Steps
<1>2. \A n \in Numbers : [do |-> "unlink", nr |-> n] \in Steps
  BY SMT DEF Steps
<1>3. \A e \in Entries : [do |-> "append", entry |-> e] \in Steps
  BY SMT DEF Steps
<1>4. \A c \in Caches : [do |-> "dispose", cac |-> c] \in Steps
  BY SMT DEF Steps
<1>5. \A do \in {"new", "eof", "restore"}, u \in Urls :
        [do |-> do, url |-> u] \in Steps
  BY SMT DEF Steps
<1> QED
  BY <1>1, <1>2, <1>3, <1>4, <1>5

LEMMA StepHas ==
  ASSUME NEW s \in Steps
  PROVE  /\ s.do = "unlink" => s.nr \in Numbers
         /\ s.do = "append" => s.entry \in Entries
         /\ s.do = "dispose" => s.cac \in Caches
         /\ s.do \in {"new", "eof", "restore"} => s.url \in Urls
  BY SMT DEF Steps

LEMMA LaterIsStep ==
  ASSUME NEW k, NEW q \in Seq(Later(k))
  PROVE  q \in Seq(Fitting(k))
<1>1. Later(k) \subseteq Fitting(k)
  BY DEF Later
<1> QED
  BY <1>1, SeqMonotonic

LEMMA PlainIsLater ==
  ASSUME NEW k, NEW q \in Seq(Plain)
  PROVE  q \in Seq(Later(k)) /\ q \in Seq(Fitting(k))
<1>1. Plain \subseteq Later(k)
  BY Zenon DEF Plain, Later, Fitting, Final
<1> QED
  BY <1>1, SeqMonotonic, LaterIsStep

LEMMA PlainShape ==
  ASSUME NEW q \in Seq(Plain)
  PROVE  Shape(q)
<1>1. \A i \in 1 .. Len(q) : q[i] \in Plain
  BY ElementOfSeq
<1> QED
  BY <1>1, Zenon DEF Shape, Plain, Later

LEMMA LaterJob ==
  ASSUME NEW k, NEW q \in Seq(Later(k)), Shape(q)
  PROVE  JobOK(q, k)
  BY LaterIsStep, HeadTailProperties, Zenon DEF JobOK

\* What is left of a job, and what its first step says of the next.
LEMMA JobTail ==
  ASSUME NEW k, NEW q, JobOK(q, k), q # << >>
  PROVE  /\ Head(q) \in Fitting(k)
         /\ Tail(q) \in Seq(Later(k)) /\ Shape(Tail(q)) /\ JobOK(Tail(q), k)
         /\ Head(q).do \in Final => Tail(q) = << >>
         /\ Head(q).do = "open" =>
              Tail(q) # << >> /\ Head(Tail(q)).do = "close"
         /\ Head(q).do \in {"close", "purge"} =>
              Tail(q) # << >> /\ Head(Tail(q)).do \in {"rename", "exit"}
<1> DEFINE t == Tail(q)
<1>1. q \in Seq(Fitting(k)) /\ Shape(q) /\ t \in Seq(Later(k))
  BY DEF JobOK
<1>2. /\ Len(q) \in Nat /\ Len(q) > 0 /\ Head(q) = q[1] /\ Head(q) \in Fitting(k)
      /\ Len(t) = Len(q) - 1 /\ \A i \in 1 .. Len(t) : t[i] = q[i + 1]
      /\ t # << >> => Head(t) = t[1] /\ 1 \in 1 .. Len(t)
      /\ Len(t) = 0 => t = << >>
  <2>1. Len(q) \in Nat /\ Len(q) > 0 /\ Head(q) = q[1] /\ Head(q) \in Fitting(k)
    BY <1>1, SMT
  <2>2. Len(t) = Len(q) - 1 /\ \A i \in 1 .. Len(t) : t[i] = q[i + 1]
    BY <1>1, HeadTailProperties
  <2> HIDE DEF t
  <2>3. /\ t # << >> => Head(t) = t[1] /\ 1 \in 1 .. Len(t)
        /\ Len(t) = 0 => t = << >>
    BY <1>1, SMT
  <2> QED
    BY <2>1, <2>2, <2>3
<1> HIDE DEF t
<1>3. Shape(t)
  <2> SUFFICES ASSUME NEW i \in 1 .. Len(t)
               PROVE  /\ t[i].do \in Final => i = Len(t)
                      /\ t[i].do = "open" =>
                           i < Len(t) /\ t[i + 1].do = "close"
                      /\ t[i].do \in {"close", "purge"} =>
                           i < Len(t) /\ t[i + 1].do \in {"rename", "exit"}
    BY DEF Shape
  <2>1. i + 1 \in 1 .. Len(q) /\ t[i] = q[i + 1]
    BY <1>2, SMT
  <2>2. i < Len(t) => t[i + 1] = q[(i + 1) + 1]
    BY <1>2, SMT
  <2>3. /\ q[i + 1].do \in Final => i + 1 = Len(q)
        /\ q[i + 1].do = "open" =>
             i + 1 < Len(q) /\ q[(i + 1) + 1].do = "close"
        /\ q[i + 1].do \in {"close", "purge"} =>
             i + 1 < Len(q) /\ q[(i + 1) + 1].do \in {"rename", "exit"}
    BY <1>1, <2>1, Zenon DEF Shape
  <2>4. (i + 1 = Len(q) <=> i = Len(t)) /\ (i + 1 < Len(q) <=> i < Len(t))
    BY <1>2, SMT
  <2> QED
    BY <2>1, <2>2, <2>3, <2>4, Zenon
<1>4. /\ q[1].do \in Final => 1 = Len(q)
      /\ q[1].do = "open" => 1 < Len(q) /\ q[1 + 1].do = "close"
      /\ q[1].do \in {"close", "purge"} =>
           1 < Len(q) /\ q[1 + 1].do \in {"rename", "exit"}
  <2>1. 1 \in 1 .. Len(q)
    BY <1>2, SMT
  <2> QED
    BY <1>1, <2>1, Zenon DEF Shape
<1>5. 1 < Len(q) => t # << >> /\ t[1] = q[1 + 1]
  BY <1>1, <1>2, SMT
<1>6. 1 = Len(q) => t = << >>
  BY <1>2, SMT
<1> QED
  BY <1>1, <1>2, <1>3, <1>4, <1>5, <1>6, LaterJob, Zenon DEF t

LEMMA ShapeJoins ==
  ASSUME NEW k, NEW p \in Seq(Plain), NEW q \in Seq(Later(k)), Shape(q)
  PROVE  p \o q \in Seq(Later(k)) /\ Shape(p \o q)
<1> DEFINE r == p \o q
<1>1. /\ p \in Seq(Later(k))
      /\ Len(p) \in Nat /\ Len(q) \in Nat
      /\ \A i \in 1 .. Len(p) : p[i] \in Plain
  BY PlainIsLater, ElementOfSeq, LenProperties
<1>2. /\ r \in Seq(Later(k)) /\ Len(r) = Len(p) + Len(q)
      /\ \A i \in 1 .. Len(p) + Len(q) :
           r[i] = IF i <= Len(p) THEN p[i] ELSE q[i - Len(p)]
  BY <1>1, ConcatProperties
<1> HIDE DEF r
<1>3. ASSUME NEW i \in 1 .. Len(r)
      PROVE  /\ r[i].do \in Final => i = Len(r)
             /\ r[i].do = "open" => i < Len(r) /\ r[i + 1].do = "close"
             /\ r[i].do \in {"close", "purge"} =>
                  i < Len(r) /\ r[i + 1].do \in {"rename", "exit"}
  <2>1. CASE i <= Len(p)
    <3>1. r[i] \in Plain
      BY <1>1, <1>2, <2>1, SMT
    <3> QED
      BY <3>1, Zenon DEF Plain, Later
  <2>2. CASE ~(i <= Len(p))
    <3> DEFINE j == i - Len(p)
    <3>1. /\ j \in 1 .. Len(q) /\ r[i] = q[j]
          /\ j < Len(q) <=> i < Len(r)
          /\ j = Len(q) <=> i = Len(r)
          /\ j < Len(q) => r[i + 1] = q[j + 1]
      BY <1>1, <1>2, <2>2, SMT
    <3> HIDE DEF j
    <3> QED
      BY <3>1, Zenon DEF Shape
  <2> QED
    BY <2>1, <2>2
<1> QED
  BY <1>2, <1>3, Zenon DEF Shape, r

LEMMA SaveJoins ==
  ASSUME NEW k, NEW q \in Seq(Later(k)), Shape(q)
  PROVE  Save \o q \in Seq(Later(k)) /\ Shape(Save \o q)
<1> DEFINE r == Save \o q
<1>1. /\ Save \in Seq(Later(k)) /\ Len(Save) = 3
      /\ Save[1].do = "open" /\ Save[2].do = "close" /\ Save[3].do = "rename"
  <2>1. \A do \in {"open", "close", "rename"} :
          Step(do) \in Later(k) /\ Step(do).do = do
    BY StepIs, Zenon DEF Later, Fitting
  <2> DEFINE a == Step("open")
             b == Step("close")
             c == Step("rename")
  <2>2. Save = <<a, b, c>>
    BY Zenon DEF Save
  <2>3. /\ a \in Later(k) /\ b \in Later(k) /\ c \in Later(k)
        /\ a.do = "open" /\ b.do = "close" /\ c.do = "rename"
    BY <2>1, Zenon
  <2> HIDE DEF a, b, c
  <2> QED
    BY <2>2, <2>3, SMT
<1>2. /\ r \in Seq(Later(k)) /\ Len(r) = 3 + Len(q)
      /\ \A i \in 1 .. 3 + Len(q) :
           r[i] = IF i <= 3 THEN Save[i] ELSE q[i - 3]
      /\ Len(q) \in Nat
  <2>1. /\ r \in Seq(Later(k)) /\ Len(r) = Len(Save) + Len(q)
        /\ \A i \in 1 .. Len(Save) + Len(q) :
             r[i] = IF i <= Len(Save) THEN Save[i] ELSE q[i - Len(Save)]
    BY <1>1, ConcatProperties
  <2>2. Len(q) \in Nat
    BY LenProperties
  <2> HIDE DEF r
  <2> QED
    BY <1>1, <2>1, <2>2, Zenon
<1> HIDE DEF r
<1>3. ASSUME NEW i \in 1 .. Len(r)
      PROVE  /\ r[i].do \in Final => i = Len(r)
             /\ r[i].do = "open" => i < Len(r) /\ r[i + 1].do = "close"
             /\ r[i].do \in {"close", "purge"} =>
                  i < Len(r) /\ r[i + 1].do \in {"rename", "exit"}
  <2>1. CASE i <= 3
    <3>1. r[1] = Save[1] /\ r[2] = Save[2] /\ r[3] = Save[3]
      BY <1>2, SMT
    <3>2. i \in {1, 2, 3} /\ (i # 3 => i < Len(r)) /\ 1 + 1 = 2 /\ 2 + 1 = 3
      BY <1>2, <2>1, SMT
    <3> QED
      BY <1>1, <3>1, <3>2, Zenon DEF Final
  <2>2. CASE ~(i <= 3)
    <3> DEFINE j == i - 3
    <3>1. /\ j \in 1 .. Len(q) /\ r[i] = q[j]
          /\ j < Len(q) <=> i < Len(r)
          /\ j = Len(q) <=> i = Len(r)
          /\ j < Len(q) => r[i + 1] = q[j + 1]
      BY <1>2, <2>2, SMT
    <3> HIDE DEF j
    <3> QED
      BY <3>1, Zenon DEF Shape
  <2> QED
    BY <2>1, <2>2
<1> QED
  BY <1>2, <1>3, Zenon DEF Shape, r

LEMMA StepJoins ==
  ASSUME NEW k, NEW s \in Fitting(k), NEW t \in Seq(Later(k)), Shape(t),
         s.do \notin Final, s.do # "open",
         s.do \in {"close", "purge"} =>
           t # << >> /\ Head(t).do \in {"rename", "exit"}
  PROVE  JobOK(<<s>> \o t, k)
<1> DEFINE q == <<s>> \o t
<1>1. t \in Seq(Fitting(k))
  BY LaterIsStep
<1>2. /\ q \in Seq(Fitting(k)) /\ Len(q) = 1 + Len(t) /\ Tail(q) = t
      /\ q[1] = s /\ \A i \in 1 .. Len(t) : q[i + 1] = t[i]
      /\ t # << >> => q[2] = Head(t) /\ Len(t) > 0
      /\ Len(t) \in Nat
  BY <1>1, SMT
<1> HIDE DEF q
<1>3. ASSUME NEW i \in 1 .. Len(q)
      PROVE  /\ q[i].do \in Final => i = Len(q)
             /\ q[i].do = "open" => i < Len(q) /\ q[i + 1].do = "close"
             /\ q[i].do \in {"close", "purge"} =>
                  i < Len(q) /\ q[i + 1].do \in {"rename", "exit"}
  <2>1. CASE i = 1
    <3>1. (t # << >> => 1 < Len(q)) /\ 1 + 1 = 2
      BY <1>2, SMT
    <3> QED
      BY <1>2, <2>1, <3>1, Zenon
  <2>2. CASE i # 1
    <3> DEFINE j == i - 1
    <3>1. /\ j \in 1 .. Len(t) /\ i = j + 1
          /\ j < Len(t) <=> i < Len(q)
          /\ j = Len(t) <=> i = Len(q)
          /\ j < Len(t) => j + 1 \in 1 .. Len(t)
      BY <1>2, <2>2, SMT
    <3> HIDE DEF j
    <3>2. q[i] = t[j] /\ (j < Len(t) => q[i + 1] = t[j + 1])
      BY <1>2, <3>1, Zenon
    <3> QED
      BY <3>1, <3>2, Zenon DEF Shape
  <2> QED
    BY <2>1, <2>2
<1> QED
  BY <1>2, <1>3, Zenon DEF JobOK, Shape, q

LEMMA DisposePlain ==
  ASSUME NEW c \in Caches
  PROVE  Disposecache(c) \in Seq(Plain)
<1> DEFINE a == [do |-> "unlink", nr |-> c.nr]
           b == [do |-> "append", entry |-> Entry(TRUE, c)]
<1>1. c.nr \in Numbers /\ c.url \in Urls
  BY SMT DEF Caches
<1>2. Entry(TRUE, c) \in Entries /\ Entry(TRUE, c).del
  BY <1>1, SMT DEF Entry, Entries
<1>3. a \in Steps /\ b \in Steps
  BY <1>1, <1>2, StepIs, Zenon
<1>4. a.do = "unlink" /\ b.do = "append" /\ b.entry.del
  <2>1. b.entry = Entry(TRUE, c)
    BY SMT
  <2>2. a.do = "unlink" /\ b.do = "append"
    BY SMT
  <2>3. b.entry.del
    BY <1>2, <2>1, Zenon
  <2> QED
    BY <2>2, <2>3
<1>5. a \in Plain /\ b \in Plain
  BY <1>3, <1>4, Zenon DEF Plain, Later, Fitting, Final
<1>6. Disposecache(c) = IF c.stage = "new" THEN << >> ELSE <<a>> \o <<b>>
  BY Zenon DEF Disposecache, Addregentry
<1> HIDE DEF a, b
<1>7. <<a>> \in Seq(Plain) /\ <<b>> \in Seq(Plain) /\ << >> \in Seq(Plain)
  BY <1>5, SMT
<1>8. <<a>> \o <<b>> \in Seq(Plain)
  BY <1>7, ConcatProperties
<1> QED
  BY <1>6, <1>7, <1>8, Zenon

LEMMA ClearPlain ==
  ASSUME NEW S \in SUBSET Caches, IsFiniteSet(S)
  PROVE  Clearobject(S) \in Seq(Plain)
<1> DEFINE s == SetToSeq(S)
           d(i) == [do |-> "dispose", cac |-> s[i]]
<1>1. s \in Seq(S)
  BY SetToSeqIs
<1>2. Len(s) \in Nat /\ \A i \in 1 .. Len(s) : s[i] \in Caches
  BY <1>1, LenProperties, ElementOfSeq
<1>3. \A i \in 1 .. Len(s) : d(i) \in Plain
  <2> SUFFICES ASSUME NEW i \in 1 .. Len(s) PROVE d(i) \in Plain
    OBVIOUS
  <2>1. d(i) \in Steps
    BY <1>2, StepIs, Zenon
  <2>2. d(i).do = "dispose"
    BY SMT
  <2> QED
    BY <2>1, <2>2, Zenon DEF Plain, Later, Fitting, Final
<1>4. Clearobject(S) = [i \in 1 .. Len(s) |-> d(i)]
  BY Zenon DEF Clearobject
<1> HIDE DEF d
<1>5. [i \in 1 .. Len(s) |-> d(i)] \in Seq(Plain)
  BY <1>2, <1>3, SMT
<1> QED
  BY <1>4, <1>5

LEMMA FixPlain ==
  Fixcachedir \in Seq(Plain)
<1> DEFINE S == {n \in Numbers : /\ file[n] # "none"
                                 /\ \A c \in Named : c.nr # n}
           s == SetToSeq(S)
           d(i) == [do |-> "unlink", nr |-> s[i]]
<1>1. IsFiniteSet(S)
  <2>1. IsFiniteSet(Numbers)
    BY RegistryAssumption, FS_Interval, SMT DEF Numbers
  <2>2. S \in SUBSET Numbers
    BY Zenon
  <2> HIDE DEF S
  <2> QED
    BY <2>1, <2>2, FS_Subset
<1>2. s \in Seq(S)
  BY <1>1, SetToSeqIs
<1>3. Len(s) \in Nat /\ \A i \in 1 .. Len(s) : s[i] \in Numbers
  BY <1>2, LenProperties, ElementOfSeq
<1>4. \A i \in 1 .. Len(s) : d(i) \in Plain
  <2> SUFFICES ASSUME NEW i \in 1 .. Len(s) PROVE d(i) \in Plain
    OBVIOUS
  <2>1. d(i) \in Steps
    BY <1>3, StepIs, Zenon
  <2>2. d(i).do = "unlink"
    BY SMT
  <2> QED
    BY <2>1, <2>2, Zenon DEF Plain, Later, Fitting, Final
<1>5. Fixcachedir = [i \in DOMAIN s |-> d(i)]
  BY Zenon DEF Fixcachedir
<1>6. DOMAIN s = 1 .. Len(s)
  BY <1>2, LenProperties
<1> HIDE DEF d
<1>7. [i \in 1 .. Len(s) |-> d(i)] \in Seq(Plain)
  BY <1>3, <1>4, SMT
<1> QED
  BY <1>5, <1>6, <1>7

LEMMA EndShape ==
  ASSUME NEW k, NEW s \in Later(k), s.do \in Final
  PROVE  <<s>> \in Seq(Later(k)) /\ Shape(<<s>>)
<1>1. <<s>> \in Seq(Later(k)) /\ Len(<<s>>) = 1 /\ <<s>>[1] = s
  BY SMT
<1>2. \A i \in 1 .. 1 : i = 1
  BY SMT
<1> QED
  BY <1>1, <1>2, Zenon DEF Shape, Final

LEMMA ForShape ==
  ASSUME NEW k, NEW do \in {"new", "eof", "restore"}, NEW u \in Urls,
         do = "new" => k < MaxNr
  PROVE  For(do, u) \in Seq(Later(k)) /\ Shape(For(do, u))
<1> DEFINE s == [do |-> do, url |-> u]
<1>1. s \in Steps
  BY StepIs, Zenon
<1>2. s.do = do
  BY SMT
<1> HIDE DEF s
<1>3. s \in Later(k) /\ s.do \in Final
  BY <1>1, <1>2, Zenon DEF Later, Fitting, Final
<1>4. For(do, u) = <<s>>
  BY Zenon DEF For, s
<1> QED
  BY <1>3, <1>4, EndShape, Zenon

LEMMA SaveShape ==
  ASSUME NEW k
  PROVE  Save \in Seq(Later(k)) /\ Shape(Save)
<1>1. << >> \in Seq(Later(k)) /\ << >> \in Seq(Plain)
  BY SMT
<1>2. Shape(<< >>)
  BY <1>1, PlainShape, Zenon
<1>3. Save \o << >> \in Seq(Later(k)) /\ Shape(Save \o << >>)
  BY <1>1, <1>2, SaveJoins, Zenon
<1>4. Save \o << >> = Save
  BY SMT DEF Save
<1> QED
  BY <1>3, <1>4

-----------------------------------------------------------------------------
(* What the variables hold.                                                *)

TypeInv == TypeOK /\ IsFiniteSet(cac) /\ JobOK(job, cachenr)

\* What the main task begins when it is free.
Begins ==
  \/ \E u \in Urls : \/ Load(u) \/ Terminate(u) \/ Error(u) \/ Dupcheck(u)
                     \/ \E t \in BOOLEAN : Eof(u, t)
  \/ \E c \in cac : Deletecache(c)
  \/ \E chosen \in SUBSET cac \ {{}} : Flushtype(chosen)
  \/ Fixcache \/ Exitcache

LEMMA BeginsJob ==
  ASSUME TypeInv, Begins
  PROVE  /\ up /\ job = << >> /\ UNCHANGED <<disk, memory, failures>>
         /\ job' \in Seq(Later(cachenr)) /\ Shape(job')
<1> DEFINE Good(q) == q \in Seq(Later(cachenr)) /\ Shape(q)
           Takes(q) == Ready /\ Good(q) /\ Start(q)
<1>1. SUFFICES \E q : Takes(q)
  BY <1>1, Zenon DEF Start, Ready
<1>2. \A S \in SUBSET cac : Clearobject(S) \in Seq(Plain)
  <2> SUFFICES ASSUME NEW S \in SUBSET cac PROVE Clearobject(S) \in Seq(Plain)
    OBVIOUS
  <2>1. IsFiniteSet(S) /\ S \in SUBSET Caches
    BY FS_Subset DEF TypeInv, TypeOK
  <2> QED
    BY <2>1, ClearPlain
<1>3. \A u : Replaced(u) \in SUBSET cac /\ Held(u) \in SUBSET cac
             /\ Older(u) \in SUBSET cac
  BY Zenon DEF Replaced, Held, Mine, Older
<1>4. \A p \in Seq(Plain) : Good(p)
  BY PlainShape, PlainIsLater
<1>5. \A p \in Seq(Plain) : \A q : Good(q) => Good(p \o q)
  BY ShapeJoins
<1>6. << >> \in Seq(Plain)
  BY SMT
<1>7. ASSUME NEW u \in Urls, Load(u) PROVE \E q : Takes(q)
  <2>1. Good(For("new", u))
    BY <1>7, ForShape DEF Load
  <2>2. Good(Clearobject(Replaced(u)) \o For("new", u))
    BY <1>2, <1>3, <1>5, <2>1, Zenon
  <2> QED
    BY <1>7, <2>2, Zenon DEF Load
<1>8. ASSUME NEW u \in Urls, NEW t \in BOOLEAN, Eof(u, t)
      PROVE  \E q : Takes(q)
  <2> DEFINE p == IF t THEN Clearobject(Replaced(u)) ELSE << >>
  <2>1. Good(For("eof", u))
    BY ForShape
  <2>2. p \in Seq(Plain)
    BY <1>2, <1>3, <1>6, Zenon
  <2>3. Good(p \o For("eof", u))
    BY <1>5, <2>1, <2>2, Zenon
  <2> QED
    BY <1>8, <2>3, Zenon DEF Eof
<1>9. ASSUME NEW u \in Urls, Terminate(u) PROVE \E q : Takes(q)
  BY <1>2, <1>3, <1>4, <1>9, Zenon DEF Terminate
<1>10. ASSUME NEW u \in Urls, Error(u) PROVE \E q : Takes(q)
  <2>1. Good(For("restore", u))
    BY ForShape
  <2>2. Good(Clearobject(Held(u)) \o For("restore", u))
    BY <1>2, <1>3, <1>5, <2>1, Zenon
  <2> QED
    BY <1>10, <2>2, Zenon DEF Error
<1>11. ASSUME NEW u \in Urls, Dupcheck(u) PROVE \E q : Takes(q)
  BY <1>2, <1>3, <1>4, <1>11, Zenon DEF Dupcheck
<1>12. ASSUME NEW c \in cac, Deletecache(c) PROVE \E q : Takes(q)
  <2>1. {c} \in SUBSET cac
    BY Zenon
  <2> QED
    BY <1>2, <1>4, <1>12, <2>1, Zenon DEF Deletecache
<1>13. ASSUME NEW chosen \in SUBSET cac \ {{}}, Flushtype(chosen)
       PROVE  \E q : Takes(q)
  <2> DEFINE S == {c \in cac : c.held /\ \E d \in chosen :
                                  d.url = c.url /\ d.obj = c.obj}
  <2>1. S \in SUBSET cac
    BY Zenon
  <2> QED
    BY <1>2, <1>4, <1>13, <2>1, Zenon DEF Flushtype
<1>14. ASSUME Fixcache PROVE \E q : Takes(q)
  <2> DEFINE search == <<Step("discard")>> \o Fixcachedir
             Bad(owners) == {c \in cac : /\ c.held
                                         /\ \E d \in Named \ owners :
                                              d.url = c.url /\ d.obj = c.obj}
  <2>1. PICK owners \in FileOwners :
          \/ Start(search \o Clearobject(Bad(owners)) \o Save)
          \/ \E n \in DOMAIN search : Start(SubSeq(search, 1, n))
    BY <1>14, Zenon DEF Fixcache
  <2>2. Step("discard") \in Plain
    BY StepIs, Zenon DEF Plain, Later, Fitting, Final
  <2>3. search \in Seq(Plain)
    <3>1. <<Step("discard")>> \in Seq(Plain)
      BY <2>2, SMT
    <3> QED
      BY <3>1, FixPlain, ConcatProperties
  <2> HIDE DEF search
  <2>4. CASE Start(search \o Clearobject(Bad(owners)) \o Save)
    <3>1. Clearobject(Bad(owners)) \in Seq(Plain)
      BY <1>2, Zenon
    <3>2. search \o Clearobject(Bad(owners)) \in Seq(Plain)
      BY <2>3, <3>1, ConcatProperties
    <3>3. Good(Save)
      BY SaveShape
    <3>4. Good(search \o Clearobject(Bad(owners)) \o Save)
      BY <1>5, <3>2, <3>3
    <3> QED
      BY <1>14, <2>4, <3>4, Zenon DEF Fixcache
  <2>5. CASE \E n \in DOMAIN search : Start(SubSeq(search, 1, n))
    <3>1. PICK n \in DOMAIN search : Start(SubSeq(search, 1, n))
      BY <2>5
    <3>2. n \in Int /\ \A i \in 1 .. n : search[i] \in Plain
      BY <2>3, SMT
    <3>3. SubSeq(search, 1, n) \in Seq(Plain)
      BY <3>2, SubSeqProperties, SMT
    <3> QED
      BY <1>4, <1>14, <3>1, <3>3, Zenon DEF Fixcache
  <2> QED
    BY <2>1, <2>4, <2>5
<1>15. ASSUME Exitcache PROVE \E q : Takes(q)
  <2> DEFINE a == Step("open")
             b == Step("close")
             c == Step("exit")
             q == <<a, b, c>>
             k == cachenr
  <2>1. /\ a \in Later(k) /\ b \in Later(k) /\ c \in Later(k)
        /\ a.do = "open" /\ b.do = "close" /\ c.do = "exit"
    BY StepIs, Zenon DEF Later, Fitting
  <2>2. Start(q)
    BY <1>15, Zenon DEF Exitcache, Start
  <2> HIDE DEF a, b, c, k
  <2>3. q \in Seq(Later(k)) /\ Len(q) = 3 /\ q[1] = a /\ q[2] = b /\ q[3] = c
    BY <2>1, SMT
  <2>4. \A i \in 1 .. 3 : i \in {1, 2, 3} /\ (i # 3 => i < 3)
        /\ 1 + 1 = 2 /\ 2 + 1 = 3
    BY SMT
  <2> HIDE DEF q
  <2>5. Shape(q)
    BY <2>1, <2>3, <2>4, Zenon DEF Shape, Final
  <2> QED
    BY <1>15, <2>2, <2>3, <2>5, Zenon DEF Exitcache, k
<1> QED
  BY <1>7, <1>8, <1>9, <1>10, <1>11, <1>12, <1>13, <1>14, <1>15, Zenon DEF Begins

-----------------------------------------------------------------------------
(* What a write leaves of AWCU.                                            *)

Log(n, s, p) == [is |-> "readable", lastnr |-> n, entries |-> s, piece |-> p]

LEMMA LogIs ==
  ASSUME NEW n \in 0 .. MaxNr, NEW s \in Seq(Entries), NEW p \in Pieces
  PROVE  /\ IsRegistry(Log(n, s, p)) /\ Log(n, s, p).is = "readable"
         /\ Log(n, s, p).lastnr = n /\ Log(n, s, p).entries = s
         /\ Log(n, s, p).piece = p
  BY SMT DEF Log, IsRegistry

LEMMA LogParts ==
  ASSUME NEW r, IsRegistry(r), r.is = "readable"
  PROVE  /\ r.lastnr \in 0 .. MaxNr /\ r.entries \in Seq(Entries)
         /\ r.piece \in Pieces
         /\ \A s : [r EXCEPT !.entries = s] = Log(r.lastnr, s, r.piece)
         /\ \A p : [r EXCEPT !.piece = p] = Log(r.lastnr, r.entries, p)
         /\ \A s, p : [r EXCEPT !.entries = s, !.piece = p] = Log(r.lastnr, s, p)
<1>1. r \in [is : {"readable"}, lastnr : 0 .. MaxNr, entries : Seq(Entries),
             piece : Pieces]
  BY SMT DEF IsRegistry, NoFile, Torn
<1>2. /\ r = Log(r.lastnr, r.entries, r.piece)
      /\ r.lastnr \in 0 .. MaxNr /\ r.entries \in Seq(Entries)
      /\ r.piece \in Pieces
  BY <1>1, SMT DEF Log
<1> DEFINE n == r.lastnr
           e == r.entries
           q == r.piece
<1>3. r = Log(n, e, q)
  BY <1>2
<1> HIDE DEF n, e, q
<1>4. \A s : [r EXCEPT !.entries = s] = Log(n, s, q)
  BY <1>3, SMT DEF Log
<1>5. \A p : [r EXCEPT !.piece = p] = Log(n, e, p)
  BY <1>3, SMT DEF Log
<1>6. ASSUME NEW s, NEW p
      PROVE  [r EXCEPT !.entries = s, !.piece = p] = Log(n, s, p)
  <2> DEFINE a == [r EXCEPT !.entries = s]
  <2>1. a = Log(n, s, q)
    BY <1>4
  <2> HIDE DEF a
  <2>2. [a EXCEPT !.piece = p] = Log(n, s, p)
    BY <2>1, SMT DEF Log
  <2> QED
    BY <2>2, SMT DEF a
<1> QED
  BY <1>2, <1>4, <1>5, <1>6 DEF n, e, q

LEMMA RegistriesDiffer ==
  /\ NoFile # Torn
  /\ \A r : r.is = "readable" => r # NoFile /\ r # Torn
  /\ \A r : IsRegistry(r) => r \in {NoFile, Torn} \/ r.is = "readable"
  BY SMT DEF NoFile, Torn, IsRegistry

LEMMA PiecesDiffer ==
  /\ NoPiece \notin Entries /\ Mixed \notin Entries /\ Garbled \notin Entries
  /\ NoPiece # Mixed /\ NoPiece # Garbled /\ Mixed # Garbled
<1>1. NoPiece # Mixed /\ NoPiece # Garbled /\ Mixed # Garbled
  BY SMT DEF NoPiece, Mixed, Garbled
<1>2. \A e \in Entries : e # NoPiece /\ e # Mixed /\ e # Garbled
  BY SMT DEF Entries, NoPiece, Mixed, Garbled
<1> QED
  BY <1>1, <1>2, Zenon

\* What the bytes of e, or some of them, make of r: nothing that can be read,
\* e, or an entry that a piece in r begins.
Completes(m, p, e) ==
  /\ p \in Entries /\ m \in Entries
  /\ m.nr = p.nr /\ m.url = e.url /\ m.del \in {FALSE, p.del}
Written(r, e, x) ==
  /\ IsRegistry(x)
  /\ r.is # "readable" => x = r \/ x = Torn
  /\ r.is = "readable" =>
       /\ x.is = "readable"
       /\ r.piece # NoPiece => x.piece # NoPiece
       /\ \/ x.entries = r.entries
          \/ x.entries = Append(r.entries, e)
          \/ /\ x.piece = Mixed
             /\ \E m : Completes(m, r.piece, e)
                       /\ x.entries = Append(r.entries, m)

LEMMA CutShortIs ==
  ASSUME NEW r, IsRegistry(r), NEW e \in Entries
  PROVE  Written(r, e, CutShort(r, e))
<1>1. CASE r.is # "readable"
  BY <1>1, Zenon DEF CutShort, Written, IsRegistry
<1>2. CASE r.is = "readable"
  <2> DEFINE p == IF r.piece \in {NoPiece, Mixed} THEN e ELSE Garbled
             x == Log(r.lastnr, r.entries, p)
  <2>1. CutShort(r, e) = x
    <3>1. CutShort(r, e) = [r EXCEPT !.piece = p]
      BY <1>2, Zenon DEF CutShort
    <3> HIDE DEF p
    <3> QED
      BY <1>2, <3>1, LogParts
  <2>2. p \in Pieces /\ p # NoPiece
    BY PiecesDiffer, Zenon DEF Pieces
  <2>3. IsRegistry(x) /\ x.is = "readable" /\ x.entries = r.entries /\ x.piece = p
    <3> HIDE DEF p
    <3>1. r.lastnr \in 0 .. MaxNr /\ r.entries \in Seq(Entries)
      BY <1>2, LogParts
    <3> QED
      BY <2>2, <3>1, LogIs
  <2> HIDE DEF x, p
  <2> QED
    BY <1>2, <2>1, <2>2, <2>3, Zenon DEF Written
<1> QED
  BY <1>1, <1>2

LEMMA AppendedIs ==
  ASSUME NEW r, IsRegistry(r), NEW e \in Entries, NEW x \in Appended(r, e)
  PROVE  /\ Written(r, e, x)
         /\ r.is = "readable" /\ ~Corrupt(r) => ~Corrupt(x)
<1>1. CASE r.is # "readable"
  BY <1>1, Zenon DEF Appended, Written, IsRegistry
<1>2. ASSUME r.is = "readable" PROVE /\ Written(r, e, x)
                                     /\ ~Corrupt(r) => ~Corrupt(x)
  <2>0. /\ r.lastnr \in 0 .. MaxNr /\ r.entries \in Seq(Entries)
        /\ r.piece \in Pieces
    BY <1>2, LogParts
  <2>1. CASE r.piece \in {NoPiece, Mixed}
    <3> DEFINE s == Append(r.entries, e)
    <3>1. x = [r EXCEPT !.entries = s]
      BY <1>2, <2>1, Zenon DEF Appended
    <3>2. s \in Seq(Entries)
      BY <2>0, SMT
    <3> HIDE DEF s
    <3>3. x = Log(r.lastnr, s, r.piece)
      BY <1>2, <3>1, LogParts
    <3>4. IsRegistry(x) /\ x.is = "readable" /\ x.entries = s /\ x.piece = r.piece
      BY <2>0, <3>2, <3>3, LogIs
    <3>5. x # Torn
      BY <3>4, SMT DEF Torn
    <3> QED
      BY <1>2, <2>1, <3>4, <3>5, Zenon DEF Written, Corrupt, s
  <2>2. CASE r.piece \notin {NoPiece, Mixed}
    <3>1. Corrupt(r)
      BY <1>2, <2>2 DEF Corrupt
    <3>2. ASSUME x = [r EXCEPT !.piece = Garbled] PROVE Written(r, e, x)
      <4>1. Garbled \in Pieces /\ Garbled # NoPiece
        BY PiecesDiffer, Zenon DEF Pieces
      <4>2. x = Log(r.lastnr, r.entries, Garbled)
        BY <1>2, <3>2, LogParts
      <4>3. IsRegistry(x) /\ x.is = "readable" /\ x.entries = r.entries
            /\ x.piece = Garbled
        BY <2>0, <4>1, <4>2, LogIs
      <4> QED
        BY <1>2, <4>1, <4>3, Zenon DEF Written
    <3>3. ASSUME r.piece # Garbled, NEW del \in {FALSE, r.piece.del},
                 x = [r EXCEPT !.entries = Append(@, [e EXCEPT !.del = del,
                                                              !.nr = r.piece.nr]),
                               !.piece = Mixed]
          PROVE  Written(r, e, x)
      <4>1. r.piece \in Entries
        BY <2>0, <2>2, <3>3, Zenon DEF Pieces
      <4> DEFINE p == r.piece
                 m == [e EXCEPT !.del = del, !.nr = p.nr]
                 s == Append(r.entries, m)
      <4>2. m \in Entries /\ m.nr = p.nr /\ m.url = e.url /\ m.del = del
        <5>1. del \in BOOLEAN /\ p.nr \in Numbers
          <6>1. p \in Entries
            BY <4>1
          <6> HIDE DEF p
          <6>2. p.nr \in Numbers /\ p.del \in BOOLEAN
            BY <6>1, SMT DEF Entries
          <6> QED
            BY <3>3, <6>2 DEF p
        <5>2. e = [del |-> e.del, url |-> e.url, nr |-> e.nr]
              /\ e.url \in Urls
          BY SMT DEF Entries
        <5> DEFINE n == p.nr
                   u == e.url
                   d == e.del
                   o == e.nr
                   a == [e EXCEPT !.del = del]
        <5>3. m = [del |-> del, url |-> u, nr |-> n]
          <6>1. e = [del |-> d, url |-> u, nr |-> o]
            BY <5>2
          <6> HIDE DEF n, u, d, o
          <6>2. a = [del |-> del, url |-> u, nr |-> o]
            BY <6>1, SMT
          <6>4. m = [a EXCEPT !.nr = n]
            BY SMT DEF n
          <6> HIDE DEF a
          <6>3. [a EXCEPT !.nr = n] = [del |-> del, url |-> u, nr |-> n]
            BY <6>2, SMT
          <6> QED
            BY <6>3, <6>4
        <5>4. n \in Numbers /\ u \in Urls
          BY <5>1, <5>2
        <5> HIDE DEF n, u, m
        <5>5. m \in Entries /\ m.nr = n /\ m.url = u /\ m.del = del
          BY <5>1, <5>3, <5>4, SMT DEF Entries
        <5> QED
          BY <5>5 DEF n, u
      <4>3. Completes(m, p, e)
        BY <3>3, <4>1, <4>2, Zenon DEF Completes
      <4>4. x = [r EXCEPT !.entries = s, !.piece = Mixed]
        BY <3>3, Zenon
      <4> HIDE DEF m
      <4>5. s \in Seq(Entries) /\ Mixed \in Pieces
        <5>1. Mixed \in Pieces
          BY Zenon DEF Pieces
        <5> QED
          BY <2>0, <4>2, <5>1, SMT
      <4> HIDE DEF s, p
      <4>6. x = Log(r.lastnr, s, Mixed)
        <5>1. \A q, z : [r EXCEPT !.entries = q, !.piece = z] = Log(r.lastnr, q, z)
          BY <1>2, LogParts
        <5> QED
          BY <4>4, <5>1
      <4>7. IsRegistry(x) /\ x.is = "readable" /\ x.entries = s /\ x.piece = Mixed
        BY <2>0, <4>5, <4>6, LogIs
      <4> QED
        BY <1>2, <4>3, <4>7, PiecesDiffer, Zenon DEF Written, s, p
    <3>4. Written(r, e, x)
      BY <1>2, <2>2, <3>2, <3>3, Zenon DEF Appended
    <3> QED
      BY <3>1, <3>4
  <2> QED
    BY <2>1, <2>2
<1> QED
  BY <1>1, <1>2

\* The variables but for the job.
Kinds ==
  /\ IsRegistry(awcu) /\ IsRegistry(awcr)
  /\ awcr.is = "readable" => awcr.piece = NoPiece
  /\ file \in [Numbers -> {"none", "part", "whole"}]
  /\ up \in BOOLEAN
  /\ cac \in CacheSets
  /\ objects \in [Urls -> Nat]
  /\ cachenr \in 0 .. MaxNr
  /\ nradded \in 0 .. Nrchkpt
  /\ failures \in 0 .. MaxFailures

\* Objects in another stage, held or not.
Staged(c, s) == [c EXCEPT !.stage = s]
HeldAs(c, h) == [c EXCEPT !.held = h]

LEMMA StagedIs ==
  ASSUME NEW c \in Caches, NEW s \in {"new", "open", "closed"}
  PROVE  /\ Staged(c, s) \in Caches /\ Staged(c, s).stage = s
         /\ Staged(c, s).nr = c.nr /\ Staged(c, s).url = c.url
         /\ Staged(c, s).obj = c.obj /\ Staged(c, s).held = c.held
  BY SMT DEF Staged, Caches

LEMMA HeldAsIs ==
  ASSUME NEW c \in Caches, NEW h \in BOOLEAN
  PROVE  /\ HeldAs(c, h) \in Caches /\ HeldAs(c, h).stage = c.stage
         /\ HeldAs(c, h).nr = c.nr /\ HeldAs(c, h).url = c.url
         /\ HeldAs(c, h).obj = c.obj /\ HeldAs(c, h).held = h
  BY SMT DEF HeldAs, Caches

\* Some objects give way to others.
LEMMA CacheSetsChange ==
  ASSUME NEW S \in CacheSets, NEW A, NEW B \in SUBSET Caches, IsFiniteSet(B)
  PROVE  (S \ A) \cup B \in CacheSets
<1>1. IsFiniteSet(S) /\ S \in SUBSET Caches
  BY DEF CacheSets
<1>2. S \ A \in SUBSET S
  BY Zenon
<1>3. IsFiniteSet(S \ A)
  BY <1>1, <1>2, FS_Subset
<1>4. IsFiniteSet((S \ A) \cup B)
  BY <1>3, FS_Union
<1>5. (S \ A) \cup B \in SUBSET Caches
  BY <1>1, Zenon
<1> QED
  BY <1>4, <1>5 DEF CacheSets

\* Setting `held' of some of them.
LEMMA HeldImages ==
  ASSUME NEW S \in CacheSets, NEW T \in SUBSET S, NEW h \in BOOLEAN
  PROVE  /\ {HeldAs(c, h) : c \in T} \in SUBSET Caches
         /\ IsFiniteSet({HeldAs(c, h) : c \in T})
<1> DEFINE X == {HeldAs(c, h) : c \in T}
           f == [c \in T |-> HeldAs(c, h)]
<1>1. T \in SUBSET Caches /\ IsFiniteSet(T)
  BY FS_Subset DEF CacheSets
<1>2. X \in SUBSET Caches
  <2>1. \A c \in T : HeldAs(c, h) \in Caches
    BY <1>1, HeldAsIs
  <2> QED
    BY <2>1, Zenon
<1>3. f \in Surjection(T, X)
  BY Zenon DEF Surjection
<1> HIDE DEF f, X
<1>4. IsFiniteSet(X)
  BY <1>1, <1>3, FS_Surjection
<1> QED
  BY <1>2, <1>4 DEF X

LEMMA SnapshotIs ==
  ASSUME TypeInv
  PROVE  /\ IsRegistry(Snapshot) /\ Snapshot.is = "readable"
         /\ Snapshot.lastnr = cachenr /\ Snapshot.piece = NoPiece
         /\ \A i \in 1 .. Len(Snapshot.entries) : \E c \in cac :
              /\ c.held /\ Snapshot.entries[i] = Entry(FALSE, c)
         /\ \A c \in cac : c.held =>
              \E i \in 1 .. Len(Snapshot.entries) :
                Snapshot.entries[i] = Entry(FALSE, c)
<1> DEFINE S == {c \in cac : c.held}
           s == SetToSeq(S)
           d(i) == Entry(FALSE, s[i])
           e == [i \in 1 .. Len(s) |-> d(i)]
<1>1. S \in SUBSET cac /\ IsFiniteSet(cac) /\ cac \in SUBSET Caches
      /\ cachenr \in 0 .. MaxNr
  BY DEF TypeInv, TypeOK
<1>2. IsFiniteSet(S)
  BY <1>1, FS_Subset
<1>3. s \in Seq(S) /\ \A x \in S : \E i \in 1 .. Len(s) : s[i] = x
  BY <1>2, SetToSeqIs
<1>4. Len(s) \in Nat /\ \A i \in 1 .. Len(s) : s[i] \in S
  BY <1>3, LenProperties, ElementOfSeq
<1>5. \A c \in Caches : Entry(FALSE, c) \in Entries
  BY SMT DEF Entry, Caches, Entries
<1>6. Snapshot = Whole(cachenr, e)
  BY Zenon DEF Snapshot
<1>7. NoPiece \in Pieces /\ Whole(cachenr, e) = Log(cachenr, e, NoPiece)
  BY Zenon DEF Whole, Log, Pieces
<1>8. \A i \in 1 .. Len(s) : e[i] \in Entries /\ e[i] = Entry(FALSE, s[i])
  BY <1>1, <1>4, <1>5, Zenon
<1> HIDE DEF s, S
<1>9. e \in Seq(Entries) /\ Len(e) = Len(s)
  <2>1. \A i \in 1 .. Len(s) : d(i) \in Entries
    BY <1>8
  <2> HIDE DEF d
  <2> QED
    BY <1>4, <2>1, SMT
<1> HIDE DEF e
<1>10. /\ IsRegistry(Snapshot) /\ Snapshot.is = "readable"
       /\ Snapshot.lastnr = cachenr /\ Snapshot.entries = e
       /\ Snapshot.piece = NoPiece
  BY <1>1, <1>6, <1>7, <1>9, LogIs
<1>11. \A i \in 1 .. Len(e) : \E c \in cac : c.held /\ e[i] = Entry(FALSE, c)
  <2>1. \A i \in 1 .. Len(s) : s[i] \in cac /\ s[i].held
    BY <1>4, Zenon DEF S
  <2> QED
    BY <1>8, <1>9, <2>1, Zenon
<1>12. \A c \in cac : c.held => \E i \in 1 .. Len(e) : e[i] = Entry(FALSE, c)
  <2>1. \A c \in cac : c.held => \E i \in 1 .. Len(s) : s[i] = c
    BY <1>3, Zenon DEF S
  <2> QED
    BY <1>8, <1>9, <2>1, Zenon
<1> QED
  BY <1>10, <1>11, <1>12, Zenon

LEMMA KindsAre ==
  TypeInv => Kinds /\ JobOK(job, cachenr)
  BY Zenon DEF TypeInv, TypeOK, Kinds, CacheSets

LEMMA JobTypes ==
  ASSUME NEW k, NEW q, JobOK(q, k)
  PROVE  q \in Seq(Steps)
<1>1. Fitting(k) \subseteq Steps
  BY DEF Fitting
<1> QED
  BY <1>1, SeqMonotonic DEF JobOK

\* The steps of a job that leave the list alone.
DiskStep ==
  \/ Unlink \/ OpenSave \/ Purge \/ Discard \/ Rename
  \/ Createlog \/ CloseLog
  \/ \E ok \in BOOLEAN : AppendEntry(ok) \/ CloseSave(ok)

LEMMA AppendIs ==
  ASSUME TypeInv, NEW ok \in BOOLEAN, AppendEntry(ok)
  PROVE  /\ job # << >> /\ up /\ Head(job).do = "append"
         /\ Head(job).entry \in Entries
         /\ UNCHANGED <<awcr, file, up, cac, objects, cachenr>>
         /\ job' = Save \o Tail(job) \/ job' = Tail(job)
         /\ failures' \in 0 .. MaxFailures
         /\ IF ok THEN failures' = failures ELSE failures' > 0
         /\ Written(awcu, Head(job).entry, awcu')
         /\ ok /\ awcu.is = "readable" /\ ~Corrupt(awcu) => ~Corrupt(awcu')
<1> DEFINE e == Head(job).entry
<1>1. /\ job # << >> /\ up /\ Head(job).do = "append"
      /\ UNCHANGED <<awcr, file, up, cac, objects, cachenr>>
      /\ job' = Save \o Tail(job) \/ job' = Tail(job)
  BY Zenon DEF AppendEntry, Job
<1>2. e \in Entries
  <2>1. Head(job) \in Steps
    BY <1>1, HeadTailProperties DEF TypeInv, TypeOK
  <2> QED
    BY <1>1, <2>1, StepHas
<1>3. IsRegistry(awcu) /\ failures \in 0 .. MaxFailures
  BY DEF TypeInv, TypeOK
<1>4. CASE ok
  <2>1. awcu' \in Appended(awcu, e) /\ failures' = failures
    BY <1>4, Zenon DEF AppendEntry
  <2> HIDE DEF e
  <2>2. /\ Written(awcu, e, awcu')
        /\ awcu.is = "readable" /\ ~Corrupt(awcu) => ~Corrupt(awcu')
    BY <1>2, <1>3, <2>1, AppendedIs
  <2> QED
    BY <1>1, <1>2, <1>3, <1>4, <2>1, <2>2 DEF e
<1>5. CASE ~ok
  <2>1. /\ failures < MaxFailures /\ failures' = failures + 1
        /\ awcu' = awcu \/ awcu' = CutShort(awcu, e)
    BY <1>5, Zenon DEF AppendEntry
  <2>2. failures' \in 0 .. MaxFailures /\ failures' > 0
    BY <1>3, <2>1, RegistryAssumption, SMT
  <2> HIDE DEF e
  <2>3. Written(awcu, e, awcu)
    BY <1>3, Zenon DEF Written
  <2>4. Written(awcu, e, awcu')
    <3>1. CASE awcu' = awcu
      BY <2>3, <3>1
    <3>2. CASE awcu' = CutShort(awcu, e)
      BY <1>2, <1>3, <3>2, CutShortIs
    <3> QED
      BY <2>1, <3>1, <3>2
  <2> QED
    BY <1>1, <1>2, <1>5, <2>2, <2>4 DEF e
<1> QED
  BY <1>4, <1>5

LEMMA CrashAppendingIs ==
  ASSUME TypeInv, CrashAppending
  PROVE  /\ job # << >> /\ Head(job).do = "append" /\ up /\ awcr' = awcr
         /\ Written(awcu, Head(job).entry, awcu')
<1> DEFINE e == Head(job).entry
<1>1. job # << >> /\ Head(job).do = "append" /\ up /\ awcr' = awcr
      /\ awcu' = CutShort(awcu, e)
  BY Zenon DEF CrashAppending, Job
<1>2. IsRegistry(awcu) /\ job \in Seq(Steps)
  BY DEF TypeInv, TypeOK
<1>3. e \in Entries
  BY <1>1, <1>2, HeadTailProperties, StepHas
<1> HIDE DEF e
<1>4. Written(awcu, e, CutShort(awcu, e))
  BY <1>2, <1>3, CutShortIs
<1> QED
  BY <1>1, <1>4 DEF e

LEMMA DiskStepTypes ==
  ASSUME TypeInv, DiskStep
  PROVE  Kinds' /\ JobOK(job', cachenr')
<1> DEFINE t == Tail(job)
<1>1. Kinds /\ JobOK(job, cachenr) /\ job # << >>
      /\ UNCHANGED <<up, cac, objects, cachenr>>
  BY KindsAre, Zenon DEF DiskStep, Job, Unlink, AppendEntry, OpenSave, Purge,
     Discard, Rename, Createlog, CloseLog, CloseSave, memory
<1>2. /\ Head(job) \in Steps /\ t \in Seq(Later(cachenr)) /\ Shape(t)
      /\ JobOK(t, cachenr)
      /\ Head(job).do = "close" => t # << >> /\ Head(t).do \in {"rename", "exit"}
  <2>1. Fitting(cachenr) \subseteq Steps
    BY DEF Fitting
  <2> QED
    BY <1>1, <2>1, JobTail
<1>3. /\ IsRegistry(NoFile) /\ IsRegistry(Torn)
      /\ NoFile.is # "readable" /\ Torn.is # "readable"
      /\ awcr.is = "readable" => awcr.piece = NoPiece
  <2>1. NoFile.is # "readable" /\ Torn.is # "readable"
    BY SMT DEF NoFile, Torn
  <2> QED
    BY <1>1, <2>1, Zenon DEF IsRegistry, Kinds
<1>4. SUFFICES /\ IsRegistry(awcu') /\ IsRegistry(awcr')
               /\ awcr'.is = "readable" => awcr'.piece = NoPiece
               /\ file' \in [Numbers -> {"none", "part", "whole"}]
               /\ nradded' \in 0 .. Nrchkpt /\ failures' \in 0 .. MaxFailures
               /\ JobOK(job', cachenr)
  BY <1>1, <1>4, Zenon DEF Kinds
<1>5. CASE Unlink
  <2>1. file' = [file EXCEPT ![Head(job).nr] = "none"]
        /\ UNCHANGED <<awcu, awcr, nradded, failures>> /\ job' = t
    BY <1>5, Zenon DEF Unlink, memory
  <2>2. file' \in [Numbers -> {"none", "part", "whole"}]
    <3>1. file \in [Numbers -> {"none", "part", "whole"}]
      BY <1>1, Zenon DEF Kinds
    <3> DEFINE n == Head(job).nr
    <3>2. file' = [file EXCEPT ![n] = "none"]
      BY <2>1
    <3>3. n \in Numbers
      BY <1>2, <1>5, StepHas DEF Unlink, Job
    <3> HIDE DEF n
    <3> QED
      BY <3>1, <3>2, <3>3, SMT
  <2> QED
    BY <1>1, <1>2, <2>1, <2>2, Zenon DEF Kinds
<1>6. ASSUME NEW ok \in BOOLEAN, AppendEntry(ok)
      PROVE  /\ IsRegistry(awcu') /\ IsRegistry(awcr')
             /\ awcr'.is = "readable" => awcr'.piece = NoPiece
             /\ file' \in [Numbers -> {"none", "part", "whole"}]
             /\ nradded' \in 0 .. Nrchkpt /\ failures' \in 0 .. MaxFailures
             /\ JobOK(job', cachenr)
  <2>1. /\ IsRegistry(awcu') /\ failures' \in 0 .. MaxFailures
        /\ awcr' = awcr /\ file' = file
        /\ job' = Save \o t \/ job' = t
    BY <1>6, AppendIs DEF Written
  <2>2. nradded' \in 0 .. Nrchkpt
    <3>1. nradded' = Counted(nradded)
      BY <1>6, Zenon DEF AppendEntry
    <3> QED
      BY <1>1, <3>1, RegistryAssumption, SMT DEF Kinds, Counted
  <2>3. JobOK(job', cachenr)
    <3>1. JobOK(Save \o t, cachenr)
      BY <1>2, SaveJoins, LaterJob
    <3> QED
      BY <1>2, <2>1, <3>1, Zenon
  <2> QED
    BY <1>1, <1>3, <2>1, <2>2, <2>3, Zenon DEF Kinds
<1>7. CASE OpenSave
  <2>1. awcr' = Torn /\ job' = t /\ UNCHANGED <<awcu, file, nradded, failures>>
    BY <1>7, Zenon DEF OpenSave, memory
  <2>2. IsRegistry(awcr') /\ awcr'.is # "readable"
    BY <1>3, <2>1
  <2> QED
    BY <1>1, <1>2, <2>1, <2>2, Zenon DEF Kinds
<1>8. CASE Purge
  BY <1>1, <1>2, <1>3, <1>8, Zenon DEF Purge, Kinds, memory
<1>9. CASE Discard
  BY <1>1, <1>2, <1>3, <1>9, Zenon DEF Discard, Kinds, memory
<1>10. CASE Rename
  BY <1>1, <1>2, <1>3, <1>10, Zenon DEF Rename, Kinds, memory
<1>11. CASE Createlog
  <2> DEFINE s == Step("header")
             k == cachenr
  <2>1. s \in Fitting(k) /\ s.do = "header"
    BY StepIs, Zenon DEF Fitting
  <2>2. t \in Seq(Later(k)) /\ Shape(t)
    BY <1>2
  <2>3. job' = <<s>> \o t
    BY <1>11, Zenon DEF Createlog
  <2> HIDE DEF s, k, t
  <2>4. JobOK(<<s>> \o t, k)
    <3>1. s.do \notin Final /\ s.do \notin {"open", "close", "purge"}
      BY <2>1, Zenon DEF Final
    <3> QED
      BY <2>1, <2>2, <3>1, StepJoins
  <2> QED
    BY <1>1, <1>3, <1>11, <2>3, <2>4, Zenon DEF Createlog, Kinds, memory, k
<1>12. CASE CloseLog
  <2>1. IsRegistry(Whole(cachenr, << >>))
    <3>1. /\ << >> \in Seq(Entries) /\ cachenr \in 0 .. MaxNr
      BY <1>1, SMT DEF Kinds
    <3>2. NoPiece \in Pieces
      BY Zenon DEF Pieces
    <3> QED
      BY <3>1, <3>2, LogIs DEF Log, Whole
  <2> QED
    BY <1>1, <1>2, <1>3, <1>12, <2>1, Zenon DEF CloseLog, Kinds, memory
<1>13. ASSUME NEW ok \in BOOLEAN, CloseSave(ok)
       PROVE  /\ IsRegistry(awcu') /\ IsRegistry(awcr')
              /\ awcr'.is = "readable" => awcr'.piece = NoPiece
              /\ file' \in [Numbers -> {"none", "part", "whole"}]
              /\ nradded' \in 0 .. Nrchkpt /\ failures' \in 0 .. MaxFailures
              /\ JobOK(job', cachenr)
  <2> DEFINE s == Step(Verdict(ok))
             k == cachenr
  <2>1. IsRegistry(awcr') /\ (awcr'.is = "readable" => awcr'.piece = NoPiece)
    <3>1. awcr' = Snapshot \/ awcr' = awcr
      BY <1>13, Zenon DEF CloseSave
    <3>2. IsRegistry(awcr) /\ IsRegistry(Snapshot) /\ Snapshot.piece = NoPiece
      BY <1>1, SnapshotIs DEF Kinds
    <3> QED
      BY <1>3, <3>1, <3>2, Zenon
  <2>2. failures' \in 0 .. MaxFailures
    <3>1. failures' = failures \/ (failures < MaxFailures
                                   /\ failures' = failures + 1)
      BY <1>13, Zenon DEF CloseSave
    <3> QED
      BY <1>1, <3>1, RegistryAssumption, SMT DEF Kinds
  <2>3. job' = <<s>> \o t
    BY <1>13, Zenon DEF CloseSave
  <2>4. s \in Fitting(k) /\ s.do \in {"purge", "discard"}
    BY StepIs, Zenon DEF Verdict, Fitting
  <2>5. t \in Seq(Later(k)) /\ Shape(t)
        /\ t # << >> /\ Head(t).do \in {"rename", "exit"}
    BY <1>2, <1>13 DEF CloseSave, Job
  <2> HIDE DEF s, k, t
  <2>6. JobOK(<<s>> \o t, k)
    <3>1. s.do \notin Final /\ s.do # "open"
      BY <2>4, Zenon DEF Final
    <3> QED
      BY <2>4, <2>5, <3>1, StepJoins
  <2> QED
    BY <1>1, <1>13, <2>1, <2>2, <2>3, <2>6, Zenon DEF CloseSave, Kinds, memory, k
<1> QED
  BY <1>5, <1>6, <1>7, <1>8, <1>9, <1>10, <1>11, <1>12, <1>13, Zenon DEF DiskStep

\* The steps that change the list.
LEMMA ListStepTypes ==
  ASSUME TypeInv,
         \/ \E u \in Urls : Data(u)
         \/ Dispose \/ Newcache \/ Srcupdatecache \/ Restore
  PROVE  Kinds' /\ JobOK(job', cachenr')
<1> DEFINE t == Tail(job)
<1>1. Kinds /\ JobOK(job, cachenr)
      /\ cac \in CacheSets /\ cac \in SUBSET Caches
      /\ file \in [Numbers -> {"none", "part", "whole"}]
  BY KindsAre, Zenon DEF Kinds, CacheSets
<1>2. job # << >> =>
        /\ Head(job) \in Steps /\ Head(job) \in Fitting(cachenr)
        /\ t \in Seq(Later(cachenr)) /\ Shape(t)
        /\ JobOK(t, cachenr)
        /\ Head(job).do \in Final => t = << >>
  <2>1. Fitting(cachenr) \subseteq Steps
    BY DEF Fitting
  <2> QED
    BY <1>1, <2>1, JobTail
<1>3. /\ \A u : /\ Held(u) \in SUBSET cac /\ Replaced(u) \in SUBSET cac
      /\ \A c \in Caches : c.nr \in Numbers
  BY SMT DEF Held, Replaced, Mine, Caches
<1>4. \A c \in Caches : {c} \in SUBSET Caches /\ IsFiniteSet({c})
  BY FS_Singleton, Zenon
<1>5. \A n \in Numbers, s \in {"none", "part", "whole"} :
        [file EXCEPT ![n] = s] \in [Numbers -> {"none", "part", "whole"}]
  BY <1>1, SMT
<1>6. ASSUME NEW u \in Urls, Data(u) PROVE Kinds' /\ JobOK(job', cachenr')
  <2>1. PICK c \in Held(u) :
          /\ cac' = (cac \ {c}) \cup {Staged(c, "open")}
          /\ file' = [file EXCEPT ![c.nr] = "part"]
    BY <1>6, Zenon DEF Data, Staged
  <2>2. c \in Caches /\ Staged(c, "open") \in Caches
    BY <1>1, <1>3, StagedIs
  <2>3. cac' \in CacheSets
    BY <1>1, <1>4, <2>1, <2>2, CacheSetsChange
  <2>4. file' \in [Numbers -> {"none", "part", "whole"}]
    BY <1>3, <1>5, <2>1, <2>2, Zenon
  <2> QED
    BY <1>1, <1>6, <2>3, <2>4, Zenon DEF Data, Kinds
<1>7. CASE Dispose
  <2> DEFINE c == Head(job).cac
  <2>1. job # << >> /\ c \in Caches /\ cac' = cac \ {c}
        /\ job' = Disposecache(c) \o t
        /\ UNCHANGED <<disk, up, objects, cachenr, nradded, failures>>
    BY <1>2, <1>7, StepHas, Zenon DEF Dispose, Job
  <2>2. cac' \in CacheSets
    <3>1. cac' \in SUBSET cac
      BY <2>1
    <3> QED
      BY <1>1, <3>1, FS_Subset, Zenon DEF CacheSets
  <2>3. JobOK(job', cachenr)
    BY <1>2, <2>1, DisposePlain, ShapeJoins, LaterJob
  <2> QED
    BY <1>1, <2>1, <2>2, <2>3, Zenon DEF Kinds, disk
<1>8. CASE Newcache
  <2> DEFINE u == Head(job).url
             o == IF objects[u] = 0 THEN 1 ELSE objects[u]
             n == cachenr + 1
             c == [url |-> u, obj |-> o, nr |-> n, stage |-> "new",
                   held |-> TRUE]
             A == {HeldAs(d, FALSE) : d \in Held(u)}
  <2>1. /\ job # << >> /\ Head(job).do = "new" /\ t = << >>
        /\ u \in Urls /\ cachenr < MaxNr
    BY <1>2, <1>8, StepHas, Zenon DEF Newcache, Job, Fitting, Final
  <2>2. /\ n \in Numbers /\ n \in 0 .. MaxNr
    BY <1>1, <2>1, RegistryAssumption, SMT DEF Kinds, Numbers
  <2>3. objects' = [objects EXCEPT ![u] = IF @ = 0 THEN 1 ELSE @]
        /\ cachenr' = n /\ job' = t
        /\ UNCHANGED <<disk, up, nradded, failures>>
    BY <1>8, Zenon DEF Newcache
  <2>4. objects' \in [Urls -> Nat] /\ objects'[u] = o /\ o \in Nat \ {0}
    <3>1. objects \in [Urls -> Nat]
      BY <1>1, Zenon DEF Kinds
    <3>2. u \in Urls
      BY <2>1
    <3>3. objects' = [objects EXCEPT ![u] = IF objects[u] = 0 THEN 1
                                            ELSE objects[u]]
      BY <2>3, <3>1, <3>2, SMT
    <3> HIDE DEF u
    <3> QED
      BY <3>1, <3>2, <3>3, SMT
  <2>5. c \in Caches
    BY <2>1, <2>2, <2>4, SMT DEF Caches
  <2>6. cac' = (cac \ Held(u)) \cup A \cup {c}
    BY <1>8, <2>3, <2>4, Zenon DEF Newcache, HeldAs
  <2>7. A \in SUBSET Caches /\ IsFiniteSet(A)
    BY <1>1, <1>3, HeldImages
  <2>8. (cac \ Held(u)) \cup A \in CacheSets
    BY <1>1, <2>7, CacheSetsChange
  <2>9. cac' \in CacheSets
    <3> HIDE DEF A, c
    <3> QED
      BY <2>5, <2>6, <2>8, FS_AddElement, Zenon DEF CacheSets
  <2>10. JobOK(job', cachenr')
    <3>1. << >> \in Seq(Plain)
      BY SMT
    <3> QED
      BY <2>1, <2>3, <3>1, PlainIsLater, PlainShape, LaterJob
  <2> QED
    BY <1>1, <2>2, <2>3, <2>4, <2>9, <2>10, Zenon DEF Kinds, disk
<1>9. CASE Srcupdatecache
  <2>1. PICK c \in Held(Head(job).url) :
          /\ file' = [file EXCEPT ![c.nr] = "whole"]
          /\ cac' = (cac \ {c}) \cup {Staged(c, "closed")}
          /\ job' = Addregentry(FALSE, c) \o t
    BY <1>9, Zenon DEF Srcupdatecache, Staged
  <2>2. /\ job # << >> /\ t = << >>
        /\ UNCHANGED <<awcu, awcr, up, objects, cachenr, nradded, failures>>
    BY <1>2, <1>9, Zenon DEF Srcupdatecache, Job, Final
  <2>3. c \in Caches /\ Staged(c, "closed") \in Caches
    BY <1>1, <1>3, StagedIs
  <2>4. cac' \in CacheSets
    BY <1>1, <1>4, <2>1, <2>3, CacheSetsChange
  <2>5. file' \in [Numbers -> {"none", "part", "whole"}]
    BY <1>3, <1>5, <2>1, <2>3, Zenon
  <2>6. JobOK(job', cachenr)
    <3> DEFINE s == [do |-> "append", entry |-> Entry(FALSE, c)]
               k == cachenr
    <3>1. Entry(FALSE, c) \in Entries
      BY <2>3, SMT DEF Entry, Caches, Entries
    <3>2. s \in Steps /\ s.do = "append"
      BY <3>1, StepIs, Zenon
    <3>3. s \in Fitting(k)
      BY <3>2, Zenon DEF Fitting
    <3>4. job' = <<s>> \o << >>
      BY <2>1, <2>2, Zenon DEF Addregentry
    <3> HIDE DEF s, k
    <3>5. /\ job' = <<s>> /\ job' \in Seq(Fitting(k)) /\ Tail(job') = << >>
          /\ Len(job') = 1 /\ job'[1] = s /\ << >> \in Seq(Later(k))
          /\ \A i \in 1 .. 1 : i = 1
      BY <3>3, <3>4, SMT
    <3> QED
      BY <3>2, <3>5, Zenon DEF JobOK, Shape, Final, k
  <2> QED
    BY <1>1, <2>2, <2>4, <2>5, <2>6, Zenon DEF Kinds
<1>10. CASE Restore
  <2> DEFINE u == Head(job).url
             A == {HeldAs(d, TRUE) : d \in Replaced(u)}
  <2>1. /\ job # << >> /\ cac' = (cac \ Replaced(u)) \cup A /\ job' = t
        /\ UNCHANGED <<disk, up, objects, cachenr, nradded, failures>>
    BY <1>10, Zenon DEF Restore, HeldAs, Job
  <2>2. A \in SUBSET Caches /\ IsFiniteSet(A)
    BY <1>1, <1>3, HeldImages
  <2>3. cac' \in CacheSets
    BY <1>1, <2>1, <2>2, CacheSetsChange
  <2> QED
    BY <1>1, <1>2, <2>1, <2>3, Zenon DEF Kinds, disk
<1> QED
  BY <1>6, <1>7, <1>8, <1>9, <1>10

\* The steps that begin and end a session.
LEMMA SessionStepTypes ==
  ASSUME TypeInv, Initcache \/ Deinstallcache \/ Crashes
  PROVE  Kinds' /\ JobOK(job', cachenr')
<1>1. Kinds
  BY KindsAre
<1>2. \A k : JobOK(<< >>, k) /\ JobOK(Save, k)
  <2>1. << >> \in Seq(Plain)
    BY SMT
  <2> QED
    BY <2>1, PlainIsLater, PlainShape, SaveShape, LaterJob
<1>3. CASE Initcache
  <2> DEFINE m == Readcachereg(Registration)
             k == m.cachenr
  <2>1. IsRegistry(Registration)
    BY <1>1, Zenon DEF Kinds, Registration
  <2>2. m.cac \in CacheSets /\ m.objects \in [Urls -> Nat]
        /\ m.cachenr \in 0 .. MaxNr
    BY <2>1, ReadIsMemory, MemoryIs
  <2>3. up' = TRUE /\ cac' = m.cac /\ objects' = m.objects /\ cachenr' = k
        /\ file' = [n \in Numbers |-> IF n \in m.gone THEN "none" ELSE file[n]]
        /\ UNCHANGED <<awcu, awcr, nradded, failures>>
    BY <1>3, Zenon DEF Initcache
  <2>4. file' \in [Numbers -> {"none", "part", "whole"}]
    <3>1. file \in [Numbers -> {"none", "part", "whole"}]
      BY <1>1, Zenon DEF Kinds
    <3> DEFINE g == m.gone
    <3>2. file' = [n \in Numbers |-> IF n \in g THEN "none" ELSE file[n]]
      BY <2>3
    <3> HIDE DEF g
    <3> QED
      BY <3>1, <3>2, SMT
  <2>5. \A s \in {"rename", "create"} : JobOK(<<Step(s)>>, k)
    <3> SUFFICES ASSUME NEW s \in {"rename", "create"}
                 PROVE  JobOK(<<Step(s)>>, k)
      OBVIOUS
    <3> DEFINE x == Step(s)
    <3>1. x \in Fitting(k) /\ x.do \in {"rename", "create"}
      BY StepIs, Zenon DEF Fitting
    <3> HIDE DEF x, k
    <3>2. /\ <<x>> \in Seq(Fitting(k)) /\ Tail(<<x>>) = << >>
          /\ Len(<<x>>) = 1 /\ <<x>>[1] = x /\ << >> \in Seq(Later(k))
          /\ \A i \in 1 .. 1 : i = 1
      BY <3>1, SMT
    <3> QED
      BY <3>1, <3>2, Zenon DEF JobOK, Shape, Final, x
  <2>6. JobOK(job', k)
    BY <1>2, <1>3, <2>5, Zenon DEF Initcache, Recovery
  <2> HIDE DEF m
  <2> QED
    BY <1>1, <2>2, <2>3, <2>4, <2>6, Zenon DEF Kinds
<1>4. ASSUME Forget PROVE /\ up' \in BOOLEAN /\ cac' \in CacheSets
                          /\ objects' \in [Urls -> Nat]
                          /\ cachenr' \in 0 .. MaxNr
                          /\ nradded' \in 0 .. Nrchkpt
                          /\ JobOK(job', cachenr')
  <2>1. {} \in CacheSets
    BY FS_EmptySet DEF CacheSets
  <2>2. 0 \in 0 .. MaxNr /\ 0 \in 0 .. Nrchkpt
        /\ [u \in Urls |-> 0] \in [Urls -> Nat]
    BY RegistryAssumption, SMT
  <2> QED
    BY <1>2, <1>4, <2>1, <2>2, Zenon DEF Forget
<1>5. CASE Deinstallcache
  <2>1. file' \in [Numbers -> {"none", "part", "whole"}]
    <3>1. file \in [Numbers -> {"none", "part", "whole"}]
      BY <1>1, Zenon DEF Kinds
    <3> DEFINE g == {n \in Numbers : \E c \in Named : c.nr = n /\ ~c.held}
    <3>2. file' = [n \in Numbers |-> IF n \in g THEN "none" ELSE file[n]]
      BY <1>5, Zenon DEF Deinstallcache
    <3> HIDE DEF g
    <3> QED
      BY <3>1, <3>2, SMT
  <2> QED
    BY <1>1, <1>4, <1>5, <2>1, Zenon DEF Deinstallcache, Kinds
<1>6. CASE Crash
  BY <1>1, <1>4, <1>6, Zenon DEF Crash, Kinds, disk
<1>7. CASE CrashAppending
  <2>1. IsRegistry(awcu')
    BY <1>7, CrashAppendingIs DEF Written
  <2> QED
    BY <1>1, <1>4, <1>7, <2>1, Zenon DEF CrashAppending, Kinds
<1>8. CASE CrashReading
  <2>1. PICK n \in DOMAIN Registration.entries :
          LET read == [Registration EXCEPT !.entries = SubSeq(@, 1, n)]
              gone == Readcachereg(read).gone
          IN  file' = [nr \in Numbers |-> IF nr \in gone THEN "none" ELSE file[nr]]
    BY <1>8, Zenon DEF CrashReading
  <2> DEFINE g == Readcachereg([Registration EXCEPT !.entries = SubSeq(@, 1, n)]).gone
  <2>2. file' = [nr \in Numbers |-> IF nr \in g THEN "none" ELSE file[nr]]
    BY <2>1, Zenon
  <2> HIDE DEF g
  <2>3. file' \in [Numbers -> {"none", "part", "whole"}]
    BY <1>1, <2>2, SMT DEF Kinds
  <2> QED
    BY <1>1, <1>8, <2>3, KindsAre, Zenon DEF CrashReading, Kinds, memory
<1> QED
  BY <1>3, <1>5, <1>6, <1>7, <1>8 DEF Crashes

LEMMA TypeKept ==
  ASSUME TypeInv, [Next]_vars
  PROVE  TypeInv'
<1>1. SUFFICES Kinds' /\ JobOK(job', cachenr')
  <2>1. job' \in Seq(Steps)
    BY <1>1, JobTypes
  <2> QED
    BY <1>1, <2>1, Zenon DEF TypeInv, TypeOK, Kinds, CacheSets
<1>2. Kinds /\ JobOK(job, cachenr)
  BY KindsAre
<1>3. CASE Begins
  <2>1. UNCHANGED <<disk, memory, failures>> /\ JobOK(job', cachenr)
    BY <1>3, BeginsJob, LaterJob
  <2> QED
    BY <1>2, <2>1, Zenon DEF Kinds, disk, memory
<1>4. CASE UNCHANGED vars
  BY <1>2, <1>4, Zenon DEF Kinds, vars, disk, memory
<1>5. CASE DiskStep
  BY <1>5, DiskStepTypes
<1>6. CASE \/ \E u \in Urls : Data(u)
           \/ Dispose \/ Newcache \/ Srcupdatecache \/ Restore
  BY <1>6, ListStepTypes
<1>7. CASE Initcache \/ Deinstallcache \/ Crashes
  BY <1>7, SessionStepTypes
<1> QED
  BY <1>3, <1>4, <1>5, <1>6, <1>7, Zenon DEF Next, Session, Handler, Disk,
     Begins, DiskStep

LEMMA TypeStarts ==
  ASSUME Init
  PROVE  TypeInv
<1>1. IsRegistry(NoFile) /\ NoFile.is # "readable"
  BY RegistriesDiffer DEF IsRegistry
<1>2. << >> \in Seq(Plain)
  BY SMT
<1>3. JobOK(job, cachenr)
  BY <1>2, PlainIsLater, PlainShape, LaterJob DEF Init
<1>4. job \in Seq(Steps)
  BY <1>3, JobTypes
<1>5. IsFiniteSet({})
  BY FS_EmptySet
<1>6. /\ file \in [Numbers -> {"none", "part", "whole"}]
      /\ cachenr \in 0 .. MaxNr /\ nradded \in 0 .. Nrchkpt
      /\ failures \in 0 .. MaxFailures
      /\ objects \in [Urls -> Nat]
  BY RegistryAssumption, SMT DEF Init
<1> QED
  BY <1>1, <1>3, <1>4, <1>5, <1>6, Zenon DEF TypeInv, TypeOK, Init

\* Whatever the addresses and the bounds, the list, the registration and the
\* job of the main task keep their types.
THEOREM TypeCorrect == Spec => []TypeOK
<1>1. Init => TypeInv
  BY TypeStarts
<1>2. TypeInv /\ [Next]_vars => TypeInv'
  BY TypeKept
<1>3. TypeInv => TypeOK
  BY DEF TypeInv
<1> QED
  BY <1>1, <1>2, <1>3, PTL DEF Spec

\* At any moment a start would make of the registration exactly the documents
\* it stands for, but the expired ones, and know all their numbers.
THEOREM ReadsCorrectly == Spec => []ReadsWhatIsRegistered
<1>1. TypeOK => ReadsWhatIsRegistered
  <2> SUFFICES ASSUME TypeOK PROVE ReadsWhatIsRegistered
    OBVIOUS
  <2>1. IsRegistry(Registration)
    BY Zenon DEF TypeOK, Registration
  <2>2. MeansWhatIsRead(Registration)
    BY <2>1, ReadIsMeant
  <2> QED
    BY <2>2, Zenon DEF MeansWhatIsRead, ReadsWhatIsRegistered, Registered
<1> QED
  BY <1>1, TypeCorrect, PTL

-----------------------------------------------------------------------------
(* What is on the disk when a crash may come.                              *)

Now(do) == job # << >> /\ Head(job).do = do

\* AWCU is away only before the first start, between the deletion and the
\* rename of a checkpoint, and between two sessions.  AWCR is complete then.
\* It has no header only from its creation to the end of a session.
Gap == \/ (Now("rename") \/ Now("exit")) /\ awcr.is = "readable"
       \/ Now("create") /\ awcr = NoFile /\ cac = {}

FilesOK ==
  /\ awcu = NoFile => IF up THEN Gap ELSE awcr # Torn
  /\ Now("purge") => awcr = Snapshot
  /\ Now("create") => cac = {} /\ awcu = NoFile
  /\ Now("header") => awcu = Torn
  /\ ~up => cac = {} /\ job = << >>

LEMMA LaterHead ==
  ASSUME NEW k, NEW q \in Seq(Later(k)), q # << >>
  PROVE  /\ Head(q).do \notin {"purge", "create", "header"}
         /\ Head(q).do = "append" => Head(q).entry.del
<1>1. Head(q) \in Later(k)
  BY HeadTailProperties
<1> QED
  BY <1>1, Zenon DEF Later

\* What is left of a job, and what Disposecache puts in front of it.
LEMMA RestHead ==
  ASSUME TypeInv, job # << >>
  PROVE  /\ Tail(job) \in Seq(Later(cachenr))
         /\ \A c \in Caches :
              Disposecache(c) \o Tail(job) \in Seq(Later(cachenr))
<1>1. Tail(job) \in Seq(Later(cachenr)) /\ Shape(Tail(job))
  BY KindsAre, JobTail
<1> QED
  BY <1>1, DisposePlain, ShapeJoins

LEMMA FilesKept ==
  ASSUME TypeInv, FilesOK, [Next]_vars
  PROVE  FilesOK'
<1> DEFINE t == Tail(job)
           k == cachenr
<1>1. /\ IsRegistry(awcu) /\ IsRegistry(awcr) /\ cac \in SUBSET Caches
      /\ job \in Seq(Steps)
  BY DEF TypeInv, TypeOK
<1>2. ASSUME up, job = << >> \/ Head(job).do \notin {"rename", "exit", "create"}
      PROVE  awcu # NoFile
  BY <1>2, Zenon DEF FilesOK, Gap, Now
<1>3. ASSUME up', awcu' # NoFile, (Now("purge"))' => awcr' = Snapshot',
             ~(Now("create"))', ~(Now("header"))'
      PROVE  FilesOK'
  BY <1>3, Zenon DEF FilesOK
<1>4. job # << >> => /\ t \in Seq(Later(k))
                     /\ t # << >> => Head(t).do \notin {"purge", "create", "header"}
  BY RestHead, LaterHead
<1>5. ASSUME job' = t, job # << >> PROVE ~(Now("purge"))' /\ ~(Now("create"))' /\ ~(Now("header"))'
  BY <1>4, <1>5, Zenon DEF Now
<1>6. CASE Begins
  <2>1. up /\ job = << >> /\ UNCHANGED <<disk, memory, failures>>
        /\ job' \in Seq(Later(k))
    BY <1>6, BeginsJob
  <2>2. job' # << >> => Head(job').do \notin {"purge", "create", "header"}
    BY <2>1, LaterHead, Zenon
  <2>3. up' /\ awcu' # NoFile
        /\ ~(Now("purge"))' /\ ~(Now("create"))' /\ ~(Now("header"))'
    BY <1>2, <2>1, <2>2, Zenon DEF disk, memory, Now
  <2> QED
    BY <1>3, <2>3
<1>7. CASE UNCHANGED vars
  BY <1>7, Zenon DEF FilesOK, Gap, Now, Snapshot, vars, disk, memory
<1>8. CASE Unlink \/ OpenSave \/ Discard
  <2>1. up /\ job # << >> /\ Head(job).do \notin {"rename", "exit", "create"}
        /\ job' = t /\ up' = up /\ awcu' = awcu
    BY <1>8, Zenon DEF Unlink, OpenSave, Discard, Job, memory
  <2> QED
    BY <1>2, <1>3, <1>5, <2>1, Zenon
<1>9. ASSUME NEW ok \in BOOLEAN, AppendEntry(ok) PROVE FilesOK'
  <2>1. /\ up /\ up' = up /\ job # << >> /\ Head(job).do = "append"
        /\ Written(awcu, Head(job).entry, awcu')
        /\ job' = Save \o t \/ job' = t
    BY <1>9, AppendIs
  <2>2. awcu # NoFile
    BY <1>2, <2>1, Zenon
  <2>3. awcu' # NoFile
    BY <1>1, <2>1, <2>2, RegistriesDiffer, Zenon DEF Written
  <2>4. ~(Now("purge"))' /\ ~(Now("create"))' /\ ~(Now("header"))'
    <3>1. Save \o t \in Seq(Later(k))
      <4>1. Save \in Seq(Later(k))
        BY SaveShape
      <4> QED
        BY <1>4, <2>1, <4>1, ConcatProperties
    <3>2. job' \in Seq(Later(k))
      BY <1>4, <2>1, <3>1
    <3> QED
      BY <3>2, LaterHead, Zenon DEF Now
  <2> QED
    BY <1>3, <2>1, <2>3, <2>4
<1>10. ASSUME NEW ok \in BOOLEAN, CloseSave(ok) PROVE FilesOK'
  <2>1. up /\ job # << >> /\ Head(job).do \notin {"rename", "exit", "create"}
        /\ up' = up /\ awcu' = awcu /\ cac' = cac /\ cachenr' = cachenr
        /\ job' = <<Step(Verdict(ok))>> \o t
        /\ (ok => awcr' = Snapshot)
    BY <1>10, Zenon DEF CloseSave, Job, memory
  <2>2. Snapshot' = Snapshot
    BY <2>1, Zenon DEF Snapshot
  <2>3. Head(job').do = IF ok THEN "purge" ELSE "discard"
    <3> DEFINE s == Step(Verdict(ok))
    <3>1. s \in Steps /\ s.do = IF ok THEN "purge" ELSE "discard"
      BY StepIs, Zenon DEF Verdict
    <3>2. t \in Seq(Steps)
      BY <1>1, <2>1, HeadTailProperties
    <3>3. job' = <<s>> \o t
      BY <2>1
    <3> HIDE DEF s, t
    <3>4. Head(<<s>> \o t) = s
      BY <3>1, <3>2, SMT
    <3> QED
      BY <3>1, <3>3, <3>4
  <2>4. /\ (Now("purge"))' => awcr' = Snapshot'
        /\ ~(Now("create"))' /\ ~(Now("header"))'
    BY <2>1, <2>2, <2>3, Zenon DEF Now
  <2> QED
    BY <1>2, <1>3, <2>1, <2>4, Zenon
<1>11. CASE Purge
  <2>1. up /\ job # << >> /\ Head(job).do = "purge" /\ awcu' = NoFile
        /\ job' = t /\ awcr' = awcr /\ up' = up
    BY <1>11, Zenon DEF Purge, Job, memory
  <2>2. awcr.is = "readable"
    BY <2>1, SnapshotIs, Zenon DEF FilesOK, Now
  <2>3. t # << >> /\ Head(t).do \in {"rename", "exit"}
    BY <2>1, KindsAre, JobTail, Zenon
  <2>4. Gap'
    BY <2>1, <2>2, <2>3, Zenon DEF Gap, Now
  <2> QED
    BY <1>5, <2>1, <2>4, RegistriesDiffer, Zenon DEF FilesOK
<1>12. CASE Rename
  <2>1. up /\ job # << >> /\ Head(job).do = "rename"
        /\ job' = t /\ up' = up
        /\ IF awcr # NoFile /\ awcu = NoFile
           THEN awcu' = awcr /\ awcr' = NoFile
           ELSE UNCHANGED <<awcu, awcr>>
    BY <1>12, Zenon DEF Rename, Job, memory
  <2>2. awcu = NoFile => awcr # NoFile
    BY <2>1, RegistriesDiffer, Zenon DEF FilesOK, Gap, Now
  <2>3. awcu' # NoFile
    BY <2>1, <2>2, Zenon
  <2> QED
    BY <1>3, <1>5, <2>1, <2>3
<1>13. CASE Createlog
  <2> DEFINE s == Step("header")
  <2>1. up /\ job # << >> /\ job' = <<s>> \o t /\ up' = up /\ awcu' = Torn
    BY <1>13, Zenon DEF Createlog, Job, memory
  <2>2. s \in Steps /\ s.do = "header"
    BY StepIs, Zenon
  <2>3. t \in Seq(Steps)
    BY <1>1, <2>1, HeadTailProperties
  <2>4. Head(job') = s
    <3> HIDE DEF s, t
    <3> QED
      BY <2>1, <2>2, <2>3, SMT
  <2>5. ~(Now("purge"))' /\ ~(Now("create"))'
    BY <2>2, <2>4, Zenon DEF Now
  <2> QED
    BY <2>1, <2>5, RegistriesDiffer, Zenon DEF FilesOK
<1>20. CASE CloseLog
  <2>1. up /\ job # << >> /\ job' = t /\ up' = up
        /\ awcu' = Whole(cachenr, << >>)
    BY <1>20, Zenon DEF CloseLog, Job, memory
  <2>2. Whole(cachenr, << >>).is = "readable"
    BY SMT DEF Whole
  <2> QED
    BY <1>3, <1>5, <2>1, <2>2, RegistriesDiffer, Zenon
<1>14. CASE \E u \in Urls : Data(u)
  <2>1. up /\ job = << >> /\ up' = up /\ awcu' = awcu /\ job' = job
    BY <1>14, Zenon DEF Data, Ready
  <2> QED
    BY <1>2, <1>3, <2>1, Zenon DEF Now
<1>15. CASE Newcache \/ Restore
  <2>1. up /\ job # << >> /\ Head(job).do \notin {"rename", "exit", "create"}
        /\ job' = t /\ up' = up /\ awcu' = awcu
    BY <1>15, Zenon DEF Newcache, Restore, Job, disk
  <2> QED
    BY <1>2, <1>3, <1>5, <2>1, Zenon
<1>16. CASE Dispose
  <2>1. up /\ job # << >> /\ Head(job).do = "dispose"
        /\ job' = Disposecache(Head(job).cac) \o t /\ up' = up /\ awcu' = awcu
    BY <1>16, Zenon DEF Dispose, Job, disk
  <2>2. Head(job).cac \in Caches
    <3>1. Head(job) \in Steps
      BY <1>1, <2>1, HeadTailProperties
    <3> QED
      BY <2>1, <3>1, StepHas
  <2>3. job' \in Seq(Later(k))
    BY <2>1, <2>2, RestHead
  <2>4. ~(Now("purge"))' /\ ~(Now("create"))' /\ ~(Now("header"))'
    BY <2>3, LaterHead, Zenon DEF Now
  <2> QED
    BY <1>2, <1>3, <2>1, <2>4, Zenon
<1>17. CASE Srcupdatecache
  <2>1. up /\ job # << >> /\ Head(job).do \notin {"rename", "exit", "create"}
        /\ up' = up /\ awcu' = awcu
    BY <1>17, Zenon DEF Srcupdatecache, Job
  <2>2. PICK c \in Held(Head(job).url) : job' = Addregentry(FALSE, c) \o t
    BY <1>17, Zenon DEF Srcupdatecache
  <2>3. Head(job').do = "append"
    <3> DEFINE s == [do |-> "append", entry |-> Entry(FALSE, c)]
    <3>1. s.do = "append"
      BY SMT
    <3>2. t \in Seq(Steps)
      BY <1>1, <2>1, HeadTailProperties
    <3>3. job' = <<s>> \o t
      BY <2>2, Zenon DEF Addregentry
    <3> HIDE DEF s, t
    <3>4. Head(<<s>> \o t) = s
      BY <3>2, SMT
    <3> QED
      BY <3>1, <3>3, <3>4
  <2>4. ~(Now("purge"))' /\ ~(Now("create"))' /\ ~(Now("header"))'
    BY <2>3, Zenon DEF Now
  <2> QED
    BY <1>2, <1>3, <2>1, <2>4, Zenon
<1>18. CASE Initcache
  <2> DEFINE m == Readcachereg(Registration)
  <2>1. ~up /\ up' = TRUE /\ awcu' = awcu /\ awcr' = awcr /\ cac' = m.cac
        /\ job' = IF awcu # NoFile THEN Save
                  ELSE IF awcr # NoFile THEN <<Step("rename")>>
                  ELSE <<Step("create")>>
    BY <1>18, Zenon DEF Initcache, Recovery
  <2>2. \A s \in {"rename", "create"} :
          /\ <<Step(s)>> # << >> /\ Head(<<Step(s)>>).do = s
    <3> SUFFICES ASSUME NEW s \in {"rename", "create"}
                 PROVE  <<Step(s)>> # << >> /\ Head(<<Step(s)>>).do = s
      OBVIOUS
    <3> DEFINE x == Step(s)
    <3>1. x.do = s
      BY StepIs, Zenon
    <3> HIDE DEF x
    <3>2. <<x>> # << >> /\ Head(<<x>>) = x
      BY SMT
    <3> QED
      BY <3>1, <3>2 DEF x
  <2>3. CASE awcu # NoFile
    <3>1. job' \in Seq(Later(k))
      BY <2>1, <2>3, SaveShape
    <3>2. ~(Now("purge"))' /\ ~(Now("create"))' /\ ~(Now("header"))'
      BY <3>1, LaterHead, Zenon DEF Now
    <3> QED
      BY <1>3, <2>1, <2>3, <3>2, Zenon DEF FilesOK
  <2>4. CASE awcu = NoFile /\ awcr # NoFile
    <3>1. awcr.is = "readable"
      BY <1>1, <2>1, <2>4, RegistriesDiffer, Zenon DEF FilesOK
    <3>2. job' # << >> /\ Head(job').do = "rename"
      BY <2>1, <2>2, <2>4, Zenon
    <3> QED
      BY <2>1, <2>4, <3>1, <3>2, RegistriesDiffer, Zenon DEF FilesOK, Gap, Now
  <2>5. CASE awcu = NoFile /\ awcr = NoFile
    <3>1. job' # << >> /\ Head(job').do = "create"
      BY <2>1, <2>2, <2>5, Zenon
    <3>2. cac' = {}
      <4>1. NoFile.is # "readable" /\ Empty.cac = {}
        BY SMT DEF NoFile, Empty
      <4> QED
        BY <2>1, <2>5, <4>1, Zenon DEF Registration, Readcachereg
    <3> QED
      BY <2>1, <2>5, <3>1, <3>2, RegistriesDiffer, Zenon DEF FilesOK, Gap, Now
  <2> QED
    BY <2>3, <2>4, <2>5
<1>21. CASE CrashAppending
  <2>1. /\ up /\ awcr' = awcr /\ job # << >> /\ Head(job).do = "append"
        /\ Written(awcu, Head(job).entry, awcu')
    BY <1>21, CrashAppendingIs
  <2>2. up' = FALSE /\ cac' = {} /\ job' = << >>
    BY <1>21, Zenon DEF CrashAppending, Forget
  <2>3. awcu # NoFile
    BY <1>2, <2>1, Zenon
  <2>4. awcu' # NoFile
    BY <1>1, <2>1, <2>3, RegistriesDiffer, Zenon DEF Written
  <2> QED
    BY <2>2, <2>4, Zenon DEF FilesOK, Now
<1>22. CASE CrashReading
  <2>1. UNCHANGED <<awcu, awcr, up, cac, job>> /\ ~up
    BY <1>22, Zenon DEF CrashReading, memory
  <2> QED
    BY <2>1, Zenon DEF FilesOK, Now
<1>19. CASE Deinstallcache \/ Crash
  <2>1. up /\ up' = FALSE /\ cac' = {} /\ job' = << >>
        /\ awcu' = awcu /\ awcr' = awcr
    BY <1>19, Zenon DEF Deinstallcache, Crash, Forget, Job, disk
  <2>2. awcu = NoFile => awcr # Torn
    BY <2>1, RegistriesDiffer, Zenon DEF FilesOK, Gap
  <2> QED
    BY <2>1, <2>2, Zenon DEF FilesOK, Now
<1> QED
  BY <1>6, <1>7, <1>8, <1>9, <1>10, <1>11, <1>12, <1>13, <1>14, <1>15, <1>16,
     <1>17, <1>18, <1>19, <1>20, <1>21, <1>22, Zenon DEF Next, Session, Handler,
     Disk, Begins, Crashes

-----------------------------------------------------------------------------
(* What can be read stays so, and is read to its end.                      *)

Readable == Registration.is = "readable" => Registration'.is = "readable"

LEMMA RegistrationKept ==
  ASSUME FilesOK, [Next]_vars, ~ \E ok \in BOOLEAN : AppendEntry(ok),
         ~Purge, ~Createlog, ~CloseLog, ~CrashAppending
  PROVE  Registration' = Registration
<1>1. ASSUME UNCHANGED <<awcu, awcr>> PROVE Registration' = Registration
  BY <1>1, Zenon DEF Registration
<1>2. ASSUME up, job # << >>,
             Head(job).do \notin {"rename", "exit", "create"}, awcu' = awcu
      PROVE  Registration' = Registration
  BY <1>2, Zenon DEF FilesOK, Gap, Now, Registration
<1>3. CASE UNCHANGED vars \/ Begins \/ Unlink
  <2>1. UNCHANGED <<awcu, awcr>>
    BY <1>3, Zenon DEF vars, disk, Begins, Load, Terminate, Error, Dupcheck, Eof,
       Deletecache, Flushtype, Fixcache, Exitcache, Start, Unlink
  <2> QED
    BY <1>1, <2>1
<1>4. CASE \/ \E u \in Urls : Data(u)
           \/ Dispose \/ Newcache \/ Srcupdatecache \/ Restore
           \/ Initcache \/ Deinstallcache \/ Crash \/ CrashReading
  <2>1. UNCHANGED <<awcu, awcr>>
    BY <1>4, Zenon DEF disk, Data, Dispose, Newcache, Srcupdatecache, Restore,
       Initcache, Deinstallcache, Crash, CrashReading
  <2> QED
    BY <1>1, <2>1
<1>5. CASE OpenSave \/ Discard \/ \E ok \in BOOLEAN : CloseSave(ok)
  <2>1. up /\ job # << >> /\ awcu' = awcu
        /\ Head(job).do \notin {"rename", "exit", "create"}
    BY <1>5, Zenon DEF OpenSave, Discard, CloseSave, Job
  <2> QED
    BY <1>2, <2>1
<1>6. CASE Rename
  BY <1>6, Zenon DEF Rename, Registration
<1> QED
  BY <1>3, <1>4, <1>5, <1>6, Zenon DEF Next, Session, Handler, Disk, Begins,
     Crashes

LEMMA ReadableStep ==
  ASSUME TypeInv, FilesOK, [Next]_vars
  PROVE  Readable
<1>1. IsRegistry(awcu) /\ IsRegistry(awcr)
  BY DEF TypeInv, TypeOK
<1>2. ASSUME Registration' = Registration PROVE Readable
  BY <1>2 DEF Readable
<1>3. CASE \E ok \in BOOLEAN : AppendEntry(ok)
  <2>1. PICK ok \in BOOLEAN : AppendEntry(ok)
    BY <1>3
  <2>2. up /\ job # << >> /\ Head(job).do = "append"
        /\ Written(awcu, Head(job).entry, awcu')
    BY <2>1, AppendIs
  <2>3. awcu # NoFile
    BY <2>2, Zenon DEF FilesOK, Gap, Now
  <2>4. awcu' # NoFile /\ (awcu.is = "readable" => awcu'.is = "readable")
    BY <1>1, <2>2, <2>3, RegistriesDiffer, Zenon DEF Written
  <2> QED
    BY <2>3, <2>4, Zenon DEF Registration, Readable
<1>4. CASE CrashAppending
  <2>1. up /\ job # << >> /\ Head(job).do = "append"
        /\ Written(awcu, Head(job).entry, awcu')
    BY <1>4, CrashAppendingIs
  <2>2. awcu # NoFile
    BY <2>1, Zenon DEF FilesOK, Gap, Now
  <2>3. awcu' # NoFile /\ (awcu.is = "readable" => awcu'.is = "readable")
    BY <1>1, <2>1, <2>2, RegistriesDiffer, Zenon DEF Written
  <2> QED
    BY <2>2, <2>3, Zenon DEF Registration, Readable
<1>5. CASE Purge
  <2>1. awcu' = NoFile /\ awcr' = awcr /\ Now("purge")
    BY <1>5, Zenon DEF Purge, Job, Now
  <2>2. awcr = Snapshot /\ Snapshot.is = "readable"
    BY <2>1, SnapshotIs DEF FilesOK
  <2> QED
    BY <2>1, <2>2, Zenon DEF Registration, Readable
<1>6. CASE Createlog
  <2>1. up /\ Now("create")
    BY <1>6, Zenon DEF Createlog, Job, Now
  <2>2. awcu = NoFile /\ awcr = NoFile
    BY <2>1, Zenon DEF FilesOK, Gap, Now
  <2> QED
    BY <2>2, RegistriesDiffer, Zenon DEF Registration, Readable
<1>7. CASE CloseLog
  <2>1. awcu' = Whole(cachenr, << >>)
    BY <1>7, Zenon DEF CloseLog
  <2>2. Whole(cachenr, << >>).is = "readable"
    BY SMT DEF Whole
  <2> QED
    BY <2>1, <2>2, RegistriesDiffer, Zenon DEF Registration, Readable
<1>8. CASE /\ ~ \E ok \in BOOLEAN : AppendEntry(ok)
           /\ ~Purge /\ ~Createlog /\ ~CloseLog /\ ~CrashAppending
  BY <1>2, <1>8, RegistrationKept
<1> QED
  BY <1>3, <1>4, <1>5, <1>6, <1>7, <1>8, Zenon

\* The checkpoint at the start of a session, which a later one may look like.
Starting == job \in {Save, Tail(Save), <<Step("purge"), Step("rename")>>}

LEMMA StartingHead ==
  Starting => job # << >> /\ Head(job).do \in {"open", "close", "purge"}
<1> DEFINE a == Step("open")
           b == Step("close")
           c == Step("rename")
           d == Step("purge")
<1>1. a.do = "open" /\ b.do = "close" /\ d.do = "purge"
  BY StepIs, Zenon
<1>2. Save = <<a, b, c>>
  BY Zenon DEF Save
<1>3. Starting <=> job \in {<<a, b, c>>, Tail(<<a, b, c>>), <<d, c>>}
  BY <1>2, Zenon DEF Starting
<1> HIDE DEF a, b, c, d
<1>4. Starting => job # << >> /\ (Head(job) = a \/ Head(job) = b \/ Head(job) = d)
  BY <1>3, SMT
<1> QED
  BY <1>1, <1>4, Zenon

LEMMA StartingOpen ==
  ASSUME Starting, OpenSave
  PROVE  Starting'
<1>1. Head(job).do = "open" /\ job' = Tail(job)
  BY Zenon DEF OpenSave, Job
<1> DEFINE a == Step("open")
           b == Step("close")
           c == Step("rename")
           d == Step("purge")
<1>2. b.do = "close" /\ d.do = "purge"
  BY StepIs, Zenon
<1>3. Save = <<a, b, c>>
  BY Zenon DEF Save
<1>4. Starting <=> job \in {<<a, b, c>>, Tail(<<a, b, c>>), <<d, c>>}
  BY <1>3, Zenon DEF Starting
<1>5. Starting' <=> job' \in {<<a, b, c>>, Tail(<<a, b, c>>), <<d, c>>}
  BY <1>3, Zenon DEF Starting
<1> HIDE DEF a, b, c, d
<1>6. Head(Tail(<<a, b, c>>)) = b /\ Head(<<d, c>>) = d
  BY SMT
<1> QED
  BY <1>1, <1>2, <1>4, <1>5, <1>6, Zenon

LEMMA StartingClose ==
  ASSUME TypeInv, CloseSave(TRUE), Starting
  PROVE  Starting'
<1> DEFINE t == Tail(job)
           a == Step("open")
           b == Step("close")
           c == Step("rename")
           d == Step("purge")
<1>1. Head(job).do = "close" /\ job' = <<d>> \o t
  BY Zenon DEF CloseSave, Job, Verdict
<1>2. a.do = "open" /\ b.do = "close" /\ d.do = "purge"
  BY StepIs, Zenon
<1>3. /\ Save = <<a, b, c>>
      /\ Starting' <=> job' \in {Save, Tail(Save), <<d, c>>}
      /\ Starting <=> job \in {Save, Tail(Save), <<d, c>>}
  BY Zenon DEF Save, Starting
<1>4. c \in Steps /\ d \in Steps
  BY StepIs
<1> HIDE DEF a, b, c, d
<1>5. Head(<<a, b, c>>) = a /\ Head(<<d, c>>) = d
  BY SMT
<1>6. job = Tail(<<a, b, c>>)
  BY <1>1, <1>2, <1>3, <1>5, Zenon
<1>7. t = <<c>>
  BY <1>6, SMT
<1> HIDE DEF t
<1>8. <<d>> \o <<c>> = <<d, c>>
  <2>1. /\ <<d>> \in Seq(Steps) /\ <<c>> \in Seq(Steps)
        /\ <<d, c>> \in Seq(Steps)
        /\ Len(<<d>>) = 1 /\ Len(<<c>>) = 1 /\ Len(<<d, c>>) = 2
        /\ <<d>>[1] = d /\ <<c>>[1] = c
        /\ <<d, c>>[1] = d /\ <<d, c>>[2] = c
    BY <1>4, SMT
  <2> DEFINE p == <<d>> \o <<c>>
  <2>2. p \in Seq(Steps) /\ Len(p) = 2 /\ p[1] = d /\ p[2] = c
    BY <2>1, SMT
  <2> HIDE DEF p
  <2>3. \A i \in 1 .. 2 : i = 1 \/ i = 2
    BY SMT
  <2>4. p = <<d, c>>
    BY <2>1, <2>2, <2>3, SeqEqual
  <2> QED
    BY <2>4 DEF p
<1> QED
  BY <1>1, <1>3, <1>7, <1>8, Zenon

\* An AWCU that cannot be read to its end is the last session's, until the
\* checkpoint at the start has replaced it, or the first one before it has a
\* header; or a write has failed.
LogOK == Corrupt(awcu) => ~up \/ failures > 0 \/ Starting \/ Now("header")

LEMMA LogKept ==
  ASSUME TypeInv, FilesOK, LogOK, [Next]_vars
  PROVE  LogOK'
<1>1. /\ IsRegistry(awcu) /\ IsRegistry(awcr) /\ job \in Seq(Steps)
      /\ awcr.is = "readable" => awcr.piece = NoPiece
      /\ failures \in 0 .. MaxFailures
  BY DEF TypeInv, TypeOK
<1>2. ASSUME awcu' = awcu, failures' = failures \/ failures' > 0,
             up, ~Starting, ~Now("header")
      PROVE  LogOK'
  BY <1>2, Zenon DEF LogOK, Corrupt
<1>3. /\ ~Corrupt(NoFile)
      /\ \A r : r.is = "readable" /\ r.piece = NoPiece => ~Corrupt(r)
  <2>1. NoFile # Torn /\ NoFile.is # "readable"
    BY SMT DEF NoFile, Torn
  <2> QED
    BY <2>1, RegistriesDiffer, Zenon DEF Corrupt
<1>4. CASE Begins
  <2>1. up /\ job = << >> /\ awcu' = awcu /\ failures' = failures
    BY <1>4, BeginsJob, Zenon DEF disk
  <2> QED
    BY <1>2, <2>1, StartingHead, Zenon DEF Now
<1>5. CASE UNCHANGED vars
  BY <1>5, Zenon DEF LogOK, Corrupt, Starting, Now, vars, disk, memory
<1>6. CASE \/ Unlink \/ Discard \/ Newcache \/ Srcupdatecache \/ Restore
           \/ Dispose \/ \E u \in Urls : Data(u)
  <2>1. /\ up /\ awcu' = awcu /\ failures' = failures
        /\ job # << >> => Head(job).do \in {"unlink", "discard", "new", "eof",
                                           "restore", "dispose"}
    BY <1>6, Zenon DEF Unlink, Discard, Newcache, Srcupdatecache, Restore,
       Dispose, Data, Job, Ready, disk
  <2> QED
    BY <1>2, <2>1, StartingHead, Zenon DEF Now
<1>7. CASE OpenSave
  <2>1. up /\ Head(job).do = "open" /\ awcu' = awcu /\ failures' = failures
    BY <1>7, Zenon DEF OpenSave, Job
  <2>2. Starting => Starting'
    BY <1>7, StartingOpen
  <2> QED
    BY <1>2, <2>1, <2>2, Zenon DEF LogOK, Now
<1>8. ASSUME NEW ok \in BOOLEAN, CloseSave(ok) PROVE LogOK'
  <2>1. /\ up /\ Head(job).do = "close" /\ awcu' = awcu
        /\ IF ok THEN failures' = failures ELSE failures' = failures + 1
    BY <1>8, Zenon DEF CloseSave, Job
  <2>2. ~ok => failures' > 0
    <3>1. ~ok => failures' = failures + 1
      BY <2>1, Zenon
    <3> QED
      BY <1>1, <3>1, RegistryAssumption, SMT
  <2>3. ok /\ Starting => Starting'
    <3>1. ok => CloseSave(TRUE)
      BY <1>8
    <3> QED
      BY <3>1, StartingClose
  <2> QED
    BY <1>2, <2>1, <2>2, <2>3, Zenon DEF LogOK, Now
<1>9. ASSUME NEW ok \in BOOLEAN, AppendEntry(ok) PROVE LogOK'
  <2>1. /\ up /\ job # << >> /\ Head(job).do = "append"
        /\ IF ok THEN failures' = failures ELSE failures' > 0
        /\ ok /\ awcu.is = "readable" /\ ~Corrupt(awcu) => ~Corrupt(awcu')
    BY <1>9, AppendIs
  <2>2. awcu # NoFile
    BY <2>1, Zenon DEF FilesOK, Gap, Now
  <2>3. ~Starting /\ ~Now("header")
    BY <2>1, StartingHead, Zenon DEF Now
  <2>4. CASE failures > 0
    BY <2>1, <2>4, Zenon DEF LogOK
  <2>5. CASE ~(failures > 0)
    <3>1. ~Corrupt(awcu)
      BY <2>1, <2>3, <2>5, Zenon DEF LogOK
    <3>2. awcu.is = "readable"
      BY <1>1, <2>2, <3>1, RegistriesDiffer, Zenon DEF Corrupt
    <3>3. ok => ~Corrupt(awcu')
      BY <2>1, <3>1, <3>2
    <3>4. ~ok => failures' > 0
      BY <2>1
    <3> QED
      BY <3>3, <3>4, Zenon DEF LogOK, Corrupt
  <2> QED
    BY <2>4, <2>5
<1>10. CASE Purge
  <2>1. awcu' = NoFile
    BY <1>10, Zenon DEF Purge
  <2> QED
    BY <1>3, <2>1, Zenon DEF LogOK, Corrupt
<1>11. CASE Rename
  <2>1. /\ up /\ job # << >> /\ Head(job).do = "rename" /\ failures' = failures
        /\ IF awcr # NoFile /\ awcu = NoFile THEN awcu' = awcr ELSE awcu' = awcu
    BY <1>11, Zenon DEF Rename, Job
  <2>2. ~Starting /\ ~Now("header")
    BY <2>1, StartingHead, Zenon DEF Now
  <2>3. awcu = NoFile => awcr.is = "readable"
    BY <2>1, Zenon DEF FilesOK, Gap, Now
  <2>4. awcu' = awcu \/ ~Corrupt(awcu')
    <3>1. awcu' = awcu \/ (awcu' = awcr /\ awcr.is = "readable")
      BY <2>1, <2>3, Zenon
    <3>2. awcr.is = "readable" => ~Corrupt(awcr)
      BY <1>1, <1>3
    <3> QED
      BY <3>1, <3>2
  <2> QED
    BY <1>2, <2>1, <2>2, <2>4, Zenon DEF LogOK, Corrupt
<1>12. CASE Createlog
  <2> DEFINE s == Step("header")
             t == Tail(job)
  <2>1. job' = <<s>> \o t /\ job # << >>
    BY <1>12, Zenon DEF Createlog, Job
  <2>2. s \in Steps /\ s.do = "header" /\ t \in Seq(Steps)
    BY <1>1, <2>1, StepIs, HeadTailProperties
  <2>3. job' # << >> /\ Head(job') = s
    <3> HIDE DEF s, t
    <3> QED
      BY <2>1, <2>2, SMT
  <2> QED
    BY <2>2, <2>3, Zenon DEF LogOK, Now
<1>13. CASE CloseLog
  <2>1. awcu' = Whole(cachenr, << >>)
    BY <1>13, Zenon DEF CloseLog
  <2>2. Whole(cachenr, << >>).is = "readable"
        /\ Whole(cachenr, << >>).piece = NoPiece
    BY SMT DEF Whole
  <2>3. ~Corrupt(awcu')
    BY <1>3, <2>1, <2>2
  <2> QED
    BY <2>3, Zenon DEF LogOK, Corrupt
<1>14. CASE Initcache
  <2>1. /\ awcu' = awcu
        /\ job' = IF awcu # NoFile THEN Save
                  ELSE IF awcr # NoFile THEN <<Step("rename")>>
                  ELSE <<Step("create")>>
    BY <1>14, Zenon DEF Initcache, Recovery
  <2>2. awcu = NoFile => ~Corrupt(awcu)
    BY <1>3
  <2>3. awcu # NoFile => Starting'
    BY <2>1, Zenon DEF Starting
  <2> QED
    BY <2>1, <2>2, <2>3, Zenon DEF LogOK, Corrupt
<1>15. CASE Deinstallcache \/ Crash \/ CrashAppending \/ CrashReading
  <2>1. ~up'
    BY <1>15, Zenon DEF Deinstallcache, Crash, CrashAppending, CrashReading,
       Forget, memory
  <2> QED
    BY <2>1 DEF LogOK
<1> QED
  BY <1>4, <1>5, <1>6, <1>7, <1>8, <1>9, <1>10, <1>11, <1>12, <1>13, <1>14, <1>15,
     Zenon DEF Next, Session, Handler, Disk, Begins, Crashes

LEMMA FilesAlways == Spec => [](TypeInv /\ FilesOK /\ LogOK)
<1>1. Init => TypeInv /\ FilesOK /\ LogOK
  <2>1. Init => FilesOK
    BY RegistriesDiffer, Zenon DEF Init, FilesOK, Now
  <2>2. Init => LogOK
    BY Zenon DEF Init, LogOK
  <2> QED
    BY <2>1, <2>2, TypeStarts
<1>2. TypeInv /\ FilesOK /\ LogOK /\ [Next]_vars => (TypeInv /\ FilesOK /\ LogOK)'
  BY TypeKept, FilesKept, LogKept
<1> QED
  BY <1>1, <1>2, PTL DEF Spec

\* Whatever the moment of a crash or of a failed write, a start that could
\* read the header of a registration is never followed by one that cannot.
THEOREM ReadableForGood == Spec => StaysReadable
<1>1. TypeInv /\ FilesOK /\ LogOK /\ [Next]_vars => [Readable]_vars
  BY ReadableStep
<1> QED
  BY <1>1, FilesAlways, PTL DEF Spec, StaysReadable, Readable

\* Unless a write failed, a session goes on with a registration that can be
\* read to its end, whatever a crash has cut short before it.
THEOREM NeverCorruptAlways == Spec => []NeverCorrupt
<1>1. LogOK => NeverCorrupt
  BY StartingHead, Zenon DEF LogOK, NeverCorrupt, Ready, Now
<1> QED
  BY <1>1, FilesAlways, PTL

-----------------------------------------------------------------------------
(* A cac that is being written has its file for itself.                    *)

Unclosed(S) == {c \in S : c.stage # "closed"}
Alone(S) == \A c \in Unclosed(S), d \in S : d.nr = c.nr => d = c
Additions(r) ==
  IF r.is # "readable" THEN {}
  ELSE {e \in {r.entries[i] : i \in 1 .. Len(r.entries)} : ~e.del}

\* What is registered does not get in the way of a number that is given, as
\* far as the cac with that number has not been closed.
Excepted(e) ==
  failures > 0 /\ (e.url \in Expiring \/ Registration.piece # NoPiece)
Apart(e, c) == c.nr = e.nr => c.url = e.url \/ Excepted(e)
KnownNr(e) ==
  e.nr <= cachenr \/ Excepted(e) \/ (e.url \in Expiring /\ Starting)
Pending(e) == e.nr <= cachenr /\ \A c \in Unclosed(cac) : c.nr # e.nr

NumbersOK ==
  /\ \A c \in cac : c.nr <= cachenr
  /\ Alone(cac)
  /\ \A e \in Additions(Registration), c \in Unclosed(cac) : Apart(e, c)
  /\ up => \A e \in Additions(Registration) : KnownNr(e)
  /\ awcu = NoFile => \A e \in Additions(awcr) : e.nr <= awcr.lastnr
  /\ Now("append") /\ ~Head(job).entry.del => Pending(Head(job).entry)

LEMMA AdditionTypes ==
  ASSUME NEW r, IsRegistry(r)
  PROVE  \A e \in Additions(r) : e \in Entries /\ ~e.del /\ e.nr \in Numbers
<1>1. CASE r.is = "readable"
  <2>1. \A i \in 1 .. Len(r.entries) : r.entries[i] \in Entries
    BY <1>1, ReadTypes
  <2>2. \A e \in Entries : e.nr \in Numbers
    BY SMT DEF Entries
  <2> QED
    BY <1>1, <2>1, <2>2, Zenon DEF Additions
<1>2. CASE r.is # "readable"
  BY <1>2, Zenon DEF Additions
<1> QED
  BY <1>1, <1>2

\* The objects of T take the place of objects of S, one of each.
Follows(f, S, T) ==
  /\ \A x \in T : \E c \in S : x = f[c]
  /\ \A c \in S : /\ f[c].nr = c.nr /\ f[c].url = c.url
                  /\ f[c].stage # "closed" => c.stage # "closed"

LEMMA AloneKept ==
  ASSUME NEW S, Alone(S), NEW f, NEW T, Follows(f, S, T)
  PROVE  /\ Alone(T)
         /\ \A x \in Unclosed(T) : \E c \in Unclosed(S) :
              c.nr = x.nr /\ c.url = x.url
         /\ \A x \in T : \E c \in S : c.nr = x.nr
<1>1. ASSUME NEW x \in Unclosed(T), NEW y \in T, y.nr = x.nr
      PROVE  y = x
  <2>1. PICK c \in S : x = f[c]
    BY Zenon DEF Unclosed, Follows
  <2>2. PICK d \in S : y = f[d]
    BY Zenon DEF Follows
  <2>3. c \in Unclosed(S) /\ d.nr = c.nr
    BY <1>1, <2>1, <2>2, Zenon DEF Unclosed, Follows
  <2> QED
    BY <2>1, <2>2, <2>3, Zenon DEF Alone
<1>2. Alone(T)
  BY <1>1, Zenon DEF Alone
<1>3. ASSUME NEW x \in Unclosed(T)
      PROVE  \E c \in Unclosed(S) : c.nr = x.nr /\ c.url = x.url
  <2>1. PICK c \in S : x = f[c]
    BY Zenon DEF Unclosed, Follows
  <2> QED
    BY <2>1, Zenon DEF Unclosed, Follows
<1>4. \A x \in T : \E c \in S : c.nr = x.nr
  BY Zenon DEF Follows
<1> QED
  BY <1>2, <1>3, <1>4, Zenon

\* Steps that leave the list and the registration alone.
LEMMA NumbersSame ==
  ASSUME NumbersOK, UNCHANGED <<cac, cachenr, up>>,
         Registration' = Registration,
         failures' = failures \/ failures' > 0,
         Starting => Starting' \/ failures' > 0,
         awcu' = NoFile => \A e \in Additions(awcr)' : e.nr <= awcr'.lastnr,
         job' = job \/ ((Now("append"))' => Head(job').entry.del)
  PROVE  NumbersOK'
<1>1. Additions(Registration)' = Additions(Registration)
  BY Zenon DEF Additions
<1>2. Unclosed(cac)' = Unclosed(cac)
  BY Zenon DEF Unclosed
<1>3. \A e, c : Apart(e, c) => Apart(e, c)'
  BY Zenon DEF Apart, Excepted
<1>4. \A e : KnownNr(e) => KnownNr(e)'
  BY Zenon DEF KnownNr, Excepted
<1>5. \A c \in cac' : c.nr <= cachenr'
  BY Zenon DEF NumbersOK
<1>6. Alone(cac)'
  BY Zenon DEF NumbersOK
<1>7. \A e \in Additions(Registration)', c \in Unclosed(cac)' : Apart(e, c)'
  BY <1>1, <1>2, <1>3, Zenon DEF NumbersOK
<1>8. up' => \A e \in Additions(Registration)' : KnownNr(e)'
  BY <1>1, <1>4, Zenon DEF NumbersOK
<1>9. (Now("append"))' /\ ~Head(job').entry.del => (Pending(Head(job).entry))'
  BY <1>2, Zenon DEF NumbersOK, Now, Pending
<1> QED
  BY <1>5, <1>6, <1>7, <1>8, <1>9, Zenon DEF NumbersOK

\* Steps that change the list: what is open in it was open, but for a new
\* number.
LEMMA NumbersListed ==
  ASSUME TypeInv, NumbersOK, UNCHANGED <<awcu, awcr, up, failures>>,
         ~Starting, cachenr' = cachenr \/ cachenr' = cachenr + 1,
         \A c \in cac' : c.nr <= cachenr', Alone(cac'),
         \A x \in Unclosed(cac') :
           \/ \E c \in Unclosed(cac) : c.nr = x.nr /\ c.url = x.url
           \/ x.nr = cachenr + 1,
         up,
         (Now("append"))' /\ ~Head(job').entry.del
           => (Pending(Head(job).entry))'
  PROVE  NumbersOK'
<1>1. Registration' = Registration
      /\ Additions(Registration)' = Additions(Registration)
      /\ Additions(awcr)' = Additions(awcr)
  BY Zenon DEF Registration, Additions
<1>2. IsRegistry(Registration) /\ cachenr \in Nat
  <2>1. IsRegistry(Registration)
    BY Zenon DEF TypeInv, TypeOK, Registration
  <2>2. cachenr \in 0 .. MaxNr
    BY DEF TypeInv, TypeOK
  <2> QED
    BY <2>1, <2>2, SMT
<1>3. \A e \in Additions(Registration) :
        e.nr \in Nat /\ (e.nr <= cachenr \/ Excepted(e))
  <2>1. \A e \in Additions(Registration) : e.nr <= cachenr \/ Excepted(e)
    BY Zenon DEF NumbersOK, KnownNr
  <2>2. \A n \in Numbers : n \in Nat
    BY SMT DEF Numbers
  <2> QED
    BY <1>2, <2>1, <2>2, AdditionTypes
<1>4. ASSUME NEW e \in Additions(Registration), NEW x \in Unclosed(cac')
      PROVE  Apart(e, x)'
  <2>1. CASE \E c \in Unclosed(cac) : c.nr = x.nr /\ c.url = x.url
    BY <1>1, <2>1, Zenon DEF NumbersOK, Apart, Excepted
  <2>2. CASE x.nr = cachenr + 1
    <3>1. ~(e.nr <= cachenr) \/ e.nr # x.nr
      BY <1>2, <1>3, <2>2, SMT
    <3> QED
      BY <1>1, <1>3, <3>1, Zenon DEF Apart, Excepted
  <2> QED
    BY <2>1, <2>2
<1>5. ASSUME NEW e \in Additions(Registration)
      PROVE  KnownNr(e)'
  <2>1. e.nr <= cachenr => e.nr <= cachenr'
    BY <1>2, <1>3, SMT
  <2> QED
    BY <1>1, <1>3, <2>1, Zenon DEF KnownNr, Excepted
<1>6. \A e \in Additions(Registration)', c \in Unclosed(cac)' : Apart(e, c)'
  BY <1>1, <1>4, Zenon
<1>7. \A e \in Additions(Registration)' : KnownNr(e)'
  BY <1>1, <1>5, Zenon
<1>8. awcu' = NoFile => \A e \in Additions(awcr)' : e.nr <= awcr'.lastnr
  BY <1>1, Zenon DEF NumbersOK
<1>9. (\A c \in cac : c.nr <= cachenr)' /\ Alone(cac)'
  BY Zenon
<1> QED
  BY <1>6, <1>7, <1>8, <1>9, Zenon DEF NumbersOK

\* The steps of a job that change the disk.
LEMMA NumbersOnDisk ==
  ASSUME TypeInv, FilesOK, LogOK, NumbersOK, DiskStep
  PROVE  NumbersOK'
<1> DEFINE t == Tail(job)
           k == cachenr
<1>1. /\ job # << >> /\ up /\ UNCHANGED <<cac, cachenr, up>>
      /\ t \in Seq(Later(k)) /\ job \in Seq(Steps)
      /\ IsRegistry(awcu) /\ IsRegistry(awcr)
      /\ cachenr \in 0 .. MaxNr
  <2>1. job # << >> /\ up /\ UNCHANGED <<cac, cachenr, up>>
    BY Zenon DEF DiskStep, Job, Unlink, AppendEntry, OpenSave, Purge,
       Discard, Rename, Createlog, CloseLog, CloseSave, memory
  <2> QED
    BY <2>1, RestHead DEF TypeInv, TypeOK
<1>2. ASSUME Head(job).do \notin {"rename", "exit", "create"}
      PROVE  awcu # NoFile
  BY <1>1, <1>2, Zenon DEF FilesOK, Gap, Now
<1>3. job' = t => ((Now("append"))' => Head(job').entry.del)
  BY <1>1, LaterHead, Zenon DEF Now
<1>4. CASE Unlink \/ Discard
  <2>1. /\ Head(job).do \notin {"rename", "exit", "create", "open", "close",
                                "purge"}
        /\ job' = t /\ UNCHANGED <<awcu, failures>>
    BY <1>4, Zenon DEF Unlink, Discard, Job
  <2>2. awcu' # NoFile /\ Registration' = Registration /\ ~Starting
    BY <1>2, <2>1, StartingHead, Zenon DEF Registration
  <2> QED
    BY <1>1, <1>3, <2>1, <2>2, NumbersSame
<1>5. CASE OpenSave
  <2>1. Head(job).do = "open" /\ job' = t /\ UNCHANGED <<awcu, failures>>
    BY <1>5, Zenon DEF OpenSave, Job
  <2>2. awcu' # NoFile /\ Registration' = Registration
    BY <1>2, <2>1, Zenon DEF Registration
  <2>3. Starting => Starting'
    BY <1>5, StartingOpen
  <2> QED
    BY <1>1, <1>3, <2>1, <2>2, <2>3, NumbersSame
<1>6. ASSUME NEW ok \in BOOLEAN, CloseSave(ok) PROVE NumbersOK'
  <2>1. /\ Head(job).do = "close" /\ awcu' = awcu
        /\ job' = <<Step(Verdict(ok))>> \o t
        /\ IF ok THEN failures' = failures ELSE failures' = failures + 1
    BY <1>6, Zenon DEF CloseSave, Job
  <2>2. awcu' # NoFile /\ Registration' = Registration
    BY <1>2, <2>1, Zenon DEF Registration
  <2>3. ~ok => failures' > 0
    <3>1. failures \in 0 .. MaxFailures
      BY DEF TypeInv, TypeOK
    <3>2. ~ok => failures' = failures + 1
      BY <2>1, Zenon
    <3> QED
      BY <3>1, <3>2, RegistryAssumption, SMT
  <2> DEFINE v == Step(Verdict(ok))
  <2>4. v.do # "append" /\ v \in Steps
    BY StepIs, Zenon DEF Verdict
  <2>5. t \in Seq(Steps)
    BY <1>1, HeadTailProperties
  <2>7. Head(job') = v
    <3>1. job' = <<v>> \o t
      BY <2>1
    <3> HIDE DEF v, t
    <3> QED
      BY <2>4, <2>5, <3>1, SMT
  <2>8. Starting /\ ok => Starting'
    <3>1. ok => CloseSave(TRUE)
      BY <1>6
    <3> QED
      BY <3>1, StartingClose
  <2>9. (Now("append"))' => Head(job').entry.del
    BY <2>4, <2>7, Zenon DEF Now
  <2>10. failures' = failures \/ failures' > 0
    BY <2>1, <2>3, Zenon
  <2>11. Starting => Starting' \/ failures' > 0
    BY <2>3, <2>8, Zenon
  <2> QED
    BY <1>1, <2>2, <2>9, <2>10, <2>11, NumbersSame
<1>7. CASE Rename
  <2>1. /\ Head(job).do = "rename" /\ job' = t /\ failures' = failures
        /\ IF awcr # NoFile /\ awcu = NoFile
           THEN awcu' = awcr /\ awcr' = NoFile
           ELSE UNCHANGED <<awcu, awcr>>
    BY <1>7, Zenon DEF Rename, Job
  <2>2. ~Starting /\ Registration' = Registration
    BY <2>1, StartingHead, Zenon DEF Registration
  <2>3. awcu' = NoFile => \A e \in Additions(awcr)' : e.nr <= awcr'.lastnr
    BY <2>1, Zenon DEF NumbersOK
  <2> QED
    BY <1>1, <1>3, <2>1, <2>2, <2>3, NumbersSame
<1>8. ASSUME \A e \in Additions(Registration)' :
               (\A c \in Unclosed(cac) : Apart(e, c)') /\ KnownNr(e)',
             awcu' # NoFile, (Now("append"))' => Head(job').entry.del
      PROVE  NumbersOK'
  <2>1. Unclosed(cac)' = Unclosed(cac)
    BY <1>1, Zenon DEF Unclosed
  <2>2. (\A c \in cac : c.nr <= cachenr)' /\ Alone(cac)'
    BY <1>1, Zenon DEF NumbersOK
  <2>3. \A e \in Additions(Registration)', c \in Unclosed(cac)' : Apart(e, c)'
    BY <1>8, <2>1, Zenon
  <2> QED
    BY <1>8, <2>2, <2>3, Zenon DEF NumbersOK
<1>9. ASSUME NEW ok \in BOOLEAN, AppendEntry(ok) PROVE NumbersOK'
  <2> DEFINE x == Head(job).entry
  <2>1. /\ Head(job).do = "append" /\ x \in Entries
        /\ Written(awcu, x, awcu') /\ awcr' = awcr
        /\ job' = Save \o t \/ job' = t
        /\ IF ok THEN failures' = failures ELSE failures' > 0
    BY <1>9, AppendIs
  <2>2. awcu # NoFile /\ ~Starting /\ ~Now("header")
    BY <1>2, <2>1, StartingHead, Zenon DEF Now
  <2>3. (Now("append"))' => Head(job').entry.del
    <3>1. Save \o t \in Seq(Later(k))
      <4>1. Save \in Seq(Later(k))
        BY SaveShape
      <4> QED
        BY <1>1, <4>1, ConcatProperties
    <3>2. job' \in Seq(Later(k))
      BY <1>1, <2>1, <3>1
    <3> QED
      BY <3>2, LaterHead, Zenon DEF Now
  <2>4. awcu' # NoFile
    BY <1>1, <2>1, <2>2, RegistriesDiffer, Zenon DEF Written
  <2>5. Registration = awcu /\ Registration' = awcu'
    BY <2>2, <2>4, Zenon DEF Registration
  <2>6. CASE awcu.is # "readable"
    <3>1. awcu'.is # "readable"
      BY <2>1, <2>6, RegistriesDiffer, Zenon DEF Written
    <3>2. Additions(Registration)' = {}
      BY <2>5, <3>1, Zenon DEF Additions
    <3> QED
      BY <1>8, <2>3, <2>4, <3>2, Zenon
  <2>7. CASE awcu.is = "readable"
    <3> DEFINE q == awcu.entries
               f == awcu'.entries
    <3>1. /\ awcu'.is = "readable" /\ q \in Seq(Entries)
          /\ awcu.piece # NoPiece => awcu'.piece # NoPiece
          /\ \/ f = q
             \/ f = Append(q, x)
             \/ /\ awcu'.piece = Mixed
                /\ \E m : Completes(m, awcu.piece, x) /\ f = Append(q, m)
      BY <1>1, <2>1, <2>7, LogParts DEF Written
    <3>2. /\ Additions(Registration)' = {e \in {f[i] : i \in 1 .. Len(f)} : ~e.del}
          /\ Additions(Registration) = {e \in {q[i] : i \in 1 .. Len(q)} : ~e.del}
      BY <2>5, <2>7, <3>1, Zenon DEF Additions
    <3>3. \A m : f = Append(q, m) => \A i \in 1 .. Len(f) :
            (i \in 1 .. Len(q) /\ f[i] = q[i]) \/ f[i] = m
      <4> HIDE DEF q, f
      <4> QED
        BY <3>1, SMT
    <3>4. ASSUME NEW e \in Additions(Registration)
          PROVE  (\A c \in Unclosed(cac) : Apart(e, c)') /\ KnownNr(e)'
      <4>1. Excepted(e) => Excepted(e)'
        BY <2>1, <2>5, <3>1, Zenon DEF Excepted
      <4>2. \A c \in Unclosed(cac) : Apart(e, c)'
        BY <4>1, Zenon DEF NumbersOK, Apart
      <4>3. KnownNr(e)'
        BY <1>1, <2>2, <4>1, Zenon DEF NumbersOK, KnownNr
      <4> QED
        BY <4>2, <4>3
    <3>5. ASSUME NEW m, m = x, ~m.del
          PROVE  (\A c \in Unclosed(cac) : Apart(m, c)') /\ KnownNr(m)'
      <4>1. Pending(m)
        BY <1>1, <2>1, <3>5, Zenon DEF NumbersOK, Now
      <4>2. \A c \in Unclosed(cac) : Apart(m, c)'
        BY <4>1, Zenon DEF Pending, Apart
      <4>3. KnownNr(m)'
        BY <1>1, <4>1, Zenon DEF Pending, KnownNr
      <4> QED
        BY <4>2, <4>3
    <3>6. ASSUME NEW m, Completes(m, awcu.piece, x), awcu'.piece = Mixed
          PROVE  (\A c \in Unclosed(cac) : Apart(m, c)') /\ KnownNr(m)'
      <4>1. Corrupt(awcu)
        BY <2>7, <3>6, PiecesDiffer, Zenon DEF Completes, Corrupt
      <4>2. failures > 0
        BY <1>1, <2>2, <4>1, Zenon DEF LogOK
      <4>3. Excepted(m)'
        BY <2>1, <2>5, <3>6, <4>2, PiecesDiffer, Zenon DEF Excepted
      <4> QED
        BY <4>3, Zenon DEF Apart, KnownNr
    <3> HIDE DEF q, f, x
    <3>7. ASSUME NEW e \in Additions(Registration)'
          PROVE  (\A c \in Unclosed(cac) : Apart(e, c)') /\ KnownNr(e)'
      <4>1. PICK i \in 1 .. Len(f) : e = f[i] /\ ~e.del
        BY <3>2, Zenon
      <4>2. CASE f = q
        BY <3>2, <3>4, <4>1, <4>2, Zenon
      <4>3. ASSUME NEW m, f = Append(q, m)
            PROVE  e \in Additions(Registration) \/ e = m
        BY <3>2, <3>3, <4>1, <4>3, Zenon
      <4>4. CASE f = Append(q, x)
        BY <3>4, <3>5, <4>1, <4>3, <4>4, Zenon
      <4>5. ASSUME NEW m, Completes(m, awcu.piece, x), awcu'.piece = Mixed,
                   f = Append(q, m)
            PROVE  (\A c \in Unclosed(cac) : Apart(e, c)') /\ KnownNr(e)'
        BY <3>4, <3>6, <4>3, <4>5, Zenon
      <4> QED
        BY <3>1, <4>2, <4>4, <4>5, Zenon
    <3> QED
      BY <1>8, <2>3, <2>4, <3>7, Zenon
  <2> QED
    BY <2>6, <2>7
<1>10. CASE Purge
  <2>1. /\ Head(job).do = "purge" /\ awcu' = NoFile /\ awcr' = awcr
        /\ job' = t /\ failures' = failures
    BY <1>10, Zenon DEF Purge, Job
  <2>2. awcr = Snapshot
    BY <1>1, <2>1, Zenon DEF FilesOK, Now
  <2>3. Registration' = Snapshot
    BY <2>1, <2>2, Zenon DEF Registration
  <2>4. ASSUME NEW e \in Additions(Snapshot)
        PROVE  \E d \in cac : e.nr = d.nr /\ e.url = d.url
    <3>1. Snapshot.is = "readable"
      BY SnapshotIs
    <3>2. PICK i \in 1 .. Len(Snapshot.entries) : e = Snapshot.entries[i]
      BY <3>1, Zenon DEF Additions
    <3>3. PICK d \in cac : e = Entry(FALSE, d)
      BY <3>2, SnapshotIs
    <3>4. e.nr = d.nr /\ e.url = d.url
      BY <3>3, SMT DEF Entry
    <3> QED
      BY <3>4
  <2>5. \A e \in Additions(Snapshot) :
          /\ \A c \in Unclosed(cac) : Apart(e, c)'
          /\ e.nr <= cachenr
    <3> SUFFICES ASSUME NEW e \in Additions(Snapshot)
                 PROVE  /\ \A c \in Unclosed(cac) : Apart(e, c)'
                        /\ e.nr <= cachenr
      OBVIOUS
    <3>1. PICK d \in cac : e.nr = d.nr /\ e.url = d.url
      BY <2>4
    <3>2. e.nr <= cachenr
      BY <1>1, <3>1, Zenon DEF NumbersOK
    <3>3. ASSUME NEW c \in Unclosed(cac), c.nr = e.nr PROVE c.url = e.url
      BY <1>1, <3>1, <3>3, Zenon DEF NumbersOK, Alone
    <3>4. \A c \in Unclosed(cac) : Apart(e, c)'
      BY <3>3, Zenon DEF Apart
    <3> QED
      BY <3>2, <3>4
  <2>6. Additions(Registration)' = Additions(Snapshot)
        /\ Additions(awcr)' = Additions(Snapshot)
    BY <2>1, <2>2, <2>3, Zenon DEF Additions
  <2>7. awcr'.lastnr = cachenr
    BY <2>1, <2>2, SnapshotIs
  <2>8. (\A c \in cac : c.nr <= cachenr)' /\ Alone(cac)'
    BY <1>1, Zenon DEF NumbersOK
  <2>9. \A e \in Additions(Registration)', c \in Unclosed(cac)' : Apart(e, c)'
    BY <1>1, <2>5, <2>6, Zenon DEF Unclosed
  <2>10. \A e \in Additions(Registration)' : KnownNr(e)'
    BY <1>1, <2>5, <2>6, Zenon DEF KnownNr
  <2>11. \A e \in Additions(awcr)' : e.nr <= awcr'.lastnr
    BY <2>5, <2>6, <2>7, Zenon
  <2> QED
    BY <1>3, <2>1, <2>8, <2>9, <2>10, <2>11, Zenon DEF NumbersOK
<1>11. CASE Createlog
  <2> DEFINE h == Step("header")
  <2>1. awcu' = Torn /\ job' = <<h>> \o t
    BY <1>11, Zenon DEF Createlog
  <2>2. h \in Steps /\ h.do = "header" /\ t \in Seq(Steps)
    BY <1>1, StepIs, HeadTailProperties
  <2>3. Head(job') = h
    <3> HIDE DEF h, t
    <3> QED
      BY <2>1, <2>2, SMT
  <2>4. Torn # NoFile /\ Torn.is # "readable"
    BY SMT DEF Torn, NoFile
  <2>5. awcu' # NoFile /\ Additions(Registration)' = {}
    BY <2>1, <2>4, Zenon DEF Registration, Additions
  <2>6. ~(Now("append"))'
    BY <2>2, <2>3, Zenon DEF Now
  <2> QED
    BY <1>8, <2>5, <2>6, Zenon
<1>12. CASE CloseLog
  <2>1. awcu' = Whole(cachenr, << >>) /\ job' = t
    BY <1>12, Zenon DEF CloseLog
  <2>2. awcu'.is = "readable" /\ awcu'.entries = << >>
    BY <2>1, SMT DEF Whole
  <2>3. 1 .. Len(<< >>) = {}
    BY SMT
  <2>4. awcu' # NoFile /\ Registration' = awcu'
    BY <2>2, RegistriesDiffer, Zenon DEF Registration
  <2>5. Additions(Registration)' = {}
    BY <2>2, <2>3, <2>4, Zenon DEF Additions
  <2> QED
    BY <1>3, <1>8, <2>1, <2>4, <2>5, Zenon
<1> QED
  BY <1>4, <1>5, <1>6, <1>7, <1>9, <1>10, <1>11, <1>12, Zenon DEF DiskStep

\* The steps that change the list.
LEMMA NumbersInList ==
  ASSUME TypeInv, NumbersOK,
         \/ \E u \in Urls : Data(u)
         \/ Dispose \/ Newcache \/ Srcupdatecache \/ Restore
  PROVE  NumbersOK'
<1> DEFINE t == Tail(job)
           k == cachenr
<1>1. /\ cac \in SUBSET Caches /\ job \in Seq(Steps) /\ cachenr \in 0 .. MaxNr
      /\ job # << >> => t \in Seq(Later(k))
  BY RestHead DEF TypeInv, TypeOK
<1>2. /\ \A c \in cac : c.nr <= cachenr /\ c.nr \in Numbers
      /\ Alone(cac)
  <2>1. \A c \in Caches : c.nr \in Numbers
    BY SMT DEF Caches
  <2> QED
    BY <1>1, <2>1, Zenon DEF NumbersOK
<1>3. \A u : Held(u) \in SUBSET cac /\ Replaced(u) \in SUBSET cac
  BY Zenon DEF Held, Replaced, Mine
<1>4. ASSUME NEW f, Follows(f, cac, cac'),
             UNCHANGED <<awcu, awcr, up, failures, cachenr>>, ~Starting, up,
             (Now("append"))' /\ ~Head(job').entry.del
               => (Pending(Head(job).entry))'
      PROVE  NumbersOK'
  <2>1. /\ Alone(cac')
        /\ \A x \in Unclosed(cac') : \E c \in Unclosed(cac) :
             c.nr = x.nr /\ c.url = x.url
        /\ \A x \in cac' : \E c \in cac : c.nr = x.nr
    BY <1>2, <1>4, AloneKept
  <2>2. \A c \in cac' : c.nr <= cachenr'
    BY <1>2, <1>4, <2>1, Zenon
  <2> QED
    BY <1>4, <2>1, <2>2, NumbersListed
<1>5. job' = t /\ job # << >> => ~((Now("append"))' /\ ~Head(job').entry.del)
  BY <1>1, LaterHead, Zenon DEF Now
<1>6. ASSUME NEW u \in Urls, Data(u) PROVE NumbersOK'
  <2>1. PICK c \in Held(u) :
          c.stage = "new" /\ cac' = (cac \ {c}) \cup {Staged(c, "open")}
    BY <1>6, Zenon DEF Data, Staged
  <2>2. /\ job = << >> /\ job' = job /\ up
        /\ UNCHANGED <<awcu, awcr, up, failures, cachenr>>
    BY <1>6, Zenon DEF Data, Ready
  <2> DEFINE f == [d \in cac |-> IF d = c THEN Staged(c, "open") ELSE d]
  <2>3. c \in Caches
    BY <1>1, <1>3
  <2>4. Staged(c, "open").nr = c.nr /\ Staged(c, "open").url = c.url
    BY <2>3, StagedIs
  <2>5. Follows(f, cac, cac')
    <3>1. \A x \in cac' : \E d \in cac : x = f[d]
      BY <1>3, <2>1, Zenon
    <3>2. \A d \in cac : /\ f[d].nr = d.nr /\ f[d].url = d.url
                         /\ f[d].stage # "closed" => d.stage # "closed"
      BY <2>1, <2>4, Zenon
    <3> QED
      BY <3>1, <3>2, Zenon DEF Follows
  <2>6. ~Starting /\ ~(Now("append"))'
    BY <2>2, StartingHead, Zenon DEF Now
  <2> HIDE DEF f
  <2> QED
    BY <1>4, <2>2, <2>5, <2>6, Zenon
<1>7. CASE Dispose
  <2>1. /\ job # << >> /\ Head(job).do = "dispose" /\ up
        /\ cac' \in SUBSET cac /\ job' = Disposecache(Head(job).cac) \o t
        /\ UNCHANGED <<awcu, awcr, up, failures, cachenr>>
    BY <1>7, Zenon DEF Dispose, Job, disk
  <2>2. Head(job).cac \in Caches
    <3>1. Head(job) \in Steps
      BY <1>1, <2>1, HeadTailProperties
    <3> QED
      BY <2>1, <3>1, StepHas
  <2>3. job' \in Seq(Later(k))
    BY <2>1, <2>2, RestHead
  <2>4. ~((Now("append"))' /\ ~Head(job').entry.del) /\ ~Starting
    BY <2>1, <2>3, LaterHead, StartingHead, Zenon DEF Now
  <2> DEFINE f == [d \in cac |-> d]
  <2>5. Follows(f, cac, cac')
    BY <2>1, Zenon DEF Follows
  <2> HIDE DEF f
  <2> QED
    BY <1>4, <2>1, <2>4, <2>5, Zenon
<1>8. ASSUME NEW R \in SUBSET cac, NEW h \in BOOLEAN,
             NEW T, T = (cac \ R) \cup {HeldAs(d, h) : d \in R}
      PROVE  \E f : Follows(f, cac, T)
  <2> DEFINE f == [d \in cac |-> IF d \in R THEN HeldAs(d, h) ELSE d]
  <2>1. \A x \in T : \E c \in cac : x = f[c]
    BY <1>8, Zenon
  <2>2. \A d \in cac : /\ HeldAs(d, h).nr = d.nr /\ HeldAs(d, h).url = d.url
                       /\ HeldAs(d, h).stage = d.stage
    BY <1>1, HeldAsIs
  <2>3. \A c \in cac : /\ f[c].nr = c.nr /\ f[c].url = c.url
                       /\ f[c].stage # "closed" => c.stage # "closed"
    BY <2>2, Zenon
  <2> HIDE DEF f
  <2> QED
    BY <2>1, <2>3, Zenon DEF Follows
<1>9. CASE Newcache
  <2> DEFINE u == Head(job).url
             R == Held(u)
             T == (cac \ R) \cup {HeldAs(d, FALSE) : d \in R}
             n == cachenr + 1
             c == [url |-> u, obj |-> objects'[u], nr |-> n,
                   stage |-> "new", held |-> TRUE]
  <2>1. /\ job # << >> /\ Head(job).do = "new" /\ up /\ job' = t
        /\ cachenr' = n /\ UNCHANGED <<awcu, awcr, up, failures>>
    BY <1>9, Zenon DEF Newcache, Job, disk
  <2>2. cac' = T \cup {c}
    BY <1>9, <2>1, Zenon DEF Newcache, HeldAs
  <2>3. c.nr = n
    BY SMT
  <2>4. R \in SUBSET cac
    BY <1>3
  <2> HIDE DEF c, R
  <2>5. PICK f : Follows(f, cac, T)
    BY <1>8, <2>4
  <2>6. /\ Alone(T)
        /\ \A x \in Unclosed(T) : \E d \in Unclosed(cac) :
             d.nr = x.nr /\ d.url = x.url
        /\ \A x \in T : \E d \in cac : d.nr = x.nr
    <3> HIDE DEF T
    <3>1. Alone(cac)
      BY <1>2
    <3>2. Follows(f, cac, T)
      BY <2>5
    <3> QED
      BY <3>1, <3>2, AloneKept
  <2>7. /\ \A x \in T : x.nr # n /\ x.nr <= n
        /\ n <= n
    <3>1. \A d \in cac : d.nr # n /\ d.nr <= n
      BY <1>1, <1>2, SMT DEF Numbers
    <3>2. n <= n
      BY <1>1, SMT
    <3> QED
      BY <2>6, <3>1, <3>2, Zenon
  <2> HIDE DEF T, n
  <2>8. Alone(cac')
    BY <2>2, <2>3, <2>6, <2>7, Zenon DEF Alone, Unclosed
  <2>9. \A x \in cac' : x.nr <= cachenr'
    BY <2>1, <2>2, <2>3, <2>7, Zenon
  <2>10. \A x \in Unclosed(cac') :
           \/ \E d \in Unclosed(cac) : d.nr = x.nr /\ d.url = x.url
           \/ x.nr = cachenr + 1
    <3>1. \A x \in Unclosed(cac') : x \in Unclosed(T) \/ x = c
      BY <2>2, Zenon DEF Unclosed
    <3> QED
      BY <2>3, <2>6, <3>1, Zenon DEF n
  <2>11. ~Starting /\ cachenr' = cachenr + 1
    BY <2>1, StartingHead, Zenon DEF n
  <2> QED
    BY <1>5, <2>1, <2>8, <2>9, <2>10, <2>11, NumbersListed
<1>10. CASE Srcupdatecache
  <2>1. PICK c \in Held(Head(job).url) :
          /\ cac' = (cac \ {c}) \cup {Staged(c, "closed")}
          /\ job' = Addregentry(FALSE, c) \o t
    BY <1>10, Zenon DEF Srcupdatecache, Staged
  <2>2. /\ job # << >> /\ Head(job).do = "eof" /\ up
        /\ UNCHANGED <<awcu, awcr, up, failures, cachenr>>
    BY <1>10, Zenon DEF Srcupdatecache, Job
  <2>3. c \in Caches /\ c \in cac
    BY <1>1, <1>3
  <2> DEFINE f == [d \in cac |-> IF d = c THEN Staged(c, "closed") ELSE d]
  <2>4. /\ Staged(c, "closed").nr = c.nr /\ Staged(c, "closed").url = c.url
        /\ Staged(c, "closed").stage = "closed"
    BY <2>3, StagedIs
  <2>5. Follows(f, cac, cac')
    <3>1. \A x \in cac' : \E d \in cac : x = f[d]
      BY <2>1, <2>3, Zenon
    <3>2. \A d \in cac : /\ f[d].nr = d.nr /\ f[d].url = d.url
                         /\ f[d].stage # "closed" => d.stage # "closed"
      BY <2>4, Zenon
    <3> QED
      BY <3>1, <3>2, Zenon DEF Follows
  <2>6. Head(job').entry = Entry(FALSE, c)
    <3> DEFINE s == [do |-> "append", entry |-> Entry(FALSE, c)]
    <3>1. s.entry = Entry(FALSE, c)
      BY SMT
    <3>2. t \in Seq(Steps)
      BY <1>1, <2>2, HeadTailProperties
    <3>3. job' = <<s>> \o t
      BY <2>1, Zenon DEF Addregentry
    <3> HIDE DEF s, t
    <3>4. Head(<<s>> \o t) = s
      BY <3>2, SMT
    <3> QED
      BY <3>1, <3>3, <3>4
  <2>7. Entry(FALSE, c).nr = c.nr
    BY SMT DEF Entry
  <2>8. \A x \in Unclosed(cac') : x.nr # c.nr
    <3>1. \A x \in Unclosed(cac') : x \in cac /\ x # c /\ x.stage # "closed"
      BY <2>1, <2>4, Zenon DEF Unclosed
    <3> QED
      BY <1>2, <2>3, <3>1, Zenon DEF Alone, Unclosed
  <2>9. (Pending(Head(job).entry))'
    BY <1>2, <2>2, <2>3, <2>6, <2>7, <2>8, Zenon DEF Pending
  <2>10. ~Starting
    BY <2>2, StartingHead, Zenon
  <2> HIDE DEF f
  <2> QED
    BY <1>4, <2>2, <2>5, <2>9, <2>10, Zenon
<1>11. CASE Restore
  <2> DEFINE R == Replaced(Head(job).url)
  <2>1. /\ job # << >> /\ Head(job).do = "restore" /\ up /\ job' = t
        /\ UNCHANGED <<awcu, awcr, up, failures, cachenr>>
        /\ cac' = (cac \ R) \cup {HeldAs(d, TRUE) : d \in R}
    BY <1>11, Zenon DEF Restore, Job, disk, HeldAs
  <2>2. R \in SUBSET cac
    BY <1>3
  <2> HIDE DEF R
  <2>3. PICK f : Follows(f, cac, cac')
    BY <1>8, <2>1, <2>2
  <2>4. ~Starting
    BY <2>1, StartingHead, Zenon
  <2> QED
    BY <1>4, <1>5, <2>1, <2>3, <2>4, Zenon
<1> QED
  BY <1>6, <1>7, <1>9, <1>10, <1>11

\* What a start makes of a registration.
LEMMA ReadNumbers ==
  ASSUME NEW r, IsRegistry(r)
  PROVE  LET m == Readcachereg(r)
         IN  /\ \A c \in m.cac : c.stage = "closed" /\ c.nr <= m.cachenr
             /\ \A e \in Additions(r) : e.url \in Expiring \/ e.nr <= m.cachenr
             /\ r.is = "readable" => r.lastnr <= m.cachenr
<1> DEFINE m == Readcachereg(r)
<1>1. \A c \in m.cac : c.nr <= m.cachenr
  BY ReadIsMeant, Zenon DEF MeansWhatIsRead
<1>2. CASE r.is # "readable"
  <2>1. m = Empty
    BY <1>2, Zenon DEF Readcachereg
  <2>2. Empty.cac = {}
    BY SMT DEF Empty
  <2>3. Additions(r) = {}
    BY <1>2, Zenon DEF Additions
  <2> QED
    BY <1>2, <2>1, <2>2, <2>3, Zenon
<1>3. CASE r.is = "readable"
  <2> DEFINE z == Len(r.entries)
  <2>1. z \in 0 .. z
    BY <1>3, ReadTypes, SMT
  <2>2. m = Upto(r)[z]
    BY <1>3, ReadsUpto
  <2>3. m.cac = Kept(r, z)
    BY <1>3, <2>1, <2>2, KeptIsRead
  <2>4. \A u, o, n : Recovered(u, o, n).stage = "closed"
    BY SMT DEF Recovered
  <2>5. ASSUME NEW c \in m.cac PROVE c.stage = "closed"
    <3>1. PICK a \in Standing(r.entries, z) :
            c = Recovered(r.entries[a].url, Object(r, a), r.entries[a].nr)
      BY <2>3, Zenon DEF Kept
    <3> QED
      BY <2>4, <3>1, Zenon
  <2>6. /\ r.lastnr <= m.cachenr
        /\ \A a \in 1 .. z : ~r.entries[a].del /\ r.entries[a].url \notin Expiring
                               => r.entries[a].nr <= m.cachenr
    BY <1>3, <2>1, <2>2, NumbersKnown
  <2>7. \A e \in Additions(r) : e.url \in Expiring \/ e.nr <= m.cachenr
    BY <1>3, <2>6, Zenon DEF Additions
  <2> QED
    BY <1>1, <2>5, <2>6, <2>7
<1> QED
  BY <1>2, <1>3

LEMMA NumbersKept ==
  ASSUME TypeInv, FilesOK, LogOK, NumbersOK, [Next]_vars
  PROVE  NumbersOK'
<1>1. CASE Begins
  <2>1. /\ job = << >> /\ job' \in Seq(Later(cachenr))
        /\ UNCHANGED <<awcu, awcr, up, cac, cachenr, failures>>
    BY <1>1, BeginsJob, Zenon DEF disk, memory
  <2>2. (Now("append"))' => Head(job').entry.del
    BY <2>1, LaterHead, Zenon DEF Now
  <2>6. ~Starting
    BY <2>1, StartingHead, Zenon
  <2>3. Registration' = Registration
    BY <2>1, Zenon DEF Registration
  <2>4. awcu' = NoFile => \A e \in Additions(awcr)' : e.nr <= awcr'.lastnr
    BY <2>1, Zenon DEF NumbersOK, Additions
  <2>5. UNCHANGED <<cac, cachenr, up>>
    BY <2>1
  <2>7. /\ failures' = failures \/ failures' > 0
        /\ Starting => Starting' \/ failures' > 0
    BY <2>1, <2>6, Zenon
  <2> QED
    BY <2>2, <2>3, <2>4, <2>5, <2>7, NumbersSame
<1>2. CASE UNCHANGED vars
  <2>1. UNCHANGED <<awcu, awcr, cac, cachenr, up>> /\ job' = job
        /\ failures' = failures
    BY <1>2, Zenon DEF vars, disk, memory
  <2>2. Registration' = Registration /\ (Starting => Starting')
    BY <2>1, Zenon DEF Registration, Starting
  <2>3. awcu' = NoFile => \A e \in Additions(awcr)' : e.nr <= awcr'.lastnr
    BY <2>1, Zenon DEF NumbersOK, Additions
  <2> QED
    BY <2>1, <2>2, <2>3, NumbersSame
<1>3. CASE DiskStep
  BY <1>3, NumbersOnDisk
<1>4. CASE \/ \E u \in Urls : Data(u)
           \/ Dispose \/ Newcache \/ Srcupdatecache \/ Restore
  BY <1>4, NumbersInList
<1>5. CASE Initcache
  <2> DEFINE m == Readcachereg(Registration)
  <2>1. /\ up' = TRUE /\ awcu' = awcu /\ awcr' = awcr /\ cac' = m.cac
        /\ cachenr' = m.cachenr /\ failures' = failures
        /\ job' = IF awcu # NoFile THEN Save
                  ELSE IF awcr # NoFile THEN <<Step("rename")>>
                  ELSE <<Step("create")>>
    BY <1>5, Zenon DEF Initcache, Recovery
  <2>2. IsRegistry(Registration)
    BY Zenon DEF TypeInv, TypeOK, Registration
  <2>3. /\ \A c \in m.cac : c.stage = "closed" /\ c.nr <= m.cachenr
        /\ \A e \in Additions(Registration) :
             e.url \in Expiring \/ e.nr <= m.cachenr
        /\ Registration.is = "readable" => Registration.lastnr <= m.cachenr
    BY <2>2, ReadNumbers
  <2>4. Registration' = Registration
        /\ Additions(Registration)' = Additions(Registration)
        /\ Additions(awcr)' = Additions(awcr)
    BY <2>1, Zenon DEF Registration, Additions
  <2>5. Unclosed(cac') = {}
    BY <2>1, <2>3, Zenon DEF Unclosed
  <2>6. ASSUME NEW e \in Additions(Registration) PROVE KnownNr(e)'
    <3>1. CASE awcu # NoFile
      <4>1. Starting'
        BY <2>1, <3>1, Zenon DEF Starting
      <4> QED
        BY <2>1, <2>3, <4>1, Zenon DEF KnownNr
    <3>2. CASE awcu = NoFile
      <4>1. Registration = awcr /\ Registration.is = "readable"
        BY <3>2, Zenon DEF Registration, Additions
      <4>2. e.nr <= awcr.lastnr /\ awcr.lastnr <= m.cachenr
        BY <2>3, <3>2, <4>1, Zenon DEF NumbersOK
      <4>3. e.nr \in Numbers /\ awcr.lastnr \in 0 .. MaxNr
            /\ m.cachenr \in 0 .. MaxNr
        <5>1. e.nr \in Numbers
          BY <2>2, AdditionTypes
        <5>2. awcr.lastnr \in 0 .. MaxNr
          BY <2>2, <4>1, LogParts
        <5> QED
          BY <2>2, <5>1, <5>2, ReadIsMemory, MemoryIs
      <4>4. e.nr <= m.cachenr
        <5> HIDE DEF m
        <5> QED
          BY <4>2, <4>3, RegistryAssumption, SMT DEF Numbers
      <4> QED
        BY <2>1, <4>4, Zenon DEF KnownNr
    <3> QED
      BY <3>1, <3>2
  <2>7. ~(Now("append"))'
    <3>1. \A s \in {"rename", "create"} : Head(<<Step(s)>>).do = s
      <4> SUFFICES ASSUME NEW s \in {"rename", "create"}
                   PROVE  Head(<<Step(s)>>).do = s
        OBVIOUS
      <4> DEFINE x == Step(s)
      <4>1. x.do = s
        BY StepIs, Zenon
      <4> HIDE DEF x
      <4>2. Head(<<x>>) = x
        BY SMT
      <4> QED
        BY <4>1, <4>2 DEF x
    <3>2. Head(Save).do = "open"
      <4> DEFINE a == Step("open")
                 b == Step("close")
                 c == Step("rename")
      <4>1. a.do = "open" /\ Save = <<a, b, c>>
        BY StepIs, Zenon DEF Save
      <4> HIDE DEF a, b, c
      <4>2. Head(<<a, b, c>>) = a
        BY SMT
      <4> QED
        BY <4>1, <4>2
    <3> QED
      BY <2>1, <3>1, <3>2, Zenon DEF Now
  <2>8. \A c \in cac' : c.nr <= cachenr'
    BY <2>1, <2>3, Zenon
  <2>9. Alone(cac')
    BY <2>5, Zenon DEF Alone
  <2>10. \A e \in Additions(Registration)', c \in Unclosed(cac)' : Apart(e, c)'
    BY <2>5, Zenon
  <2>11. \A e \in Additions(Registration)' : KnownNr(e)'
    BY <2>4, <2>6, Zenon
  <2>12. awcu' = NoFile => \A e \in Additions(awcr)' : e.nr <= awcr'.lastnr
    BY <2>1, <2>4, Zenon DEF NumbersOK
  <2> QED
    BY <2>7, <2>8, <2>9, <2>10, <2>11, <2>12, Zenon DEF NumbersOK
<1>6. CASE Deinstallcache \/ Crash \/ CrashAppending
  <2>1. /\ ~up' /\ cac' = {} /\ job' = << >> /\ awcr' = awcr
        /\ awcu' = NoFile => awcu = NoFile
    <3>1. /\ ~up' /\ cac' = {} /\ job' = << >> /\ awcr' = awcr
          /\ CrashAppending \/ awcu' = awcu
      BY <1>6, Zenon DEF Deinstallcache, Crash, CrashAppending, Forget, disk
    <3>2. CrashAppending => awcu' = awcu \/ awcu' = Torn \/ awcu'.is = "readable"
      BY CrashAppendingIs, Zenon DEF Written
    <3> QED
      BY <3>1, <3>2, RegistriesDiffer, Zenon
  <2>2. Additions(awcr)' = Additions(awcr)
    BY <2>1, Zenon DEF Additions
  <2> QED
    BY <2>1, <2>2, Zenon DEF NumbersOK, Alone, Unclosed, Now
<1>7. CASE CrashReading
  <2>1. /\ UNCHANGED <<awcu, awcr, cac, cachenr, up>> /\ job' = job
        /\ failures' = failures
    BY <1>7, Zenon DEF CrashReading, memory
  <2>2. Registration' = Registration /\ (Starting => Starting')
    BY <2>1, Zenon DEF Registration, Starting
  <2>3. awcu' = NoFile => \A e \in Additions(awcr)' : e.nr <= awcr'.lastnr
    BY <2>1, Zenon DEF NumbersOK, Additions
  <2> QED
    BY <2>1, <2>2, <2>3, NumbersSame
<1> QED
  BY <1>1, <1>2, <1>3, <1>4, <1>5, <1>6, <1>7, Zenon DEF Next, Session, Handler,
     Disk, Begins, DiskStep, Crashes

Inv == TypeInv /\ FilesOK /\ LogOK /\ NumbersOK

LEMMA InvAlways == Spec => []Inv
<1>1. Init => NumbersOK
  <2> SUFFICES ASSUME Init PROVE NumbersOK
    OBVIOUS
  <2>1. awcu = NoFile /\ awcr = NoFile /\ ~up /\ cac = {} /\ job = << >>
    BY DEF Init
  <2>2. NoFile.is # "readable"
    BY SMT DEF NoFile
  <2> QED
    BY <2>1, <2>2, Zenon DEF NumbersOK, Alone, Unclosed, Additions, Now
<1>2. TypeInv /\ FilesOK /\ LogOK /\ NumbersOK /\ [Next]_vars => NumbersOK'
  BY NumbersKept
<1>3. TypeInv /\ FilesOK /\ LogOK /\ NumbersOK => Inv
  BY DEF Inv
<1> QED
  BY <1>1, <1>2, <1>3, FilesAlways, PTL DEF Spec

\* A cac that is being written has its file for itself: no number is given
\* twice, also after crashes, but for the number of an expired page whose entry
\* outlives a checkpoint that could not be written, and for those that are in
\* a piece of an entry when such a checkpoint fails.
THEOREM OwnsItsFile == Spec => []WritesOwnFile
<1>1. Inv => WritesOwnFile
  <2> SUFFICES ASSUME Inv, NEW c \in cac, c.stage # "closed"
               PROVE  /\ \A d \in cac : d.nr = c.nr => d = c
                      /\ \A r \in Registered : r[2] = c.nr =>
                           \/ r[1] = c.url
                           \/ /\ failures > 0
                              /\ r[1] \in Expiring \/ Registration.piece # NoPiece
    BY Zenon DEF WritesOwnFile
  <2>1. c \in Unclosed(cac)
    BY Zenon DEF Unclosed
  <2>2. \A d \in cac : d.nr = c.nr => d = c
    BY <2>1, Zenon DEF Inv, NumbersOK, Alone
  <2>3. IsRegistry(Registration)
    BY Zenon DEF Inv, TypeInv, TypeOK, Registration
  <2>4. ASSUME NEW r \in Registered, r[2] = c.nr
        PROVE  \/ r[1] = c.url
               \/ /\ failures > 0
                  /\ r[1] \in Expiring \/ Registration.piece # NoPiece
    <3> DEFINE e == Registration.entries
    <3>1. Registration.is = "readable"
      BY Zenon DEF Registered, Documents
    <3>2. PICK a \in Standing(e, Len(e)) : r = <<e[a].url, e[a].nr>>
      BY <2>3, <3>1, DocumentsAre DEF Registered
    <3>3. a \in 1 .. Len(e) /\ ~e[a].del
      BY Zenon DEF Standing
    <3>4. e[a] \in Additions(Registration)
      BY <3>1, <3>3, Zenon DEF Additions
    <3>5. Apart(e[a], c)
      BY <2>1, <3>4, Zenon DEF Inv, NumbersOK
    <3>6. r[1] = e[a].url /\ r[2] = e[a].nr
      <4> HIDE DEF e
      <4> QED
        BY <3>2, SMT
    <3> QED
      BY <2>4, <3>5, <3>6, Zenon DEF Apart, Excepted
  <2> QED
    BY <2>2, <2>4, Zenon
<1> QED
  BY <1>1, InvAlways, PTL

-----------------------------------------------------------------------------
(* What is registered stays registered.                                    *)

LEMMA StandingAppended ==
  ASSUME NEW e \in Seq(Entries), NEW x \in Entries,
         NEW a \in Standing(e, Len(e)), x.nr # e[a].nr
  PROVE  /\ a \in Standing(Append(e, x), Len(Append(e, x)))
         /\ Append(e, x)[a] = e[a]
<1> DEFINE n == Len(e)
           f == Append(e, x)
<1>1. n \in Nat /\ Len(f) = n + 1 /\ f[n + 1] = x
      /\ \A i \in 1 .. n : f[i] = e[i]
  BY SMT
<1>2. a \in 1 .. n /\ ~e[a].del /\ \A j \in a + 1 .. n : ~Deletion(e, a, j)
  BY Zenon DEF Standing
<1> HIDE DEF f
<1>3. /\ a \in 1 .. Len(f) /\ f[a] = e[a]
      /\ \A j \in a + 1 .. Len(f) : j \in a + 1 .. n \/ j = n + 1
      /\ \A j \in a + 1 .. n : j \in 1 .. n
      /\ \A j \in a + 1 .. n : \A k \in a + 1 .. j - 1 : k \in 1 .. n
  BY <1>1, <1>2, SMT
<1>4. ASSUME NEW j \in a + 1 .. Len(f) PROVE ~Deletion(f, a, j)
  <2>1. CASE j \in a + 1 .. n
    <3>1. f[j] = e[j] /\ \A k \in a + 1 .. j - 1 : f[k] = e[k]
      BY <1>1, <1>3, <2>1, Zenon
    <3> QED
      BY <1>2, <1>3, <2>1, <3>1, Zenon DEF Deletion
  <2>2. CASE j = n + 1
    BY <1>1, <1>3, <2>2, Zenon DEF Deletion
  <2> QED
    BY <1>3, <2>1, <2>2
<1>5. a \in Standing(f, Len(f))
  BY <1>2, <1>3, <1>4, Zenon DEF Standing
<1> QED
  BY <1>3, <1>5 DEF f

Stays ==
  LET lost == Registered \ Registered'
  IN  \A c \in cac \cap cac' :
        Complete(c) /\ Sole(c) => <<c.url, c.nr>> \notin lost

LEMMA StaysStep ==
  ASSUME Inv, [Next]_vars
  PROVE  Stays
<1> SUFFICES ASSUME NEW c \in cac, c \in cac', Complete(c), Sole(c),
                    <<c.url, c.nr>> \in Registered
             PROVE  <<c.url, c.nr>> \in Registered'
  BY Zenon DEF Stays
<1>1. /\ IsRegistry(awcu) /\ IsRegistry(awcr) /\ job \in Seq(Steps)
      /\ TypeInv /\ FilesOK
  BY DEF Inv, TypeInv, TypeOK
<1>2. ASSUME NEW ok \in BOOLEAN, AppendEntry(ok)
      PROVE  <<c.url, c.nr>> \in Registered'
  <2> DEFINE x == Head(job).entry
             e == awcu.entries
             f == awcu'.entries
  <2>1. /\ up /\ job # << >> /\ Head(job).do = "append" /\ x \in Entries
        /\ Written(awcu, x, awcu')
    BY <1>1, <1>2, AppendIs
  <2>2. awcu # NoFile
    BY <1>1, <2>1, Zenon DEF FilesOK, Gap, Now
  <2>3. Registration = awcu /\ awcu.is = "readable"
    BY <2>2, Zenon DEF Registration, Registered, Documents
  <2>4. /\ awcu'.is = "readable" /\ IsRegistry(awcu') /\ e \in Seq(Entries)
        /\ \/ f = e
           \/ f = Append(e, x)
           \/ \E m : Completes(m, awcu.piece, x) /\ f = Append(e, m)
    BY <1>1, <2>1, <2>3, LogParts DEF Written
  <2>5. x.nr # c.nr
    <3>1. 1 \in DOMAIN job /\ job[1] = Head(job)
      BY <1>1, <2>1, SMT
    <3> QED
      BY <2>1, <3>1, Zenon DEF Sole
  <2>6. \A m : Completes(m, awcu.piece, x) => m \in Entries /\ m.nr # c.nr
    BY <2>3, Zenon DEF Completes, Sole
  <2>7. Registration' = awcu'
    BY <2>4, RegistriesDiffer, Zenon DEF Registration
  <2>8. PICK a \in Standing(e, Len(e)) :
          <<c.url, c.nr>> = <<e[a].url, e[a].nr>>
    BY <1>1, <2>3, DocumentsAre DEF Registered
  <2>9. c.url = e[a].url /\ c.nr = e[a].nr
    <3> HIDE DEF e
    <3> QED
      BY <2>8, SMT
  <2>10. a \in Standing(f, Len(f)) /\ f[a] = e[a]
    <3>1. CASE f = e
      BY <3>1
    <3>2. ASSUME NEW m \in Entries, m.nr # c.nr, f = Append(e, m)
          PROVE  a \in Standing(f, Len(f)) /\ f[a] = e[a]
      BY <2>4, <2>9, <3>2, StandingAppended
    <3> HIDE DEF e, f, x
    <3> QED
      BY <2>1, <2>4, <2>5, <2>6, <3>1, <3>2, Zenon
  <2>11. Documents(awcu') = {<<f[i].url, f[i].nr>> : i \in Standing(f, Len(f))}
    <3> DEFINE r == awcu'
    <3>1. r.is = "readable" /\ IsRegistry(r) /\ r.entries = f
      BY <2>4, Zenon
    <3> HIDE DEF r, f
    <3>2. Documents(r) = {<<r.entries[i].url, r.entries[i].nr>> :
                           i \in Standing(r.entries, Len(r.entries))}
      BY <3>1, DocumentsAre
    <3>3. Documents(r) = {<<f[i].url, f[i].nr>> : i \in Standing(f, Len(f))}
      BY <3>1, <3>2, Zenon
    <3> QED
      BY <3>3 DEF r
  <2>12. Registered' = Documents(awcu')
    BY <2>7 DEF Registered, Documents
  <2> HIDE DEF f, e
  <2> QED
    BY <2>9, <2>10, <2>11, <2>12, Zenon
<1>3. CASE Purge
  <2> DEFINE e == Snapshot.entries
  <2>1. awcu' = NoFile /\ awcr' = awcr /\ Now("purge")
    BY <1>3, Zenon DEF Purge, Job, Now
  <2>2. awcr = Snapshot
    BY <1>1, <2>1, Zenon DEF FilesOK
  <2>3. Registration' = Snapshot
    BY <2>1, <2>2, Zenon DEF Registration
  <2>4. Registered' = Documents(Snapshot)
    BY <2>3 DEF Registered, Documents
  <2>5. Documents(Snapshot) = {<<e[i].url, e[i].nr>> : i \in Standing(e, Len(e))}
    BY <1>1, SnapshotIs, DocumentsAre
  <2>6. \A d : /\ ~Entry(FALSE, d).del /\ Entry(FALSE, d).url = d.url
               /\ Entry(FALSE, d).nr = d.nr
    BY SMT DEF Entry
  <2>7. \A i \in 1 .. Len(e) : ~e[i].del
    <3>1. \A i \in 1 .. Len(e) : \E d \in cac : e[i] = Entry(FALSE, d)
      BY <1>1, SnapshotIs
    <3> QED
      BY <2>6, <3>1, Zenon
  <2>8. PICK i \in 1 .. Len(e) : e[i] = Entry(FALSE, c)
    BY <1>1, SnapshotIs DEF Complete
  <2>9. \A j \in i + 1 .. Len(e) : j \in 1 .. Len(e)
    <3>1. Len(e) \in Nat
      BY <1>1, SnapshotIs, ReadTypes
    <3> QED
      BY <3>1, SMT
  <2>10. i \in Standing(e, Len(e))
    BY <2>7, <2>9, Zenon DEF Standing, Deletion
  <2>11. c.url = e[i].url /\ c.nr = e[i].nr
    BY <2>6, <2>8
  <2> HIDE DEF e
  <2>12. <<c.url, c.nr>> \in Documents(Snapshot)
    BY <2>5, <2>10, <2>11, Zenon
  <2> QED
    BY <2>4, <2>12
<1>4. CASE Createlog
  <2>1. Now("create")
    BY <1>4, Zenon DEF Createlog, Job, Now
  <2> QED
    BY <1>1, <2>1, Zenon DEF FilesOK
<1>5. CASE CloseLog
  <2>1. Now("header")
    BY <1>5, Zenon DEF CloseLog, Job, Now
  <2>2. awcu = Torn
    BY <1>1, <2>1, Zenon DEF FilesOK
  <2>3. Torn # NoFile /\ Torn.is # "readable"
    BY SMT DEF Torn, NoFile
  <2> QED
    BY <2>2, <2>3, Zenon DEF Registered, Registration, Documents
<1>6. CASE CrashAppending
  <2>1. cac' = {}
    BY <1>6, Zenon DEF CrashAppending, Forget
  <2> QED
    BY <2>1
<1>7. CASE /\ ~ \E ok \in BOOLEAN : AppendEntry(ok)
           /\ ~Purge /\ ~Createlog /\ ~CloseLog /\ ~CrashAppending
  <2>1. Registration' = Registration
    BY <1>1, <1>7, RegistrationKept
  <2> QED
    BY <2>1 DEF Registered, Documents
<1> QED
  BY <1>2, <1>3, <1>4, <1>5, <1>6, <1>7, Zenon

\* Once registered, a document that stays in the cache stays registered, over
\* failed writes and pieces of entries too.
THEOREM RegisteredForGood == Spec => StaysRegistered
<1>1. Inv /\ [Next]_vars => [Stays]_vars
  BY StaysStep
<1> QED
  BY <1>1, InvAlways, PTL DEF Spec, StaysRegistered, Stays
=============================================================================
