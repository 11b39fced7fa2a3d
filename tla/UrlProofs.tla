----------------------------- MODULE UrlProofs ------------------------------
(***************************************************************************)
(* The transfers and the cache objects of a url, proved for any number of  *)
(* urls, cache objects, loads and failures: of the transfers of a url the  *)
(* plain fetch is alone, a url's pointers to cache objects are its own and *)
(* never dangle, and no cache object is without a pointer to it.           *)
(*                                                                         *)
(* The handlers of url.c are operators on the record m of the three parts  *)
(* of the state, and most of them are used by several others.  So is the   *)
(* proof: Sound(m) is the inductive invariant, of such a record; a lemma   *)
(* for each handler says that it keeps m sound, and each action is a       *)
(* handler or two.                                                         *)
(***************************************************************************)
EXTENDS Url, QueueLemmas

Worlds == [url : [Urls -> UrlStates],
           cac : UNION {[S -> CacStates] : S \in SUBSET Cacs},
           lru : Seq(Cacs)]

\* The objects that a url points to.
Held(r) == {r.cache, r.ocache, r.vcache} \ {NoCac}

\* It points to each by one pointer.
Apart(r) ==
  /\ r.cache = r.ocache => r.cache = NoCac
  /\ r.cache = r.vcache => r.cache = NoCac
  /\ r.ocache = r.vcache => r.ocache = NoCac

\* A url by itself.  Promote and StartVfetch rely on the third: the object of
\* a verification exists only while it runs; Untempmoved on the fourth.
UrlOK(r) ==
  /\ Apart(r)
  /\ r.fetch # "none" => r.rfetch = "none" /\ r.vfetch = "none"
  /\ r.vcache # NoCac => r.vfetch # "none"
  /\ r.tempmoved => r.movedto # NoUrl

\* A url points to objects that exist and are its own; the others are past.
Owns(m, u) ==
  \A c \in Held(m.url[u]) : c \in DOMAIN m.cac /\ m.cac[c].url = u
Owned(m) ==
  \A c \in DOMAIN m.cac : \/ c \in Held(m.url[m.cac[c].url])
                          \/ m.cac[c].expires = "past"

Sound(m) ==
  /\ m \in Worlds
  /\ ToSet(m.lru) = DOMAIN m.cac /\ IsInjective(m.lru)
  /\ \A u \in Urls : UrlOK(m.url[u]) /\ Owns(m, u)
  /\ Owned(m)

-----------------------------------------------------------------------------
(* Records of urls and of the world.                                       *)

Put(m, u, r) == [m EXCEPT !.url[u] = r]

LEMMA WorldParts ==
  ASSUME NEW m \in Worlds
  PROVE  /\ m.url \in [Urls -> UrlStates]
         /\ \A u \in Urls : m.url[u] \in UrlStates
         /\ DOMAIN m.cac \subseteq Cacs /\ m.cac \in [DOMAIN m.cac -> CacStates]
         /\ \A c \in DOMAIN m.cac : m.cac[c] \in CacStates
         /\ m.lru \in Seq(Cacs)
         /\ m = [url |-> m.url, cac |-> m.cac, lru |-> m.lru]
<1>1. /\ m.url \in [Urls -> UrlStates]
      /\ m.lru \in Seq(Cacs)
      /\ m = [url |-> m.url, cac |-> m.cac, lru |-> m.lru]
      /\ m.cac \in UNION {[S -> CacStates] : S \in SUBSET Cacs}
  BY SMT DEF Worlds
<1>2. PICK S \in SUBSET Cacs : m.cac \in [S -> CacStates]
  BY <1>1, Zenon
<1>3. DOMAIN m.cac = S
  BY <1>2, Zenon
<1> QED
  BY <1>1, <1>2, <1>3, Zenon

LEMMA WorldMade ==
  ASSUME NEW m, NEW U \in [Urls -> UrlStates], NEW C, NEW L \in Seq(Cacs),
         DOMAIN C \subseteq Cacs, C \in [DOMAIN C -> CacStates],
         m = [url |-> U, cac |-> C, lru |-> L]
  PROVE  m \in Worlds /\ m.url = U /\ m.cac = C /\ m.lru = L
<1>1. C \in UNION {[S -> CacStates] : S \in SUBSET Cacs}
  BY Zenon
<1> QED
  BY <1>1, SMT DEF Worlds

LEMMA PutParts ==
  ASSUME NEW m \in Worlds, NEW u \in Urls, NEW r \in UrlStates
  PROVE  /\ Put(m, u, r) \in Worlds
         /\ Put(m, u, r).cac = m.cac /\ Put(m, u, r).lru = m.lru
         /\ Put(m, u, r).url[u] = r
         /\ \A v \in Urls : v # u => Put(m, u, r).url[v] = m.url[v]
<1> DEFINE U == [m.url EXCEPT ![u] = r]
<1>1. m.url \in [Urls -> UrlStates]
  BY WorldParts, Zenon
<1>2. /\ U \in [Urls -> UrlStates] /\ U[u] = r
      /\ \A v \in Urls : v # u => U[v] = m.url[v]
  BY <1>1, Zenon
<1>3. Put(m, u, r) = [m EXCEPT !.url = U]
  BY Zenon DEF Put
<1> HIDE DEF U
<1>4. \A V \in [Urls -> UrlStates] : LET n == [m EXCEPT !.url = V]
                                     IN  /\ n \in Worlds /\ n.url = V
                                         /\ n.cac = m.cac /\ n.lru = m.lru
  BY SMT DEF Worlds
<1>5. LET n == [m EXCEPT !.url = U]
      IN  n \in Worlds /\ n.url = U /\ n.cac = m.cac /\ n.lru = m.lru
  BY <1>2, <1>4
<1> QED
  BY <1>2, <1>3, <1>5

\* Fields of a url object set one after the other.
LEMMA PutAgain ==
  ASSUME NEW m \in Worlds, NEW u \in Urls, NEW r \in UrlStates, NEW s
  PROVE  Put(Put(m, u, r), u, s) = Put(m, u, s)
<1> DEFINE U == [m.url EXCEPT ![u] = r]
           V == [m.url EXCEPT ![u] = s]
           x == Put(m, u, r)
<1>1. /\ m.url \in [Urls -> UrlStates]
      /\ m = [url |-> m.url, cac |-> m.cac, lru |-> m.lru]
  BY WorldParts, Zenon
<1>2. x = [url |-> U, cac |-> m.cac, lru |-> m.lru]
  BY <1>1, SMT DEF Put
<1>3. [U EXCEPT ![u] = s] = V
  BY <1>1, Zenon
<1> HIDE DEF x
<1>4. Put(x, u, s) = [url |-> [U EXCEPT ![u] = s], cac |-> m.cac, lru |-> m.lru]
  <2> HIDE DEF U, V
  <2> QED
    BY <1>2, SMT DEF Put
<1>5. Put(m, u, s) = [url |-> V, cac |-> m.cac, lru |-> m.lru]
  BY <1>1, SMT DEF Put
<1> QED
  BY <1>3, <1>4, <1>5, Zenon DEF x

With(r, f, x) == [r EXCEPT ![f] = x]
Set(m, u, f, x) == [m EXCEPT !.url[u][f] = x]

\* The fields that the invariant is about are r's.
Same(r, s, fields) == \A g \in fields : s[g] = r[g]
Fields == {"fetch", "rfetch", "vfetch", "cache", "ocache", "vcache",
           "tempmoved", "movedto"}

LEMMA WithField ==
  ASSUME NEW r \in UrlStates, NEW f \in Fields, NEW x
  PROVE  With(r, f, x)[f] = x /\ Same(r, With(r, f, x), Fields \ {f})
<1>1. \A g \in Fields : g \in DOMAIN r
  BY SMT DEF UrlStates, Fields
<1> QED
  BY <1>1, Zenon DEF With, Same

LEMMA SetFirst ==
  ASSUME NEW m \in Worlds, NEW u \in Urls, NEW f, NEW x
  PROVE  Set(m, u, f, x) = Put(m, u, With(m.url[u], f, x))
  BY SMT DEF Put, Worlds, Set, With

LEMMA SetNext ==
  ASSUME NEW m \in Worlds, NEW u \in Urls, NEW r \in UrlStates, NEW f, NEW x
  PROVE  Set(Put(m, u, r), u, f, x) = Put(m, u, With(r, f, x))
<1> DEFINE n == Put(m, u, r)
<1>1. n \in Worlds /\ n.url[u] = r
  BY PutParts
<1>2. \A s : Put(n, u, s) = Put(m, u, s)
  BY PutAgain
<1> HIDE DEF n
<1>3. Set(n, u, f, x) = Put(n, u, With(n.url[u], f, x))
  BY <1>1, SetFirst
<1>4. Set(n, u, f, x) = Put(m, u, With(r, f, x))
  BY <1>1, <1>2, <1>3, Zenon
<1> QED
  BY <1>4 DEF n

\* A url object changed, its pointers at most swapped.
LEMMA PutSound ==
  ASSUME NEW m, Sound(m), NEW u \in Urls, NEW r \in UrlStates,
         UrlOK(r), Held(r) = Held(m.url[u])
  PROVE  Sound(Put(m, u, r))
<1> DEFINE n == Put(m, u, r)
<1>0. m \in Worlds
  BY DEF Sound
<1>1. /\ n \in Worlds /\ n.cac = m.cac /\ n.lru = m.lru
      /\ n.url[u] = r /\ \A v \in Urls : v # u => n.url[v] = m.url[v]
  BY <1>0, PutParts
<1> HIDE DEF n
<1>2. \A v \in Urls : Held(n.url[v]) = Held(m.url[v])
  BY <1>1, Zenon
<1>3. ASSUME NEW v \in Urls PROVE UrlOK(n.url[v]) /\ Owns(n, v)
  <2>1. UrlOK(m.url[v]) /\ Owns(m, v)
    BY Zenon DEF Sound
  <2>2. UrlOK(n.url[v])
    BY <1>1, <2>1, Zenon
  <2> QED
    BY <1>1, <1>2, <2>1, <2>2, Zenon DEF Owns
<1>4. \A c \in DOMAIN m.cac : m.cac[c].url \in Urls
  BY <1>0, WorldParts, SMT DEF CacStates
<1>5. Owned(n)
  BY <1>1, <1>2, <1>4, Zenon DEF Sound, Owned
<1>6. Sound(n)
  BY <1>1, <1>3, <1>5, Zenon DEF Sound
<1> QED
  BY <1>6 DEF n

-----------------------------------------------------------------------------
(* Cache objects.                                                          *)

\* Objects are forgotten with all the pointers to them.
LEMMA DropSound ==
  ASSUME NEW m, Sound(m), NEW U \in [Urls -> UrlStates], NEW gone,
         \A v \in Urls : UrlOK(U[v]) /\ Held(U[v]) = Held(m.url[v]) \ gone
  PROVE  LET n == Forget([m EXCEPT !.url = U], gone)
         IN  /\ Sound(n) /\ n.url = U
             /\ DOMAIN n.cac = DOMAIN m.cac \ gone
             /\ \A c \in DOMAIN n.cac : n.cac[c] = m.cac[c]
<1> DEFINE n == Forget([m EXCEPT !.url = U], gone)
           C == Restrict(m.cac, DOMAIN m.cac \ gone)
           L == Without(m.lru, gone)
<1>0. m \in Worlds
  BY DEF Sound
<1>1. /\ DOMAIN m.cac \subseteq Cacs /\ m.cac \in [DOMAIN m.cac -> CacStates]
      /\ m.lru \in Seq(Cacs)
      /\ m = [url |-> m.url, cac |-> m.cac, lru |-> m.lru]
      /\ \A c \in DOMAIN m.cac : m.cac[c] \in CacStates
  BY <1>0, WorldParts, Zenon
<1>2. n = [url |-> U, cac |-> C, lru |-> L]
  <2> DEFINE x == [m EXCEPT !.url = U]
  <2>1. x = [url |-> U, cac |-> m.cac, lru |-> m.lru]
    BY <1>1, SMT
  <2>2. x.cac = m.cac /\ x.lru = m.lru /\ x.url = U
    BY <2>1, SMT
  <2> HIDE DEF x
  <2> DEFINE y == [x EXCEPT !.cac = C]
  <2>3. y = [url |-> U, cac |-> C, lru |-> m.lru] /\ y.lru = m.lru
    BY <2>1, SMT
  <2>4. n = [y EXCEPT !.lru = L]
    BY <2>2, Zenon DEF Forget, x
  <2> HIDE DEF C, L, n, y
  <2>5. [y EXCEPT !.lru = L] = [url |-> U, cac |-> C, lru |-> L]
    BY <2>3, SMT
  <2> QED
    BY <2>4, <2>5
<1>3. /\ DOMAIN C = DOMAIN m.cac \ gone /\ \A c \in DOMAIN C : C[c] = m.cac[c]
      /\ DOMAIN C \subseteq Cacs /\ C \in [DOMAIN C -> CacStates]
  BY <1>1, SMT DEF Restrict
<1>4. L \in Seq(Cacs) /\ ToSet(L) = DOMAIN C /\ IsInjective(L)
  <2>1. ToSet(m.lru) = DOMAIN m.cac /\ IsInjective(m.lru)
    BY DEF Sound
  <2>2. /\ L \in Seq(Cacs) /\ ToSet(L) = ToSet(m.lru) \ gone
        /\ IsInjective(m.lru) => IsInjective(L)
    BY <1>1, WithoutSet
  <2> QED
    BY <1>3, <2>1, <2>2, Zenon
<1> HIDE DEF C, L, n
<1>5. n \in Worlds /\ n.url = U /\ n.cac = C /\ n.lru = L
  BY <1>2, <1>3, <1>4, WorldMade, Zenon
<1>6. ASSUME NEW v \in Urls PROVE Owns(n, v)
  <2>1. Owns(m, v)
    BY Zenon DEF Sound
  <2>2. Held(n.url[v]) = Held(m.url[v]) \ gone
    BY <1>5, Zenon
  <2> QED
    BY <1>3, <1>5, <2>1, <2>2, SMT DEF Owns
<1>7. Owned(n)
  <2> SUFFICES ASSUME NEW c \in DOMAIN C
               PROVE  c \in Held(U[C[c].url]) \/ C[c].expires = "past"
    BY <1>5, Zenon DEF Owned
  <2>1. c \in DOMAIN m.cac /\ c \notin gone /\ C[c] = m.cac[c]
    BY <1>3, Zenon
  <2>2. c \in Held(m.url[m.cac[c].url]) \/ m.cac[c].expires = "past"
    BY <2>1, Zenon DEF Sound, Owned
  <2>3. m.cac[c].url \in Urls
    BY <1>1, <2>1, SMT DEF CacStates
  <2> QED
    BY <2>1, <2>2, <2>3, Zenon
<1>8. Sound(n)
  BY <1>4, <1>5, <1>6, <1>7, Zenon DEF Sound
<1> QED
  BY <1>3, <1>5, <1>8, Zenon DEF n

\* Nobody else points to an object of u.
LEMMA HeldOnce ==
  ASSUME NEW m, Sound(m), NEW u \in Urls, NEW v \in Urls, u # v,
         NEW c \in Held(m.url[u])
  PROVE  c \notin Held(m.url[v])
<1>1. Owns(m, u) /\ Owns(m, v)
  BY Zenon DEF Sound
<1> QED
  BY <1>1, Zenon DEF Owns

Own == {"cache", "ocache", "vcache"}

\* A pointer is cleared.
LEMMA Cleared ==
  ASSUME NEW r \in UrlStates, UrlOK(r), NEW f \in Own
  PROVE  LET s == [r EXCEPT ![f] = NoCac]
         IN  /\ s \in UrlStates /\ UrlOK(s)
             /\ Held(s) = Held(r) \ {r[f]}
<1> DEFINE s == [r EXCEPT ![f] = NoCac]
<1>1. /\ r.cache \in Cacs \cup {NoCac} /\ r.ocache \in Cacs \cup {NoCac}
      /\ r.vcache \in Cacs \cup {NoCac}
  BY SMT DEF UrlStates
<1>2. s \in UrlStates
  BY SMT DEF UrlStates, Own
<1>3. /\ s.fetch = r.fetch /\ s.rfetch = r.rfetch /\ s.vfetch = r.vfetch
      /\ s.tempmoved = r.tempmoved /\ s.movedto = r.movedto
      /\ s.cache = IF f = "cache" THEN NoCac ELSE r.cache
      /\ s.ocache = IF f = "ocache" THEN NoCac ELSE r.ocache
      /\ s.vcache = IF f = "vcache" THEN NoCac ELSE r.vcache
  <2>1. CASE f = "cache"
    BY <2>1, SMT DEF UrlStates
  <2>2. CASE f = "ocache"
    BY <2>2, SMT DEF UrlStates
  <2>3. CASE f = "vcache"
    BY <2>3, SMT DEF UrlStates
  <2> QED
    BY <2>1, <2>2, <2>3 DEF Own
<1> HIDE DEF s
<1>4. UrlOK(s)
  BY <1>3, SMT DEF UrlOK, Apart
<1>5. r[f] = IF f = "cache" THEN r.cache ELSE IF f = "ocache" THEN r.ocache
             ELSE r.vcache
  BY SMT DEF UrlStates, Own
<1>6. Held(s) = Held(r) \ {r[f]}
  <2>1. Apart(r)
    BY DEF UrlOK
  <2>2. CASE f = "cache"
    BY <1>3, <1>5, <2>1, <2>2, SMT DEF Apart, Held
  <2>3. CASE f = "ocache"
    BY <1>3, <1>5, <2>1, <2>3, SMT DEF Apart, Held
  <2>4. CASE f = "vcache"
    BY <1>3, <1>5, <2>1, <2>4, SMT DEF Apart, Held
  <2> QED
    BY <2>2, <2>3, <2>4 DEF Own
<1> QED
  BY <1>2, <1>4, <1>6 DEF s

\* What Clearobject does, and leaves.
ClearedTo(m, n, u, f) ==
  /\ Sound(n)
  /\ n.url[u] = [m.url[u] EXCEPT ![f] = NoCac]
  /\ \A v \in Urls : v # u => n.url[v] = m.url[v]
  /\ DOMAIN n.cac \subseteq DOMAIN m.cac

LEMMA ClearobjectIs ==
  ASSUME NEW m, NEW u, NEW f
  PROVE  Clearobject(m, u, f)
          = Forget([m EXCEPT !.url[u][f] = NoCac], {m.url[u][f]})
BY Zenon DEF Clearobject

LEMMA ClearSound ==
  ASSUME NEW m, Sound(m), NEW u \in Urls, NEW f \in Own
  PROVE  ClearedTo(m, Clearobject(m, u, f), u, f)
<1> DEFINE r == m.url[u]
           s == [r EXCEPT ![f] = NoCac]
           U == [m.url EXCEPT ![u] = s]
           n == Forget([m EXCEPT !.url = U], {r[f]})
<1>1. m \in Worlds /\ m.url \in [Urls -> UrlStates] /\ r \in UrlStates
  BY WorldParts, Zenon DEF Sound
<1>2. UrlOK(r) /\ \A v \in Urls : UrlOK(m.url[v])
  BY Zenon DEF Sound
<1>3. s \in UrlStates /\ UrlOK(s) /\ Held(s) = Held(r) \ {r[f]}
  BY <1>1, <1>2, Cleared, Zenon
<1>4. Clearobject(m, u, f) = n
  <2>1. [m EXCEPT !.url[u][f] = NoCac] = [m EXCEPT !.url = U]
    BY <1>1, SMT DEF Worlds
  <2>2. Clearobject(m, u, f)
          = Forget([m EXCEPT !.url[u][f] = NoCac], {m.url[u][f]})
    BY ClearobjectIs, Zenon
  <2> HIDE DEF U
  <2> QED
    BY <2>1, <2>2, Zenon
<1>5. r[f] = NoCac \/ r[f] \in Held(r)
  BY <1>1, SMT DEF Own, Held, UrlStates
<1>6. NoCac \notin Held(r) /\ \A v \in Urls : NoCac \notin Held(m.url[v])
  BY Zenon DEF Held
<1> HIDE DEF s
<1>7. U \in [Urls -> UrlStates] /\ U[u] = s /\ \A v \in Urls : v # u => U[v] = m.url[v]
  BY <1>1, <1>3, Zenon
<1> HIDE DEF U
<1>8. ASSUME NEW v \in Urls
      PROVE  UrlOK(U[v]) /\ Held(U[v]) = Held(m.url[v]) \ {r[f]}
  <2>1. CASE v = u
    BY <1>3, <1>7, <2>1, Zenon
  <2>2. CASE v # u
    <3>1. r[f] \notin Held(m.url[v])
      BY <1>5, <1>6, <2>2, HeldOnce, Zenon
    <3> QED
      BY <1>2, <1>7, <2>2, <3>1, Zenon
  <2> QED
    BY <2>1, <2>2
<1>9. Sound(n) /\ n.url = U /\ DOMAIN n.cac = DOMAIN m.cac \ {r[f]}
  <2> DEFINE g == {r[f]}
  <2>1. \A v \in Urls : UrlOK(U[v]) /\ Held(U[v]) = Held(m.url[v]) \ g
    BY <1>8, Zenon
  <2>2. n = Forget([m EXCEPT !.url = U], g)
    OBVIOUS
  <2> HIDE DEF g, n, r
  <2>3. LET x == Forget([m EXCEPT !.url = U], g)
        IN  /\ Sound(x) /\ x.url = U
            /\ DOMAIN x.cac = DOMAIN m.cac \ g
            /\ \A c \in DOMAIN x.cac : x.cac[c] = m.cac[c]
    BY <1>7, <2>1, DropSound
  <2> QED
    BY <2>2, <2>3, Zenon DEF g
<1> HIDE DEF n
<1>10. ClearedTo(m, n, u, f)
  BY <1>7, <1>9, Zenon DEF ClearedTo, s
<1> QED
  BY <1>4, <1>10

\* A url points to nothing of what it does not have.
LEMMA OwnFields ==
  ASSUME NEW r \in UrlStates
  PROVE  r["cache"] = r.cache /\ r["ocache"] = r.ocache /\ r["vcache"] = r.vcache
  BY Zenon

\* There are as many objects as the list is long.
LEMMA InjectiveLen ==
  ASSUME NEW S, NEW q \in Seq(S), IsInjective(q)
  PROVE  IsFiniteSet(ToSet(q)) /\ Cardinality(ToSet(q)) = Len(q)
<1> DEFINE n == Len(q)
           T == ToSet(q)
<1>1. n \in Nat /\ DOMAIN q = 1 .. n
  BY LenProperties
<1>2. \A x : x \in T <=> \E i \in 1 .. n : q[i] = x
  BY InToSet
<1>3. q \in [1 .. n -> T]
  <2>1. q = [i \in 1 .. n |-> q[i]]
    BY <1>1, SMT
  <2> HIDE DEF n, T
  <2> QED
    BY <1>2, <2>1, Zenon
<1>4. \A a, b \in 1 .. n : q[a] = q[b] => a = b
  BY InToSet
<1> HIDE DEF n, T
<1>5. q \in Bijection(1 .. n, T)
  BY <1>2, <1>3, <1>4, Zenon DEF Bijection, Injection, Surjection
<1>6. ExistsBijection(1 .. n, T)
  BY <1>5, Zenon DEF ExistsBijection
<1>7. IsFiniteSet(T)
  BY <1>1, <1>6, FS_NatBijection DEF n
<1> QED
  BY <1>1, <1>6, <1>7, FS_CountingElements DEF n, T

\* The object that Newcache makes is nobody's yet: of the first numbers one more
\* than there are objects one is free.
LEMMA FreeOne ==
  ASSUME NEW m, Sound(m)
  PROVE  LET c == CHOOSE x \in Free(m) : \A y \in Free(m) : x <= y
         IN  c \in Cacs /\ c \notin DOMAIN m.cac
<1> DEFINE n == Len(m.lru)
           T == DOMAIN m.cac
<1>1. m.lru \in Seq(Cacs) /\ ToSet(m.lru) = T /\ IsInjective(m.lru)
  BY WorldParts, Zenon DEF Sound
<1>2. n \in Nat
  BY <1>1, LenProperties
<1>3. IsFiniteSet(T) /\ Cardinality(T) = n
  <2>1. IsFiniteSet(ToSet(m.lru)) /\ Cardinality(ToSet(m.lru)) = n
    BY <1>1, InjectiveLen
  <2> QED
    BY <1>1, <2>1, Zenon
<1>4. Free(m) = (1 .. n + 1) \ T
  BY Zenon DEF Free
<1> HIDE DEF n, T
<1>5. Free(m) # {}
  <2> SUFFICES ASSUME Free(m) = {} PROVE FALSE
    OBVIOUS
  <2>0. 1 .. n + 1 \subseteq T
    <3>1. \A x : x \in 1 .. n + 1 /\ x \notin T => x \in Free(m)
      BY <1>4
    <3>2. \A x : x \notin Free(m)
      OBVIOUS
    <3>3. \A x : x \in 1 .. n + 1 => x \in T
      BY <3>1, <3>2, Zenon
    <3> QED
      BY <3>3
  <2>2. Cardinality(1 .. n + 1) = n + 1
    <3> DEFINE k == n + 1
    <3>1. k \in Int /\ k \in Nat /\ 1 \in Int /\ 1 <= k
      BY <1>2, SMT
    <3> HIDE DEF k
    <3>2. Cardinality(1 .. k) = IF 1 > k THEN 0 ELSE k - 1 + 1
      BY <3>1, FS_Interval, Zenon
    <3>3. Cardinality(1 .. k) = k
      BY <3>1, <3>2, SMT
    <3> QED
      BY <3>3 DEF k
  <2>3. Cardinality(1 .. n + 1) <= Cardinality(T)
    BY <1>3, <2>0, FS_Subset
  <2> QED
    BY <1>2, <1>3, <2>2, <2>3, SMT
<1>6. Free(m) \subseteq Cacs /\ Free(m) \subseteq Nat
  BY <1>2, <1>4, SMT DEF Cacs, NoCac
<1>7. PICK c \in Free(m) : \A y \in Free(m) : c <= y
  BY <1>5, <1>6, MinOfNaturals, Zenon
<1> DEFINE least == CHOOSE x \in Free(m) : \A y \in Free(m) : x <= y
<1>8. least \in Free(m)
  BY <1>7, Zenon
<1> HIDE DEF least
<1>9. least \in Cacs /\ least \notin DOMAIN m.cac
  BY <1>4, <1>6, <1>8, Zenon DEF T
<1> QED
  BY <1>9 DEF least

\* A pointer that held nothing, or an object that is past, gets a new one.
LEMMA Filled ==
  ASSUME NEW r \in UrlStates, UrlOK(r), NEW f \in {"cache", "vcache"},
         f = "vcache" => r.vfetch # "none",
         NEW c \in Cacs, c \notin Held(r)
  PROVE  LET s == [r EXCEPT ![f] = c]
         IN  /\ s \in UrlStates /\ UrlOK(s)
             /\ Held(s) = (Held(r) \ {r[f]}) \cup {c}
<1> DEFINE s == [r EXCEPT ![f] = c]
<1>1. /\ r.cache \in Cacs \cup {NoCac} /\ r.ocache \in Cacs \cup {NoCac}
      /\ r.vcache \in Cacs \cup {NoCac} /\ c # NoCac
  BY SMT DEF UrlStates, Cacs, NoCac
<1>2. s \in UrlStates
  BY SMT DEF UrlStates
<1>3. /\ s.fetch = r.fetch /\ s.rfetch = r.rfetch /\ s.vfetch = r.vfetch
      /\ s.tempmoved = r.tempmoved /\ s.movedto = r.movedto
      /\ s.cache = IF f = "cache" THEN c ELSE r.cache
      /\ s.ocache = r.ocache
      /\ s.vcache = IF f = "vcache" THEN c ELSE r.vcache
      /\ r[f] = IF f = "cache" THEN r.cache ELSE r.vcache
  <2>1. CASE f = "cache"
    BY <2>1, SMT DEF UrlStates
  <2>2. CASE f = "vcache"
    BY <2>2, SMT DEF UrlStates
  <2> QED
    BY <2>1, <2>2
<1> HIDE DEF s
<1>4. c # r.cache /\ c # r.ocache /\ c # r.vcache
  BY <1>1, SMT DEF Held
<1>5. UrlOK(s)
  BY <1>3, <1>4, SMT DEF UrlOK, Apart
<1>6. Held(s) = (Held(r) \ {r[f]}) \cup {c}
  <2>1. Apart(r)
    BY DEF UrlOK
  <2>2. CASE f = "cache"
    BY <1>1, <1>3, <2>1, <2>2, SMT DEF Apart, Held
  <2>3. CASE f = "vcache"
    BY <1>1, <1>3, <2>1, <2>3, SMT DEF Apart, Held
  <2> QED
    BY <2>2, <2>3
<1> QED
  BY <1>2, <1>5, <1>6 DEF s

LEMMA NewSound ==
  ASSUME NEW m, Sound(m), NEW u \in Urls, NEW f \in {"cache", "vcache"},
         f = "vcache" => m.url[u].vfetch # "none",
         m.url[u][f] = NoCac \/ m.cac[m.url[u][f]].expires = "past"
  PROVE  Sound(Newcache(m, u, f))
<1> DEFINE r == m.url[u]
           c == CHOOSE x \in Free(m) : \A y \in Free(m) : x <= y
           s == [r EXCEPT ![f] = c]
           e == [url |-> u, stage |-> "new", filled |-> FALSE,
                 expires |-> "never"]
           U == [m.url EXCEPT ![u] = s]
           C == [x \in DOMAIN m.cac \cup {c} |-> IF x = c THEN e ELSE m.cac[x]]
           L == Append(m.lru, c)
           n == [url |-> U, cac |-> C, lru |-> L]
<1>1. CASE ~Cacheable(u)
  BY <1>1, Zenon DEF Newcache
<1>2. CASE Cacheable(u)
  <2>1. c \in Cacs /\ c \notin DOMAIN m.cac
    BY FreeOne
  <2>2. Newcache(m, u, f) =
          [m EXCEPT !.url[u][f] = c, !.lru = Append(@, c), !.cac = C]
    BY <1>2, Zenon DEF Newcache
  <2> HIDE DEF c
  <2>3. /\ m \in Worlds /\ m.url \in [Urls -> UrlStates] /\ r \in UrlStates
        /\ DOMAIN m.cac \subseteq Cacs /\ m.lru \in Seq(Cacs)
        /\ \A x \in DOMAIN m.cac : m.cac[x] \in CacStates
        /\ m = [url |-> m.url, cac |-> m.cac, lru |-> m.lru]
    BY WorldParts, Zenon DEF Sound
  <2>4. /\ \A v \in Urls : UrlOK(m.url[v]) /\ Owns(m, v)
        /\ ToSet(m.lru) = DOMAIN m.cac /\ IsInjective(m.lru)
    BY Zenon DEF Sound
  <2>5. \A v \in Urls : c \notin Held(m.url[v])
    BY <2>1, <2>4, Zenon DEF Owns
  <2>6. /\ s \in UrlStates /\ UrlOK(s)
        /\ Held(s) = (Held(r) \ {r[f]}) \cup {c}
    BY <2>1, <2>3, <2>4, <2>5, Filled, Zenon
  <2>7. Newcache(m, u, f) = n
    <3> DEFINE x == [m EXCEPT !.url = U]
               y == [x EXCEPT !.lru = L]
    <3>1. [m EXCEPT !.url[u][f] = c] = x
      BY <2>3, SMT DEF Worlds
    <3> HIDE DEF U
    <3>2. x = [url |-> U, cac |-> m.cac, lru |-> m.lru] /\ x.lru = m.lru
      BY <2>3, SMT
    <3>3. Newcache(m, u, f) = [x EXCEPT !.lru = Append(@, c), !.cac = C]
      BY <2>2, <3>1, Zenon
    <3> HIDE DEF x
    <3>4. y = [url |-> U, cac |-> m.cac, lru |-> L] /\ y.cac = m.cac
      BY <3>2, SMT
    <3>5. Newcache(m, u, f) = [y EXCEPT !.cac = C]
      BY <3>2, <3>3, <3>4, Zenon
    <3> HIDE DEF y, C, L
    <3> QED
      BY <3>4, <3>5, SMT
  <2>8. U \in [Urls -> UrlStates] /\ U[u] = s /\ \A v \in Urls : v # u => U[v] = m.url[v]
    BY <2>3, <2>6, Zenon
  <2>9. e \in CacStates /\ e.url = u
    BY <1>2, SMT DEF CacStates, Cacheable
  <2>10. /\ DOMAIN C = DOMAIN m.cac \cup {c}
         /\ C[c] = e /\ \A x \in DOMAIN m.cac : C[x] = m.cac[x]
         /\ C = [x \in DOMAIN C |-> C[x]]
    BY <2>1, Zenon
  <2> HIDE DEF e, C
  <2>11. DOMAIN C \subseteq Cacs /\ C \in [DOMAIN C -> CacStates]
    <3>1. \A x \in DOMAIN C : C[x] \in CacStates
      BY <2>3, <2>9, <2>10, Zenon
    <3> QED
      BY <2>1, <2>3, <2>10, <3>1, Zenon
  <2>12. /\ L \in Seq(Cacs) /\ ToSet(L) = ToSet(m.lru) \cup {c}
         /\ IsInjective(m.lru) /\ c \notin ToSet(m.lru) => IsInjective(L)
    BY <2>1, <2>3, AppendSet
  <2>13. n \in Worlds /\ n.url = U /\ n.cac = C /\ n.lru = L
    BY <2>8, <2>11, <2>12, WorldMade, Zenon
  <2> HIDE DEF n, L, U, s
  <2>14. ASSUME NEW v \in Urls PROVE UrlOK(U[v]) /\ Owns(n, v)
    <3>1. CASE v = u
      <4>1. \A x \in Held(r) : x \in DOMAIN m.cac /\ m.cac[x].url = u
        BY <2>4, Zenon DEF Owns
      <4>2. \A x \in Held(s) : x \in DOMAIN C /\ C[x].url = u
        BY <2>6, <2>9, <2>10, <4>1, Zenon
      <4> QED
        BY <2>6, <2>8, <2>13, <3>1, <4>2, Zenon DEF Owns
    <3>2. CASE v # u
      <4>1. \A x \in Held(m.url[v]) : x \in DOMAIN m.cac /\ m.cac[x].url = v
        BY <2>4, Zenon DEF Owns
      <4>2. \A x \in Held(m.url[v]) : x \in DOMAIN C /\ C[x].url = v
        BY <2>10, <4>1, Zenon
      <4> QED
        BY <2>4, <2>8, <2>13, <3>2, <4>2, Zenon DEF Owns
    <3> QED
      BY <3>1, <3>2
  <2>15. Owned(n)
    <3> SUFFICES ASSUME NEW x \in DOMAIN C
                 PROVE  x \in Held(U[C[x].url]) \/ C[x].expires = "past"
      BY <2>13, Zenon DEF Owned
    <3>1. CASE x = c
      BY <2>6, <2>8, <2>9, <2>10, <3>1, Zenon
    <3>2. CASE x \in DOMAIN m.cac
      <4>1. /\ C[x] = m.cac[x] /\ m.cac[x].url \in Urls
            /\ x \in Held(m.url[m.cac[x].url]) \/ m.cac[x].expires = "past"
        <5>1. m.cac[x].url \in Urls
          BY <2>3, <3>2, SMT DEF CacStates
        <5> QED
          BY <2>10, <3>2, <5>1, Zenon DEF Sound, Owned
      <4>2. CASE m.cac[x].url # u
        BY <2>8, <4>1, <4>2, Zenon
      <4>3. CASE m.cac[x].url = u /\ x = r[f]
        <5>1. x # NoCac
          BY <2>3, <3>2, SMT DEF Cacs, NoCac
        <5> QED
          BY <4>1, <4>3, <5>1, Zenon
      <4>4. CASE m.cac[x].url = u /\ x # r[f]
        BY <2>6, <2>8, <4>1, <4>4, Zenon
      <4> QED
        BY <4>2, <4>3, <4>4
    <3> QED
      BY <2>10, <3>1, <3>2, Zenon
  <2>16. Sound(n)
    BY <2>1, <2>4, <2>10, <2>12, <2>13, <2>14, <2>15, Zenon DEF Sound
  <2> QED
    BY <2>7, <2>16
<1> QED
  BY <1>1, <1>2

\* An object changes, but not its url.  If it was not past it is pointed to.
LEMMA CacSound ==
  ASSUME NEW m, Sound(m), NEW c \in DOMAIN m.cac, NEW e \in CacStates,
         e.url = m.cac[c].url,
         \/ e.expires = m.cac[c].expires
         \/ e.expires = "past"
         \/ c \in Held(m.url[e.url])
  PROVE  Sound([m EXCEPT !.cac[c] = e])
<1> DEFINE C == [m.cac EXCEPT ![c] = e]
           n == [m EXCEPT !.cac[c] = e]
<1>1. /\ m \in Worlds /\ m.url \in [Urls -> UrlStates]
      /\ DOMAIN m.cac \subseteq Cacs /\ m.cac \in [DOMAIN m.cac -> CacStates]
      /\ m.lru \in Seq(Cacs) /\ m = [url |-> m.url, cac |-> m.cac, lru |-> m.lru]
  BY WorldParts, Zenon DEF Sound
<1>2. n = [m EXCEPT !.cac = C]
  BY <1>1, SMT DEF Worlds
<1>3. /\ DOMAIN C = DOMAIN m.cac /\ C \in [DOMAIN C -> CacStates]
      /\ C[c] = e /\ \A x \in DOMAIN m.cac : x # c => C[x] = m.cac[x]
  BY <1>1, Zenon
<1> HIDE DEF C, n
<1>4. n = [url |-> m.url, cac |-> C, lru |-> m.lru]
  <2>1. m = [url |-> m.url, cac |-> m.cac, lru |-> m.lru]
    BY <1>1, Zenon
  <2>2. [m EXCEPT !.cac = C] = [url |-> m.url, cac |-> C, lru |-> m.lru]
    BY <2>1, SMT
  <2> QED
    BY <1>2, <2>2, Zenon
<1>5. n \in Worlds /\ n.url = m.url /\ n.cac = C /\ n.lru = m.lru
  <2> DEFINE U == m.url
             L == m.lru
  <2>1. U \in [Urls -> UrlStates] /\ L \in Seq(Cacs) /\ DOMAIN C \subseteq Cacs
    BY <1>1, <1>3, Zenon
  <2>2. n = [url |-> U, cac |-> C, lru |-> L]
    BY <1>4
  <2> HIDE DEF U, L
  <2>3. n \in Worlds /\ n.url = U /\ n.cac = C /\ n.lru = L
    BY <1>3, <2>1, <2>2, WorldMade, Zenon
  <2> QED
    BY <2>3 DEF U, L
<1>6. /\ \A v \in Urls : UrlOK(m.url[v]) /\ Owns(m, v)
      /\ ToSet(m.lru) = DOMAIN m.cac /\ IsInjective(m.lru) /\ Owned(m)
  BY Zenon DEF Sound
<1>7. \A x \in DOMAIN m.cac : C[x].url = m.cac[x].url
  BY <1>3, Zenon
<1>8. ASSUME NEW v \in Urls PROVE Owns(n, v)
  BY <1>3, <1>5, <1>6, <1>7, Zenon DEF Owns
<1>9. ASSUME NEW x \in DOMAIN C
      PROVE  x \in Held(m.url[C[x].url]) \/ C[x].expires = "past"
  <2>1. CASE x = c
    BY <1>3, <1>6, <2>1, Zenon DEF Owned
  <2>2. CASE x # c
    BY <1>3, <1>6, <2>2, Zenon DEF Owned
  <2> QED
    BY <2>1, <2>2
<1>10. Owned(n)
  BY <1>5, <1>9, Zenon DEF Owned
<1>11. Sound(n)
  BY <1>3, <1>5, <1>6, <1>8, <1>10, Zenon DEF Sound
<1> QED
  BY <1>11 DEF n

\* A flush disposes the cached pages of urls, through the urls.
LEMMA FlushFirstSound ==
  ASSUME NEW m, Sound(m), NEW k \in 0 .. Len(m.lru)
  PROVE  Sound(FlushFirst(m, k))
<1> DEFINE us == {m.cac[m.lru[i]].url : i \in 1 .. k}
           gone == {m.url[u].cache : u \in us}
           U == [u \in Urls |-> IF u \in us THEN [m.url[u] EXCEPT !.cache = NoCac]
                                ELSE m.url[u]]
           n == Forget([m EXCEPT !.url = U], gone)
<1>1. /\ m \in Worlds /\ \A u \in Urls : m.url[u] \in UrlStates
      /\ m.lru \in Seq(Cacs) /\ \A c \in DOMAIN m.cac : m.cac[c] \in CacStates
  BY WorldParts, Zenon DEF Sound
<1>2. \A v \in Urls : UrlOK(m.url[v]) /\ Owns(m, v)
  BY Zenon DEF Sound
<1>3. FlushFirst(m, k) = n
  BY Zenon DEF FlushFirst
<1>4. us \subseteq Urls
  <2> SUFFICES ASSUME NEW i \in 1 .. k PROVE m.cac[m.lru[i]].url \in Urls
    BY Zenon
  <2>1. i \in 1 .. Len(m.lru)
    BY <1>1, SMT
  <2>2. m.lru[i] \in DOMAIN m.cac
    BY <1>1, <2>1, InToSet, Zenon DEF Sound
  <2> QED
    BY <1>1, <2>2, SMT DEF CacStates
<1> HIDE DEF us
<1>5. ASSUME NEW v \in Urls
      PROVE  /\ U[v] \in UrlStates /\ UrlOK(U[v])
             /\ Held(U[v]) = Held(m.url[v]) \ gone
  <2>0. NoCac \notin Held(m.url[v])
    BY Zenon DEF Held
  <2>1. ASSUME NEW c \in Held(m.url[v]), c \in gone
        PROVE  v \in us /\ c = m.url[v].cache
    <3>1. PICK w \in us : c = m.url[w].cache
      BY <2>1, Zenon
    <3>2. w \in Urls /\ c \in Held(m.url[w])
      BY <1>4, <2>0, <3>1, Zenon DEF Held
    <3>3. w = v
      BY <3>2, HeldOnce, Zenon
    <3> QED
      BY <3>1, <3>3
  <2>2. CASE v \in us
    <3> DEFINE s == [m.url[v] EXCEPT !.cache = NoCac]
    <3>1. /\ s \in UrlStates /\ UrlOK(s)
          /\ Held(s) = Held(m.url[v]) \ {m.url[v].cache}
      <4>1. "cache" \in Own
        BY DEF Own
      <4>2. LET x == [m.url[v] EXCEPT !["cache"] = NoCac]
            IN  /\ x \in UrlStates /\ UrlOK(x)
                /\ Held(x) = Held(m.url[v]) \ {m.url[v]["cache"]}
        BY <1>1, <1>2, <4>1, Cleared
      <4> QED
        BY <4>2, Zenon
    <3>2. U[v] = s
      BY <2>2, Zenon
    <3>3. m.url[v].cache \in gone
      BY <2>2, Zenon
    <3> HIDE DEF s, U, gone
    <3> QED
      BY <2>1, <3>1, <3>2, <3>3, Zenon
  <2>3. CASE v \notin us
    <3>1. U[v] = m.url[v]
      BY <2>3, Zenon
    <3> HIDE DEF U, gone
    <3> QED
      BY <1>1, <1>2, <2>1, <2>3, <3>1, Zenon
  <2> QED
    BY <2>2, <2>3
<1>6. U \in [Urls -> UrlStates]
  BY <1>5, Zenon
<1> HIDE DEF U, gone
<1>7. LET x == Forget([m EXCEPT !.url = U], gone)
      IN  /\ Sound(x) /\ x.url = U
          /\ DOMAIN x.cac = DOMAIN m.cac \ gone
          /\ \A c \in DOMAIN x.cac : x.cac[c] = m.cac[c]
  BY <1>5, <1>6, DropSound
<1> QED
  BY <1>3, <1>7, Zenon

LEMMA FlushSound ==
  ASSUME NEW m, Sound(m)
  PROVE  Sound(Flushexcess(m))
<1> DEFINE enough == {n \in 0 .. Len(m.lru) : Disk(FlushFirst(m, n)) <= MaxDisk}
           least == CHOOSE n \in enough : \A k \in enough : n <= k
           last == IF enough = {} THEN Len(m.lru) ELSE least
<1>1. m.lru \in Seq(Cacs)
  BY WorldParts, Zenon DEF Sound
<1>2. Len(m.lru) \in 0 .. Len(m.lru) /\ 0 .. Len(m.lru) \subseteq Nat
  BY <1>1, SMT
<1>3. enough \subseteq 0 .. Len(m.lru) /\ enough \subseteq Nat
  BY <1>2, Zenon
<1> HIDE DEF enough
<1>4. ASSUME enough # {} PROVE least \in 0 .. Len(m.lru)
  <2>1. PICK n \in enough : \A k \in enough : n <= k
    BY <1>3, <1>4, MinOfNaturals, Zenon
  <2> QED
    BY <1>3, <2>1, Zenon
<1>5. last \in 0 .. Len(m.lru)
  BY <1>2, <1>4, Zenon
<1>6. Flushexcess(m) = FlushFirst(m, last)
  BY Zenon DEF Flushexcess, enough
<1> HIDE DEF last
<1> QED
  BY <1>5, <1>6, FlushFirstSound, Zenon

LEMMA DataSound ==
  ASSUME NEW m, Sound(m), NEW c \in DOMAIN m.cac, NEW big
  PROVE  Sound(CacheData(m, c, big))
<1> DEFINE x == m.cac[c]
           y == [x EXCEPT !.stage = "open"]
           e == [y EXCEPT !.filled = TRUE]
           n == [m EXCEPT !.cac[c].stage = "open", !.cac[c].filled = TRUE]
<1>1. m \in Worlds /\ x \in CacStates
  BY WorldParts, Zenon DEF Sound
<1>2. e \in CacStates /\ e.url = x.url /\ e.expires = x.expires
  <2>1. y \in CacStates /\ y.url = x.url /\ y.expires = x.expires
    BY <1>1, SMT DEF CacStates
  <2> HIDE DEF y
  <2> DEFINE t == TRUE
  <2>2. t \in BOOLEAN
    OBVIOUS
  <2> HIDE DEF t
  <2>3. [y EXCEPT !.filled = t] \in CacStates
        /\ [y EXCEPT !.filled = t].url = y.url
        /\ [y EXCEPT !.filled = t].expires = y.expires
    BY <2>1, <2>2, SMT DEF CacStates
  <2> QED
    BY <2>1, <2>3 DEF t
<1>3. n = [m EXCEPT !.cac[c] = e]
  <2> DEFINE p == [m EXCEPT !.cac[c].stage = "open"]
  <2>1. m = [url |-> m.url, cac |-> m.cac, lru |-> m.lru]
    BY <1>1, WorldParts, Zenon
  <2>2. n = [p EXCEPT !.cac[c].filled = TRUE]
    BY Zenon
  <2> HIDE DEF n
  <2> DEFINE P == [m.cac EXCEPT ![c] = y]
  <2>3. p = [url |-> m.url, cac |-> P, lru |-> m.lru]
    BY <2>1, SMT
  <2>4. P[c] = y
    BY Zenon
  <2> HIDE DEF p, y, x
  <2> DEFINE E == [P EXCEPT ![c] = e]
  <2>5. E = [m.cac EXCEPT ![c] = e]
    BY Zenon
  <2>6. [p EXCEPT !.cac[c].filled = TRUE] = [p EXCEPT !.cac[c] = e]
    BY <2>3, <2>4, SMT
  <2> HIDE DEF e, P
  <2>7. [p EXCEPT !.cac[c] = e] = [url |-> m.url, cac |-> E, lru |-> m.lru]
    BY <2>3, SMT
  <2>8. [m EXCEPT !.cac[c] = e] = [url |-> m.url, cac |-> E, lru |-> m.lru]
    BY <2>1, <2>5, SMT
  <2> QED
    BY <2>2, <2>6, <2>7, <2>8, Zenon
<1> HIDE DEF e
<1>4. Sound(n)
  <2> HIDE DEF n
  <2> QED
    BY <1>2, <1>3, CacSound, Zenon
<1>5. CacheData(m, c, big) \in {m, n, Flushexcess(m), Flushexcess(n)}
  BY Zenon DEF CacheData
<1> HIDE DEF n
<1> QED
  BY <1>4, <1>5, FlushSound, Zenon

LEMMA EofSound ==
  ASSUME NEW m, Sound(m), NEW c \in DOMAIN m.cac
  PROVE  Sound(CacheEof(m, c))
<1> DEFINE x == m.cac[c]
           e == [x EXCEPT !.stage = "closed"]
           n == [m EXCEPT !.cac[c].stage = "closed"]
<1>1. m \in Worlds /\ x \in CacStates
  BY WorldParts, Zenon DEF Sound
<1>2. e \in CacStates /\ e.url = x.url /\ e.expires = x.expires
  BY <1>1, SMT DEF CacStates
<1>3. n = [m EXCEPT !.cac[c] = e]
  BY <1>1, SMT DEF Worlds
<1> HIDE DEF e
<1>4. Sound(n)
  <2> HIDE DEF n
  <2> QED
    BY <1>2, <1>3, CacSound, Zenon
<1>5. CacheEof(m, c) \in {m, Flushexcess(n)}
  BY Zenon DEF CacheEof
<1> HIDE DEF n
<1> QED
  BY <1>4, <1>5, FlushSound, Zenon

-----------------------------------------------------------------------------
(* Redirections.                                                           *)

\* The urls after 0 .. n steps.
StepsIs(step, u, n, f) ==
  f = [i \in 0 .. n |-> IF i = 0 THEN u ELSE step[f[i - 1]]]

LEMMA StepsExist ==
  ASSUME NEW step, NEW u, NEW n \in Nat
  PROVE  \E f : StepsIs(step, u, n, f)
<1> DEFINE Bad == {k \in Nat : ~ \E f : StepsIs(step, u, k, f)}
<1>1. SUFFICES ASSUME Bad # {} PROVE FALSE
  BY <1>1
<1>2. PICK m \in Bad : \A k \in Bad : m <= k
  BY <1>1, MinOfNaturals, Zenon
<1>3. CASE m = 0
  <2> DEFINE f == [i \in 0 .. 0 |-> u]
  <2>1. \A i \in 0 .. 0 : i = 0
    BY SMT
  <2>2. StepsIs(step, u, 0, f)
    BY <2>1, Zenon DEF StepsIs
  <2> QED
    BY <1>2, <1>3, <2>2, Zenon
<1>4. CASE m # 0
  <2>1. m - 1 \in Nat /\ ~(m <= m - 1)
    BY <1>2, <1>4, SMT
  <2>2. PICK g : StepsIs(step, u, m - 1, g)
    BY <1>2, <2>1, Zenon
  <2> DEFINE Longer(h) == [i \in 0 .. m |-> IF i = 0 THEN u ELSE step[h[i - 1]]]
             f == Longer(g)
  <2>3. \A i \in 0 .. m - 1 : g[i] = f[i]
    <3>1. \A i \in 0 .. m - 1 : i \in 0 .. m
      BY <1>2, SMT
    <3> QED
      BY <2>2, <3>1, Zenon DEF StepsIs
  <2>4. \A i \in 0 .. m : i # 0 => i - 1 \in 0 .. m - 1
    BY <1>2, SMT
  <2>5. f = Longer(f)
    BY <2>3, <2>4, Zenon
  <2> QED
    BY <1>2, <2>5, Zenon DEF StepsIs
<1> QED
  BY <1>3, <1>4

\* Redirections lead to urls.
LEMMA FinalurlIn ==
  ASSUME NEW m \in Worlds, NEW u \in Urls
  PROVE  Finalurl(m, u) \in Urls
<1> DEFINE step == [v \in Urls |->
                      IF m.url[v].movedto # NoUrl /\ IsCached(m, v)
                      THEN m.url[v].movedto ELSE v]
           at == CHOOSE f : f = [i \in 0 .. MaxHops |->
                                   IF i = 0 THEN u ELSE step[f[i - 1]]]
           On == {i \in 0 .. MaxHops : at[i] \in Urls}
<1>1. MaxHops \in Nat
  BY UrlAssumption, Zenon
<1>2. Finalurl(m, u) = at[MaxHops]
  BY Zenon DEF Finalurl, Walk
<1>3. \A v \in Urls : step[v] \in Urls
  <2>1. \A v \in Urls : m.url[v].movedto \in Urls \cup {NoUrl}
    BY WorldParts, SMT DEF UrlStates
  <2> QED
    BY <2>1, Zenon
<1> HIDE DEF step
<1>4. StepsIs(step, u, MaxHops, at)
  <2>1. PICK f : StepsIs(step, u, MaxHops, f)
    BY <1>1, StepsExist, Zenon
  <2> QED
    BY <2>1, Zenon DEF StepsIs
<1> HIDE DEF at
<1>5. /\ 0 \in 0 .. MaxHops /\ MaxHops \in 0 .. MaxHops
      /\ \A i \in 1 .. MaxHops : i \in 0 .. MaxHops /\ i # 0
  BY <1>1, SMT
<1>6. 0 \in On /\ \A i \in 1 .. MaxHops : i - 1 \in On => i \in On
  BY <1>3, <1>4, <1>5, Zenon DEF StepsIs
<1>7. \A i \in 0 .. MaxHops : i \in On
  <2> HIDE DEF On
  <2> QED
    BY <1>1, <1>6, UpTo, Zenon
<1> QED
  BY <1>2, <1>5, <1>7, Zenon

-----------------------------------------------------------------------------
(* What does not concern transfers and cache objects.                      *)

\* Url objects with the same transfers, cache objects and redirection.
Alike(r, s) ==
  /\ s.fetch = r.fetch /\ s.rfetch = r.rfetch /\ s.vfetch = r.vfetch
  /\ s.cache = r.cache /\ s.ocache = r.ocache /\ s.vcache = r.vcache
  /\ s.tempmoved = r.tempmoved /\ s.movedto = r.movedto

\* m and n have the same cache objects and, but for u's, the same url objects.
Beside(m, n, u) ==
  n.cac = m.cac /\ \A v \in Urls : v # u => n.url[v] = m.url[v]

LEMMA AlikeSound ==
  ASSUME NEW m, Sound(m), NEW u \in Urls, NEW r \in UrlStates,
         Alike(m.url[u], r)
  PROVE  /\ Sound(Put(m, u, r)) /\ Put(m, u, r).url[u] = r
         /\ Beside(m, Put(m, u, r), u)
<1>1. m \in Worlds /\ UrlOK(m.url[u])
  BY Zenon DEF Sound
<1>2. UrlOK(r) /\ Held(r) = Held(m.url[u])
  BY <1>1, Zenon DEF Alike, UrlOK, Apart, Held
<1>3. Sound(Put(m, u, r))
  BY <1>2, PutSound, Zenon
<1>4. /\ Put(m, u, r).cac = m.cac /\ Put(m, u, r).url[u] = r
      /\ \A v \in Urls : v # u => Put(m, u, r).url[v] = m.url[v]
  BY <1>1, PutParts
<1> QED
  BY <1>3, <1>4, Zenon DEF Beside

LEMMA SourceSound ==
  ASSUME NEW m, Sound(m), NEW u \in Urls, NEW x \in Sources
  PROVE  LET n == [m EXCEPT !.url[u].source = x]
         IN  Sound(n) /\ Alike(m.url[u], n.url[u]) /\ Beside(m, n, u)
<1> DEFINE r == [m.url[u] EXCEPT !.source = x]
           n == [m EXCEPT !.url[u].source = x]
<1>1. m \in Worlds /\ m.url[u] \in UrlStates
  BY WorldParts, Zenon DEF Sound
<1>2. r \in UrlStates /\ Alike(m.url[u], r)
  BY <1>1, SMT DEF UrlStates, Alike
<1>3. n = Put(m, u, r)
  BY <1>1, SMT DEF Worlds, Put
<1> HIDE DEF r, n
<1>4. Sound(n) /\ n.url[u] = r /\ Beside(m, n, u)
  BY <1>2, <1>3, AlikeSound, Zenon
<1>5. Sound(n) /\ Alike(m.url[u], n.url[u]) /\ Beside(m, n, u)
  BY <1>2, <1>4, Zenon
<1> QED
  BY <1>5 DEF n

LEMMA UrlsourceSound ==
  ASSUME NEW m, Sound(m), NEW u \in Urls, NEW as \in Sources
  PROVE  /\ Sound(Urlsource(m, u, as)) /\ Urlsource(m, u, as).cac = m.cac
         /\ \A v \in Urls : Alike(m.url[v], Urlsource(m, u, as).url[v])
<1> DEFINE v == Finalurl(m, u)
           x == IF m.url[v].source \in {"none", "unused"} THEN as
                ELSE m.url[v].source
           n == [m EXCEPT !.url[v].source = x]
<1>1. m \in Worlds /\ v \in Urls
  BY FinalurlIn, Zenon DEF Sound
<1>2. Urlsource(m, u, as) = n
  BY Zenon DEF Urlsource
<1> HIDE DEF v
<1>3. x \in Sources
  <2>1. m.url[v].source \in Sources
    BY <1>1, WorldParts, SMT DEF UrlStates
  <2> QED
    BY <2>1, Zenon
<1> HIDE DEF x
<1>4. Sound(n) /\ Alike(m.url[v], n.url[v]) /\ Beside(m, n, v)
  BY <1>1, <1>3, SourceSound
<1> HIDE DEF n
<1>5. \A w \in Urls : Alike(m.url[w], n.url[w])
  BY <1>4, Zenon DEF Beside, Alike
<1> QED
  BY <1>2, <1>4, <1>5, Zenon DEF Beside

-----------------------------------------------------------------------------
(* Loading.                                                                *)

LEMMA ResetSound ==
  ASSUME NEW m, Sound(m), NEW u \in Urls
  PROVE  LET n == Reset(m, u)
         IN  /\ Sound(n) /\ DOMAIN n.cac \subseteq DOMAIN m.cac
             /\ n.url[u].fetch = "none" /\ n.url[u].rfetch = "none"
             /\ n.url[u].vfetch = "none" /\ n.url[u].cache = NoCac
<1> DEFINE a == Clearobject(m, u, "vcache")
           b == Clearobject(a, u, "ocache")
           r == b.url[u]
           s == BrokenOff(r)
           n == Put(b, u, s)
<1>1. ClearedTo(m, a, u, "vcache")
  BY ClearSound DEF Own
<1>2. Sound(a)
  BY <1>1, Zenon DEF ClearedTo
<1>3. ClearedTo(a, b, u, "ocache")
  <2> HIDE DEF a
  <2> QED
    BY <1>2, ClearSound DEF Own
<1>4. Reset(m, u) = n
  BY Zenon DEF Reset, Put
<1> HIDE DEF a, b
<1>5. /\ Sound(b) /\ b \in Worlds /\ r \in UrlStates /\ a.url[u] \in UrlStates
      /\ m.url[u] \in UrlStates /\ DOMAIN b.cac \subseteq DOMAIN m.cac
  BY <1>1, <1>2, <1>3, WorldParts, Zenon DEF ClearedTo, Sound
<1>6. r.ocache = NoCac /\ r.vcache = NoCac /\ r.cache \in Cacs \cup {NoCac}
  <2>1. /\ a.url[u] = [m.url[u] EXCEPT !["vcache"] = NoCac]
        /\ r = [a.url[u] EXCEPT !["ocache"] = NoCac]
    BY <1>1, <1>3, Zenon DEF ClearedTo
  <2>2. a.url[u].vcache = NoCac
    BY <1>5, <2>1, SMT DEF UrlStates
  <2> HIDE DEF r
  <2> QED
    BY <1>5, <2>1, <2>2, SMT DEF UrlStates
<1> HIDE DEF r
<1>7. /\ s \in UrlStates
      /\ s.fetch = "none" /\ s.rfetch = "none" /\ s.vfetch = "none"
      /\ s.cache = NoCac /\ s.ocache = r.cache /\ s.vcache = NoCac
      /\ s.tempmoved = FALSE
  <2> DEFINE f == FALSE
             o == r.cache
             s1 == [r EXCEPT !.fetch = "none"]
             s2 == [s1 EXCEPT !.rfetch = "none"]
             s3 == [s2 EXCEPT !.vfetch = "none"]
             s4 == [s3 EXCEPT !.flags = {}]
             s5 == [s4 EXCEPT !.dsource = f]
             s6 == [s5 EXCEPT !.ocache = o]
             s7 == [s6 EXCEPT !.cache = NoCac]
             s8 == [s7 EXCEPT !.movedto = NoUrl]
             s9 == [s8 EXCEPT !.tempmoved = f]
  <2>1. s = s9
    BY Zenon DEF BrokenOff
  <2>2. f \in BOOLEAN /\ o \in Cacs \cup {NoCac}
    BY <1>6
  <2> HIDE DEF f, o, s
  <2>3. s1 \in UrlStates /\ s1.fetch = "none" /\ s1.vcache = r.vcache
    BY <1>5, SMT DEF UrlStates, Stages
  <2> HIDE DEF s1
  <2>4. /\ s2 \in UrlStates /\ s2.fetch = "none" /\ s2.vcache = r.vcache
        /\ s2.rfetch = "none"
    BY <2>3, SMT DEF UrlStates
  <2> HIDE DEF s2
  <2>5. /\ s3 \in UrlStates /\ s3.fetch = "none" /\ s3.vcache = r.vcache
        /\ s3.rfetch = "none" /\ s3.vfetch = "none"
    BY <2>4, SMT DEF UrlStates
  <2> HIDE DEF s3
  <2>6. /\ s4 \in UrlStates /\ s4.fetch = "none" /\ s4.vcache = r.vcache
        /\ s4.rfetch = "none" /\ s4.vfetch = "none"
    BY <2>5, SMT DEF UrlStates
  <2> HIDE DEF s4
  <2>7. /\ s5 \in UrlStates /\ s5.fetch = "none" /\ s5.vcache = r.vcache
        /\ s5.rfetch = "none" /\ s5.vfetch = "none"
    BY <2>2, <2>6, SMT DEF UrlStates
  <2> HIDE DEF s5
  <2>8. /\ s6 \in UrlStates /\ s6.fetch = "none" /\ s6.vcache = r.vcache
        /\ s6.rfetch = "none" /\ s6.vfetch = "none" /\ s6.ocache = o
    BY <2>2, <2>7, SMT DEF UrlStates
  <2> HIDE DEF s6
  <2>9. /\ s7 \in UrlStates /\ s7.fetch = "none" /\ s7.vcache = r.vcache
        /\ s7.rfetch = "none" /\ s7.vfetch = "none" /\ s7.ocache = o
        /\ s7.cache = NoCac
    BY <2>8, SMT DEF UrlStates
  <2> HIDE DEF s7
  <2>10. /\ s8 \in UrlStates /\ s8.fetch = "none" /\ s8.vcache = r.vcache
         /\ s8.rfetch = "none" /\ s8.vfetch = "none" /\ s8.ocache = o
         /\ s8.cache = NoCac
    BY <2>9, SMT DEF UrlStates
  <2> HIDE DEF s8
  <2>11. /\ s9 \in UrlStates /\ s9.fetch = "none" /\ s9.vcache = r.vcache
         /\ s9.rfetch = "none" /\ s9.vfetch = "none" /\ s9.ocache = o
         /\ s9.cache = NoCac /\ s9.tempmoved = f
    BY <2>2, <2>10, SMT DEF UrlStates
  <2> HIDE DEF s9
  <2> QED
    BY <1>6, <2>1, <2>11, Zenon DEF f, o
<1> HIDE DEF s
<1>8. UrlOK(s) /\ Held(s) = Held(r)
  <2>1. UrlOK(s)
    BY <1>7, Zenon DEF UrlOK, Apart
  <2>2. Held(s) = Held(r)
    BY <1>6, <1>7, SMT DEF Held
  <2> QED
    BY <2>1, <2>2
<1>9. Sound(n)
  BY <1>5, <1>7, <1>8, PutSound, Zenon DEF r
<1>10. n.cac = b.cac /\ n.url[u] = s
  BY <1>5, <1>7, PutParts
<1> HIDE DEF n
<1> QED
  BY <1>4, <1>5, <1>7, <1>9, <1>10, Zenon

\* A temporary redirection is dropped with the page that it led to.
LEMMA UntempmovedSound ==
  ASSUME NEW m, Sound(m), NEW u \in Urls
  PROVE  /\ Sound(Untempmoved(m, u))
         /\ DOMAIN Untempmoved(m, u).cac \subseteq DOMAIN m.cac
<1> DEFINE w == m.url[u].movedto
           b == Clearobject(m, w, "cache")
           r == b.url[u]
           f == FALSE
           s == With(With(r, "movedto", NoUrl), "tempmoved", f)
           n == Put(b, u, s)
<1>1. CASE ~m.url[u].tempmoved
  BY <1>1, Zenon DEF Untempmoved
<1>2. CASE m.url[u].tempmoved
  <2>1. w \in Urls
    <3>1. UrlOK(m.url[u]) /\ m.url[u] \in UrlStates
      BY WorldParts, Zenon DEF Sound
    <3>2. w \in Urls \cup {NoUrl}
      BY <3>1, SMT DEF UrlStates
    <3> QED
      BY <1>2, <3>1, <3>2, Zenon DEF UrlOK
  <2>2. Untempmoved(m, u)
          = Set(Set(b, u, "movedto", NoUrl), u, "tempmoved", f)
    BY <1>2, Zenon DEF Untempmoved, Set
  <2> HIDE DEF w
  <2>3. ClearedTo(m, b, w, "cache")
    BY <2>1, ClearSound DEF Own
  <2> HIDE DEF b
  <2>4. /\ Sound(b) /\ b \in Worlds /\ r \in UrlStates /\ UrlOK(r)
        /\ DOMAIN b.cac \subseteq DOMAIN m.cac
    BY <2>3, WorldParts, Zenon DEF ClearedTo, Sound
  <2>5. f \in BOOLEAN /\ f = FALSE
    OBVIOUS
  <2> HIDE DEF r, f
  <2>6. /\ With(r, "movedto", NoUrl) \in UrlStates
        /\ s \in UrlStates /\ s.tempmoved = f
        /\ s.fetch = r.fetch /\ s.rfetch = r.rfetch /\ s.vfetch = r.vfetch
        /\ s.cache = r.cache /\ s.ocache = r.ocache /\ s.vcache = r.vcache
    <3> DEFINE a == With(r, "movedto", NoUrl)
    <3>1. a \in UrlStates
      BY <2>4, SMT DEF With, UrlStates
    <3>2. Same(r, a, Fields \ {"movedto"})
      BY <2>4, WithField, Zenon DEF Fields
    <3>3. s = With(a, "tempmoved", f)
      BY DEF a
    <3> HIDE DEF a, s
    <3>4. s \in UrlStates
      BY <2>5, <3>1, <3>3, SMT DEF With, UrlStates
    <3>5. s["tempmoved"] = f /\ Same(a, s, Fields \ {"tempmoved"})
      BY <3>1, <3>3, WithField, Zenon DEF Fields
    <3> QED
      BY <3>1, <3>2, <3>4, <3>5, Zenon DEF a, Same, Fields
  <2>7. Untempmoved(m, u) = n
    <3> DEFINE a == With(r, "movedto", NoUrl)
    <3>1. Set(b, u, "movedto", NoUrl) = Put(b, u, a)
      BY <2>4, SetFirst DEF r
    <3>2. a \in UrlStates /\ n = Put(b, u, With(a, "tempmoved", f))
      BY <2>6
    <3> HIDE DEF a, n, s
    <3>3. Set(Put(b, u, a), u, "tempmoved", f) = Put(b, u, With(a, "tempmoved", f))
      BY <2>4, <3>2, SetNext
    <3> QED
      BY <2>2, <3>1, <3>2, <3>3, Zenon
  <2> HIDE DEF s
  <2>8. UrlOK(s) /\ Held(s) = Held(r)
    BY <2>4, <2>5, <2>6, Zenon DEF UrlOK, Apart, Held
  <2>9. Sound(n)
    BY <2>4, <2>6, <2>8, PutSound, Zenon DEF r
  <2>10. n.cac = b.cac
    BY <2>4, <2>6, PutParts
  <2> HIDE DEF n
  <2> QED
    BY <2>4, <2>7, <2>9, <2>10, Zenon
<1> QED
  BY <1>1, <1>2

\* The object is the last of the list, and read if it has a file.
LEMMA RfetchSound ==
  ASSUME NEW m, Sound(m), NEW u \in Urls, NEW ok \in BOOLEAN,
         m.url[u].cache # NoCac, m.url[u].fetch = "none"
  PROVE  /\ Sound(StartRfetch(m, u, ok)) /\ StartRfetch(m, u, ok).cac = m.cac
         /\ Same(m.url[u], StartRfetch(m, u, ok).url[u], Fields \ {"rfetch"})
<1> DEFINE c == m.url[u].cache
           L == Append(Without(m.lru, {c}), c)
           n == [m EXCEPT !.lru = L]
           r == n.url[u]
           s == With(r, "rfetch", "ask")
           q == Put(n, u, s)
<1>1. /\ m \in Worlds /\ m.url \in [Urls -> UrlStates] /\ m.url[u] \in UrlStates
      /\ DOMAIN m.cac \subseteq Cacs /\ m.cac \in [DOMAIN m.cac -> CacStates]
      /\ m.lru \in Seq(Cacs)
      /\ m = [url |-> m.url, cac |-> m.cac, lru |-> m.lru]
  BY WorldParts, Zenon DEF Sound
<1>2. /\ \A v \in Urls : UrlOK(m.url[v]) /\ Owns(m, v)
      /\ ToSet(m.lru) = DOMAIN m.cac /\ IsInjective(m.lru) /\ Owned(m)
  BY Zenon DEF Sound
<1>3. c \in DOMAIN m.cac
  BY <1>2, Zenon DEF Owns, Held
<1> HIDE DEF c
<1>4. L \in Seq(Cacs) /\ ToSet(L) = DOMAIN m.cac /\ IsInjective(L)
  <2> DEFINE w == Without(m.lru, {c})
  <2>1. /\ w \in Seq(Cacs) /\ ToSet(w) = ToSet(m.lru) \ {c}
        /\ IsInjective(m.lru) => IsInjective(w)
    BY <1>1, WithoutSet
  <2>2. c \in Cacs /\ c \notin ToSet(w)
    BY <1>1, <1>3, <2>1, Zenon
  <2> HIDE DEF w
  <2>3. /\ Append(w, c) \in Seq(Cacs) /\ ToSet(Append(w, c)) = ToSet(w) \cup {c}
        /\ IsInjective(w) /\ c \notin ToSet(w) => IsInjective(Append(w, c))
    BY <2>1, <2>2, AppendSet
  <2> QED
    BY <1>2, <1>3, <2>1, <2>2, <2>3, Zenon DEF w
<1>5. StartRfetch(m, u, ok) \in {n, Set(n, u, "rfetch", "ask")}
  BY Zenon DEF StartRfetch, Set, c
<1> HIDE DEF L
<1>6. n \in Worlds /\ n.url = m.url /\ n.cac = m.cac /\ n.lru = L
  <2> DEFINE U == m.url
             C == m.cac
  <2>1. n = [url |-> U, cac |-> C, lru |-> L]
    BY <1>1, SMT
  <2>2. U \in [Urls -> UrlStates] /\ C \in [DOMAIN C -> CacStates]
        /\ DOMAIN C \subseteq Cacs
    BY <1>1
  <2> HIDE DEF U, C, n
  <2>3. n \in Worlds /\ n.url = U /\ n.cac = C /\ n.lru = L
    BY <1>4, <2>1, <2>2, WorldMade, Zenon
  <2> QED
    BY <2>3 DEF U, C
<1> HIDE DEF n
<1>7. Sound(n)
  BY <1>2, <1>4, <1>6, Zenon DEF Sound, Owns, Owned
<1>8. r = m.url[u] /\ r \in UrlStates /\ UrlOK(r)
  BY <1>1, <1>2, <1>6
<1> HIDE DEF r
<1>9. s \in UrlStates /\ Same(r, s, Fields \ {"rfetch"})
  <2>1. s \in UrlStates
    BY <1>8, SMT DEF With, UrlStates
  <2>2. Same(r, s, Fields \ {"rfetch"})
    BY <1>8, WithField, Zenon DEF Fields
  <2> QED
    BY <2>1, <2>2
<1>10. Set(n, u, "rfetch", "ask") = q
  BY <1>6, SetFirst DEF r
<1> HIDE DEF s
<1>11. UrlOK(s) /\ Held(s) = Held(r)
  BY <1>8, <1>9, Zenon DEF UrlOK, Apart, Held, Same, Fields
<1>12. Sound(q)
  BY <1>7, <1>9, <1>11, PutSound, Zenon DEF r
<1>13. q.cac = n.cac /\ q.url[u] = s
  BY <1>6, <1>9, PutParts
<1> HIDE DEF q
<1>14. Same(r, r, Fields \ {"rfetch"})
  BY Zenon DEF Same
<1>15. CASE StartRfetch(m, u, ok) = n
  BY <1>6, <1>7, <1>8, <1>14, <1>15, Zenon
<1>16. CASE StartRfetch(m, u, ok) = q
  BY <1>6, <1>8, <1>9, <1>12, <1>13, <1>16, Zenon
<1> QED
  BY <1>5, <1>10, <1>15, <1>16

\* A transfer in the stage "ask", with its flags.
LEMMA AskSound ==
  ASSUME NEW m, Sound(m), NEW u \in Urls, NEW k \in SUBSET PageFlags,
         NEW t \in {"fetch", "vfetch"},
         t = "fetch" => m.url[u].rfetch = "none" /\ m.url[u].vfetch = "none",
         t = "vfetch" => m.url[u].fetch = "none"
  PROVE  LET n == Set(Set(m, u, t, "ask"), u, "flags", k)
         IN  /\ Sound(n) /\ n.cac = m.cac /\ n.url[u][t] = "ask"
             /\ Same(m.url[u], n.url[u], Fields \ {t})
<1> DEFINE r == m.url[u]
           a == With(r, t, "ask")
           s == With(a, "flags", k)
           q == Put(m, u, s)
<1>1. m \in Worlds /\ r \in UrlStates /\ UrlOK(r)
  BY WorldParts, Zenon DEF Sound
<1>2. Set(m, u, t, "ask") = Put(m, u, a)
  BY <1>1, SetFirst
<1> HIDE DEF r
<1>3. a \in UrlStates
  <2>1. CASE t = "fetch"
    BY <1>1, <2>1, SMT DEF With, UrlStates, Stages
  <2>2. CASE t = "vfetch"
    BY <1>1, <2>2, SMT DEF With, UrlStates
  <2> QED
    BY <2>1, <2>2
<1>4. a[t] = "ask" /\ Same(r, a, Fields \ {t})
  <2>1. t \in Fields
    BY Zenon DEF Fields
  <2> QED
    BY <1>1, <2>1, WithField
<1> HIDE DEF a
<1>5. Set(Put(m, u, a), u, "flags", k) = Put(m, u, With(a, "flags", k))
  BY <1>1, <1>3, SetNext
<1>6. s \in UrlStates
  BY <1>3, SMT DEF With, UrlStates
<1>7. Same(a, s, Fields)
  <2>1. \A g \in Fields : g \in DOMAIN a /\ g # "flags"
    BY <1>3, SMT DEF UrlStates, Fields
  <2> QED
    BY <2>1, Zenon DEF With, Same
<1> HIDE DEF s
<1>8. s[t] = "ask" /\ Same(r, s, Fields \ {t})
  BY <1>4, <1>7, Zenon DEF Same, Fields
<1>9. UrlOK(s) /\ Held(s) = Held(r)
  <2>1. Held(s) = Held(r) /\ Apart(s)
    BY <1>1, <1>8, Zenon DEF UrlOK, Apart, Held, Same, Fields
  <2>2. s.tempmoved => s.movedto # NoUrl
    BY <1>1, <1>8, Zenon DEF UrlOK, Same, Fields
  <2>3. CASE t = "fetch"
    BY <1>1, <1>8, <2>1, <2>2, <2>3, Zenon DEF UrlOK, Same, Fields, r
  <2>4. CASE t = "vfetch"
    BY <1>1, <1>8, <2>1, <2>2, <2>4, Zenon DEF UrlOK, Same, Fields, r
  <2> QED
    BY <2>3, <2>4
<1>10. Sound(q)
  BY <1>6, <1>9, PutSound, Zenon DEF r
<1>11. q.cac = m.cac /\ q.url[u] = s
  BY <1>1, <1>6, PutParts
<1> HIDE DEF q
<1>12. LET n == q IN /\ Sound(n) /\ n.cac = m.cac /\ n.url[u][t] = "ask"
                     /\ Same(m.url[u], n.url[u], Fields \ {t})
  BY <1>8, <1>10, <1>11, Zenon DEF r
<1>13. Set(Set(m, u, t, "ask"), u, "flags", k) = q
  BY <1>2, <1>5, Zenon DEF s, q
<1> QED
  BY <1>12, <1>13, Zenon

\* A plain fetch starts with no transfer beside it, and with an object in the
\* place of none, or of an old one that is past.
LEMMA FetchSound ==
  ASSUME NEW m, Sound(m), NEW u \in Urls, NEW k \in SUBSET PageFlags,
         NEW ok \in BOOLEAN,
         m.url[u].rfetch = "none", m.url[u].vfetch = "none",
         \/ m.url[u].cache = NoCac
         \/ m.cac[m.url[u].cache].expires = "past"
  PROVE  Sound(StartFetch(m, u, k, ok))
<1> DEFINE x == IF m.url[u].source = "none" THEN m.url[u].source ELSE "full"
           n == Set(Set(m, u, "fetch", "ask"), u, "flags", k)
<1>1. StartFetch(m, u, k, ok) \in
        {[m EXCEPT !.url[u].source = x], m, n, Newcache(n, u, "cache")}
  BY Zenon DEF StartFetch, Set
<1>2. Sound([m EXCEPT !.url[u].source = x])
  <2>1. m.url[u].source \in Sources /\ "full" \in Sources
    BY WorldParts, SMT DEF Sound, UrlStates, Sources
  <2>2. x \in Sources
    BY <2>1, Zenon
  <2> HIDE DEF x
  <2>3. LET y == [m EXCEPT !.url[u].source = x]
        IN  Sound(y) /\ Alike(m.url[u], y.url[u]) /\ Beside(m, y, u)
    BY <2>2, SourceSound
  <2> QED
    BY <2>3, Zenon
<1> HIDE DEF x
<1>3. /\ Sound(n) /\ n.cac = m.cac
      /\ Same(m.url[u], n.url[u], Fields \ {"fetch"})
  <2> DEFINE t == "fetch"
  <2>1. t \in {"fetch", "vfetch"} /\ t # "vfetch" /\ t = "fetch"
    OBVIOUS
  <2> HIDE DEF t
  <2>2. LET y == Set(Set(m, u, t, "ask"), u, "flags", k)
        IN  /\ Sound(y) /\ y.cac = m.cac /\ y.url[u][t] = "ask"
            /\ Same(m.url[u], y.url[u], Fields \ {t})
    BY <2>1, AskSound
  <2> QED
    BY <2>2, Zenon DEF t
<1> HIDE DEF n
<1>4. n.url[u]["cache"] = m.url[u].cache
  BY <1>3, Zenon DEF Same, Fields
<1>5. Sound(Newcache(n, u, "cache"))
  <2>1. "cache" \in {"cache", "vcache"} /\ "cache" # "vcache"
    OBVIOUS
  <2>2. n.url[u]["cache"] = NoCac \/ n.cac[n.url[u]["cache"]].expires = "past"
    BY <1>3, <1>4
  <2> QED
    BY <1>3, <2>1, <2>2, NewSound
<1> QED
  BY <1>1, <1>2, <1>3, <1>5

\* A verification starts beside no plain fetch, and brings its own object.
LEMMA VfetchSound ==
  ASSUME NEW m, Sound(m), NEW u \in Urls, NEW k \in SUBSET PageFlags,
         NEW ok \in BOOLEAN,
         m.url[u].fetch = "none", m.url[u].vfetch = "none"
  PROVE  Sound(StartVfetch(m, u, k, ok))
<1> DEFINE n == Set(Set(m, u, "vfetch", "ask"), u, "flags", k)
<1>1. StartVfetch(m, u, k, ok) \in {m, Newcache(n, u, "vcache")}
  BY Zenon DEF StartVfetch, Set
<1>2. /\ Sound(n) /\ n.cac = m.cac /\ n.url[u]["vfetch"] = "ask"
      /\ Same(m.url[u], n.url[u], Fields \ {"vfetch"})
  <2> DEFINE t == "vfetch"
  <2>1. t \in {"fetch", "vfetch"} /\ t = "vfetch" /\ t # "fetch"
    OBVIOUS
  <2> HIDE DEF t
  <2>2. LET y == Set(Set(m, u, t, "ask"), u, "flags", k)
        IN  /\ Sound(y) /\ y.cac = m.cac /\ y.url[u][t] = "ask"
            /\ Same(m.url[u], y.url[u], Fields \ {t})
    BY <2>1, AskSound
  <2> QED
    BY <2>2, Zenon DEF t
<1> HIDE DEF n
<1>3. m.url[u].vcache = NoCac
  BY Zenon DEF Sound, UrlOK
<1>4. n.url[u]["vcache"] = NoCac /\ n.url[u].vfetch = "ask"
  BY <1>2, <1>3, Zenon DEF Same, Fields
<1>5. Sound(Newcache(n, u, "vcache"))
  <2>1. "vcache" \in {"cache", "vcache"} /\ n.url[u].vfetch # "none"
    BY <1>4
  <2> QED
    BY <1>2, <1>4, <2>1, NewSound
<1> QED
  BY <1>1, <1>5

Others == {"flags", "source", "ssource", "dsource", "visited", "dexfetch"}

LEMMA OtherSound ==
  ASSUME NEW m, Sound(m), NEW u \in Urls, NEW f \in Others, NEW x,
         With(m.url[u], f, x) \in UrlStates
  PROVE  LET n == Set(m, u, f, x)
         IN  Sound(n) /\ Alike(m.url[u], n.url[u]) /\ Beside(m, n, u)
<1> DEFINE r == m.url[u]
           s == With(r, f, x)
           n == Set(m, u, f, x)
<1>1. m \in Worlds /\ r \in UrlStates
  BY WorldParts, Zenon DEF Sound
<1>2. n = Put(m, u, s)
  BY <1>1, SetFirst
<1> HIDE DEF n
<1>3. Alike(r, s)
  <2>1. \A g \in Fields : g \in DOMAIN r /\ g # f
    BY <1>1, SMT DEF UrlStates, Fields, Others
  <2>2. \A g \in Fields : s[g] = r[g]
    BY <2>1, Zenon DEF With
  <2> HIDE DEF s, r
  <2> QED
    BY <2>2, Zenon DEF Alike, Fields
<1> HIDE DEF s
<1>4. Sound(n) /\ n.url[u] = s /\ Beside(m, n, u)
  BY <1>2, <1>3, AlikeSound, Zenon DEF s
<1>5. Sound(n) /\ Alike(r, n.url[u]) /\ Beside(m, n, u)
  BY <1>3, <1>4, Zenon
<1> QED
  BY <1>5 DEF n

LEMMA OtherFields ==
  ASSUME NEW r \in UrlStates
  PROVE  /\ \A b \in BOOLEAN : /\ With(r, "ssource", b) \in UrlStates
                               /\ With(r, "dsource", b) \in UrlStates
                               /\ With(r, "dexfetch", b) \in UrlStates
         /\ \A c \in Sources : With(r, "source", c) \in UrlStates
<1>1. ASSUME NEW b \in BOOLEAN PROVE With(r, "ssource", b) \in UrlStates
  BY SMT DEF With, UrlStates
<1>2. ASSUME NEW b \in BOOLEAN PROVE With(r, "dsource", b) \in UrlStates
  BY SMT DEF With, UrlStates
<1>3. ASSUME NEW b \in BOOLEAN PROVE With(r, "dexfetch", b) \in UrlStates
  BY SMT DEF With, UrlStates
<1>4. ASSUME NEW c \in Sources PROVE With(r, "source", c) \in UrlStates
  BY SMT DEF With, UrlStates
<1> QED
  BY <1>1, <1>2, <1>3, <1>4

\* What a load does to the sources.
LEMMA SourcesSound ==
  ASSUME NEW m, Sound(m), NEW u \in Urls, NEW a \in BOOLEAN, NEW b \in BOOLEAN,
         NEW c \in Sources
  PROVE  LET n == Set(Set(Set(m, u, "ssource", a), u, "dsource", b),
                      u, "source", c)
         IN  Sound(n) /\ Alike(m.url[u], n.url[u]) /\ Beside(m, n, u)
<1> DEFINE x == Set(m, u, "ssource", a)
           y == Set(x, u, "dsource", b)
           n == Set(y, u, "source", c)
<1>1. Sound(x) /\ Alike(m.url[u], x.url[u]) /\ Beside(m, x, u)
  <2>0. m.url[u] \in UrlStates
    BY WorldParts, Zenon DEF Sound
  <2>1. With(m.url[u], "ssource", a) \in UrlStates
    BY <2>0, OtherFields
  <2> QED
    BY <2>1, OtherSound DEF Others
<1> HIDE DEF x
<1>2. Sound(y) /\ Alike(x.url[u], y.url[u]) /\ Beside(x, y, u)
  <2>0. x.url[u] \in UrlStates
    BY <1>1, WorldParts, Zenon DEF Sound
  <2>1. With(x.url[u], "dsource", b) \in UrlStates
    BY <2>0, OtherFields
  <2> QED
    BY <1>1, <2>1, OtherSound DEF Others
<1> HIDE DEF y
<1>3. Sound(n) /\ Alike(y.url[u], n.url[u]) /\ Beside(y, n, u)
  <2>0. y.url[u] \in UrlStates
    BY <1>2, WorldParts, Zenon DEF Sound
  <2>1. With(y.url[u], "source", c) \in UrlStates
    BY <2>0, OtherFields
  <2> QED
    BY <1>2, <2>1, OtherSound DEF Others
<1> HIDE DEF n
<1>4. Sound(n) /\ Alike(m.url[u], n.url[u]) /\ Beside(m, n, u)
  BY <1>1, <1>2, <1>3, Zenon DEF Alike, Beside
<1> QED
  BY <1>4 DEF n, y, x

\* With what loads are done.
LoadFlags == (SUBSET PageFlags) \cup {{"ifinmem"}}

\* No combination of the actions of the table starts a plain fetch beside
\* another transfer, or reads an object that is not there.
LEMMA PerformSound ==
  ASSUME NEW m, Sound(m), NEW u \in Urls, NEW k,
         NEW ok \in BOOLEAN, NEW acts,
         "fetch" \in acts \/ "vfetch" \in acts => k \in SUBSET PageFlags,
         m.url[u].fetch = "none", m.url[u].rfetch = "none",
         m.url[u].vfetch = "none",
         "fetch" \in acts => /\ "rfetch" \notin acts /\ "vfetch" \notin acts
                             /\ \/ m.url[u].cache = NoCac
                                \/ m.cac[m.url[u].cache].expires = "past",
         "rfetch" \in acts => m.url[u].cache # NoCac
  PROVE  Sound(Perform(m, u, k, acts, ok))
<1> DEFINE r == m.url[u]
           a == (r.ssource /\ Loading(m, u)) \/ "save" \in acts
           b == r.dsource \/ "docext" \in acts
           c == IF "new" \in acts THEN "empty" ELSE r.source
           sources == Set(Set(Set(m, u, "ssource", a), u, "dsource", b),
                          u, "source", c)
           read == IF "rfetch" \in acts THEN StartRfetch(sources, u, ok)
                   ELSE sources
           asked == IF "fetch" \in acts THEN StartFetch(read, u, k, ok)
                    ELSE read
           checked == IF "vfetch" \in acts THEN StartVfetch(asked, u, k, ok)
                      ELSE asked
           d == "docext" \in acts
<1>1. Perform(m, u, k, acts, ok) \in {checked, Set(checked, u, "dexfetch", d)}
  BY Zenon DEF Perform, Set
<1>2. r \in UrlStates /\ r.source \in Sources /\ "empty" \in Sources
  BY WorldParts, SMT DEF Sound, UrlStates, Sources
<1>3. a \in BOOLEAN /\ b \in BOOLEAN /\ c \in Sources /\ d \in BOOLEAN
  <2>1. a \in BOOLEAN
    BY Zenon
  <2>2. b \in BOOLEAN
    BY Zenon
  <2>3. c \in Sources
    BY <1>2, Zenon
  <2>4. d \in BOOLEAN
    BY SMT
  <2> QED
    BY <2>1, <2>2, <2>3, <2>4
<1> HIDE DEF a, b, c
<1>4. Sound(sources) /\ Alike(r, sources.url[u]) /\ Beside(m, sources, u)
  BY <1>3, SourcesSound
<1> HIDE DEF sources, r
<1>5. sources.cac = m.cac
  BY <1>4, Zenon DEF Beside
<1>6. /\ Sound(read) /\ read.cac = m.cac
      /\ read.url[u].fetch = "none" /\ read.url[u].vfetch = "none"
      /\ read.url[u].cache = r.cache
      /\ "rfetch" \notin acts => read.url[u].rfetch = "none"
  <2>1. CASE "rfetch" \in acts
    <3>1. sources.url[u].cache # NoCac /\ sources.url[u].fetch = "none"
      BY <1>4, <2>1, Zenon DEF Alike, r
    <3>2. /\ Sound(StartRfetch(sources, u, ok))
          /\ StartRfetch(sources, u, ok).cac = sources.cac
          /\ Same(sources.url[u], StartRfetch(sources, u, ok).url[u],
                  Fields \ {"rfetch"})
      BY <1>4, <3>1, RfetchSound
    <3>3. read = StartRfetch(sources, u, ok)
      BY <2>1
    <3> HIDE DEF read
    <3> QED
      BY <1>4, <1>5, <2>1, <3>2, <3>3, Zenon DEF Same, Fields, Alike, r
  <2>2. CASE "rfetch" \notin acts
    <3>1. read = sources
      BY <2>2
    <3> HIDE DEF read
    <3> QED
      BY <1>4, <1>5, <2>2, <3>1, Zenon DEF Alike, r
  <2> QED
    BY <2>1, <2>2
<1> HIDE DEF read
<1>7. Sound(checked)
  <2>1. CASE "fetch" \in acts
    <3>1. read.url[u].cache = NoCac \/ read.cac[read.url[u].cache].expires = "past"
      BY <1>6, <2>1, Zenon DEF r
    <3>2. Sound(StartFetch(read, u, k, ok))
      BY <1>6, <2>1, <3>1, FetchSound
    <3> QED
      BY <2>1, <3>2, Zenon
  <2>2. CASE "fetch" \notin acts
    <3>1. "vfetch" \in acts => Sound(StartVfetch(read, u, k, ok))
      BY <1>6, VfetchSound
    <3> QED
      BY <1>6, <2>2, <3>1, Zenon
  <2> QED
    BY <2>1, <2>2
<1> HIDE DEF asked, checked, d
<1>8. Sound(Set(checked, u, "dexfetch", d))
  <2>0. checked.url[u] \in UrlStates
    BY <1>7, WorldParts, Zenon DEF Sound
  <2>1. With(checked.url[u], "dexfetch", d) \in UrlStates
    BY <1>3, <2>0, OtherFields
  <2>2. LET n == Set(checked, u, "dexfetch", d)
        IN  /\ Sound(n) /\ Alike(checked.url[u], n.url[u])
            /\ Beside(checked, n, u)
    BY <1>7, <2>1, OtherSound DEF Others
  <2> QED
    BY <2>2, Zenon
<1> QED
  BY <1>1, <1>7, <1>8

\* The table fetches a page or reads it, as it has a copy or not, and verifies
\* none that it fetches.
LEMMA DecideFacts ==
  ASSUME NEW m, NEW u, NEW k \in LoadFlags, NEW csrc \in BOOLEAN,
         NEW ccac \in BOOLEAN, NEW acts, acts = Decide(m, u, k, csrc, ccac)
  PROVE  /\ "fetch" \in acts => /\ "rfetch" \notin acts /\ "vfetch" \notin acts
                                /\ ~ccac
         /\ "rfetch" \in acts => ccac
         /\ "fetch" \in acts \/ "vfetch" \in acts => k \in SUBSET PageFlags
<1>0. k = {"ifinmem"} => acts = {}
  BY Zenon DEF Decide
<1> DEFINE from == IF ccac THEN {"rfetch"} ELSE {"fetch"}
           shown == IF csrc THEN {} ELSE {"new"} \cup from
<1>1. acts \in {{"save"} \cup from, {"docext"} \cup from, shown, {},
                (IF csrc THEN {} ELSE {"new"}) \cup {"vfetch"}}
      \/ (~csrc /\ ~ccac /\ acts = {"new", "fetch"})
      \/ ((csrc \/ ccac) /\ acts = shown \cup {"vfetch"})
  BY Zenon DEF Decide
<1>2. /\ "fetch" \in acts => /\ "rfetch" \notin acts /\ "vfetch" \notin acts
                             /\ ~ccac
      /\ "rfetch" \in acts => ccac
  <2>1. CASE ccac
    BY <1>1, <2>1, Zenon
  <2>2. CASE ~ccac
    BY <1>1, <2>2, Zenon
  <2> QED
    BY <2>1, <2>2
<1>3. k = {"ifinmem"} \/ k \in SUBSET PageFlags
  BY SMT DEF LoadFlags
<1>4. k = {"ifinmem"} => "fetch" \notin acts /\ "vfetch" \notin acts
  BY <1>0
<1> QED
  BY <1>2, <1>3, <1>4, Zenon

\* A url is idle: it has no transfer.
LEMMA IdleSound ==
  ASSUME NEW m, Sound(m), NEW u \in Urls, NEW k \in LoadFlags,
         NEW ok \in BOOLEAN, ~Loading(m, u)
  PROVE  Sound(Idle(m, u, k, ok))
<1> DEFINE old == Expired(m, u) /\ "history" \notin k
           n == IF old THEN Clearobject(m, u, "cache") ELSE m
           csrc == HasDriver(n, u) /\ ~old
           ccac == IsCached(n, u)
           acts == Decide(n, u, k, csrc, ccac)
<1>1. Idle(m, u, k, ok) = Perform(n, u, k, acts, ok)
  BY Zenon DEF Idle
<1>2. csrc \in BOOLEAN /\ ccac \in BOOLEAN
  BY Zenon DEF IsCached
<1>3. m.url[u].fetch = "none" /\ m.url[u].rfetch = "none"
      /\ m.url[u].vfetch = "none"
  BY Zenon DEF Loading
<1>4. /\ Sound(n) /\ DOMAIN n.cac \subseteq DOMAIN m.cac
      /\ n.url[u].fetch = "none" /\ n.url[u].rfetch = "none"
      /\ n.url[u].vfetch = "none"
  <2>1. CASE old
    <3>1. n = Clearobject(m, u, "cache")
      BY <2>1
    <3>2. ClearedTo(m, Clearobject(m, u, "cache"), u, "cache")
      BY ClearSound DEF Own
    <3> HIDE DEF n
    <3>3. m.url[u] \in UrlStates
      BY WorldParts, Zenon DEF Sound
    <3>4. /\ Sound(n) /\ DOMAIN n.cac \subseteq DOMAIN m.cac
          /\ n.url[u] = With(m.url[u], "cache", NoCac)
      BY <3>1, <3>2, Zenon DEF ClearedTo, With
    <3>5. Same(m.url[u], With(m.url[u], "cache", NoCac), Fields \ {"cache"})
      BY <3>3, WithField DEF Fields
    <3> QED
      BY <1>3, <3>4, <3>5, Zenon DEF Same, Fields
  <2>2. CASE ~old
    BY <1>3, <2>2, Zenon
  <2> QED
    BY <2>1, <2>2
<1> HIDE DEF n, csrc, acts
<1>5. /\ "fetch" \in acts => /\ "rfetch" \notin acts /\ "vfetch" \notin acts
                             /\ ~ccac
      /\ "rfetch" \in acts => ccac
      /\ "fetch" \in acts \/ "vfetch" \in acts => k \in SUBSET PageFlags
  BY <1>2, DecideFacts DEF acts
<1>6. "fetch" \in acts => \/ n.url[u].cache = NoCac
                          \/ n.cac[n.url[u].cache].expires = "past"
  BY <1>5, Zenon DEF IsCached, Expired
<1>7. "rfetch" \in acts => n.url[u].cache # NoCac
  BY <1>5, Zenon DEF IsCached
<1> HIDE DEF ccac
<1>8. Sound(Perform(n, u, k, acts, ok))
  BY <1>4, <1>5, <1>6, <1>7, PerformSound
<1> QED
  BY <1>1, <1>8

LEMMA LoadSound ==
  ASSUME NEW m, Sound(m), NEW u \in Urls, NEW k \in LoadFlags,
         NEW ok \in BOOLEAN
  PROVE  Sound(Loadurl(m, u, k, ok))
<1>1. CASE "reload" \in k
  <2> DEFINE n == Reset(m, u)
             acts == {"fetch"} \cup
                     (IF "download" \in k THEN {"save"}
                      ELSE IF "docext" \in k THEN {"docext"} ELSE {"new"})
  <2>1. Loadurl(m, u, k, ok) = Perform(n, u, k, acts, ok)
    BY <1>1, Zenon DEF Loadurl
  <2>2. "rfetch" \notin acts /\ "vfetch" \notin acts
    BY Zenon
  <2> HIDE DEF n, acts
  <2>3. /\ Sound(n) /\ DOMAIN n.cac \subseteq DOMAIN m.cac
        /\ n.url[u].fetch = "none" /\ n.url[u].rfetch = "none"
        /\ n.url[u].vfetch = "none" /\ n.url[u].cache = NoCac
    BY ResetSound DEF n
  <2>4. k \in SUBSET PageFlags
    <3>1. k # {"ifinmem"}
      BY <1>1
    <3> QED
      BY <3>1, SMT DEF LoadFlags
  <2>5. Sound(Perform(n, u, k, acts, ok))
    BY <2>2, <2>3, <2>4, PerformSound
  <2> QED
    BY <2>1, <2>5
<1>2. CASE "reload" \notin k
  <2> DEFINE n == Untempmoved(m, u)
             v == Finalurl(n, u)
  <2>1. Loadurl(m, u, k, ok) = IF Loading(n, v) THEN n ELSE Idle(n, v, k, ok)
    BY <1>2, Zenon DEF Loadurl
  <2>2. Sound(n) /\ DOMAIN n.cac \subseteq DOMAIN m.cac
    BY UntempmovedSound, Zenon
  <2> HIDE DEF n
  <2>3. v \in Urls
    BY <2>2, FinalurlIn, Zenon DEF Sound
  <2> HIDE DEF v
  <2>4. ~Loading(n, v) => Sound(Idle(n, v, k, ok))
    BY <2>2, <2>3, IdleSound
  <2> QED
    BY <2>1, <2>2, <2>4, Zenon
<1> QED
  BY <1>1, <1>2

-----------------------------------------------------------------------------
(* Updates.                                                                *)

LEMMA ClearedField ==
  ASSUME NEW m, Sound(m), NEW u \in Urls, NEW f \in Own
  PROVE  LET n == Clearobject(m, u, f)
         IN  /\ Sound(n) /\ n \in Worlds
             /\ n.url[u] \in UrlStates /\ UrlOK(n.url[u])
             /\ n.url[u][f] = NoCac /\ Same(m.url[u], n.url[u], Fields \ {f})
             /\ DOMAIN n.cac \subseteq DOMAIN m.cac
<1> DEFINE n == Clearobject(m, u, f)
<1>1. ClearedTo(m, n, u, f)
  BY ClearSound
<1> HIDE DEF n
<1>2. /\ Sound(n) /\ n.url[u] = With(m.url[u], f, NoCac)
      /\ DOMAIN n.cac \subseteq DOMAIN m.cac
  BY <1>1, Zenon DEF ClearedTo, With
<1>3. m.url[u] \in UrlStates /\ f \in Fields
  BY WorldParts, Zenon DEF Sound, Fields, Own
<1>4. /\ With(m.url[u], f, NoCac)[f] = NoCac
      /\ Same(m.url[u], With(m.url[u], f, NoCac), Fields \ {f})
  BY <1>3, WithField
<1>5. n \in Worlds /\ n.url[u] \in UrlStates /\ UrlOK(n.url[u])
  BY <1>2, WorldParts, Zenon DEF Sound
<1>6. /\ Sound(n) /\ n \in Worlds
      /\ n.url[u] \in UrlStates /\ UrlOK(n.url[u])
      /\ n.url[u][f] = NoCac /\ Same(m.url[u], n.url[u], Fields \ {f})
      /\ DOMAIN n.cac \subseteq DOMAIN m.cac
  BY <1>2, <1>4, <1>5, Zenon
<1> QED
  BY <1>6 DEF n

LEMMA WithTyped ==
  ASSUME NEW r \in UrlStates
  PROVE  /\ \A x \in Stages : With(r, "fetch", x) \in UrlStates
         /\ With(r, "rfetch", "none") \in UrlStates
         /\ With(r, "vfetch", "none") \in UrlStates
         /\ \A c \in Cacs \cup {NoCac} : /\ With(r, "cache", c) \in UrlStates
                                         /\ With(r, "ocache", c) \in UrlStates
                                         /\ With(r, "vcache", c) \in UrlStates
         /\ \A v \in Urls : With(r, "movedto", v) \in UrlStates
         /\ \A b \in BOOLEAN : /\ With(r, "tempmoved", b) \in UrlStates
                               /\ With(r, "verified", b) \in UrlStates
                               /\ With(r, "visited", b) \in UrlStates
         /\ \A k \in SUBSET PageFlags : With(r, "flags", k) \in UrlStates
<1>1. ASSUME NEW x \in Stages PROVE With(r, "fetch", x) \in UrlStates
  BY SMT DEF With, UrlStates
<1>2. With(r, "rfetch", "none") \in UrlStates
  BY SMT DEF With, UrlStates
<1>3. With(r, "vfetch", "none") \in UrlStates
  BY SMT DEF With, UrlStates
<1>4. ASSUME NEW c \in Cacs \cup {NoCac} PROVE With(r, "cache", c) \in UrlStates
  BY SMT DEF With, UrlStates
<1>5. ASSUME NEW c \in Cacs \cup {NoCac} PROVE With(r, "ocache", c) \in UrlStates
  BY SMT DEF With, UrlStates
<1>6. ASSUME NEW c \in Cacs \cup {NoCac} PROVE With(r, "vcache", c) \in UrlStates
  BY SMT DEF With, UrlStates
<1>7. ASSUME NEW v \in Urls PROVE With(r, "movedto", v) \in UrlStates
  BY SMT DEF With, UrlStates
<1>8. ASSUME NEW b \in BOOLEAN PROVE With(r, "tempmoved", b) \in UrlStates
  BY SMT DEF With, UrlStates
<1>9. ASSUME NEW b \in BOOLEAN PROVE With(r, "verified", b) \in UrlStates
  BY SMT DEF With, UrlStates
<1>10. ASSUME NEW b \in BOOLEAN PROVE With(r, "visited", b) \in UrlStates
  BY SMT DEF With, UrlStates
<1>11. ASSUME NEW k \in SUBSET PageFlags PROVE With(r, "flags", k) \in UrlStates
  BY SMT DEF With, UrlStates
<1> QED
  BY <1>1, <1>2, <1>3, <1>4, <1>5, <1>6, <1>7, <1>8, <1>9, <1>10, <1>11

\* Setting a field of a url object of which others were set.
LEMMA Chain ==
  ASSUME NEW m \in Worlds, NEW u \in Urls, NEW r \in UrlStates, NEW n,
         n = Put(m, u, r), NEW f, NEW x, With(r, f, x) \in UrlStates
  PROVE  /\ Set(n, u, f, x) = Put(m, u, With(r, f, x))
         /\ \A g \in Fields :
              With(r, f, x)[g] = IF g = f THEN x ELSE r[g]
<1>1. \A g \in Fields : g \in DOMAIN r
  BY SMT DEF UrlStates, Fields
<1>2. \A g \in Fields : With(r, f, x)[g] = IF g = f THEN x ELSE r[g]
  BY <1>1, Zenon DEF With
<1>3. Set(Put(m, u, r), u, f, x) = Put(m, u, With(r, f, x))
  BY SetNext
<1> QED
  BY <1>2, <1>3, Zenon

LEMMA PutItself ==
  ASSUME NEW m \in Worlds, NEW u \in Urls
  PROVE  m = Put(m, u, m.url[u])
  BY SMT DEF Put, Worlds

\* A chain of them that keeps the pointers, or swaps them.
LEMMA ChainSound ==
  ASSUME NEW m, Sound(m), NEW u \in Urls, NEW s \in UrlStates, NEW n,
         n = Put(m, u, s), UrlOK(s), Held(s) = Held(m.url[u])
  PROVE  Sound(n) /\ n.cac = m.cac /\ n.url[u] = s
<1>1. m \in Worlds
  BY Zenon DEF Sound
<1>2. Sound(Put(m, u, s))
  BY PutSound
<1>3. Put(m, u, s).cac = m.cac /\ Put(m, u, s).url[u] = s
  BY <1>1, PutParts
<1> QED
  BY <1>2, <1>3, Zenon

LEMMA RestoreSound ==
  ASSUME NEW m, Sound(m), NEW u \in Urls
  PROVE  Sound(Restore(m, u))
<1> DEFINE n == Clearobject(m, u, "cache")
           r == n.url[u]
           o == r.ocache
           s1 == With(r, "cache", o)
           n1 == Set(n, u, "cache", o)
           s2 == With(s1, "ocache", NoCac)
           n2 == Set(n1, u, "ocache", NoCac)
<1>1. Restore(m, u) = n2
  BY Zenon DEF Restore, Set
<1>2. /\ Sound(n) /\ n \in Worlds /\ r \in UrlStates /\ UrlOK(r)
      /\ r["cache"] = NoCac
  BY ClearedField DEF Own
<1> HIDE DEF n
<1>3. n = Put(n, u, r)
  BY <1>2, PutItself
<1>4. o \in Cacs \cup {NoCac} /\ NoCac \in Cacs \cup {NoCac}
  BY <1>2, SMT DEF UrlStates
<1> HIDE DEF r
<1>5. s1 \in UrlStates
  BY <1>2, <1>4, WithTyped
<1>6. /\ n1 = Put(n, u, s1)
      /\ \A g \in Fields : s1[g] = IF g = "cache" THEN o ELSE r[g]
  BY <1>2, <1>3, <1>5, Chain
<1> HIDE DEF s1, n1
<1>7. s2 \in UrlStates
  BY <1>4, <1>5, WithTyped
<1>8. /\ n2 = Put(n, u, s2)
      /\ \A g \in Fields : s2[g] = IF g = "ocache" THEN NoCac ELSE s1[g]
  BY <1>2, <1>5, <1>6, <1>7, Chain
<1> HIDE DEF s2, n2
<1>9. /\ s2.cache = r.ocache /\ s2.ocache = NoCac /\ s2.vcache = r.vcache
      /\ s2.fetch = r.fetch /\ s2.rfetch = r.rfetch /\ s2.vfetch = r.vfetch
      /\ s2.tempmoved = r.tempmoved /\ s2.movedto = r.movedto
  BY <1>6, <1>8, Zenon DEF Fields
<1>10. UrlOK(s2) /\ Held(s2) = Held(r)
  BY <1>2, <1>9, Zenon DEF UrlOK, Apart, Held
<1>11. Held(s2) = Held(n.url[u])
  BY <1>10 DEF r
<1>12. Sound(n2)
  BY <1>2, <1>7, <1>8, <1>10, <1>11, ChainSound
<1> QED
  BY <1>1, <1>12

LEMMA PromoteSound ==
  ASSUME NEW m, Sound(m), NEW u \in Urls
  PROVE  /\ Sound(Promote(m, u))
         /\ DOMAIN Promote(m, u).cac \subseteq DOMAIN m.cac
<1> DEFINE n == Clearobject(m, u, "cache")
           r == n.url[u]
           o == r.vcache
           t == TRUE
           s1 == With(r, "fetch", "ask")
           n1 == Set(n, u, "fetch", "ask")
           s2 == With(s1, "vfetch", "none")
           n2 == Set(n1, u, "vfetch", "none")
           s3 == With(s2, "rfetch", "none")
           n3 == Set(n2, u, "rfetch", "none")
           s4 == With(s3, "cache", o)
           n4 == Set(n3, u, "cache", o)
           s5 == With(s4, "vcache", NoCac)
           n5 == Set(n4, u, "vcache", NoCac)
           s6 == With(s5, "source", "empty")
           n6 == Set(n5, u, "source", "empty")
           s7 == With(s6, "verified", t)
           n7 == Set(n6, u, "verified", t)
<1>1. Promote(m, u) = n7
  BY Zenon DEF Promote, Set
<1>2. /\ Sound(n) /\ n \in Worlds /\ r \in UrlStates /\ UrlOK(r)
      /\ r["cache"] = NoCac /\ DOMAIN n.cac \subseteq DOMAIN m.cac
  BY ClearedField DEF Own
<1> HIDE DEF n
<1>3. n = Put(n, u, r)
  BY <1>2, PutItself
<1>4. /\ o \in Cacs \cup {NoCac} /\ NoCac \in Cacs \cup {NoCac}
      /\ t \in BOOLEAN /\ "ask" \in Stages /\ "empty" \in Sources
  BY <1>2, SMT DEF UrlStates, Stages, Sources
<1> HIDE DEF r, t
<1>5. s1 \in UrlStates
  BY <1>2, <1>4, WithTyped
<1>6. /\ n1 = Put(n, u, s1)
      /\ \A g \in Fields : s1[g] = IF g = "fetch" THEN "ask" ELSE r[g]
  BY <1>2, <1>3, <1>5, Chain
<1> HIDE DEF s1, n1
<1>7. s2 \in UrlStates
  BY <1>5, WithTyped
<1>8. /\ n2 = Put(n, u, s2)
      /\ \A g \in Fields : s2[g] = IF g = "vfetch" THEN "none" ELSE s1[g]
  BY <1>2, <1>5, <1>6, <1>7, Chain
<1> HIDE DEF s2, n2
<1>9. s3 \in UrlStates
  BY <1>7, WithTyped
<1>10. /\ n3 = Put(n, u, s3)
       /\ \A g \in Fields : s3[g] = IF g = "rfetch" THEN "none" ELSE s2[g]
  BY <1>2, <1>7, <1>8, <1>9, Chain
<1> HIDE DEF s3, n3
<1>11. s4 \in UrlStates
  BY <1>4, <1>9, WithTyped
<1>12. /\ n4 = Put(n, u, s4)
       /\ \A g \in Fields : s4[g] = IF g = "cache" THEN o ELSE s3[g]
  BY <1>2, <1>9, <1>10, <1>11, Chain
<1> HIDE DEF s4, n4
<1>13. s5 \in UrlStates
  BY <1>4, <1>11, WithTyped
<1>14. /\ n5 = Put(n, u, s5)
       /\ \A g \in Fields : s5[g] = IF g = "vcache" THEN NoCac ELSE s4[g]
  BY <1>2, <1>11, <1>12, <1>13, Chain
<1> HIDE DEF s5, n5
<1>15. s6 \in UrlStates
  BY <1>4, <1>13, OtherFields
<1>16. /\ n6 = Put(n, u, s6)
       /\ \A g \in Fields : s6[g] = IF g = "source" THEN "empty" ELSE s5[g]
  BY <1>2, <1>13, <1>14, <1>15, Chain
<1> HIDE DEF s6, n6
<1>17. s7 \in UrlStates
  BY <1>4, <1>15, WithTyped
<1>18. /\ n7 = Put(n, u, s7)
       /\ \A g \in Fields : s7[g] = IF g = "verified" THEN t ELSE s6[g]
  BY <1>2, <1>15, <1>16, <1>17, Chain
<1> HIDE DEF s7, n7, o
<1>19. \A g \in Fields : s7[g] = s5[g]
  BY <1>16, <1>18, Zenon DEF Fields
<1>20. \A g \in Fields : s3[g] = IF g = "fetch" THEN "ask"
                                 ELSE IF g \in {"rfetch", "vfetch"} THEN "none"
                                 ELSE r[g]
  BY <1>6, <1>8, <1>10, Zenon DEF Fields
<1>21. /\ s7.cache = r.vcache /\ s7.ocache = r.ocache /\ s7.vcache = NoCac
       /\ s7.rfetch = "none" /\ s7.vfetch = "none"
       /\ s7.tempmoved = r.tempmoved /\ s7.movedto = r.movedto
  BY <1>12, <1>14, <1>19, <1>20, Zenon DEF Fields, o
<1>22. UrlOK(s7) /\ Held(s7) = Held(r)
  BY <1>2, <1>21, Zenon DEF UrlOK, Apart, Held
<1>23. Held(s7) = Held(n.url[u])
  BY <1>22 DEF r
<1>24. Sound(n7) /\ n7.cac = n.cac
  BY <1>2, <1>17, <1>18, <1>22, <1>23, ChainSound
<1> QED
  BY <1>1, <1>2, <1>24, Zenon

LEMMA NotmodifiedSound ==
  ASSUME NEW m, Sound(m), NEW u \in Urls, NEW ok \in BOOLEAN
  PROVE  Sound(Notmodified(m, u, ok))
<1> DEFINE n == Clearobject(m, u, "vcache")
           r == n.url[u]
           t == TRUE
           s1 == With(r, "vfetch", "none")
           n1 == Set(n, u, "vfetch", "none")
           s2 == With(s1, "flags", {})
           n2 == Set(n1, u, "flags", {})
           s3 == With(s2, "verified", t)
           n3 == Set(n2, u, "verified", t)
           k == {"history"}
<1>1. Notmodified(m, u, ok) \in {n3, Loadurl(n3, u, k, ok)}
  BY Zenon DEF Notmodified, Set
<1>2. /\ Sound(n) /\ n \in Worlds /\ r \in UrlStates /\ UrlOK(r)
      /\ r["vcache"] = NoCac /\ DOMAIN n.cac \subseteq DOMAIN m.cac
  BY ClearedField DEF Own
<1> HIDE DEF n
<1>3. n = Put(n, u, r)
  BY <1>2, PutItself
<1>4. t \in BOOLEAN /\ {} \in SUBSET PageFlags /\ k \in SUBSET PageFlags
  BY Zenon DEF PageFlags
<1> HIDE DEF r, t, k
<1>5. s1 \in UrlStates
  BY <1>2, WithTyped
<1>6. /\ n1 = Put(n, u, s1)
      /\ \A g \in Fields : s1[g] = IF g = "vfetch" THEN "none" ELSE r[g]
  BY <1>2, <1>3, <1>5, Chain
<1> HIDE DEF s1, n1
<1>7. s2 \in UrlStates
  BY <1>4, <1>5, WithTyped
<1>8. /\ n2 = Put(n, u, s2)
      /\ \A g \in Fields : s2[g] = IF g = "flags" THEN {} ELSE s1[g]
  BY <1>2, <1>5, <1>6, <1>7, Chain
<1> HIDE DEF s2, n2
<1>9. s3 \in UrlStates
  BY <1>4, <1>7, WithTyped
<1>10. /\ n3 = Put(n, u, s3)
       /\ \A g \in Fields : s3[g] = IF g = "verified" THEN t ELSE s2[g]
  BY <1>2, <1>7, <1>8, <1>9, Chain
<1> HIDE DEF s3, n3
<1>11. /\ s3.cache = r.cache /\ s3.ocache = r.ocache /\ s3.vcache = NoCac
       /\ s3.fetch = r.fetch /\ s3.rfetch = r.rfetch /\ s3.vfetch = "none"
       /\ s3.tempmoved = r.tempmoved /\ s3.movedto = r.movedto
  BY <1>2, <1>6, <1>8, <1>10, Zenon DEF Fields
<1>12. UrlOK(s3) /\ Held(s3) = Held(r)
  BY <1>2, <1>11, Zenon DEF UrlOK, Apart, Held
<1>13. Held(s3) = Held(n.url[u])
  BY <1>12 DEF r
<1>14. Sound(n3) /\ n3.cac = n.cac
  BY <1>2, <1>9, <1>10, <1>12, <1>13, ChainSound
<1>15. Sound(Loadurl(n3, u, k, ok))
  BY <1>4, <1>14, LoadSound DEF LoadFlags
<1> QED
  BY <1>1, <1>14, <1>15

LEMMA TerminateSound ==
  ASSUME NEW m, Sound(m), NEW u \in Urls
  PROVE  Sound(Terminate(m, u))
<1> DEFINE n == Clearobject(m, u, "ocache")
           r == n.url[u]
           t == TRUE
           k == IF m.url[u].vfetch = "none" THEN {} ELSE n.url[u].flags
           s1 == With(r, "fetch", "none")
           n1 == Set(n, u, "fetch", "none")
           s2 == With(s1, "rfetch", "none")
           n2 == Set(n1, u, "rfetch", "none")
           s3 == With(s2, "flags", k)
           n3 == Set(n2, u, "flags", k)
           s4 == With(s3, "verified", t)
           n4 == Set(n3, u, "verified", t)
<1>1. Terminate(m, u) = n4
  BY Zenon DEF Terminate, Set
<1>2. /\ Sound(n) /\ n \in Worlds /\ r \in UrlStates /\ UrlOK(r)
  BY ClearedField DEF Own
<1> HIDE DEF n
<1>3. n = Put(n, u, r)
  BY <1>2, PutItself
<1>4. t \in BOOLEAN /\ "none" \in Stages /\ k \in SUBSET PageFlags
  <2>1. n.url[u].flags \in SUBSET PageFlags
    BY <1>2, SMT DEF UrlStates
  <2> QED
    BY <2>1, Zenon DEF Stages
<1> HIDE DEF r, t, k
<1>5. s1 \in UrlStates
  BY <1>2, <1>4, WithTyped
<1>6. /\ n1 = Put(n, u, s1)
      /\ \A g \in Fields : s1[g] = IF g = "fetch" THEN "none" ELSE r[g]
  BY <1>2, <1>3, <1>5, Chain
<1> HIDE DEF s1, n1
<1>7. s2 \in UrlStates
  BY <1>5, WithTyped
<1>8. /\ n2 = Put(n, u, s2)
      /\ \A g \in Fields : s2[g] = IF g = "rfetch" THEN "none" ELSE s1[g]
  BY <1>2, <1>5, <1>6, <1>7, Chain
<1> HIDE DEF s2, n2
<1>9. s3 \in UrlStates
  BY <1>4, <1>7, WithTyped
<1>10. /\ n3 = Put(n, u, s3)
       /\ \A g \in Fields : s3[g] = IF g = "flags" THEN k ELSE s2[g]
  BY <1>2, <1>7, <1>8, <1>9, Chain
<1> HIDE DEF s3, n3
<1>11. s4 \in UrlStates
  BY <1>4, <1>9, WithTyped
<1>12. /\ n4 = Put(n, u, s4)
       /\ \A g \in Fields : s4[g] = IF g = "verified" THEN t ELSE s3[g]
  BY <1>2, <1>9, <1>10, <1>11, Chain
<1> HIDE DEF s4, n4
<1>13. /\ s4.cache = r.cache /\ s4.ocache = r.ocache /\ s4.vcache = r.vcache
       /\ s4.fetch = "none" /\ s4.vfetch = r.vfetch
       /\ s4.tempmoved = r.tempmoved /\ s4.movedto = r.movedto
  BY <1>6, <1>8, <1>10, <1>12, Zenon DEF Fields
<1>14. UrlOK(s4) /\ Held(s4) = Held(r)
  BY <1>2, <1>13, Zenon DEF UrlOK, Apart, Held
<1>15. Held(s4) = Held(n.url[u])
  BY <1>14 DEF r
<1>16. Sound(n4)
  BY <1>2, <1>11, <1>12, <1>14, <1>15, ChainSound
<1> QED
  BY <1>1, <1>16

\* The page that comes back, or the end of it, for a source or a cache object.
LEMMA PassSound ==
  ASSUME NEW m, Sound(m), NEW u \in Urls, NEW t, NEW data \in BOOLEAN,
         NEW eof \in BOOLEAN, NEW big
  PROVE  Sound(Pass(m, u, t, data, eof, big))
<1> DEFINE c == m.url[u].cache
           saved == IF m.url[u].ssource /\ data /\ t = "fetch"
                      THEN Clearobject(m, u, "cache") ELSE m
           kept == IF m.url[u].ssource \/ t # "fetch" \/ c = NoCac THEN saved
                   ELSE IF data THEN CacheData(m, c, big)
                   ELSE IF eof THEN CacheEof(m, c) ELSE m
           v == Finalurl(kept, u)
           a == kept.url[v].source
           x == Feed(IF a = "none" THEN "unused" ELSE a, data, eof)
<1>1. Pass(m, u, t, data, eof, big) \in {kept, [kept EXCEPT !.url[v].source = x]}
  BY Zenon DEF Pass
<1>2. Sound(saved)
  <2>1. Sound(Clearobject(m, u, "cache"))
    BY ClearedField DEF Own
  <2> QED
    BY <2>1
<1> HIDE DEF saved
<1>3. Sound(kept)
  <2>1. c # NoCac => c \in DOMAIN m.cac
    BY Zenon DEF Sound, Owns, Held
  <2> HIDE DEF c
  <2>2. c # NoCac => Sound(CacheData(m, c, big)) /\ Sound(CacheEof(m, c))
    BY <2>1, DataSound, EofSound
  <2> QED
    BY <1>2, <2>2, Zenon
<1> HIDE DEF kept
<1>4. v \in Urls
  BY <1>3, FinalurlIn, Zenon DEF Sound
<1> HIDE DEF v
<1>5. x \in Sources
  <2>1. a \in Sources /\ {"unused", "filling", "full", "ended"} \subseteq Sources
    BY <1>3, <1>4, WorldParts, SMT DEF Sound, UrlStates, Sources
  <2> HIDE DEF a
  <2> QED
    BY <2>1, Zenon DEF Feed
<1> HIDE DEF x
<1>6. LET n == [kept EXCEPT !.url[v].source = x]
      IN  /\ Sound(n) /\ Alike(kept.url[v], n.url[v]) /\ Beside(kept, n, v)
  BY <1>3, <1>4, <1>5, SourceSound
<1> QED
  BY <1>1, <1>3, <1>6, Zenon

LEMMA MoveSound ==
  ASSUME NEW m, Sound(m), NEW u \in Urls, NEW v \in Urls, NEW temp \in BOOLEAN,
         NEW ok \in BOOLEAN
  PROVE  Sound(Moveurl(m, u, v, temp, ok))
<1> DEFINE r == m.url[u]
           s == With(r, "movedto", v)
           n == Set(m, u, "movedto", v)
           seen == CASE m.url[u].source = "none" -> n
                     [] m.url[u].source = "unused" -> Urlsource(n, v, "unused")
                     [] OTHER -> Urlsource(n, v, "empty")
           left == Set(Set(seen, u, "tempmoved", temp), u, "source", "none")
           there == Loadurl(left, v, m.url[u].flags, ok)
           f == FALSE
           done == Set(Set(there, u, "ssource", f), u, "dsource", f)
<1>1. Moveurl(m, u, v, temp, ok) \in {n, done}
  BY Zenon DEF Moveurl, Set
<1>2. m \in Worlds /\ r \in UrlStates /\ UrlOK(r) /\ m.url[u].flags \in SUBSET PageFlags
  <2>1. m \in Worlds /\ r \in UrlStates /\ UrlOK(r)
    BY WorldParts, Zenon DEF Sound
  <2> QED
    BY <2>1, SMT DEF UrlStates
<1>3. Sound(n) /\ n.cac = m.cac /\ n.url[u].movedto = v
  <2>1. r = m.url[u]
    OBVIOUS
  <2> HIDE DEF r
  <2>2. m = Put(m, u, r)
    BY <1>2, <2>1, PutItself
  <2>3. s \in UrlStates
    BY <1>2, WithTyped
  <2>4. /\ n = Put(m, u, s)
        /\ \A g \in Fields : s[g] = IF g = "movedto" THEN v ELSE r[g]
    BY <1>2, <2>2, <2>3, Chain
  <2> HIDE DEF s, n
  <2>5. /\ s.cache = r.cache /\ s.ocache = r.ocache /\ s.vcache = r.vcache
        /\ s.fetch = r.fetch /\ s.rfetch = r.rfetch /\ s.vfetch = r.vfetch
        /\ s.movedto = v
    BY <2>4, Zenon DEF Fields
  <2>6. v # NoUrl
    BY UrlAssumption, Zenon
  <2>7. UrlOK(s) /\ Held(s) = Held(m.url[u])
    BY <1>2, <2>1, <2>5, <2>6, Zenon DEF UrlOK, Apart, Held
  <2> QED
    BY <1>2, <2>3, <2>4, <2>5, <2>7, ChainSound
<1> HIDE DEF n
<1>4. "unused" \in Sources /\ "empty" \in Sources /\ "none" \in Sources
  BY DEF Sources
<1>5. /\ Sound(seen) /\ seen.cac = m.cac /\ seen.url[u].movedto = v
  <2>1. seen \in {n, Urlsource(n, v, "unused"), Urlsource(n, v, "empty")}
    BY SMT
  <2> HIDE DEF seen
  <2>2. ASSUME NEW as \in Sources
        PROVE  LET x == Urlsource(n, v, as)
               IN  Sound(x) /\ x.cac = m.cac /\ x.url[u].movedto = v
    <3>1. /\ Sound(Urlsource(n, v, as)) /\ Urlsource(n, v, as).cac = n.cac
          /\ \A w \in Urls : Alike(n.url[w], Urlsource(n, v, as).url[w])
      BY <1>3, UrlsourceSound
    <3> QED
      BY <1>3, <3>1, Zenon DEF Alike
  <2> QED
    BY <1>3, <1>4, <2>1, <2>2
<1> HIDE DEF seen
<1>6. Sound(left) /\ left.cac = seen.cac
  <2> DEFINE r0 == seen.url[u]
             s1 == With(r0, "tempmoved", temp)
             n1 == Set(seen, u, "tempmoved", temp)
             s2 == With(s1, "source", "none")
             n2 == Set(n1, u, "source", "none")
  <2>1. seen \in Worlds /\ r0 \in UrlStates /\ UrlOK(r0) /\ r0.movedto = v
    BY <1>5, WorldParts, Zenon DEF Sound
  <2>2. seen = Put(seen, u, r0)
    BY <2>1, PutItself
  <2>3. left = n2
    OBVIOUS
  <2> HIDE DEF r0, left
  <2>4. s1 \in UrlStates
    BY <2>1, WithTyped
  <2>5. /\ n1 = Put(seen, u, s1)
        /\ \A g \in Fields : s1[g] = IF g = "tempmoved" THEN temp ELSE r0[g]
    BY <2>1, <2>2, <2>4, Chain
  <2> HIDE DEF s1, n1
  <2>6. s2 \in UrlStates
    BY <1>4, <2>4, OtherFields
  <2>7. /\ n2 = Put(seen, u, s2)
        /\ \A g \in Fields : s2[g] = IF g = "source" THEN "none" ELSE s1[g]
    BY <2>1, <2>4, <2>5, <2>6, Chain
  <2> HIDE DEF s2, n2
  <2>8. /\ s2.cache = r0.cache /\ s2.ocache = r0.ocache /\ s2.vcache = r0.vcache
        /\ s2.fetch = r0.fetch /\ s2.rfetch = r0.rfetch
        /\ s2.vfetch = r0.vfetch /\ s2.movedto = r0.movedto
    BY <2>5, <2>7, Zenon DEF Fields
  <2>9. v # NoUrl
    BY UrlAssumption, Zenon
  <2>10. UrlOK(s2) /\ Held(s2) = Held(r0)
    BY <2>1, <2>8, <2>9, Zenon DEF UrlOK, Apart, Held
  <2>11. Held(s2) = Held(seen.url[u])
    BY <2>10 DEF r0
  <2>12. Sound(n2) /\ n2.cac = seen.cac
    BY <1>5, <2>6, <2>7, <2>10, <2>11, ChainSound
  <2> QED
    BY <2>3, <2>12
<1> HIDE DEF left
<1>7. Sound(there)
  BY <1>2, <1>6, LoadSound DEF LoadFlags
<1> HIDE DEF there
<1>8. Sound(done)
  <2> DEFINE x == Set(there, u, "ssource", f)
  <2>1. f \in BOOLEAN
    OBVIOUS
  <2> HIDE DEF f
  <2>2. Sound(x)
    <3>1. there.url[u] \in UrlStates
      BY <1>7, WorldParts, Zenon DEF Sound
    <3>2. With(there.url[u], "ssource", f) \in UrlStates
      BY <2>1, <3>1, OtherFields
    <3>3. LET y == Set(there, u, "ssource", f)
          IN  /\ Sound(y) /\ Alike(there.url[u], y.url[u])
              /\ Beside(there, y, u)
      BY <1>7, <3>2, OtherSound DEF Others
    <3> QED
      BY <3>3, Zenon
  <2>3. done = Set(x, u, "dsource", f)
    OBVIOUS
  <2> HIDE DEF x, done
  <2>4. x.url[u] \in UrlStates
    BY <2>2, WorldParts, Zenon DEF Sound
  <2>5. With(x.url[u], "dsource", f) \in UrlStates
    BY <2>1, <2>4, OtherFields
  <2>6. LET y == Set(x, u, "dsource", f)
        IN  Sound(y) /\ Alike(x.url[u], y.url[u]) /\ Beside(x, y, u)
    BY <2>2, <2>5, OtherSound DEF Others
  <2> QED
    BY <2>3, <2>6, Zenon
<1> QED
  BY <1>1, <1>3, <1>8

\* A transfer that runs gets to another stage.
LEMMA StageSound ==
  ASSUME NEW m, Sound(m), NEW u \in Urls, NEW x \in Stages, NEW b \in BOOLEAN,
         m.url[u].fetch = "none" => x = "none"
  PROVE  LET n == Set(Set(m, u, "fetch", x), u, "visited", b)
         IN  Sound(n) /\ n.cac = m.cac
<1> DEFINE r == m.url[u]
           s1 == With(r, "fetch", x)
           n1 == Set(m, u, "fetch", x)
           s2 == With(s1, "visited", b)
           n2 == Set(n1, u, "visited", b)
<1>1. m \in Worlds /\ r \in UrlStates /\ UrlOK(r)
  BY WorldParts, Zenon DEF Sound
<1>2. m = Put(m, u, r)
  BY <1>1, PutItself
<1>3. r.fetch = "none" => x = "none"
  OBVIOUS
<1> HIDE DEF r
<1>4. s1 \in UrlStates
  BY <1>1, WithTyped
<1>5. /\ n1 = Put(m, u, s1)
      /\ \A g \in Fields : s1[g] = IF g = "fetch" THEN x ELSE r[g]
  BY <1>1, <1>2, <1>4, Chain
<1> HIDE DEF s1, n1
<1>6. s2 \in UrlStates
  BY <1>4, WithTyped
<1>7. /\ n2 = Put(m, u, s2)
      /\ \A g \in Fields : s2[g] = IF g = "visited" THEN b ELSE s1[g]
  BY <1>1, <1>4, <1>5, <1>6, Chain
<1> HIDE DEF s2, n2
<1>8. /\ s2.cache = r.cache /\ s2.ocache = r.ocache /\ s2.vcache = r.vcache
      /\ s2.fetch = x /\ s2.rfetch = r.rfetch /\ s2.vfetch = r.vfetch
      /\ s2.tempmoved = r.tempmoved /\ s2.movedto = r.movedto
  BY <1>5, <1>7, Zenon DEF Fields
<1>9. UrlOK(s2) /\ Held(s2) = Held(r)
  BY <1>1, <1>3, <1>8, Zenon DEF UrlOK, Apart, Held
<1>10. Held(s2) = Held(m.url[u])
  BY <1>9 DEF r
<1>11. Sound(n2) /\ n2.cac = m.cac
  BY <1>6, <1>7, <1>9, <1>10, ChainSound
<1> QED
  BY <1>11 DEF n2, n1

-----------------------------------------------------------------------------
(* The invariant.                                                          *)

IInv ==
  /\ Sound(World)
  /\ prefs \in Prefs
  /\ loads \in 0 .. MaxLoads /\ failures \in 0 .. MaxFailures

\* The parts of the state are those of the world.
LEMMA WorldIs ==
  /\ World.url = url /\ World.cac = cac /\ World.lru = lru
  /\ World'.url = url' /\ World'.cac = cac' /\ World'.lru = lru'
  BY SMT DEF World

LEMMA BecomeSound ==
  ASSUME NEW m, Sound(m), Become(m)
  PROVE  Sound(World)'
<1>1. url' = m.url /\ cac' = m.cac /\ lru' = m.lru
  BY Zenon DEF Become
<1>2. m = [url |-> m.url, cac |-> m.cac, lru |-> m.lru]
  BY WorldParts, Zenon DEF Sound
<1>3. World' = m
  BY <1>1, <1>2, Zenon DEF World
<1> DEFINE w == World'
<1>4. Sound(w)
  BY <1>3
<1> QED
  BY <1>4 DEF Sound, Worlds, UrlOK, Apart, Owns, Owned, Held

\* The transfers that could not be started stay within their bound.
LEMMA HandleFacts ==
  ASSUME NEW ok \in BOOLEAN, failures \in 0 .. MaxFailures,
         ~ok => failures < MaxFailures,
         failures' = IF ok THEN failures ELSE failures + 1
  PROVE  failures' \in 0 .. MaxFailures
<1>1. MaxFailures \in Nat
  BY UrlAssumption
<1> QED
  BY <1>1, SMT

\* What the registry brings back is sound.
LEMMA BlankOK ==
  /\ Blank \in UrlStates /\ UrlOK(Blank) /\ Held(Blank) = {}
  /\ \A c \in Cacs \cup {NoCac}, v \in Urls \cup {NoUrl}, t \in BOOLEAN :
       LET r == [Blank EXCEPT !.cache = c, !.movedto = v, !.tempmoved = t]
       IN  /\ r \in UrlStates /\ Held(r) = {c} \ {NoCac}
           /\ (t => v # NoUrl) => UrlOK(r)
<1>1. Blank \in UrlStates
  BY SMT DEF Blank, UrlStates, Stages, Sources
<1>2. /\ Blank.fetch = "none" /\ Blank.rfetch = "none" /\ Blank.vfetch = "none"
      /\ Blank.cache = NoCac /\ Blank.ocache = NoCac /\ Blank.vcache = NoCac
      /\ Blank.tempmoved = FALSE
  BY Zenon DEF Blank
<1>3. UrlOK(Blank) /\ Held(Blank) = {}
  BY <1>2, Zenon DEF UrlOK, Apart, Held
<1>4. ASSUME NEW c \in Cacs \cup {NoCac}, NEW v \in Urls \cup {NoUrl},
             NEW t \in BOOLEAN
      PROVE  LET r == [Blank EXCEPT !.cache = c, !.movedto = v, !.tempmoved = t]
             IN  /\ r \in UrlStates /\ Held(r) = {c} \ {NoCac}
                 /\ (t => v # NoUrl) => UrlOK(r)
  <2> DEFINE r1 == [Blank EXCEPT !.cache = c]
             r2 == [r1 EXCEPT !.movedto = v]
             r == [r2 EXCEPT !.tempmoved = t]
  <2> HIDE DEF Blank
  <2>1. r1 \in UrlStates
    BY <1>1, SMT DEF UrlStates
  <2> DEFINE f == Fields \ {"cache", "movedto", "tempmoved"}
  <2>2. \A g \in f : r1[g] = Blank[g]
    BY <1>1, SMT DEF UrlStates, Fields
  <2>3. r1.cache = c
    BY <1>1, SMT DEF UrlStates
  <2> HIDE DEF r1
  <2>4. r2 \in UrlStates
    BY <2>1, SMT DEF UrlStates
  <2>5. \A g \in f : r2[g] = r1[g]
    BY <2>1, SMT DEF UrlStates, Fields
  <2>6. r2.cache = c /\ r2.movedto = v
    BY <2>1, <2>3, SMT DEF UrlStates
  <2> HIDE DEF r2
  <2>7. r \in UrlStates
    BY <2>4, SMT DEF UrlStates
  <2>8. \A g \in f : r[g] = r2[g]
    BY <2>4, SMT DEF UrlStates, Fields
  <2>9. r.cache = c /\ r.movedto = v
    BY <2>4, <2>6, SMT DEF UrlStates
  <2>10. r.tempmoved = t
    BY <2>4, Zenon DEF UrlStates
  <2> HIDE DEF r
  <2>11. /\ r.fetch = "none" /\ r.rfetch = "none" /\ r.vfetch = "none"
         /\ r.ocache = NoCac /\ r.vcache = NoCac
    BY <1>2, <2>2, <2>5, <2>8, Zenon DEF Fields
  <2>12. Held(r) = {c} \ {NoCac} /\ ((t => v # NoUrl) => UrlOK(r))
    BY <2>9, <2>10, <2>11, Zenon DEF UrlOK, Apart, Held
  <2>13. r = [Blank EXCEPT !.cache = c, !.movedto = v, !.tempmoved = t]
    BY Zenon DEF r, r2, r1
  <2> QED
    BY <2>7, <2>12, <2>13, Zenon
<1> QED
  BY <1>1, <1>3, <1>4, Zenon

LEMMA InitSound ==
  ASSUME Init
  PROVE  IInv
<1>1. PICK kept \in UNION {[1 .. n -> Kept] : n \in 0 .. MaxDisk},
           movedto \in [Urls -> Urls \cup {NoUrl}], temp \in SUBSET Urls :
        LET nr(u) == CHOOSE i \in DOMAIN kept : kept[i] = u
        IN  /\ IsInjective(kept)
            /\ \A u \in Urls : movedto[u] # NoUrl => u \in Range(kept)
            /\ \A u \in temp : movedto[u] # NoUrl
            /\ url = [u \in Urls |->
                 IF u \notin Range(kept) THEN Blank
                 ELSE [Blank EXCEPT !.cache = nr(u), !.movedto = movedto[u],
                                    !.tempmoved = u \in temp]]
            /\ cac = [i \in DOMAIN kept |->
                       [url |-> kept[i], stage |-> "closed", filled |-> TRUE,
                        expires |-> "never"]]
            /\ lru = [i \in DOMAIN kept |-> i]
  BY Zenon DEF Init
<1>0. PICK n \in 0 .. MaxDisk : kept \in [1 .. n -> Kept]
  BY Zenon
<1> DEFINE nr(u) == CHOOSE i \in DOMAIN kept : kept[i] = u
           t(u) == u \in temp
           back(u) == [Blank EXCEPT !.cache = nr(u), !.movedto = movedto[u],
                                    !.tempmoved = t(u)]
           object(i) == [url |-> kept[i], stage |-> "closed", filled |-> TRUE,
                         expires |-> "never"]
<1>2. /\ IsInjective(kept)
      /\ url = [u \in Urls |-> IF u \notin Range(kept) THEN Blank ELSE back(u)]
      /\ cac = [i \in DOMAIN kept |-> object(i)]
      /\ lru = [i \in DOMAIN kept |-> i]
  BY <1>1, Zenon
<1>3. /\ DOMAIN kept = 1 .. n /\ n \in Nat /\ 1 .. n \subseteq Cacs
      /\ \A i \in 1 .. n : kept[i] \in Urls \ Posts /\ i # NoCac
  <2>1. Kept \subseteq Urls \ Posts /\ MaxDisk \in Nat
    BY UrlAssumption, SMT
  <2> QED
    BY <1>0, <2>1, SMT DEF Cacs, NoCac
<1>4. ASSUME NEW u \in Range(kept)
      PROVE  nr(u) \in 1 .. n /\ kept[nr(u)] = u
  <2>1. \E i \in DOMAIN kept : kept[i] = u
    BY <1>4, Zenon DEF Range
  <2> QED
    BY <1>3, <2>1
<1>5. \A i \in 1 .. n : kept[i] \in Range(kept) /\ nr(kept[i]) = i
  <2>1. \A i \in 1 .. n : kept[i] \in Range(kept)
    BY <1>3, Zenon DEF Range
  <2>2. \A i, j \in 1 .. n : kept[i] = kept[j] => i = j
    BY <1>2, <1>3, Zenon DEF IsInjective
  <2> HIDE DEF nr
  <2> QED
    BY <1>4, <2>1, <2>2, Zenon
<1> HIDE DEF nr
<1>6. \A u \in Urls : t(u) \in BOOLEAN /\ (t(u) => movedto[u] # NoUrl)
                      /\ movedto[u] \in Urls \cup {NoUrl}
  <2>1. \A u \in temp : movedto[u] # NoUrl
    BY <1>1
  <2>2. \A u \in Urls : t(u) \in BOOLEAN
    OBVIOUS
  <2> QED
    BY <2>1, <2>2, Zenon
<1> HIDE DEF t
<1>7. ASSUME NEW u \in Urls, u \in Range(kept)
      PROVE  /\ back(u) \in UrlStates /\ UrlOK(back(u))
             /\ Held(back(u)) = {nr(u)}
  <2> DEFINE c == nr(u)
             v == movedto[u]
             b == t(u)
  <2>1. /\ c \in Cacs \cup {NoCac} /\ v \in Urls \cup {NoUrl} /\ b \in BOOLEAN
        /\ b => v # NoUrl
        /\ c # NoCac
    BY <1>3, <1>4, <1>6, <1>7
  <2> HIDE DEF c, v, b
  <2>2. LET r == [Blank EXCEPT !.cache = c, !.movedto = v, !.tempmoved = b]
        IN  /\ r \in UrlStates /\ Held(r) = {c} \ {NoCac}
            /\ (b => v # NoUrl) => UrlOK(r)
    BY <2>1, BlankOK
  <2>3. {c} \ {NoCac} = {c}
    BY <2>1
  <2> QED
    BY <2>1, <2>2, <2>3, Zenon DEF c, v, b
<1> HIDE DEF back
<1>8. ASSUME NEW u \in Urls
      PROVE  /\ url[u] \in UrlStates /\ UrlOK(url[u])
             /\ u \in Range(kept) => Held(url[u]) = {nr(u)}
             /\ u \notin Range(kept) => Held(url[u]) = {}
  BY <1>2, <1>7, BlankOK, Zenon
<1>9. /\ DOMAIN cac = 1 .. n
      /\ \A c \in 1 .. n : cac[c] \in CacStates /\ cac[c].url = kept[c]
  <2>1. \A i \in 1 .. n : object(i) \in CacStates /\ object(i).url = kept[i]
    BY <1>3, SMT DEF CacStates
  <2> HIDE DEF object
  <2> QED
    BY <1>2, <1>3, <2>1, Zenon
<1>10. lru \in Seq(Cacs) /\ ToSet(lru) = 1 .. n /\ IsInjective(lru)
  <2>1. lru = [i \in 1 .. n |-> i]
    BY <1>2, <1>3, Zenon
  <2>2. lru \in Seq(Cacs) /\ Len(lru) = n /\ \A i \in 1 .. n : lru[i] = i
    BY <1>3, <2>1, SMT
  <2>3. /\ \A x : x \in ToSet(lru) <=> \E i \in 1 .. Len(lru) : lru[i] = x
        /\ IsInjective(lru)
             <=> \A i, j \in 1 .. Len(lru) : lru[i] = lru[j] => i = j
    BY <2>2, InToSet
  <2>4. \A x : x \in ToSet(lru) <=> x \in 1 .. n
    BY <2>2, <2>3, SMT
  <2>5. \A i, j \in 1 .. Len(lru) : lru[i] = lru[j] => i = j
    BY <2>2, Zenon
  <2> QED
    BY <2>2, <2>3, <2>4, <2>5, Zenon
<1>11. World \in Worlds
  <2>1. url \in [Urls -> UrlStates]
    <3>1. url = [u \in Urls |-> url[u]]
      BY <1>2, Zenon
    <3> QED
      BY <1>8, <3>1, Zenon
  <2>2. cac \in [DOMAIN cac -> CacStates] /\ DOMAIN cac \subseteq Cacs
    <3>1. cac = [i \in DOMAIN cac |-> cac[i]]
      BY <1>2, Zenon
    <3> QED
      BY <1>3, <1>9, <3>1, Zenon
  <2>3. World = [url |-> url, cac |-> cac, lru |-> lru]
    BY DEF World
  <2> QED
    BY <1>10, <2>1, <2>2, <2>3, WorldMade, Zenon
<1>12. ASSUME NEW u \in Urls PROVE Owns(World, u)
  <2> SUFFICES ASSUME NEW c \in Held(url[u])
               PROVE  c \in DOMAIN cac /\ cac[c].url = u
    BY WorldIs, Zenon DEF Owns
  <2>1. u \in Range(kept) /\ c = nr(u)
    BY <1>8, Zenon
  <2> QED
    BY <1>4, <1>9, <2>1, Zenon
<1>13. Owned(World)
  <2> SUFFICES ASSUME NEW c \in DOMAIN cac PROVE c \in Held(url[cac[c].url])
    BY WorldIs, Zenon DEF Owned
  <2>1. c \in 1 .. n /\ cac[c].url = kept[c]
    BY <1>9, Zenon
  <2> QED
    BY <1>3, <1>5, <1>8, <2>1, Zenon
<1>14. Sound(World)
  BY <1>8, <1>9, <1>10, <1>11, <1>12, <1>13, WorldIs, Zenon DEF Sound
<1>15. 0 \in 0 .. MaxLoads /\ 0 \in 0 .. MaxFailures
  BY UrlAssumption, SMT
<1> QED
  BY <1>14, <1>15 DEF IInv, Init

\* A handler that leaves a sound world.
LEMMA UpdateKeeps ==
  ASSUME IInv, NEW m, Sound(m), Become(m), Updates,
         failures' \in 0 .. MaxFailures
  PROVE  IInv'
<1>1. Sound(World)'
  BY BecomeSound
<1>2. prefs' = prefs /\ loads' = loads
  BY Zenon DEF Updates
<1> QED
  BY <1>1, <1>2, Zenon DEF IInv

LEMMA LoadKeeps ==
  ASSUME IInv, NEW u \in Urls, NEW k \in Loads, NEW ok \in BOOLEAN,
         Load(u, k, ok)
  PROVE  IInv'
<1> DEFINE a == Loadurl(World, u, k, ok)
           b == Urlsource(a, u, "empty")
           s == Urlsource(World, u, "empty")
           c == Loadurl(s, u, k, ok)
<1>1. /\ Become(a) \/ Become(b) \/ Become(c)
      /\ loads < MaxLoads /\ loads' = loads + 1 /\ prefs' = prefs
      /\ ~ok => failures < MaxFailures
      /\ failures' = IF ok THEN failures ELSE failures + 1
  BY Zenon DEF Load, Handle
<1>2. k \in LoadFlags /\ "empty" \in Sources
  BY UrlAssumption, Zenon DEF LoadFlags, Sources
<1>3. Sound(World)
  BY DEF IInv
<1>4. Sound(a)
  BY <1>2, <1>3, LoadSound
<1>5. Sound(b)
  <2> HIDE DEF a
  <2> QED
    BY <1>2, <1>4, UrlsourceSound
<1>6. Sound(s)
  BY <1>2, <1>3, UrlsourceSound
<1>7. Sound(c)
  <2> HIDE DEF s
  <2> QED
    BY <1>2, <1>6, LoadSound
<1> HIDE DEF a, b, c
<1>8. Sound(World)'
  BY <1>1, <1>4, <1>5, <1>7, BecomeSound
<1>9. failures' \in 0 .. MaxFailures
  BY <1>1, HandleFacts DEF IInv
<1>10. loads' \in 0 .. MaxLoads
  <2>1. MaxLoads \in Nat /\ loads \in 0 .. MaxLoads
    BY UrlAssumption, Zenon DEF IInv
  <2> QED
    BY <1>1, <2>1, SMT
<1> QED
  BY <1>1, <1>8, <1>9, <1>10, Zenon DEF IInv

\* The transfer that an update is about, and the stage it gets to.
LEMMA PromotedSound ==
  ASSUME IInv, NEW u \in Urls, NEW t
  PROVE  /\ Sound(Promoted(u, t))
         /\ DOMAIN Promoted(u, t).cac \subseteq DOMAIN World.cac
<1>1. Sound(World)
  BY DEF IInv
<1>2. /\ Sound(Promote(World, u))
      /\ DOMAIN Promote(World, u).cac \subseteq DOMAIN World.cac
  BY <1>1, PromoteSound
<1> QED
  BY <1>1, <1>2, Zenon DEF Promoted

LEMMA StagedSound ==
  ASSUME NEW m, Sound(m), NEW u \in Urls, NEW to \in {"data", "moved"},
         NEW b \in BOOLEAN
  PROVE  LET x == IF m.url[u].fetch = "ask" THEN to ELSE m.url[u].fetch
         IN  Sound(Set(Set(m, u, "fetch", x), u, "visited", b))
<1> DEFINE x == IF m.url[u].fetch = "ask" THEN to ELSE m.url[u].fetch
<1>1. x \in Stages /\ (m.url[u].fetch = "none" => x = "none")
  <2>1. m.url[u] \in UrlStates
    BY WorldParts, Zenon DEF Sound
  <2> QED
    BY <2>1, SMT DEF UrlStates, Stages
<1> HIDE DEF x
<1>2. LET n == Set(Set(m, u, "fetch", x), u, "visited", b)
      IN  Sound(n) /\ n.cac = m.cac
  BY <1>1, StageSound
<1>3. Sound(Set(Set(m, u, "fetch", x), u, "visited", b))
  BY <1>2, Zenon
<1> QED
  BY <1>3 DEF x

LEMMA DataKeeps ==
  ASSUME IInv, NEW u \in Urls, NEW t, NEW big, Data(u, t, big)
  PROVE  IInv'
<1> DEFINE m == Promoted(u, t)
           b == u \in Posts
           to == "data"
           x == IF m.url[u].fetch = "ask" THEN to ELSE m.url[u].fetch
           n == Set(Set(m, u, "fetch", x), u, "visited", b)
           y == TRUE
           z == FALSE
           p == Pass(n, u, Plain(t), y, z, big)
<1>1. Become(p) /\ failures' = failures /\ Updates
  BY Zenon DEF Data, Set
<1>2. Sound(m)
  BY PromotedSound
<1>3. b \in BOOLEAN /\ to \in {"data", "moved"} /\ y \in BOOLEAN /\ z \in BOOLEAN
  BY SMT
<1>4. Sound(n)
  <2> HIDE DEF m, b, to
  <2> QED
    BY <1>2, <1>3, StagedSound
<1> HIDE DEF n, y, z
<1>5. Sound(p)
  BY <1>3, <1>4, PassSound
<1> HIDE DEF p
<1>6. failures' \in 0 .. MaxFailures
  BY <1>1, Zenon DEF IInv
<1> QED
  BY <1>1, <1>5, <1>6, UpdateKeeps

\* A url object with a postnr points to no cache object, so that none is lost
\* when its name is given to a new one.
LEMMA TargetSound ==
  ASSUME NEW m, Sound(m), NEW v \in Urls
  PROVE  Sound(Target(m, v))
<1>1. CASE v \in Posts
  <2>1. /\ m \in Worlds /\ m.url[v] \in UrlStates
        /\ \A c \in DOMAIN m.cac : m.cac[c].url \notin Posts
    <3>1. /\ m \in Worlds /\ m.url[v] \in UrlStates
          /\ \A c \in DOMAIN m.cac : m.cac[c] \in CacStates
      BY WorldParts, Zenon DEF Sound
    <3> QED
      BY <3>1, SMT DEF CacStates
  <2>2. Owns(m, v)
    BY Zenon DEF Sound
  <2>3. Held(m.url[v]) = {}
    BY <1>1, <2>1, <2>2, Zenon DEF Owns
  <2>4. Sound(Put(m, v, Blank))
    <3>1. Blank \in UrlStates /\ UrlOK(Blank) /\ Held(Blank) = Held(m.url[v])
      BY <2>3, BlankOK
    <3> QED
      BY <3>1, PutSound
  <2> QED
    BY <1>1, <2>4, Zenon DEF Target, Put
<1>2. CASE v \notin Posts
  BY <1>2, Zenon DEF Target
<1> QED
  BY <1>1, <1>2

LEMMA MovedKeeps ==
  ASSUME IInv, NEW u \in Urls, NEW t, NEW v \in Urls,
         NEW temp \in BOOLEAN, NEW ok \in BOOLEAN, Moved(u, t, v, temp, ok)
  PROVE  IInv'
<1> DEFINE q == Target(Promoted(u, t), v)
           m == Moveurl(q, u, v, temp, ok)
           b == u \in Posts
           to == "moved"
           x == IF m.url[u].fetch = "ask" THEN to ELSE m.url[u].fetch
           n == Set(Set(m, u, "fetch", x), u, "visited", b)
           z == FALSE
           p == Pass(n, u, "fetch", z, z, z)
<1>1. /\ Become(p) /\ Updates
      /\ ~ok => failures < MaxFailures
      /\ failures' = IF ok THEN failures ELSE failures + 1
  BY Zenon DEF Moved, Redirected, Handle, Set
<1>2. Sound(q)
  <2>1. Sound(Promoted(u, t))
    BY PromotedSound
  <2> QED
    BY <2>1, TargetSound
<1> HIDE DEF q
<1>3. Sound(m)
  BY <1>2, MoveSound
<1>4. b \in BOOLEAN /\ to \in {"data", "moved"} /\ z \in BOOLEAN
  BY SMT
<1>5. Sound(n)
  <2> HIDE DEF m, b, to
  <2> QED
    BY <1>3, <1>4, StagedSound
<1> HIDE DEF n, z
<1>6. Sound(p)
  BY <1>4, <1>5, PassSound
<1> HIDE DEF p
<1>7. failures' \in 0 .. MaxFailures
  BY <1>1, HandleFacts DEF IInv
<1> QED
  BY <1>1, <1>6, <1>7, UpdateKeeps

LEMMA ErrorKeeps ==
  ASSUME IInv, NEW u \in Urls, NEW t, Error(u, t)
  PROVE  IInv'
<1> DEFINE m == IF t = "fetch" THEN Restore(World, u) ELSE World
           z == FALSE
           p == Pass(m, u, t, z, z, z)
<1>1. Become(p) /\ failures' = failures /\ Updates
  BY Zenon DEF Error
<1>2. Sound(m)
  <2>1. Sound(World)
    BY DEF IInv
  <2> QED
    BY <2>1, RestoreSound, Zenon
<1>3. z \in BOOLEAN
  OBVIOUS
<1> HIDE DEF m, z
<1>4. Sound(p)
  BY <1>2, <1>3, PassSound
<1> HIDE DEF p
<1>5. failures' \in 0 .. MaxFailures
  BY <1>1, Zenon DEF IInv
<1> QED
  BY <1>1, <1>4, <1>5, UpdateKeeps

LEMMA UnmodifiedKeeps ==
  ASSUME IInv, NEW u \in Urls, NEW ok \in BOOLEAN, Unmodified(u, ok)
  PROVE  IInv'
<1> DEFINE p == Notmodified(World, u, ok)
<1>1. /\ Become(p) /\ Updates
      /\ ~ok => failures < MaxFailures
      /\ failures' = IF ok THEN failures ELSE failures + 1
  BY Zenon DEF Unmodified, Handle
<1>2. Sound(World)
  BY DEF IInv
<1>3. Sound(p)
  BY <1>2, NotmodifiedSound
<1> HIDE DEF p
<1>4. failures' \in 0 .. MaxFailures
  BY <1>1, HandleFacts DEF IInv
<1> QED
  BY <1>1, <1>3, <1>4, UpdateKeeps

LEMMA ReloadKeeps ==
  ASSUME IInv, NEW u \in Urls, Reload(u)
  PROVE  IInv'
<1> DEFINE w == World
           n == Clearobject(w, u, "cache")
           r == n.url[u]
           s1 == With(r, "fetch", "ask")
           n1 == Set(n, u, "fetch", "ask")
           x == IF url[u].ssource \/ url[u].dsource THEN n.url[u].source
                ELSE "empty"
           s2 == With(s1, "source", x)
           n2 == Set(n1, u, "source", x)
           z == FALSE
           p == Pass(Newcache(n2, u, "cache"), u, "fetch", z, z, z)
<1>1. /\ Become(p) /\ failures' = failures /\ Updates
      /\ url[u].fetch = "data"
  BY Zenon DEF Reload, Set
<1>2. w.url = url /\ Sound(w)
  BY WorldIs DEF IInv
<1> HIDE DEF w
<1>3. /\ Sound(n) /\ n \in Worlds /\ r \in UrlStates /\ UrlOK(r)
      /\ r["cache"] = NoCac /\ Same(w.url[u], r, Fields \ {"cache"})
      /\ DOMAIN n.cac \subseteq DOMAIN w.cac
  BY <1>2, ClearedField DEF Own
<1> HIDE DEF n
<1>4. n = Put(n, u, r)
  BY <1>3, PutItself
<1>5. x \in Sources /\ "ask" \in Stages /\ z \in BOOLEAN
  <2>1. r.source \in Sources /\ "empty" \in Sources
    BY <1>3, SMT DEF UrlStates, Sources
  <2> QED
    BY <2>1, Zenon DEF Stages
<1>6. r.rfetch = "none" /\ r.vfetch = "none" /\ r.vcache = NoCac
  <2>1. r.fetch # "none"
    BY <1>1, <1>2, <1>3, Zenon DEF Same, Fields
  <2> HIDE DEF r
  <2> QED
    BY <1>3, <2>1, Zenon DEF UrlOK
<1> HIDE DEF r, x, z
<1>7. s1 \in UrlStates
  BY <1>3, <1>5, WithTyped
<1>8. /\ n1 = Put(n, u, s1)
      /\ \A g \in Fields : s1[g] = IF g = "fetch" THEN "ask" ELSE r[g]
  BY <1>3, <1>4, <1>7, Chain
<1> HIDE DEF s1, n1
<1>9. s2 \in UrlStates
  BY <1>5, <1>7, OtherFields
<1>10. /\ n2 = Put(n, u, s2)
       /\ \A g \in Fields : s2[g] = IF g = "source" THEN x ELSE s1[g]
  BY <1>3, <1>7, <1>8, <1>9, Chain
<1> HIDE DEF s2, n2
<1>11. /\ s2.cache = r.cache /\ s2.ocache = r.ocache /\ s2.vcache = r.vcache
       /\ s2.rfetch = r.rfetch /\ s2.vfetch = r.vfetch
       /\ s2.tempmoved = r.tempmoved /\ s2.movedto = r.movedto
       /\ s2["cache"] = NoCac
  BY <1>3, <1>8, <1>10, Zenon DEF Fields
<1>12. UrlOK(s2) /\ Held(s2) = Held(r)
  BY <1>3, <1>6, <1>11, Zenon DEF UrlOK, Apart, Held
<1>13. Held(s2) = Held(n.url[u])
  BY <1>12 DEF r
<1>14. Sound(n2) /\ n2.cac = n.cac /\ n2.url[u] = s2
  BY <1>3, <1>9, <1>10, <1>12, <1>13, ChainSound
<1>15. n2.url[u]["cache"] = NoCac
  BY <1>11, <1>14, Zenon
<1>16. Sound(Newcache(n2, u, "cache"))
  BY <1>14, <1>15, NewSound
<1>17. Sound(p)
  <2> DEFINE q == Newcache(n2, u, "cache")
  <2> HIDE DEF q
  <2>1. Sound(q)
    BY <1>16 DEF q
  <2>2. Sound(Pass(q, u, "fetch", z, z, z))
    BY <1>5, <2>1, PassSound
  <2> QED
    BY <2>2 DEF q
<1> HIDE DEF p
<1>18. failures' \in 0 .. MaxFailures
  BY <1>1, Zenon DEF IInv
<1> QED
  BY <1>1, <1>17, <1>18, UpdateKeeps

LEMMA NocacheKeeps ==
  ASSUME IInv, NEW u \in Urls, Nocache(u)
  PROVE  IInv'
<1> DEFINE m == Clearobject(World, u, "cache")
           z == FALSE
           p == Pass(m, u, "fetch", z, z, z)
<1>1. Become(p) /\ failures' = failures /\ Updates
  BY Zenon DEF Nocache
<1>2. Sound(m)
  <2>1. Sound(World)
    BY DEF IInv
  <2> QED
    BY <2>1, ClearedField DEF Own
<1>3. z \in BOOLEAN
  OBVIOUS
<1> HIDE DEF m, z
<1>4. Sound(p)
  BY <1>2, <1>3, PassSound
<1> HIDE DEF p
<1>5. failures' \in 0 .. MaxFailures
  BY <1>1, Zenon DEF IInv
<1> QED
  BY <1>1, <1>4, <1>5, UpdateKeeps

\* The expiry of an object is set while its transfer runs, or is reached.
LEMMA ExpirySound ==
  ASSUME NEW m, Sound(m), NEW c \in DOMAIN m.cac,
         NEW when \in {"never", "later", "past"},
         when # "past" => c \in Held(m.url[m.cac[c].url])
  PROVE  Sound([m EXCEPT !.cac[c].expires = when])
<1> DEFINE x == m.cac[c]
           e == [x EXCEPT !.expires = when]
           n == [m EXCEPT !.cac[c].expires = when]
<1>1. m \in Worlds /\ x \in CacStates
  BY WorldParts, Zenon DEF Sound
<1>2. e \in CacStates /\ e.url = x.url /\ e.expires = when
  BY <1>1, SMT DEF CacStates
<1>3. n = [m EXCEPT !.cac[c] = e]
  BY Zenon
<1>4. when # "past" => c \in Held(m.url[e.url])
  BY <1>2
<1> HIDE DEF e, n
<1>5. Sound([m EXCEPT !.cac[c] = e])
  BY <1>2, <1>4, CacSound
<1>6. Sound(n)
  BY <1>3, <1>5
<1> QED
  BY <1>6 DEF n

LEMMA ExpiresKeeps ==
  ASSUME IInv, NEW u \in Urls, NEW t \in {"fetch", "vfetch"},
         NEW when \in {"later", "past"}, Expires(u, t, when)
  PROVE  IInv'
<1> DEFINE w == World
           c == IF t = "fetch" THEN url[u].cache ELSE url[u].vcache
           p == [w EXCEPT !.cac[c].expires = when]
<1>1. Become(p) /\ failures' = failures /\ Updates /\ c # NoCac
  BY Zenon DEF Expires
<1>2. w.url = url /\ Sound(w)
  BY WorldIs DEF IInv
<1> HIDE DEF w
<1>3. c \in Held(w.url[u])
  BY <1>1, <1>2, Zenon DEF Held
<1> HIDE DEF c
<1>4. c \in DOMAIN w.cac /\ w.cac[c].url = u
  BY <1>2, <1>3, Zenon DEF Sound, Owns
<1>5. Sound(p)
  <2>1. when \in {"never", "later", "past"} /\ c \in Held(w.url[w.cac[c].url])
    BY <1>3, <1>4
  <2> QED
    BY <1>2, <1>4, <2>1, ExpirySound
<1> HIDE DEF p
<1>6. failures' \in 0 .. MaxFailures
  BY <1>1, Zenon DEF IInv
<1> QED
  BY <1>1, <1>5, <1>6, UpdateKeeps

LEMMA EndKeeps ==
  ASSUME IInv, NEW u \in Urls, NEW t, NEW err, End(u, t, err)
  PROVE  IInv'
<1> DEFINE m == IF err /\ t = "fetch" THEN Restore(World, u) ELSE World
           n == Terminate(m, u)
           y == TRUE
           z == FALSE
           p == Pass(n, u, t, z, y, z)
<1>1. Become(p) /\ failures' = failures /\ Updates
  BY Zenon DEF End
<1>2. Sound(m)
  <2>1. Sound(World)
    BY DEF IInv
  <2> QED
    BY <2>1, RestoreSound, Zenon
<1>3. y \in BOOLEAN /\ z \in BOOLEAN
  OBVIOUS
<1> HIDE DEF m, y, z
<1>4. Sound(n)
  BY <1>2, TerminateSound
<1> HIDE DEF n
<1>5. Sound(p)
  BY <1>3, <1>4, PassSound
<1> HIDE DEF p
<1>6. failures' \in 0 .. MaxFailures
  BY <1>1, Zenon DEF IInv
<1> QED
  BY <1>1, <1>5, <1>6, UpdateKeeps

LEMMA DeleteKeeps ==
  ASSUME IInv, NEW u \in Urls, Deletecache(u)
  PROVE  IInv'
<1> DEFINE p == Clearobject(World, u, "cache")
<1>1. Become(p) /\ failures' = failures /\ Updates
  BY Zenon DEF Deletecache
<1>2. Sound(World)
  BY DEF IInv
<1>3. Sound(p)
  BY <1>2, ClearedField DEF Own
<1> HIDE DEF p
<1>4. failures' \in 0 .. MaxFailures
  BY <1>1, Zenon DEF IInv
<1> QED
  BY <1>1, <1>3, <1>4, UpdateKeeps

LEMMA FlushsourceKeeps ==
  ASSUME IInv, NEW u \in Urls, Flushsource(u)
  PROVE  IInv'
<1> DEFINE w == World
           x == IF w.url[u].source = "full" THEN "ended" ELSE "empty"
           p == [w EXCEPT !.url[u].source = x]
<1>1. Become(p) /\ failures' = failures /\ Updates
  BY Zenon DEF Flushsource
<1>2. Sound(w) /\ x \in Sources
  BY DEF IInv, Sources
<1> HIDE DEF w, x
<1>3. LET n == [w EXCEPT !.url[u].source = x]
      IN  Sound(n) /\ Alike(w.url[u], n.url[u]) /\ Beside(w, n, u)
  BY <1>2, SourceSound
<1>4. Sound(p)
  BY <1>3, Zenon
<1> HIDE DEF p
<1>5. failures' \in 0 .. MaxFailures
  BY <1>1, Zenon DEF IInv
<1> QED
  BY <1>1, <1>4, <1>5, UpdateKeeps

LEMMA ExpireKeeps ==
  ASSUME IInv, NEW c \in DOMAIN cac, Expire(c)
  PROVE  IInv'
<1> DEFINE w == World
           p == [w EXCEPT !.cac[c].expires = "past"]
<1>1. Become(p) /\ failures' = failures /\ Updates
  BY Zenon DEF Expire
<1>2. w.cac = cac /\ Sound(w)
  BY WorldIs DEF IInv
<1> HIDE DEF w
<1>3. Sound(p)
  <2>1. c \in DOMAIN w.cac /\ "past" \in {"never", "later", "past"}
    BY <1>2
  <2> QED
    BY <1>2, <2>1, ExpirySound
<1> HIDE DEF p
<1>4. failures' \in 0 .. MaxFailures
  BY <1>1, Zenon DEF IInv
<1> QED
  BY <1>1, <1>3, <1>4, UpdateKeeps

LEMMA NextKeeps ==
  ASSUME IInv, [Next]_vars
  PROVE  IInv'
<1>1. CASE UNCHANGED vars
  BY <1>1 DEF vars, IInv, World, Sound, Worlds, UrlOK, Apart, Owns, Owned, Held
<1>2. ASSUME NEW u \in Urls, NEW k \in Loads, NEW ok \in BOOLEAN, Load(u, k, ok)
      PROVE  IInv'
  BY <1>2, LoadKeeps
<1>3. ASSUME NEW u \in Urls, NEW t \in {"fetch", "rfetch", "vfetch"},
             NEW big \in BOOLEAN, Data(u, t, big)
      PROVE  IInv'
  BY <1>3, DataKeeps
<1>4. ASSUME NEW u \in Urls, NEW t \in {"fetch", "rfetch"},
             Error(u, t) \/ \E err \in BOOLEAN : End(u, t, err)
      PROVE  IInv'
  BY <1>4, ErrorKeeps, EndKeeps
<1>5. ASSUME NEW u \in Urls, NEW t \in {"fetch", "vfetch"},
             NEW v \in Urls, NEW temp \in BOOLEAN, NEW ok \in BOOLEAN,
             Moved(u, t, v, temp, ok)
      PROVE  IInv'
  BY <1>5, MovedKeeps
<1>6. ASSUME NEW u \in Urls, NEW t \in {"fetch", "vfetch"},
             NEW when \in {"later", "past"}, Expires(u, t, when)
      PROVE  IInv'
  BY <1>6, ExpiresKeeps
<1>7. ASSUME NEW u \in Urls, NEW ok \in BOOLEAN, Unmodified(u, ok)
      PROVE  IInv'
  BY <1>7, UnmodifiedKeeps
<1>8. ASSUME NEW u \in Urls,
             Nocache(u) \/ Reload(u) \/ Deletecache(u) \/ Flushsource(u)
      PROVE  IInv'
  BY <1>8, NocacheKeeps, ReloadKeeps, DeleteKeeps, FlushsourceKeeps
<1>9. ASSUME NEW c \in DOMAIN cac, Expire(c) PROVE IInv'
  BY <1>9, ExpireKeeps
<1> QED
  BY <1>1, <1>2, <1>3, <1>4, <1>5, <1>6, <1>7, <1>8, <1>9, Zenon DEF Next

-----------------------------------------------------------------------------
(* The theorems.                                                           *)

LEMMA Invariant == Spec => []IInv
<1>1. Init => IInv
  BY InitSound
<1>2. IInv /\ [Next]_vars => IInv'
  BY NextKeeps
<1> QED
  BY <1>1, <1>2, PTL DEF Spec

\* The url objects, the cache objects and the list of the cache are what
\* url.c and cache.c make them: an object is in the list once, as long as it
\* exists, also after any flush or any load that puts it last.
THEOREM UrlTypes == Spec => []TypeOK
<1>1. IInv => TypeOK
  <2> SUFFICES ASSUME IInv PROVE TypeOK
    OBVIOUS
  <2> DEFINE w == World
  <2>1. w.url = url /\ w.cac = cac /\ w.lru = lru /\ Sound(w)
    BY WorldIs DEF IInv
  <2> HIDE DEF w
  <2>2. /\ url \in [Urls -> UrlStates] /\ lru \in Seq(Cacs)
        /\ DOMAIN cac \subseteq Cacs /\ cac \in [DOMAIN cac -> CacStates]
        /\ ToSet(lru) = DOMAIN cac /\ IsInjective(lru)
    BY <2>1, WorldParts, Zenon DEF Sound
  <2>3. Cardinality(ToSet(lru)) = Len(lru)
    BY <2>2, InjectiveLen
  <2>4. Range(lru) = DOMAIN cac
    BY <2>2, SMT DEF ToSet, Range
  <2>5. Len(lru) = Cardinality(DOMAIN cac)
    BY <2>2, <2>3
  <2> QED
    BY <2>2, <2>4, <2>5, Zenon DEF TypeOK, IInv
<1> QED
  BY <1>1, Invariant, PTL

\* No load, reload, redirection or promoted verification starts a transfer
\* beside a plain one, or a plain one beside another, which the final update
\* of either would make the url forget (url.c:1023).
THEOREM OneTransferHolds == Spec => []OneTransfer
<1>1. IInv => OneTransfer
  <2> SUFFICES ASSUME IInv, NEW u \in Urls, url[u].fetch # "none"
               PROVE  url[u].rfetch = "none" /\ url[u].vfetch = "none"
    BY Zenon DEF OneTransfer
  <2>1. Sound(World) /\ World.url = url
    BY WorldIs DEF IInv
  <2>2. UrlOK(url[u])
    BY <2>1, Zenon DEF Sound
  <2> QED
    BY <2>2, Zenon DEF UrlOK
<1> QED
  BY <1>1, Invariant, PTL

\* The pointers of urls to cache objects never share one and never dangle: an
\* object is disposed through the pointer to it, and by the flushes that the
\* writes to others start (cache.c:969), and forgotten by its url with that.
THEOREM OneOwnerHolds == Spec => []OneOwner
<1>1. IInv => OneOwner
  <2> SUFFICES ASSUME IInv, NEW p \in Pointers, url[p[1]][p[2]] # NoCac
               PROVE  LET c == url[p[1]][p[2]]
                      IN  /\ c \in DOMAIN cac /\ cac[c].url = p[1]
                          /\ \A q \in Pointers \ {p} : url[q[1]][q[2]] # c
    BY Zenon DEF OneOwner
  <2> DEFINE w == World
             u == p[1]
             c == url[u][p[2]]
  <2>1. Sound(w) /\ w.url = url /\ w.cac = cac
    BY WorldIs DEF IInv
  <2> HIDE DEF w
  <2>2. \A v \in Urls : UrlOK(url[v]) /\ Owns(w, v)
    BY <2>1, Zenon DEF Sound
  <2>3. \A v \in Urls, g \in Own : url[v][g] # NoCac => url[v][g] \in Held(url[v])
    BY Zenon DEF Held, Own
  <2>4. /\ \A q \in Pointers : q[1] \in Urls /\ q[2] \in Own
        /\ \A q \in Pointers : q[1] = p[1] /\ q[2] = p[2] => q = p
    BY SMT DEF Pointers, Own
  <2>5. c \in DOMAIN cac /\ cac[c].url = u
    <3>1. u \in Urls /\ c \in Held(url[u])
      BY <2>3, <2>4
    <3> HIDE DEF u, c
    <3> QED
      BY <2>1, <2>2, <3>1, Zenon DEF Owns
  <2>6. ASSUME NEW q \in Pointers \ {p} PROVE url[q[1]][q[2]] # c
    <3> DEFINE v == q[1]
               f == p[2]
               g == q[2]
    <3>1. v \in Urls /\ f \in Own /\ g \in Own /\ (v # u \/ g # f)
      BY <2>4, <2>6
    <3>2. c = url[u][f] /\ c # NoCac /\ u \in Urls
      BY <2>4
    <3> HIDE DEF u, v, f, g, c
    <3>3. CASE v # u
      <4>1. url[v][g] = c => cac[c].url = v
        BY <2>1, <2>2, <2>3, <3>1, <3>2, Zenon DEF Owns
      <4> QED
        BY <2>5, <3>3, <4>1, Zenon DEF v, g
    <3>4. CASE v = u
      <4> DEFINE r == url[u]
      <4>1. Apart(r) /\ g # f
        BY <2>2, <3>1, <3>2, <3>4, Zenon DEF UrlOK
      <4>2. c = r[f]
        BY <3>2
      <4> HIDE DEF r
      <4>3. \A a, b \in Own : a # b /\ r[a] = r[b] => r[a] = NoCac
        BY <4>1, Zenon DEF Apart, Own
      <4>4. r[g] # c
        BY <3>1, <3>2, <4>1, <4>2, <4>3, Zenon
      <4> QED
        BY <3>4, <4>4, Zenon DEF r, v, g
    <3> QED
      BY <3>3, <3>4
  <2> QED
    BY <2>5, <2>6, Zenon
<1> QED
  BY <1>1, Invariant, PTL

\* Whatever the handlers do with the pointers to a cache object, they lose
\* none that is not past its expiry: each can be deleted.
THEOREM NoOrphansHolds == Spec => []NoOrphans
<1>1. IInv => NoOrphans
  <2> SUFFICES ASSUME IInv, NEW c \in DOMAIN cac
               PROVE  \/ \E p \in Pointers : url[p[1]][p[2]] = c
                      \/ cac[c].expires = "past"
    BY Zenon DEF NoOrphans
  <2> DEFINE w == World
             v == cac[c].url
  <2>1. Sound(w) /\ w.url = url /\ w.cac = cac
    BY WorldIs DEF IInv
  <2> HIDE DEF w
  <2>2. c \in Held(url[v]) \/ cac[c].expires = "past"
    BY <2>1, Zenon DEF Sound, Owned
  <2>3. v \in Urls
    <3>1. cac[c] \in CacStates
      BY <2>1, WorldParts, Zenon DEF Sound
    <3> QED
      BY <3>1, SMT DEF CacStates
  <2> HIDE DEF v
  <2>4. c \in Held(url[v])
          => \E f \in Own : url[v][f] = c
    BY Zenon DEF Held, Own
  <2>5. ASSUME NEW f \in Own, url[v][f] = c
        PROVE  \E p \in Pointers : url[p[1]][p[2]] = c
    <3> DEFINE p == <<v, f>>
    <3>1. p \in Pointers /\ p[1] = v /\ p[2] = f
      BY <2>3, SMT DEF Pointers, Own
    <3> HIDE DEF p
    <3> QED
      BY <2>5, <3>1, Zenon
  <2> QED
    BY <2>2, <2>4, <2>5
<1> QED
  BY <1>1, Invariant, PTL
=============================================================================
