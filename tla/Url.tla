--------------------------------- MODULE Url ---------------------------------
(***************************************************************************)
(* The url objects of aweb/url.c: which transfers a url runs, what it shows *)
(* and what it keeps in the disk cache, through loads, reloads, verifica-   *)
(* tions, redirections, errors and flushes of the cache.                    *)
(*                                                                         *)
(* A url has a plain fetch, a fetch from the disk cache (rfetch) and a      *)
(* verification (vfetch), each with the objects it fills.  All handlers run *)
(* in the main task; what interleaves are the updates of transfers, loads   *)
(* by windows, and the flushes that a write to one page's cache object      *)
(* causes in others.  Transfers themselves are Fetch's: here one delivers   *)
(* updates until its final one, and none after it was disposed.             *)
(*                                                                         *)
(* Handlers are operators on the record m of the three parts of the state   *)
(* they share; the actions at the end compose them.                         *)
(***************************************************************************)
EXTENDS Naturals, SequencesExt, Lists

CONSTANTS Urls,         \* the url objects
          Posts,        \* those with a postnr
          Kept,         \* those that the disk cache may have at the start
          Expiring,     \* those whose responses may have an expiry date
          Loads,        \* the sets of AUMLF_ flags windows load with
          Prefs,        \* settings: [caverify, fast]
          MaxDisk,      \* prefs.network.cadisksize, in filled objects
          MaxLoads,     \* bound on loads by windows
          MaxFailures,  \* bound on transfers that cannot start
          MaxHops       \* 99 in Finalurl and Movedtoloop

NoUrl == "NULL"
NoCac == 0
Cacs == Nat \ {NoCac}

\* AUMLF_ flags of loads that want a page; copy.c:404 loads with IFINMEM alone.
PageFlags == {"reload", "download", "docext", "history", "verify"}

ASSUME UrlAssumption ==
  /\ Posts \subseteq Urls /\ Kept \subseteq Urls \ Posts
  /\ Expiring \subseteq Urls /\ NoUrl \notin Urls
  /\ Loads \subseteq (SUBSET PageFlags) \cup {{"ifinmem"}}
  /\ Prefs \subseteq [caverify : {"always", "once", "never"}, fast : BOOLEAN]
  /\ {MaxDisk, MaxLoads, MaxFailures} \subseteq Nat
  /\ MaxHops \in Nat \ {0}

VARIABLES
  url,       \* struct Url
  cac,       \* struct Cache, of the objects that exist
  lru,       \* LIST(Cache) cache: the first is the longest untouched
  prefs,     \* prefs.network
  loads, failures

vars == <<url, cac, lru, prefs, loads, failures>>

-----------------------------------------------------------------------------
\* The stage of a transfer: nothing but headers yet, data, or a redirection.
Stages == {"none", "ask", "data", "moved"}

\* A source: no object; one without driver or copies; no driver yet, and
\* copies wait for data; a driver that is being fed; all data there; at its
\* end without driver.
Sources == {"none", "unused", "empty", "filling", "full", "ended"}

UrlStates ==
  [fetch : Stages, rfetch : {"none", "ask"}, vfetch : {"none", "ask"},
   flags : SUBSET PageFlags,          \* loadflags of fetch or vfetch
   source : Sources, ssource : BOOLEAN, dsource : BOOLEAN,
   cache : Cacs \cup {NoCac}, ocache : Cacs \cup {NoCac},
   vcache : Cacs \cup {NoCac},
   movedto : Urls \cup {NoUrl},
   tempmoved : BOOLEAN, verified : BOOLEAN, visited : BOOLEAN,
   dexfetch : BOOLEAN]
\* visited is kept for Posts only, where it matters.

\* stage: not opened (no name), being written, closed.
CacStates == [url : Urls \ Posts, stage : {"new", "open", "closed"}, filled : BOOLEAN,
              expires : {"never", "later", "past"}]

TypeOK ==
  /\ url \in [Urls -> UrlStates]
  /\ DOMAIN cac \subseteq Cacs /\ cac \in [DOMAIN cac -> CacStates]
  /\ Range(lru) = DOMAIN cac /\ Len(lru) = Cardinality(DOMAIN cac)
  /\ prefs \in Prefs
  /\ loads \in 0 .. MaxLoads /\ failures \in 0 .. MaxFailures

\* A url that nothing is known of.
Blank ==
  [fetch |-> "none", rfetch |-> "none", vfetch |-> "none", flags |-> {},
   source |-> "none", ssource |-> FALSE, dsource |-> FALSE,
   cache |-> NoCac, ocache |-> NoCac, vcache |-> NoCac,
   movedto |-> NoUrl, tempmoved |-> FALSE, verified |-> FALSE,
   visited |-> FALSE, dexfetch |-> FALSE]

\* The registry brings back urls with a page and what they are moved to; the
\* i-th of them has cache object i.
Init ==
  /\ \E kept \in UNION {[1 .. n -> Kept] : n \in 0 .. MaxDisk},
        movedto \in [Urls -> Urls \cup {NoUrl}], temp \in SUBSET Urls :
       LET nr(u) == CHOOSE i \in DOMAIN kept : kept[i] = u
       IN  /\ IsInjective(kept)
           /\ \A u \in Urls : movedto[u] # NoUrl => u \in Range(kept)
           /\ \A u \in temp : movedto[u] # NoUrl
           /\ url = [u \in Urls |->
                IF u \notin Range(kept) THEN Blank
                ELSE [Blank EXCEPT !.cache = nr(u), !.movedto = movedto[u],
                                   !.tempmoved = u \in temp]]
           /\ cac = [i \in DOMAIN kept |->
                      [url |-> kept[i], stage |-> "closed", filled |-> TRUE,
                       expires |-> "never"]]
           /\ lru = [i \in DOMAIN kept |-> i]
  /\ prefs \in Prefs
  /\ loads = 0 /\ failures = 0

World == [url |-> url, cac |-> cac, lru |-> lru]

Loading(m, u) == \E t \in {"fetch", "rfetch", "vfetch"} : m.url[u][t] # "none"

-----------------------------------------------------------------------------
(* Cache objects.                                                          *)

\* Slip: the object stays in the list.
ForgetLinked(m, gone) == [m EXCEPT !.cac = Restrict(@, DOMAIN @ \ gone)]
Forget(m, gone) ==
  [m EXCEPT !.cac = Restrict(@, DOMAIN @ \ gone),
            !.lru = Without(@, gone)]

Clearobject(m, u, f) ==
  Forget([m EXCEPT !.url[u][f] = NoCac], {m.url[u][f]})

Cacheable(u) == u \notin Posts

\* Names for a new object; all objects are in the list.
Free(m) == (1 .. Len(m.lru) + 1) \ DOMAIN m.cac

Newcache(m, u, f) ==
  LET c == CHOOSE x \in Free(m) : \A y \in Free(m) : x <= y
      new == [url |-> u, stage |-> "new", filled |-> FALSE,
              expires |-> "never"]
  IN  IF ~Cacheable(u) THEN m
      ELSE [m EXCEPT !.url[u][f] = c, !.lru = Append(@, c),
             !.cac = [x \in DOMAIN m.cac \cup {c} |->
                        IF x = c THEN new ELSE m.cac[x]]]

Disk(m) == Cardinality({c \in DOMAIN m.cac : m.cac[c].filled})

\* The url of each of the first n objects of the list deletes its cache.
FlushFirst(m, n) ==
  LET us == {m.cac[m.lru[i]].url : i \in 1 .. n}
      gone == {m.url[u].cache : u \in us}
  IN  Forget([m EXCEPT !.url = [u \in Urls |->
                 IF u \in us THEN [@[u] EXCEPT !.cache = NoCac] ELSE @[u]]],
             gone)

Flushexcess(m) ==
  LET enough == {n \in 0 .. Len(m.lru) : Disk(FlushFirst(m, n)) <= MaxDisk}
      last == IF enough = {} THEN Len(m.lru)
              ELSE CHOOSE n \in enough : \A k \in enough : n <= k
  IN  FlushFirst(m, last)

\* Data or the end of it for a cache object; `big': more than CHKAFTER bytes
\* came since the last flush.
CacheData(m, c, big) ==
  LET n == IF m.cac[c].stage = "closed" THEN m
           ELSE [m EXCEPT !.cac[c].stage = "open", !.cac[c].filled = TRUE]
  IN  IF n # m /\ big THEN Flushexcess(n) ELSE n

CacheEof(m, c) ==
  IF m.cac[c].stage = "closed" THEN m
  ELSE Flushexcess([m EXCEPT !.cac[c].stage = "closed"])

-----------------------------------------------------------------------------
(* Redirections.                                                           *)

Expired(m, u) ==
  m.url[u].cache # NoCac /\ m.cac[m.url[u].cache].expires = "past"

\* The urls after 0 .. MaxHops steps along movedto.
Walk(m, u, Follow(_, _)) ==
  LET step == [v \in Urls |->
                 IF m.url[v].movedto # NoUrl /\ Follow(m, v)
                   THEN m.url[v].movedto ELSE v]
      at[i \in 0 .. MaxHops] == IF i = 0 THEN u ELSE step[at[i - 1]]
  IN  at

IsCached(m, u) == m.url[u].cache # NoCac /\ ~Expired(m, u)
Always(m, u) == TRUE

Finalurl(m, u) == Walk(m, u, IsCached)[MaxHops]

\* Slip: redirections are never seen to come back.
MovedtoloopNever(m, u) == FALSE
Movedtoloop(m, u) ==
  /\ m.url[u].movedto # NoUrl
  /\ \E n \in 1 .. MaxHops : Walk(m, u, Always)[n] = u

-----------------------------------------------------------------------------
(* Loading.                                                                *)

\* Settings hold for what is in the cache.
Fastresponse(m, u) ==
  m.url[u].cache # NoCac => ~m.url[u].dexfetch /\ prefs.fast

Caverify(m, u) == IF m.url[u].cache = NoCac THEN "always" ELSE prefs.caverify

Validate(m, u, k) ==
  \/ "verify" \in k
  \/ /\ ~(m.url[u].cache # NoCac /\ m.cac[m.url[u].cache].expires = "later")
     /\ Caverify(m, u) = "always"
  \/ ~m.url[u].verified /\ Caverify(m, u) # "never"

\* The source has a driver.
HasDriver(m, u) == m.url[u].source \in {"filling", "full"}

\* The decision table: what a load of the idle url u does.
Decide(m, u, k, csrc, ccac) ==
  LET from == IF ccac THEN {"rfetch"} ELSE {"fetch"}
      shown == IF csrc THEN {} ELSE {"new"} \cup from
  IN  IF "download" \in k THEN {"save"} \cup from
      ELSE IF "docext" \in k THEN {"docext"} \cup from
      ELSE IF "history" \in k THEN shown
      ELSE IF "ifinmem" \in k THEN {}
      ELSE IF ~csrc /\ ~ccac THEN {"new", "fetch"}
      ELSE IF ~Validate(m, u, k) THEN shown
      ELSE IF ~Fastresponse(m, u)
             THEN (IF csrc THEN {} ELSE {"new"}) \cup {"vfetch"}
      ELSE shown \cup {"vfetch"}

\* What a reload breaks off.
BrokenOff(r) ==
  [r EXCEPT !.fetch = "none", !.rfetch = "none", !.vfetch = "none",
            !.flags = {}, !.dsource = FALSE,
            !.ocache = r.cache, !.cache = NoCac,
            !.movedto = NoUrl, !.tempmoved = FALSE]
Reset(m, u) ==
  LET n == Clearobject(Clearobject(m, u, "vcache"), u, "ocache")
  IN  [n EXCEPT !.url[u] = BrokenOff(@)]

\* A temporary redirection is followed once.
Untempmoved(m, u) ==
  IF ~m.url[u].tempmoved THEN m
  ELSE [Clearobject(m, m.url[u].movedto, "cache") EXCEPT
          !.url[u].movedto = NoUrl, !.url[u].tempmoved = FALSE]

\* A POST is not verified, and not sent again once it was answered.
Answered(m, u) == u \in Posts /\ m.url[u].visited

StartRfetch(m, u, ok) ==
  LET c == m.url[u].cache
      n == [m EXCEPT !.lru = Append(Without(@, {c}), c)]
  IN  IF ok /\ m.cac[c].stage # "new"
        THEN [n EXCEPT !.url[u].rfetch = "ask"] ELSE n

StartFetch(m, u, k, ok) ==
  IF Answered(m, u) THEN [m EXCEPT !.url[u].source =
                            IF @ = "none" THEN @ ELSE "full"]
  ELSE IF ~ok THEN m
  ELSE LET n == [m EXCEPT !.url[u].fetch = "ask", !.url[u].flags = k]
       IN  IF "download" \in k THEN n ELSE Newcache(n, u, "cache")

StartVfetch(m, u, k, ok) ==
  IF Answered(m, u) \/ ~ok THEN m
  ELSE Newcache([m EXCEPT !.url[u].vfetch = "ask", !.url[u].flags = k],
                u, "vcache")

\* The actions inferred from the table, in the order of the code.
Perform(m, u, k, acts, ok) ==
  LET sources ==
        [m EXCEPT
           !.url[u].ssource = (@ /\ Loading(m, u)) \/ "save" \in acts,
           !.url[u].dsource = @ \/ "docext" \in acts,
           !.url[u].source = IF "new" \in acts THEN "empty" ELSE @]
      read == IF "rfetch" \in acts THEN StartRfetch(sources, u, ok)
              ELSE sources
      asked == IF "fetch" \in acts THEN StartFetch(read, u, k, ok) ELSE read
      checked == IF "vfetch" \in acts THEN StartVfetch(asked, u, k, ok)
                 ELSE asked
  IN  IF acts \cap {"fetch", "rfetch"} = {} THEN checked
      ELSE [checked EXCEPT !.url[u].dexfetch = "docext" \in acts]

Idle(m, u, k, ok) ==
  LET old == Expired(m, u) /\ "history" \notin k
      n == IF old THEN Clearobject(m, u, "cache") ELSE m
      csrc == HasDriver(n, u) /\ ~old
  IN  Perform(n, u, k, Decide(n, u, k, csrc, IsCached(n, u)), ok)

Loadurl(m, u, k, ok) ==
  IF "reload" \in k
    THEN Perform(Reset(m, u), u, k,
                 {"fetch"} \cup
                 (IF "download" \in k THEN {"save"}
                  ELSE IF "docext" \in k THEN {"docext"} ELSE {"new"}), ok)
    ELSE LET n == Untempmoved(m, u)
             v == Finalurl(n, u)
         IN  IF Loading(n, v) THEN n ELSE Idle(n, v, k, ok)

\* The source that shows u is made if need be, and has copies from now on if
\* `as' is "empty".
Urlsource(m, u, as) ==
  LET v == Finalurl(m, u)
  IN  [m EXCEPT !.url[v].source = IF @ \in {"none", "unused"} THEN as ELSE @]

\* A redirection of u's fetch: what waits for u waits for v from now on, and
\* v is loaded like u was, unless v leads back to u.
Moveurl(m, u, v, temp, ok) ==
  LET n == [m EXCEPT !.url[u].movedto = v]
      seen == CASE m.url[u].source = "none" -> n
                [] m.url[u].source = "unused" -> Urlsource(n, v, "unused")
                [] OTHER -> Urlsource(n, v, "empty")
      left == [seen EXCEPT !.url[u].tempmoved = temp, !.url[u].source = "none"]
      there == Loadurl(left, v, m.url[u].flags, ok)
  IN  IF Movedtoloop(n, u) THEN n
      ELSE [there EXCEPT !.url[u].ssource = FALSE, !.url[u].dsource = FALSE]

-----------------------------------------------------------------------------
(* Updates.                                                                *)

\* Slip: the end of a transfer without data is not passed on.
FeedUnended(source, data, eof) ==
  IF data THEN "filling" ELSE IF eof /\ source = "filling" THEN "full"
  ELSE source
Feed(source, data, eof) ==
  LET fed == IF data THEN "filling" ELSE source
  IN  IF ~eof THEN fed ELSE IF fed \in {"filling", "full"} THEN "full"
      ELSE "ended"

\* What an update of transfer t brings to the objects it fills.  A save
\* source that gets its first data drops the cached copy.
Pass(m, u, t, data, eof, big) ==
  LET c == m.url[u].cache
      saved == IF m.url[u].ssource /\ data /\ t = "fetch"
                 THEN Clearobject(m, u, "cache") ELSE m
      kept == IF m.url[u].ssource \/ t # "fetch" \/ c = NoCac THEN saved
              ELSE IF data THEN CacheData(m, c, big)
              ELSE IF eof THEN CacheEof(m, c) ELSE m
      v == Finalurl(kept, u)
  IN  IF \/ m.url[u].ssource \/ m.url[u].dexfetch
         \/ m.url[u].source = "none" /\ m.url[u].movedto # NoUrl
        THEN kept
        ELSE [kept EXCEPT !.url[v].source =
                Feed(IF @ = "none" THEN "unused" ELSE @, data, eof)]

\* An error response is not cached, the page that a reload put aside is back.
\* Slips: it is not put back; it is put back and still put aside.
RestoreNot(m, u) ==
  LET n == Clearobject(m, u, "cache") IN [n EXCEPT !.url[u].ocache = NoCac]
RestoreShared(m, u) ==
  LET n == Clearobject(m, u, "cache")
  IN  [n EXCEPT !.url[u].cache = n.url[u].ocache]
Restore(m, u) ==
  LET n == Clearobject(m, u, "cache")
  IN  [n EXCEPT !.url[u].cache = n.url[u].ocache, !.url[u].ocache = NoCac]

\* The response to a verification is a new page: it becomes the plain fetch.
\* Slip: a transfer from the cache goes on.
PromoteBesides(m, u) ==
  LET n == Clearobject(m, u, "cache")
  IN  [n EXCEPT !.url[u].fetch = "ask", !.url[u].vfetch = "none",
                !.url[u].cache = n.url[u].vcache, !.url[u].vcache = NoCac,
                !.url[u].source = "empty", !.url[u].verified = TRUE]
Promote(m, u) ==
  LET n == Clearobject(m, u, "cache")
  IN  [n EXCEPT !.url[u].fetch = "ask", !.url[u].vfetch = "none",
                !.url[u].rfetch = "none",
                !.url[u].cache = n.url[u].vcache, !.url[u].vcache = NoCac,
                !.url[u].source = "empty", !.url[u].verified = TRUE]

\* No new page.  Unless the old one was shown at once it is loaded now.
\* Slip: it is not.
NotmodifiedUnread(m, u, ok) ==
  [Clearobject(m, u, "vcache") EXCEPT !.url[u].vfetch = "none",
                                      !.url[u].flags = {},
                                      !.url[u].verified = TRUE]
Notmodified(m, u, ok) ==
  LET n == [Clearobject(m, u, "vcache") EXCEPT !.url[u].vfetch = "none",
                                               !.url[u].flags = {},
                                               !.url[u].verified = TRUE]
  IN  IF Fastresponse(n, u) THEN n ELSE Loadurl(n, u, {"history"}, ok)

Terminate(m, u) ==
  [Clearobject(m, u, "ocache") EXCEPT
     !.url[u].fetch = "none", !.url[u].rfetch = "none",
     !.url[u].flags = IF m.url[u].vfetch = "none" THEN {} ELSE @,
     !.url[u].verified = TRUE]

-----------------------------------------------------------------------------
(* Actions.                                                                *)

Become(m) == \E n \in {m} : url' = n.url /\ cac' = n.cac /\ lru' = n.lru

\* A handler that may start a transfer: ~ok if its subtask cannot be made.
Handle(ok, Result(_)) ==
  /\ Become(Result(ok))
  /\ ~ok => failures < MaxFailures /\ Result(FALSE) # Result(TRUE)
  /\ failures' = IF ok THEN failures ELSE failures + 1

\* A window or image shows u: it has the source first and loads then, but
\* a reload goes before (a url that was moved has its own source again).  Or a
\* link is saved, or a style sheet or script is wanted.
Load(u, k, ok) ==
  LET Loaded(started) ==
        IF k \cap {"download", "docext"} # {}
          THEN Loadurl(World, u, k, started)
        ELSE IF "reload" \in k
          THEN Urlsource(Loadurl(World, u, k, started), u, "empty")
        ELSE Loadurl(Urlsource(World, u, "empty"), u, k, started)
  IN  /\ loads < MaxLoads /\ loads' = loads + 1
      /\ Handle(ok, Loaded)
      /\ UNCHANGED prefs

Updates == UNCHANGED <<prefs, loads>>

\* The world in which an update of transfer t with a body is passed on.
Promoted(u, t) == IF t = "vfetch" THEN Promote(World, u) ELSE World
Plain(t) == IF t = "vfetch" THEN "fetch" ELSE t

Data(u, t, big) ==
  LET m == Promoted(u, t)
      n == [m EXCEPT !.url[u].fetch = IF @ = "ask" THEN "data" ELSE @,
                     !.url[u].visited = u \in Posts]
  IN  /\ url[u][t] # "none"
      /\ Become(Pass(n, u, Plain(t), TRUE, FALSE, big))
      /\ UNCHANGED failures /\ Updates

\* With the message of a POST kept, the new address gets a url object of its
\* own each time, whatever is known of the address already (Findurl).  One that
\* nothing refers to any more takes the name of the new one.
Fresh(v) == /\ v \in Posts /\ url[v].source = "none" /\ ~Loading(World, v)
            /\ \A w \in Urls : url[w].movedto # v
Target(m, v) == IF v \in Posts THEN [m EXCEPT !.url[v] = Blank] ELSE m

Redirected(u, t, v, temp, ok) ==
  LET n == Moveurl(Target(Promoted(u, t), v), u, v, temp, ok)
  IN  Pass([n EXCEPT !.url[u].fetch = IF @ = "ask" THEN "moved" ELSE @,
                     !.url[u].visited = u \in Posts],
           u, "fetch", FALSE, FALSE, FALSE)

Moved(u, t, v, temp, ok) ==
  LET Result(started) == Redirected(u, t, v, temp, started)
  IN  /\ url[u][t] = "ask"
      /\ v \in Posts => u \in Posts /\ Fresh(v)
      /\ Handle(ok, Result) /\ Updates

Error(u, t) ==
  /\ url[u][t] \in {"ask", "data"}
  /\ Become(Pass(IF t = "fetch" THEN Restore(World, u) ELSE World,
                 u, t, FALSE, FALSE, FALSE))
  /\ UNCHANGED failures /\ Updates

\* A verification ends, or reports an error, without a new page.
Unmodified(u, ok) ==
  LET Result(started) == Notmodified(World, u, started)
  IN  url[u].vfetch # "none" /\ Handle(ok, Result) /\ Updates

\* The next part of a multipart response, or a retry of an incomplete one.
Reload(u) ==
  LET n == Clearobject(World, u, "cache")
      m == [n EXCEPT !.url[u].fetch = "ask", !.url[u].source =
              IF url[u].ssource \/ url[u].dsource THEN @ ELSE "empty"]
  IN  /\ url[u].fetch = "data"
      /\ Become(Pass(Newcache(m, u, "cache"), u, "fetch", FALSE, FALSE, FALSE))
      /\ UNCHANGED failures /\ Updates

\* The response must not be cached.  A verification does not look at that.
Nocache(u) ==
  /\ url[u].fetch = "ask"
  /\ Become(Pass(Clearobject(World, u, "cache"), u, "fetch",
                 FALSE, FALSE, FALSE))
  /\ UNCHANGED failures /\ Updates

Expires(u, t, when) ==
  LET c == IF t = "fetch" THEN url[u].cache ELSE url[u].vcache
  IN  /\ url[u][t] = "ask" /\ u \in Expiring /\ c # NoCac
      /\ ~(t = "fetch" /\ url[u].ssource)
      /\ Become([World EXCEPT !.cac[c].expires = when])
      /\ UNCHANGED failures /\ Updates

\* The final update; `err': with an error, after an incomplete transfer.
End(u, t, err) ==
  LET m == IF err /\ t = "fetch" THEN Restore(World, u) ELSE World
  IN  /\ url[u][t] # "none"
      /\ err => url[u][t] = "data"
      /\ \E n \in {Terminate(m, u)} :
           Become(Pass(n, u, t, FALSE, TRUE, FALSE))
      /\ UNCHANGED failures /\ Updates

\* The cache browser, the menus and ARexx.
Deletecache(u) ==
  /\ url[u].cache # NoCac
  /\ Become(Clearobject(World, u, "cache"))
  /\ UNCHANGED failures /\ Updates

\* Memory is short, or ARexx.  A source that is being fed is flushed as well: its
\* copies wait for a new driver, which the next data brings.
Flushsource(u) ==
  /\ HasDriver(World, u)
  /\ Become([World EXCEPT !.url[u].source =
                            IF @ = "full" THEN "ended" ELSE "empty"])
  /\ UNCHANGED failures /\ Updates

\* Time passes.
Expire(c) ==
  /\ cac[c].expires = "later"
  /\ Become([World EXCEPT !.cac[c].expires = "past"])
  /\ UNCHANGED failures /\ Updates

Next ==
  \/ \E u \in Urls, k \in Loads, ok \in BOOLEAN : Load(u, k, ok)
  \/ \E u \in Urls, t \in {"fetch", "rfetch", "vfetch"}, big \in BOOLEAN :
       Data(u, t, big)
  \/ \E u \in Urls, t \in {"fetch", "rfetch"} :
       Error(u, t) \/ \E err \in BOOLEAN : End(u, t, err)
  \/ \E u \in Urls, t \in {"fetch", "vfetch"} :
       \/ \E v \in Urls, temp, ok \in BOOLEAN : Moved(u, t, v, temp, ok)
       \/ \E when \in {"later", "past"} : Expires(u, t, when)
  \/ \E u \in Urls, ok \in BOOLEAN : Unmodified(u, ok)
  \/ \E u \in Urls : Nocache(u) \/ Reload(u) \/ Deletecache(u) \/ Flushsource(u)
  \/ \E c \in DOMAIN cac : Expire(c)

Spec == Init /\ [][Next]_vars

\* The final update of a transfer.
Ends ==
  \E u \in Urls :
    /\ url'[u].fetch = "none" /\ url'[u].rfetch = "none"
    /\ \E t \in {"fetch", "rfetch", "vfetch"} :
         url[u][t] # "none" /\ url'[u][t] = "none"

\* Every transfer ends (Fetch), so that as long as there are some one ends: the
\* weak fairness of these ends, which can be taken as long as one is loading.
FairSpec == Spec /\ ([]<>(\A u \in Urls : ~Loading(World, u)) \/ []<><<Ends>>_vars)

-----------------------------------------------------------------------------
(* Properties.                                                             *)

\* Of the transfers of a url the plain fetch is alone.  A final update clears
\* url->fetch and url->rfetch both (url.c:1023), so that a second transfer
\* beside it would be forgotten while it runs, and its updates lost.  Loads,
\* reloads, redirections and the promotion of a verification (url.c:871) all
\* start transfers; none may do so beside a plain one.
OneTransfer ==
  \A u \in Urls : url[u].fetch # "none" =>
                    url[u].rfetch = "none" /\ url[u].vfetch = "none"

Pointers == Urls \X {"cache", "ocache", "vcache"}

\* A url object's pointers to its cached page, to the page a reload put aside
\* and to the page of a verification never share a cache object, never hold
\* one of another url, and never one that is gone: every one of them is
\* disposed through its pointer (Clearobject, url.c:272), some by the flush
\* that a write to another url's object starts (cache.c:969).
OneOwner ==
  \A p \in Pointers : LET c == url[p[1]][p[2]] IN c # NoCac =>
    /\ c \in DOMAIN cac /\ cac[c].url = p[1]
    /\ \A q \in Pointers \ {p} : url[q[1]][q[2]] # c

\* No cache object is without a url that points to it: nobody could delete
\* its file, or it from the list, before AWeb ends.  There is one way to lose
\* one: a load from the history of an expired page, which is not read from
\* the cache but not removed either (url.c:559), puts a new object in its
\* place (url.c:682).
NoOrphans ==
  \A c \in DOMAIN cac :
    \/ \E p \in Pointers : url[p[1]][p[2]] = c
    \/ cac[c].expires = "past"

\* A transfer brings u's source data, or its end.  A verification may end
\* without a page, and the copy in the cache is read then only if the response
\* to the load was slow (url.c:908).
Awaited(m, u) ==
  \/ m.url[u].fetch # "none" \/ m.url[u].rfetch # "none"
  \/ m.url[u].vfetch # "none" /\ ~Fastresponse(m, u)

\* u has a source that waits for data, and nothing is sure to bring any.
Stuck(u) == url[u].source = "empty" /\ ~Awaited(World, u)

\* u's transfer ends.
Ended(u) == \E t \in {"fetch", "rfetch"} : url[u][t] # "none" /\ url'[u][t] = "none"

\* The cases in which url.c leaves a view of u without a transfer.
Excused(u) ==
  \* A transfer could not be started.
  \/ failures' # failures
  \* The transfer that the view joined ends; its data went to a file or to a
  \* style sheet only (url.c:1047), or, in a loop of redirections, to the url
  \* that they lead to from u (1050).
  \/ /\ Ended(u)
     /\ url[u].ssource \/ url[u].dexfetch \/ Finalurl(World, u)' # u
  \* A slow verification ends, and what is loaded then is the url that a loop
  \* of redirections leads to from u (524).
  \/ url[u].vfetch # "none" /\ url'[u].vfetch = "none" /\ Finalurl(World, u) # u
  \* The copy in the cache that a slow verification waits for is deleted or
  \* flushed: with none, the response counts as fast (421).
  \/ url[u].vfetch # "none" /\ url[u].cache # NoCac /\ url'[u].cache = NoCac
  \* A load drops a temporary redirection (515) after the view was given the
  \* source that it led to, which frame.c:1148 avoids for reloads only.
  \/ \E v \in Urls : /\ u = Finalurl(World, v)
                     /\ url[v].tempmoved /\ url'[v].movedto = NoUrl
  \* A reload is redirected to a page v that was a redirection itself: the view
  \* is given the source that it led to (832) before v is reloaded too (842).
  \/ \E v, w \in Urls :
       /\ "reload" \in url[w].flags /\ url'[w].movedto = v
       /\ u = Finalurl(World, v)
       /\ url[v].movedto # NoUrl /\ url'[v].movedto = NoUrl
  \* The page is loaded from a cache object that has no file, one that the next
  \* part of a download made (1000).
  \/ /\ url[u].fetch = "none" /\ url[u].cache # NoCac
     /\ cac[url[u].cache].stage = "new"
  \* The load was only for what is in memory.
  \/ \E v \in Urls, k \in Loads :
       "ifinmem" \in k /\ u = Finalurl(World, v) /\ Load(v, k, TRUE)
  \* What came of a page is flushed after its transfer was broken off by a
  \* reload to a file (493), or ended like in the second case.
  \/ Flushsource(u)

\* A view that waits for a page is not left without a transfer that brings
\* the page or at least its end, in any order of loads, reloads, ends,
\* redirections, verifications and flushes, but for the cases above.
StuckHasReason ==
  [][\A u \in Urls : Stuck(u)' /\ ~Stuck(u) => Excused(u)]_vars

\* u is redirected with the message of its POST kept.
KeepsPost ==
  \E u \in Urls, v \in Posts : url[u].movedto # v /\ url'[u].movedto = v

\* After the last load by a window all transfers come to an end, although a
\* redirection and the end of a slow verification start others, unless POSTs are
\* redirected with their messages again and again.  Other redirections that
\* lead back to a url they came from are not loaded (Movedtoloop), also when
\* the first was temporary, or reloaded.  One that keeps the message makes a
\* new url each time (url.c:828), and nothing ever stops a chain of them.
RedirectionsEnd ==
  []<><<KeepsPost>>_vars \/ <>[](\A u \in Urls : ~Loading(World, u))
=============================================================================
