------------------------------ MODULE Registry ------------------------------
(***************************************************************************)
(* The registration of the disk cache, of aweb/cache.c, with crashes.      *)
(*                                                                         *)
(* A cached page is a numbered data file.  What the files are is kept in a *)
(* registration: AWCU, to which every addition and deletion is appended,   *)
(* and which every NRCHKPT entries is replaced by a fresh AWCR: write AWCR, *)
(* delete AWCU, rename AWCR.  A regular exit leaves only AWCR; a start     *)
(* that finds AWCU knows that there was a crash.                           *)
(*                                                                         *)
(* The main task runs all of it.  A handler is a sequence of operations,   *)
(* `job', of which each changes one file or disposes one object: a crash   *)
(* may come between any two of them and leaves only the disk, and a        *)
(* checkpoint in the middle of a handler sees the memory half changed.     *)
(* A crash may also cut the write of an entry short, and so may a full     *)
(* disk.  The next start reads what is before such a piece and reports the *)
(* registration as corrupt; what a session appends behind it is lost, or   *)
(* mixed up with it.                                                       *)
(***************************************************************************)
EXTENDS Naturals, SequencesExt

CONSTANTS Urls,          \* the address strings
          Expiring,      \* those whose pages expire before the next start
          MaxNr,         \* bound on the numbers of the data files
          Nrchkpt,       \* NRCHKPT
          MaxFailures    \* bound on failed writes of AWCU and AWCR

ASSUME RegistryAssumption ==
  /\ Expiring \subseteq Urls
  /\ MaxNr \in Nat \ {0} /\ Nrchkpt \in Nat /\ MaxFailures \in Nat

VARIABLES
  awcu, awcr,   \* the two registration files
  file,         \* the data files AWCDxx/nr
  up,           \* AWeb runs
  cac,          \* LIST(Cache) cache, without its order
  objects,      \* how many url objects there are for a string
  cachenr,      \* the last number given
  nradded,      \* entries appended since the checkpoint
  job,          \* what the main task still does to the disk
  failures

disk == <<awcu, awcr, file>>
memory == <<up, cac, objects, cachenr, nradded>>
vars == <<disk, memory, job, failures>>

-----------------------------------------------------------------------------
Numbers == 1 .. MaxNr

Entry(del, c) == [del |-> del, url |-> c.url, nr |-> c.nr]
Entries == [del : BOOLEAN, url : Urls, nr : Numbers]

\* What is behind the entries that can be read: nothing; the beginning of an
\* entry; or bytes from which no reading finds its way.  Mixed: nothing, but an
\* entry among them was read across the end of such a piece.
NoPiece == [piece |-> "none"]
Garbled == [piece |-> "garbled"]
Mixed == [piece |-> "mixed"]
Pieces == Entries \cup {NoPiece, Garbled, Mixed}

NoFile == [is |-> "absent"]
Torn == [is |-> "torn"]     \* no header: opened for writing and not closed yet
Whole(n, s) ==
  [is |-> "readable", lastnr |-> n, entries |-> s, piece |-> NoPiece]

\* struct Cache.  Registrations may name an address twice, so an address may
\* have several url objects; the last one made, number objects[url], is the
\* one Findurl finds.  `held': the cac is its url's url->cache; if not it is
\* the url's ocache, replaced by a reload that is going on.
Caches == [url : Urls, obj : Nat \ {0}, nr : Numbers,
           stage : {"new", "open", "closed"}, held : BOOLEAN]

Step(do) == [do |-> do]
Steps == [do : {"open", "close", "purge", "discard", "rename", "create",
                "header", "exit"}]
         \cup [do : {"unlink"}, nr : Numbers]
         \cup [do : {"append"}, entry : Entries]
         \cup [do : {"dispose"}, cac : Caches]
         \cup [do : {"new", "eof", "restore"}, url : Urls]

IsRegistry(r) ==
  \/ r \in {NoFile, Torn}
  \/ r \in [is : {"readable"}, lastnr : 0 .. MaxNr, entries : Seq(Entries),
             piece : Pieces]

TypeOK ==
  /\ IsRegistry(awcu) /\ IsRegistry(awcr)
  /\ awcr.is = "readable" => awcr.piece = NoPiece  \* only AWCU is appended to
  /\ file \in [Numbers -> {"none", "part", "whole"}]
  /\ up \in BOOLEAN
  /\ cac \subseteq Caches
  /\ objects \in [Urls -> Nat]
  /\ cachenr \in 0 .. MaxNr
  /\ nradded \in 0 .. Nrchkpt
  /\ job \in Seq(Steps)
  /\ failures \in 0 .. MaxFailures

\* No session yet: the cache drawer is empty.
Init ==
  /\ awcu = NoFile /\ awcr = NoFile
  /\ file = [n \in Numbers |-> "none"]
  /\ up = FALSE /\ cac = {} /\ cachenr = 0 /\ nradded = 0
  /\ objects = [u \in Urls |-> 0]
  /\ job = << >> /\ failures = 0

-----------------------------------------------------------------------------
(* Reading a registration.                                                 *)

Empty == [cac |-> {}, objects |-> [u \in Urls |-> 0], cachenr |-> 0,
          gone |-> {}]

\* One entry.  An addition always makes a new url object, also if the page has
\* expired: then its file is deleted and its number forgotten.  A deletion goes
\* to the object Findurl finds, and only if that still holds this number.
\* Slips: any number is deleted; numbers of additions are not remembered.
KnownNot(nr, n) == nr
Known(nr, n) == IF nr < n THEN n ELSE nr

DeletesAnyNr(m, e, c) == c.url = e.url /\ c.obj = m.objects[e.url]
Deletes(m, e, c) == c.url = e.url /\ c.obj = m.objects[e.url] /\ c.nr = e.nr

Readentry(m, e) ==
  IF e.del
    THEN LET hit == {c \in m.cac : Deletes(m, e, c)}
         IN  [m EXCEPT !.cac = @ \ hit,
                       !.objects[e.url] = IF @ = 0 THEN 1 ELSE @,
                       !.gone = @ \cup {c.nr : c \in hit}]
  ELSE IF e.url \in Expiring
    THEN [m EXCEPT !.objects[e.url] = @ + 1, !.gone = @ \cup {e.nr}]
    ELSE [m EXCEPT !.cac = @ \cup
            {[url |-> e.url, obj |-> m.objects[e.url] + 1, nr |-> e.nr,
              stage |-> "closed", held |-> TRUE]},
          !.objects[e.url] = @ + 1,
          !.cachenr = Known(@, e.nr)]

Readcachereg(r) ==
  IF r.is # "readable" THEN Empty
  ELSE LET upto[i \in 0 .. Len(r.entries)] ==
             IF i = 0 THEN [Empty EXCEPT !.cachenr = r.lastnr]
             ELSE Readentry(upto[i - 1], r.entries[i])
       IN  upto[Len(r.entries)]

\* Readcachereg returns FALSE: there is no header (618), or the last bytes are
\* not an entry (654).  What it made of the entries before them stays.
Corrupt(r) ==
  r = Torn \/ (r.is = "readable" /\ r.piece \notin {NoPiece, Mixed})

\* The file a start would read now.
Registration == IF awcu # NoFile THEN awcu ELSE awcr

-----------------------------------------------------------------------------
(* What handlers are made of.                                              *)

\* Savecachereg and the rename that follows it.  Slip: AWCU goes first.
SaveEarly == <<Step("purge"), Step("open"), Step("close"), Step("rename")>>
Save == <<Step("open"), Step("close"), Step("rename")>>

Addregentry(del, c) == <<[do |-> "append", entry |-> Entry(del, c)]>>

\* The end of Disposecache.  A cac that has no file yet leaves no trace.
Disposecache(c) ==
  IF c.stage = "new" THEN << >>
  ELSE <<[do |-> "unlink", nr |-> c.nr]>> \o Addregentry(TRUE, c)

Clearobject(S) ==
  LET s == SetToSeq(S)
  IN  [i \in 1 .. Len(s) |-> [do |-> "dispose", cac |-> s[i]]]

For(do, u) == <<[do |-> do, url |-> u]>>

\* The cacs of the url object that loads use.
Mine(u) == {c \in cac : c.url = u /\ c.obj = objects[u]}
Held(u) == {c \in Mine(u) : c.held}
Replaced(u) == {c \in Mine(u) : ~c.held}

Ready == up /\ job = << >>

Start(steps) ==
  /\ job' = steps
  /\ UNCHANGED <<disk, memory, failures>>

-----------------------------------------------------------------------------
(* The session: loads, flushes, repairs.                                   *)

\* Loadurl fetches a document, possibly anew: url->ocache is disposed, and
\* then url->cache replaced.
Load(u) ==
  /\ Ready
  /\ cachenr < MaxNr
  /\ Start(Clearobject(Replaced(u)) \o For("new", u))

\* Srcupdatecache: the first data opens the file.
Data(u) ==
  /\ Ready
  /\ \E c \in Held(u) :
       /\ c.stage = "new"
       /\ cac' = (cac \ {c}) \cup {[c EXCEPT !.stage = "open"]}
       /\ file' = [file EXCEPT ![c.nr] = "part"]
  /\ UNCHANGED <<awcu, awcr, up, objects, cachenr, nradded, job, failures>>

\* The end of the data, with or without the end of the fetch.  The latter
\* (Srcupdatefetch) first disposes the cac that was replaced.
Eof(u, terminate) ==
  /\ Ready
  /\ \E c \in Held(u) : c.stage # "closed"
  /\ Start((IF terminate THEN Clearobject(Replaced(u)) ELSE << >>)
           \o For("eof", u))

\* The end of the fetch after the end of the data, or of a fetch that kept
\* nothing.
Terminate(u) ==
  /\ Ready
  /\ Replaced(u) # {} /\ \A c \in Held(u) : c.stage = "closed"
  /\ Start(Clearobject(Replaced(u)))

\* An error response is not cached; the replaced cac comes back.
Error(u) ==
  /\ Ready
  /\ \E c \in Held(u) : c.stage # "closed"
  /\ Start(Clearobject(Held(u)) \o For("restore", u))

\* AUMST_DELETECACHE, by Flushexcess or the cache browser.
Deletecache(c) ==
  /\ Ready
  /\ c.held
  /\ Start(Clearobject({c}))

\* Flushtype, of objects chosen by content type or address: their urls delete
\* what they hold, also if it is not what was chosen.
Flushtype(chosen) ==
  /\ Ready
  /\ Start(Clearobject({c \in cac :
        c.held /\ \E d \in chosen : d.url = c.url /\ d.obj = c.obj}))

\* The queued search for url objects with the same address: the older ones
\* lose their cac.
Older(u) == {c \in cac : c.url = u /\ c.obj < objects[u]}

Dupcheck(u) ==
  /\ Ready
  /\ Older(u) # {}
  /\ Start(Clearobject(Older(u)))

\* Dofixcache.  Every cac that has a name claims its file; of several with
\* one number one gets it.  A cac left without file has its url delete
\* whatever the url->cache is.  The user may break it off while directories
\* are searched, of which every number here has its own.
Named == {c \in cac : c.stage # "new"}

FileOwners ==
  {s \in SUBSET Named :
     \A n \in Numbers :
       LET claims == {c \in Named : c.nr = n}
       IN  IF file[n] = "none" \/ claims = {}
           THEN s \cap claims = {}
           ELSE \E c \in claims : s \cap claims = {c}}

Fixcachedir ==
  LET s == SetToSeq({n \in Numbers : /\ file[n] # "none"
                                    /\ \A c \in Named : c.nr # n})
  IN  [i \in DOMAIN s |-> [do |-> "unlink", nr |-> s[i]]]

Fixcache ==
  /\ Ready
  /\ \E owners \in FileOwners :
       LET bad == {c \in cac : /\ c.held
                               /\ \E d \in Named \ owners :
                                    d.url = c.url /\ d.obj = c.obj}
           search == <<Step("discard")>> \o Fixcachedir
       IN  \/ Start(search \o Clearobject(bad) \o Save)
           \/ \E n \in DOMAIN search : Start(SubSeq(search, 1, n))

-----------------------------------------------------------------------------
(* The steps of a handler.                                                 *)

Job(do) == up /\ job # << >> /\ Head(job).do = do

\* Disposecache: the object leaves the list.
Dispose ==
  /\ Job("dispose")
  /\ cac' = cac \ {Head(job).cac}
  /\ job' = Disposecache(Head(job).cac) \o Tail(job)
  /\ UNCHANGED <<disk, up, objects, cachenr, nradded, failures>>

\* Newcache: url->cache becomes url->ocache, and there is a new url->cache.
Newcache ==
  /\ Job("new")
  /\ LET u == Head(job).url
     IN  /\ cachenr' = cachenr + 1
         /\ objects' = [objects EXCEPT ![u] = IF @ = 0 THEN 1 ELSE @]
         /\ cac' = (cac \ Held(u)) \cup
                   {[c EXCEPT !.held = FALSE] : c \in Held(u)} \cup
                   {[url |-> u, obj |-> objects'[u], nr |-> cachenr',
                     stage |-> "new", held |-> TRUE]}
  /\ job' = Tail(job)
  /\ UNCHANGED <<disk, up, nradded, failures>>

\* Srcupdatecache at the end of the data.
Srcupdatecache ==
  /\ Job("eof")
  /\ \E c \in Held(Head(job).url) :
       /\ file' = [file EXCEPT ![c.nr] = "whole"]
       /\ cac' = (cac \ {c}) \cup {[c EXCEPT !.stage = "closed"]}
       /\ job' = Addregentry(FALSE, c) \o Tail(job)
  /\ UNCHANGED <<awcu, awcr, up, objects, cachenr, nradded, failures>>

Restore ==
  /\ Job("restore")
  /\ LET u == Head(job).url
     IN  cac' = (cac \ Replaced(u)) \cup
                {[c EXCEPT !.held = TRUE] : c \in Replaced(u)}
  /\ job' = Tail(job)
  /\ UNCHANGED <<disk, up, objects, cachenr, nradded, failures>>

\* What Savecachereg writes: every cac its url holds.
Snapshot ==
  LET s == SetToSeq({c \in cac : c.held})
  IN  Whole(cachenr, [i \in 1 .. Len(s) |-> Entry(FALSE, s[i])])

Unlink ==
  /\ Job("unlink")
  /\ file' = [file EXCEPT ![Head(job).nr] = "none"]
  /\ job' = Tail(job)
  /\ UNCHANGED <<awcu, awcr, memory, failures>>

\* Slip: the counter is not reset at the checkpoint.
CountedOn(n) == n + 1
Counted(n) == IF n + 1 > Nrchkpt THEN 0 ELSE n + 1

\* The bytes of e are put behind what r has.  A piece is read on into them: if
\* it ends before its strings do, the result is an entry with the number of
\* the piece and the url of e.
Appended(r, e) ==
  IF r.is # "readable" THEN {Torn}    \* a new AWCU has no header
  ELSE IF r.piece \in {NoPiece, Mixed}
    THEN {[r EXCEPT !.entries = Append(@, e)]}
  ELSE {[r EXCEPT !.piece = Garbled]} \cup
       IF r.piece = Garbled THEN {}
       ELSE {[r EXCEPT !.entries = Append(@, [e EXCEPT !.del = del,
                                                       !.nr = r.piece.nr]),
                       !.piece = Mixed] : del \in {FALSE, r.piece.del}}

\* Some of the bytes of e.
CutShort(r, e) ==
  IF r.is # "readable" THEN Torn
  ELSE [r EXCEPT !.piece = IF @ \in {NoPiece, Mixed} THEN e ELSE Garbled]

\* Addregentry does not look whether its entry could be written.
AppendEntry(ok) ==
  /\ Job("append")
  /\ IF ok THEN awcu' \in Appended(awcu, Head(job).entry) /\ UNCHANGED failures
     ELSE /\ failures < MaxFailures
          /\ failures' = failures + 1
          /\ awcu' \in {awcu, CutShort(awcu, Head(job).entry)}
  /\ nradded' = Counted(nradded)
  /\ job' = IF nradded + 1 > Nrchkpt THEN Save \o Tail(job) ELSE Tail(job)
  /\ UNCHANGED <<awcr, file, up, cac, objects, cachenr>>

OpenSave ==
  /\ Job("open")
  /\ awcr' = Torn
  /\ job' = Tail(job)
  /\ UNCHANGED <<awcu, file, memory, failures>>

\* AWCR is complete, and AWCU goes; or it is not, and AWCR goes.  Slip: AWCU
\* goes in any case.
VerdictAlways(ok) == "purge"
Verdict(ok) == IF ok THEN "purge" ELSE "discard"

CloseSave(ok) ==
  /\ Job("close")
  /\ IF ok THEN awcr' = Snapshot /\ UNCHANGED failures
     ELSE /\ failures < MaxFailures
          /\ failures' = failures + 1
          /\ UNCHANGED awcr
  /\ job' = <<Step(Verdict(ok))>> \o Tail(job)
  /\ UNCHANGED <<awcu, file, memory>>

Purge ==
  /\ Job("purge")
  /\ awcu' = NoFile
  /\ job' = Tail(job)
  /\ UNCHANGED <<awcr, file, memory, failures>>

Discard ==
  /\ Job("discard")
  /\ awcr' = NoFile
  /\ job' = Tail(job)
  /\ UNCHANGED <<awcu, file, memory, failures>>

\* Rename fails if there is nothing to rename or the new name exists.
Rename ==
  /\ Job("rename")
  /\ IF awcr # NoFile /\ awcu = NoFile
       THEN awcu' = awcr /\ awcr' = NoFile
       ELSE UNCHANGED <<awcu, awcr>>
  /\ job' = Tail(job)
  /\ UNCHANGED <<file, memory, failures>>

\* The header is in the buffer until the file is closed.
Createlog ==
  /\ Job("create")
  /\ awcu' = Torn
  /\ job' = <<Step("header")>> \o Tail(job)
  /\ UNCHANGED <<awcr, file, memory, failures>>

CloseLog ==
  /\ Job("header")
  /\ awcu' = Whole(cachenr, << >>)
  /\ job' = Tail(job)
  /\ UNCHANGED <<awcr, file, memory, failures>>

-----------------------------------------------------------------------------
(* Begin and end of a session.                                             *)

Forget ==
  /\ up' = FALSE /\ cac' = {} /\ cachenr' = 0 /\ nradded' = 0
  /\ objects' = [u \in Urls |-> 0]
  /\ job' = << >>

\* Slip: the log of the last session is gone on with.
RecoveryNot == IF awcu # NoFile THEN << >>
               ELSE IF awcr # NoFile THEN <<Step("rename")>>
               ELSE <<Step("create")>>
Recovery == IF awcu # NoFile THEN Save
            ELSE IF awcr # NoFile THEN <<Step("rename")>>
            ELSE <<Step("create")>>

\* If the registration was corrupt, a requester then offers a Fixcache.
Initcache ==
  /\ ~up
  /\ up' = TRUE
  /\ LET m == Readcachereg(Registration)
     IN  /\ cac' = m.cac /\ objects' = m.objects /\ cachenr' = m.cachenr
         /\ file' = [n \in Numbers |->
                       IF n \in m.gone THEN "none" ELSE file[n]]
  /\ job' = Recovery
  /\ UNCHANGED <<awcu, awcr, nradded, failures>>

\* Exitcache: only AWCR remains, and what it names is not deleted when the
\* objects are disposed.  Later updates are not registered.
Exitcache ==
  /\ Ready
  /\ job' = <<Step("open"), Step("close"), Step("exit")>>
  /\ UNCHANGED <<disk, memory, failures>>

Deinstallcache ==
  /\ Job("exit")
  /\ file' = [n \in Numbers |->
                IF \E c \in Named : c.nr = n /\ ~c.held THEN "none"
                ELSE file[n]]
  /\ Forget
  /\ UNCHANGED <<awcu, awcr, failures>>

\* The machine crashes or is turned off.
Crash == up /\ Forget /\ UNCHANGED <<disk, failures>>

\* While an entry is being written.
CrashAppending ==
  /\ Job("append")
  /\ awcu' = CutShort(awcu, Head(job).entry)
  /\ Forget
  /\ UNCHANGED <<awcr, file, failures>>

\* After the first n entries of the registration were read: the files of those
\* that had expired or were deleted are gone.
CrashReading ==
  /\ ~up
  /\ Registration.is = "readable"
  /\ \E n \in DOMAIN Registration.entries :
       LET read == [Registration EXCEPT !.entries = SubSeq(@, 1, n)]
           gone == Readcachereg(read).gone
       IN  file' = [nr \in Numbers |->
                      IF nr \in gone THEN "none" ELSE file[nr]]
  /\ UNCHANGED <<awcu, awcr, memory, job, failures>>

-----------------------------------------------------------------------------
Session ==
  \/ \E u \in Urls : \/ Load(u) \/ Data(u) \/ Terminate(u) \/ Error(u)
                     \/ Dupcheck(u)
                     \/ \E t \in BOOLEAN : Eof(u, t)
  \/ \E c \in cac : Deletecache(c)
  \/ \E chosen \in SUBSET cac \ {{}} : Flushtype(chosen)
  \/ Fixcache

Handler ==
  \/ Dispose \/ Newcache \/ Srcupdatecache \/ Restore

Disk == \/ Unlink \/ OpenSave \/ Purge \/ Discard \/ Rename
        \/ Createlog \/ CloseLog
        \/ \E ok \in BOOLEAN : AppendEntry(ok) \/ CloseSave(ok)

Crashes == Crash \/ CrashAppending \/ CrashReading

Next == Session \/ Handler \/ Disk \/ Initcache \/ Exitcache \/ Deinstallcache \/ Crashes

Spec == Init /\ [][Next]_vars

-----------------------------------------------------------------------------
(* Properties.                                                             *)

\* Whatever the moment of a crash or of a failed write, a start that could
\* read the header of a registration is never followed by one that cannot:
\* AWCU is deleted only when AWCR is complete, and nothing is appended to an
\* AWCU that does not exist.  Only the very first AWCU has none (Createlog).
StaysReadable ==
  [][Registration.is = "readable" => Registration'.is = "readable"]_vars

\* A session goes on with a registration that can be read to its end, also
\* after a crash cut an entry short: else what it appends would be lost, or
\* take a number that belongs to another page.  A write that fails makes it
\* otherwise, as nobody looks for that (cache.c:895, 1690).
NeverCorrupt ==
  Ready /\ Corrupt(awcu) => failures > 0

\* The documents a registration stands for: those added, and not deleted as
\* long as they were the last addition for their address.
Documents(r) ==
  IF r.is # "readable" THEN {}
  ELSE LET e == r.entries
           Deleted(i, j) == /\ e[j] = [e[i] EXCEPT !.del = TRUE]
                            /\ \A k \in i + 1 .. j - 1 :
                                 e[k].url = e[i].url => e[k].del
       IN  {<<e[i].url, e[i].nr>> : i \in
              {i \in DOMAIN e : /\ ~e[i].del
                                /\ \A j \in i + 1 .. Len(e) : ~Deleted(i, j)}}

Registered == Documents(Registration)

\* A start reads exactly those of these that have not expired, and knows every
\* number in use: entry by entry, with Findurl and the numbers, it makes the
\* same of a log as the log means.
ReadsWhatIsRegistered ==
  LET m == Readcachereg(Registration)
  IN  /\ {<<c.url, c.nr>> : c \in m.cac} =
           {r \in Registered : r[1] \notin Expiring}
      /\ \A c \in m.cac : c.nr <= m.cachenr

Complete(c) == c.held /\ c.stage = "closed"

\* Nobody else uses the number, or is about to delete its file or to complete
\* an entry that was cut short behind it.
Sole(c) ==
  /\ \A d \in cac : d.nr = c.nr => d = c
  /\ \A i \in DOMAIN job :
       /\ job[i].do = "append" => job[i].entry.nr # c.nr
       /\ job[i].do = "dispose" => job[i].cac.nr # c.nr
  /\ awcu.is = "readable" /\ awcu.piece \in Entries => awcu.piece.nr # c.nr

\* Once registered, a document that stays in the cache stays registered, at
\* every moment of every checkpoint, also when AWCR cannot be written, over
\* the deletion of others and while others are replaced, and over entries that
\* are cut short or mixed up.
StaysRegistered ==
  [][LET lost == Registered \ Registered'
     IN  \A c \in cac \cap cac' :
           Complete(c) /\ Sole(c) => <<c.url, c.nr>> \notin lost]_vars

\* A cac that is being written has its file for itself, also after crashes
\* that left files nobody registered: no number is given twice.  There are two
\* ways, both if the checkpoint at the start could not be written: the number
\* of an expired page is not remembered (cache.c:734), and its entry is still
\* there; and a number that was in an entry cut short is given again, before
\* that entry is read on into one of another address.
WritesOwnFile ==
  LET registered == Registered
  IN  \A c \in cac : c.stage # "closed"
                       => /\ \A d \in cac : d.nr = c.nr => d = c
                          /\ \A r \in registered : r[2] = c.nr =>
                               \/ r[1] = c.url
                               \/ /\ failures > 0
                                  /\ r[1] \in Expiring \/ Registration.piece # NoPiece

\* `The next time you start AWeb the cache will be recovered automatically':
\* a document that stays in the cache keeps its file.
KeepsItsFile ==
  [][\A c \in cac \cap cac' :
       Complete(c) /\ file[c.nr] = "whole"
         => file'[c.nr] = "whole"]_vars

=============================================================================
