# AWeb: a TLA+ verification project

AWeb is a web browser for the Amiga. One process, the *main task*, runs the
user interface, the documents and all objects; everything that may block (a
protocol driver, a hotlist window) is a *subtask* that talks to the main task by
Exec messages. This project models the two components all the others rely on
and three that are hard to test, checks them with TLC, and proves their safety
with TLAPS:

| module | what it is |
|---|---|
| `Fetch.tla` | the fetch scheduler, `aweb/fetch.c` |
| `FetchPool.tla` | what the scheduler promises; `Fetch` implements it |
| `Task.tla` | subtasks and their messages, `aweb/task.c` |
| `Url.tla` | the transfers of url objects and what they fill, `aweb/url.c` with `cache.c` and `frame.c` |
| `Registry.tla` | the registration of the disk cache over crashes, `aweb/cache.c` |
| `Hotlist.tla` | the hotlist and its two windows, `aweb/hotlist.c`, `aweblibs/hotlist/` |
| `MCFetch`, `MCTask`, `MCUrl`, `MCRegistry`, `MCHotlist` | small instances of them for TLC |
| `Lists.tla` | what removing nodes leaves of an Exec list, for Url and Hotlist |
| `QueueLemmas.tla` | lemmas about the sequence operators they use |
| `FetchProofs.tla` | the inductive invariant of the scheduler and its theorems, also about its queues and the scripts that wait; that it implements `FetchPool` |
| `TaskProofs.tla` | the inductive invariant of the subtasks and its theorems |
| `TaskWaits.tla` | theorems about the main task's waits: signals, disposals, what is awaited |
| `RegistryProofs.tla` | what a start reads in a registration of any length, the inductive invariant of the disk cache and its theorems |
| `UrlProofs.tla` | what every handler keeps of the urls and their cache objects, what it does to the views that wait, and its theorems |
| `HotlistProofs.tla` | the protocol between the main task and the hotlist's windows, and its theorems |
| `HotlistReverts.tla` | how nested requests to revert are answered, and its theorem |

Paths below are relative to `src/`. `PROJECT.json` maps every definition to its
source lines and lists the hazards and the properties that answer them.

## 1. Inventory

| component | state | operations | hard behaviour |
|---|---|---|---|
| **Fetch scheduler** `aweb/fetch.c` | lists `running`, `channels`, `netqueue`, `localqueue`, `waitrequests`; counters `nrnet`, `nrlocal`; per fetch its flags, task, lengths | Newfetch, Startdriver, Setfetch (cancel), Updatefetch, Disposefetch, Incompletereturn, Checkqueues, Addwaitrequest | a fetch frees itself while a url, a requester and a window know it; reentry from Checkqueues; slots at their limit; retry |
| **Subtasks** `aweb/task.c` | per task state, flags, ports, semaphores; `taskport`, `semaport` | Newtask, Starttask, Stoptask, Messagetask, Updatetask(attrs), Gettaskmsg, Replytaskmsg, Waitformsg, Processtask, Disposetask | two processes; nested waits that consume one another's signal; disposal from inside a handler |
| **Url** `aweb/url.c` | fetch, rfetch, vfetch, source, cache pointers, redirection | Loadurl, Moveurl, Srcupdatefetch, Srcupdatevfetch, Buildabsurl, Findurl | loads in any stage of other transfers; a flush in the middle of an update; verification; redirection loops |
| **Disk cache** `aweb/cache.c` | LRU list, size account, registry file AWCR/AWCU | Newcache, Srcupdatecache, Flushexcess, Addregentry, Savecachereg, Readcachereg, Fixcache | crash between registry steps; flush while iterating |
| **Cookie jar** `aweb/cookie.c` | cookie list, size account | Storecookie, Findcookies, Flushcookies | drivers add while the main task evicts |
| **Hotlist** `aweb/hotlist.c`, `aweblibs/hotlist/` | list under `hotsema`, two window subtasks | add, save, restore, close | semaphore against synchronous updates |
| **Event loop** `aweb/aweb.c` | signal mask, deferred messages | main loop, Waitprocessaweb | nested loops |
| **Timer, requesters** `aweb/timer.c`, `request.c` | list of pending ones | Processtimer, Processrequest | callbacks that change the list |
| **Names** `aweb/nameserv.c` | host table | Lookup | check, block, add |
| **Network status** `aweb/netstat.c` | a line per fetch | Addnetstat, Chgnetstat, Cancel | the list changes while walked |
| **Protocol drivers** `aweb/http.c`, `local.c`, `aweblibs/ftp` ... | a connection | one entry function each | I/O |
| **Sources, copies** `aweb/source.c`, `copy.c` | data of a url, server push | Srcupdate | stale fetch pointer |
| **Documents, frames, forms, windows, JavaScript, ARexx, settings** | see `PROJECT.json` | | user interface, text and layout |

How they interact: a window asks a *url* to load; the url creates a *fetch*
(`Newfetch`); the fetch creates a *task* with a driver as entry function; the
driver calls `Updatetaskattrs` and the message is delivered in the main task to
the fetch (`Updatefetch`), which forwards it to the url, and the url to its
source, cache and documents. Going the other way, cancel and dispose
end in `AOTSK_Stop` of the driver's task. The last update of a driver carries
`AOURL_Terminate`. Its handler disposes the task, restarts queued fetches,
forwards the update and frees the fetch.

What makes each component correct:

* Fetch: slots are counted exactly and never exceeded; queues keep their
  priority and are never abandoned; every fetch is continued by somebody and is
  freed in the end; nobody keeps a pointer to a freed one.
* Task: no lost wakeups, no lost or twice freed messages, no mutual waiting, a
  freed task is really gone.
* Url: a plain transfer is alone; every cached page has one owner; a view that
  waits has a transfer that will end its wait, but for the listed reasons; redirections
  end, but for those that keep the message of a POST.
* Cache: after any crash a start finds a registration that it can read up to an
  entry that the crash cut short, that names the pages that are in the cache, and
  whose numbers nobody uses twice.
* Cookies: the size account agrees with the list; a lookup returns what
  matches.
* Hotlist: no edit is lost, no window goes on with a list that is gone, and no
  cycle of waits between `hotsema` and synchronous updates.

## 2. Plan

Done, in this order: Fetch with its proofs, Task, the abstract pool and its
refinement (checked and proved), Registry, Url, Hotlist, the proofs of Task's
safety, of Registry's, of Url's and of Hotlist's. Left:

1. **Cookie**: adding, evicting, matching; the size account.
2. **Source**: the drivers of content types, copies, and the server push
   pointer, between Url and the documents.
3. **Timer and requesters**: list walks whose callbacks change the list.
4. **Buildabsurl** as an operator over path segments against RFC resolution.
5. A proof of `StuckHasReason` for any number of urls and hops.

Composition: the components meet at narrow interfaces, and each module has the
other side as its environment. Url assumes of a transfer what `FetchPool` says
of one that is owned: updates until one final update, none after the url let
go. Fetch's url acts whenever Url could (also from inside a failed start). The
driver of Fetch is a subtask of Task that ends with one last update and whose
disposal the handler of that update asks for. Hotlist has the parts of Task that
the hotlist uses (nested handlers, synchronous messages, disposal) with its own
contents.

## 3. Fetch

**State.** The lists of fetch.c are sets (`running`, `channels`), because only
membership matters, and sequences (`queue["net"]`, `queue["local"]`). `flags[f]`
holds the `FCHF_` flags under their names; `FCHF_LOCALSLOT`, `FCHF_NETSLOT` and
`FCHF_CHANNEL` are `class[f]`, which `Driverfunction` computes from the address
and never changes for one address; `FCHF_IMAGE` is `image[f]`. `short[f]` says
`sofar < total`. `task[f]` is the driver. `owner[f]` says that the url still
holds the pointer. A fetch that is in no list is a free structure, and may be
allocated again.

**Steps.** The main task runs every handler to its end, so a handler is one
step, except the handler of the final update. That one is `Terminate`, then one
step per iteration of the two loops of `Checkqueues`, then `Report` and `Finish`
(or `AwaitUser`, `Retryget`, `RetrygetFails`). `main` is where it stands. It is
split because a start that fails inside the loop, and the forwarding at the end,
call a url that may at once load, dispose or cancel other fetches; `main.nested`
says that this is where we are. While the main task is in the handler no
driver's update and no user action is handled.

| source | action |
|---|---|
| Newfetch | `NewFetch` |
| Startdriver, Dostartdriver, Addtoqueue | `Startdriver` = `Enqueue` or `StartNow` |
| Setfetch, cancel | `Cancel` |
| Disposefetch | `Dispose`, `Free` |
| Updatefetch | `UpdateData`, `UpdateNotmodified`, `UpdatePostnogood`, `Terminate`, `Report`, `Finish`, `AwaitUser`, `Retryget`, `RetrygetFails` |
| Checkqueues | `ReleaseSlot`, `StartQueued`, `StartQueuedFails`, `NetLoopDone` |
| Incompleterequest, Incompletereturn | `Asked`; `IncompleteEnd`, `IncompleteRetry`, `IncompleteRetryDisposed` |
| Addwaitrequest, Checkwaitrequests | `Addwaitrequest`, `Checkwaitrequests` |
| the settings window | `Setprefs` (1 or more: `awebcfg/cfgnw.c`, lines 161 and 174) |

**Abstractions.** Wait requests are for documents, images or both; those for
one window or one url are left out. Memory failure in `Newfetch` changes nothing
and is no step; in a queue start and in a retry it is. The driver is assumed to
exist when `AOTSK_Started` says so; section 10 says when that is not true.
`AOTSK_Stop` is a request: the driver may still send any update before the
last. A limit of 0 cannot be set in the settings window; one written into the
preferences file by hand is not modelled (queues would never be served).

`Updates` is the set of updates that drivers send besides the last one. A
smaller set makes a run small enough: `FetchNet` has data and "not modified",
`FetchLive` the refused POST; the proofs are for any set.

**The abstract pool.** `FetchPool` has no lists, counters or flags: a fetch is
free, waits, is served, is ending, or its user is asked, and a url owns it or
not. `Fetch!Phase` computes the phase from the flags, the lists and the driver,
`Pool == INSTANCE FetchPool WITH ...` is the refinement mapping and
`ImplementsPool` the property. It says, among other things, that a fetch
waits only if there is no room and is served only if there is, that a fetch is
freed only when no driver works for it, and that a url that was told of the end
never has the fetch again. A handler of several steps maps to one step of the
pool and stutters, also through the calls of a url that are nested in it.

**Properties.**

* `SlotAccounting`: `nr[s]` is the number of drivers of class `s`.
* `NeverOverLimit` (action property): a slot is taken only below the limit of
  that moment; the user may lower the limit at any time, so `nr <= limit` itself
  is not invariant.
* `DocumentsFirst`, `QueueNeverStuck`, `QueuedDocumentStarts` for the queues.
  Images have no liveness: documents may overtake them for ever.
* `OneList`, `OwnerNeverDangles`, `NoneForgotten`, `DisposedIsFreed` for the life
  of a fetch.
* `WaitsHaveReason` for ARexx WAIT.

## 4. Task

**State.** `taskport` and `subport[t]` are message queues; a message is an
element of `Msgs`, or one of the three messages a task owns (its startup
message, its synchronous update, its last update), and `msg` says what it is at
present. `signal` and `semasignal` are the signal bits of the two ports of the
main task. Exec sets the bit with every message and `Wait()` clears it. `sub[t]`
is where the subtask is, and `hold[t]` what it got and has not replied.

`stack` is the calls the main task is in, innermost first: `loop` (`Processtask`),
`update` (the target's handler), `wait` and `sleep` (`Waitformsg`), and `first`,
`procured`, `again`, `last` (`Stoptask` and `Dodisposetask`). All interesting
behaviour of task.c is in this recursion: a wait processes messages, whose
handlers wait again.

| source | action |
|---|---|
| Processtask, Processreply | `Processtask`, `Resignal`, `HandlerReturns`, `Processreply` |
| Waitformsg | `WaitformsgOther`, `WaitformsgDone`, `WaitformsgSleep`, `WaitformsgWake` |
| Stoptask, Dodisposetask, Processtaskreply | `Signalled`, `Processtaskreply`, `Procure`, `StoptaskWake`, `StoptaskAgain`, `Freetask` |
| Newtask, Starttask | `Newtask`, `Starttask`, `StarttaskFails` |
| Stoptask, asynchronous | `StoptaskAsync` |
| Disposetask | `Disposetask` |
| Messagetask, Asetattrsasync | `AsetattrssyncA`, `AsetattrsasyncA` |
| Subtask | `Subtask`, `SubtaskFails`, `SubtaskEnds`, `ReleaseRunsema` |
| Gettaskmsg, Replytaskmsg | `Gettaskmsg`, `Replytaskmsg` |
| Updatetask, Updatetaskattrs | `UpdateSync`, `UpdateAsync`, `Updated`, `EntryEnds` |

A critical section of `portsema` or of the task's `sema` is one step. Between any
two steps the other process may run.

**Environment.** Objects that use tasks are free within these rules, which are
those of the code that uses task.c:

* a task is disposed from the event loop, from the handler of its own last
  update, or from a handler of another task's update that was called from the
  event loop (a new document replaces an old one and its images);
* synchronous messages go to hotlist windows (`Hot`) only, from the event loop or
  from the handler of an asynchronous update of the manager (`Restoring`);
* the handler of a last update disposes the task (`Updatefetch`,
  `Updatehotwindow`);
* `AOTSK_Stop` with `AOTSK_Async` is used for driver tasks only.

**Not modelled.** `AOTSK_Suspend` (nothing in the tree uses it; note that
`Settask` line 673 never releases); the replied hook of messages; `Stopmsg`;
memory failures. `Waitprocessaweb`, a nested event loop used when the public
screen is closed. When deferred messages wait, the event loop polls its signals
without clearing them (`aweb.c:1876`): the loop then runs `Processtask` once more
than it must, which the model's clearing `Wait` does not show. While the main
task waits for a startup message, `Waitformsg` passes over other tasks' messages.
There are no earlier messages of the task itself.

**Properties.** `NoLostWakeup`, `NoLostGrant`, `OnePlace`, `FreedIsForgotten`,
`NotStoppedInHandler`, `AwaitedWillCome` for safety; `UpdateReturns`,
`DisposalEnds` and `MainReturns` for liveness.

## 5. Url

**State.** `url[u]` is the part of `struct Url` that decides what it does:
its three transfers (`fetch`, `rfetch`, `vfetch`) with the stage they are in,
`source` as a stage between no object and all data, the sources that save to
a file or feed a style sheet (`ssource`, `dsource`), three pointers to cache
objects, `movedto` and the flags. `cac` are the cache objects, `lru` the order
of `LIST(Cache) cache`. Addresses are identities.

**Steps.** All handlers run in the main task, so every one is a step. Handlers
that call one another are operators on the record `m` of the three parts of
the state they share (`Loadurl`, `Decide`, `Perform`, `Moveurl`, `Feed`,
`Flushexcess`, `CacheData`, ...), and an action composes what one update does, in the
order of the code: `Srcupdatecache` may flush other urls' pages, or the one
that is being written, before the data reaches the source.

| source | action |
|---|---|
| Loaddoc (`frame.c`), Loadurl | `Load` |
| Srcupdatefetch, Srcupdatevfetch | `Data`, `Error`, `Expires`, `Reload`, `Nocache`, `End`; `Promoted` (a verification that brings a page), `Unmodified` |
| Moveurl | `Moved` |
| Specialurl, AUMST_DELETECACHE | `Deletecache`; `Flushsource` (`source.c`) |
| time, cache.c:1490 | `Expire` |

`Loadurl`'s comment has a table of loads against states of the url, and
`Decide` is the code of that table.

**Constants.** `Kept` are the urls that the registry may bring back, with what
they are moved to, for good or temporarily; `Posts` those that are never cached;
`Expiring` those whose responses may have an expiry date;
`Loads` the flags windows load with: sets of `PageFlags`, or `{"ifinmem"}` alone as
`copy.c:404` has it; `Prefs` the settings. `MaxDisk`, `MaxLoads`, `MaxFailures`
and `MaxHops` bound the cache, loads by windows, transfers that cannot start,
and the 99 hops of the code (at least one). Cache objects have no bound: a new one gets
the first free number.

A redirection that keeps the message of a POST makes a url object of its own each
time (`url.c:828`, `Findurl` with `postnr` -1). `Moved` takes one of `Posts` for it that
nothing refers to any more (`Fresh`), and nothing is known of it (`Target`); so
a chain of such redirections can be of any length with two of them.

`Flushsource` is the flush of a source, also of one that is being fed (the menu,
ARexx and low memory do not look, `source.c:518`): the copies then wait for the next data.

**Properties.** `OneTransfer`, `OneOwner`, `NoOrphans`, `StuckHasReason`,
`RedirectionsEnd`. The comments above `NoOrphans` and `Excused` (the reasons of
`StuckHasReason`) list the exceptions, each with its line; TLC found them, and they are what a reviewer
should look at. Each of the nine of `Excused` was tried: without it one of the two
runs fails. The one for `url.c:515` is a view left waiting for ever by a
load of another view, the one for `url.c:832` a view left waiting by a redirected
reload, the one for `url.c:421` a view whose verification takes the deletion of
the copy for a copy already shown; the one for `url.c:559` leaks a page until AWeb ends.
A view is `Stuck` if it waits and no transfer is sure to bring data or its end: a
verification does only if the copy was not shown at once (`Awaited`).
`RedirectionsEnd` has one exception, `KeepsPost`: a chain of redirections that keep
the message of a POST goes on as long as servers send them (section 10).

## 6. Registry

**State.** The disk (`awcu`, `awcr`, the data files), the memory (`up`, the
cache objects, how many url objects an address has, `cachenr`, `nradded`), and
`job`, what the main task still has to do. Every operation on a file, and every
object disposed, is a step of its own; `Crash` may come before each of them, and
leaves the disk as it is. An AWCR that is open is torn until it is closed, and so is
the first AWCU, whose header is in the buffer until then (`Createlog`, `CloseLog`).
Appending an entry is one operation that a crash (`CrashAppending`) or a failed
write may cut short: `piece` is what is then behind the entries that can be read.
A start reads the entries before the piece and reports the registration as
corrupt (`Corrupt`). What is appended behind a piece is read on into it (`Appended`): it is
lost, or becomes an entry with the number of the piece and the new address.
`CrashReading` is a crash while a start deletes files.

| source | action |
|---|---|
| Newcache, Srcupdatecache, Disposecache | `Load`/`Newcache`, `Data`, `Eof`/`Srcupdatecache`, `Dispose`, `Unlink`, `AppendEntry` |
| Srcupdatefetch (`url.c`): end, error | `Terminate`, `Error`/`Restore` |
| Addregentry, Savecachereg | `AppendEntry`, `CrashAppending`, `OpenSave`, `CloseSave`, `Purge`, `Discard`, `Rename` |
| Readcachereg, Initcache, Createlog | `Readentry`, `Readcachereg`, `Corrupt`, `Initcache`, `Recovery`, `CrashReading`, `Createlog`, `CloseLog` |
| Exitcache, Deinstallcache | `Exitcache`, `Deinstallcache` |
| Flushtype, the cache browser, Flushexcess | `Flushtype`, `Deletecache` |
| Dofixcache, broken off or not | `Fixcache` |
| Dupcheck (`url.c`) | `Dupcheck` |

`Expiring` are addresses whose pages have expired by the next start; `Nrchkpt`
is 100 in the code (a checkpoint at the 101st entry) and 1 here.
`MaxFailures` bounds the writes that fail, of AWCR or of an entry. `Url` has what
leads to the calls; here they come in any order that one url object allows.

**Properties.** `StaysReadable`: a registration whose header can be read is not
followed by one whose cannot. `NeverCorrupt`: a session does not go on behind a piece
that a crash left; the start writes a new registration first. It is not that a start
never finds a corrupt one: after a crash in an append it does, and says so.
`ReadsWhatIsRegistered`, `StaysRegistered`, `WritesOwnFile`, and `KeepsItsFile`, which
fails (finding 3). `WritesOwnFile` has two exceptions, both after a failed write: the
number of a page that expired is not remembered (the test at
`cache.c:734` is in the other branch) while its entry is still in the
registration, until the checkpoint of the start is written; and the number in a
piece is given again, before the piece is read on into an entry of another address.

## 7. Hotlist

**State.** The list in memory is `unsaved` (it is not the one in the file)
and, per window, how the list browser's `nodes` compare with it: made from the list
as it is, or from before some change. `hotchanged` and `locked` are the code's.
`hotsema` is the window that holds it during an update; a critical section without
an update in it is one step. `port` is `taskport`, `inbox` the windows' ports; a
synchronous message has a number, which its answer carries. `sub` is where
a window's subtask is. `job` is what the main task still has to do: a command
puts its steps there, and while the main task waits for a window (`await`,
`drain`) the handlers of that window's updates go in front.

| source | action |
|---|---|
| menu, ARexx: Addtohotlist, Savehotlist, Restorehotlist, Sethotlistcontents, Hotlistviewer, Hotlistmanager, Closehotlistviewer, Closehotlistmanager, Deinstallhotwindow | `Command`; their steps `Add`, `Savehotlist`, `Renew`, `Put`, `Tell`, `Open`, `Stop`, `Lastsave` |
| Updatehotwindow | `Handler`, in `Processtask`, `Waitformsg`, `Drain`; `Reply` |
| Hotviewtask, Hotmgrtask | `Build`, `BuildFails`, `Handletaskmsg`, `Handlewindow`, `Lastevent`, `Close`, `Closed`, `Leave` |
| window events | `Ask`/`Asked` (Follow, Manager), `Showhide`, `Rebuild`, `Edit`, `Revert`, `Save`/`Saved` |

**Abstractions.** What an edit, a selection or a save does to entries and groups
is left out. Saving and reading are assumed to work (`Savehotlist` clears
`hotchanged` also if the file could not be opened). The close and reopen when
the screen changes are the commands for closing and opening. `AOHOT_Tofront`
changes nothing here. Answers to asynchronous messages only free the
message and are left out. The manager builds part of its nodes before it waits
for the semaphore (`hotmanager.c:1801`) and frees them without it (2310), which
is finer than the model.

**Bounds.** `Room`: users rest while that many messages are under way. `Nested`:
the manager is reverted only in so many nested waits; without it the depth has no
bound, because each nested Revert leaves a wait that never ends (section 10).

A window that cannot be built is one that gets no screen; failures after its nodes
were made are left out (section 10).

**Properties.** `NothingUnsaved`, `CatchesUp`, `FreesDetachedList`; `FollowLoads`
fails (finding 4). `CatchesUp` says that a window with old nodes will be told, not
that it does nothing with them until then, and lets the viewer keep old nodes
beside new ones. `FreesDetachedList` is about the manager. What the viewer does in the
meantime is in section 10.

## 8. Runs

| run | instance | shows |
|---|---|---|
| `FetchNet` | 3 fetches, limits 1..2, documents that may be POSTs and images, a WAIT DOC, data and not-modified updates; 769 thousand states | `TypeOK`, `SlotAccounting`, `DocumentsFirst`, `QueueNeverStuck`, `NeverOverLimit`, `OneList`, `OwnerNeverDangles`, `NoneForgotten`, `WaitsHaveReason` |
| `FetchLive` | 3 fetches, limit 1, net, disk, channel and image fetches, refused POSTs, fair; 142 thousand states | `QueuedDocumentStarts`, `DisposedIsFreed`, `ImplementsPool` |
| `FetchCancel` | 2 fetches | finding 1: `CancelledIsDisposed` fails |
| `TaskSafe` | a `Hot` task and a `Closing`, `Restoring` one, 3 messages; 487 thousand states | the seven safety properties |
| `TaskLive` | a `Hot` task and a `Closing` one, 1 message, fair; 34 thousand states | `UpdateReturns`, `DisposalEnds`, `MainReturns` |
| `TaskHot` | one task that is both `Hot` and `Closing` | finding 2: `AwaitedWillCome` fails |
| `Url` | 2 urls, one of which the cache may have and which may expire, that may redirect to each other, fast or slow verifications, 2 loads, each to a window or a reload to a file (ARexx), room for one page on disk; 1.4 million states | `TypeOK`, `OneTransfer`, `OneOwner`, `NoOrphans`, `StuckHasReason` |
| `UrlLive` | 4 urls, two of them POSTs, any redirections, slow verifications, a start that fails, one load (of a page, a reload, for a style sheet, or of what is in memory), fair; 1.1 million states | `RedirectionsEnd`, `StuckHasReason`, `OneOwner` |
| `Registry` | 2 addresses, one of which expires, 2 data files, a checkpoint after every second entry, two failed writes; 6.3 million states | `TypeOK`, `NeverCorrupt`, `WritesOwnFile`, `ReadsWhatIsRegistered`, `StaysReadable`, `StaysRegistered` |
| `RegistryCrash` | the same without failed writes | finding 3: `KeepsItsFile` fails |
| `Hotlist` | both windows, 3 messages under way, one nested Revert; 3 million states | `TypeOK`, `NothingUnsaved`, `CatchesUp`, `FreesDetachedList` |
| `HotlistFollow` | both windows, 1 message under way, fair | finding 4: `FollowLoads` fails |

Why the bounds are enough.

* Fetch: three fetches are one that runs or is being handled and two that wait
  behind it (a document and an image in either order). What an update carries beyond
  data or "not modified" is in `FetchLive`. A limit of 2 lets the
  limit change while two drivers are alive. The two queues are handled by the same
  code one after the other; `FetchLive` has both.
* Task: two tasks are one the main task waits for and one whose messages must survive the wait;
  three messages let a synchronous message, an asynchronous one and an update be
  under way together.
* Url: two urls are the one that is loaded and the one it redirects to, or whose
  page is flushed; with one page of room every write flushes. Two loads
  let a window load while another's transfer is in any stage, and redirections
  and second attempts make further loads that do not count. `UrlLive` has four urls: two for chains
  that return to their start or to the middle, and two for redirections that keep a
  POST's message, of which one ends while the other begins. The exceptions of `StuckHasReason` about
  redirections need such chains, those about flushes a second
  load: hence both runs check it. Loads from the history are those that a
  slow verification makes (`url.c:917`). The ones by a window, and a download without reload, are left
  to the proofs, which do not have `StuckHasReason`; that and the invariants of `Url`
  also pass with loads `{}`, `{"reload"}`, `{"history"}`, `{"download"}` and fast
  verifications (2.6 million states), which takes too long for a run of every day.
* Registry: two addresses are the one that is replaced and one that must survive;
  two numbers let a crash leave an unregistered file behind and still give a
  number, and let a wrong reuse hit the file of the other address; the second
  failed write may be the one of the checkpoint after the first; the number of
  sessions and crashes has no bound.
* Hotlist: both windows and every command; three messages under way are a
  change, an order and an answer.

Fetch, task and cache object identities are reused after they are freed, so no bound on
them limits the length of a run. `Fetches` and `Msgs` are symmetric in the safety
runs of Fetch and Task; liveness runs use no symmetry. In `TaskSafe` the hot window does not close
by itself: that case is finding 2. Deadlock is checked but where the system
stops by itself: Url after the last load, Hotlist after the end of AWeb (and in
the state of finding 4, which the safety run reaches too).

**Fairness.** Fetch: the main task goes on with a handler (weak), and every
driver ends some time (strong: between two updates the main task handles other
messages, so the final update is not enabled continuously). That is what the protocols' end, their
time-outs and `AOTSK_Stop` bring about; no user has to answer a requester.
Task: the main task goes on, and its event loop looks at the task port again and
again (weak, strong); a subtask is scheduled (weak), and it replies what it got
and ends after Ctrl-C (strong), as `include/task.h` demands of entry functions
("must call Gettaskmsg() regularly"). A subtask nobody stops need not end.
Url: as long as there are transfers one ends (`FairSpec`; it is the weak fairness of
the ends, as one can be taken whenever a url is loading); that is
what `DisposedIsFreed` and the fairness of Fetch give. Hotlist: both subtasks
run and the main task does (strong, as Exec queues those who wait for a
semaphore); users need not do anything.

## 9. Proofs

### Fetch

`FetchProofs.tla` proves, for any
finite set of fetches, any loads, any limits of at least 1 and any set of wait requests:

| theorem | statement |
|---|---|
| `Invariant` | `Spec => []IInv` |
| `TypeCorrect` | `Spec => []TypeOK` |
| `SlotsAccounted` | `Spec => []SlotAccounting` |
| `OneListOnly` | `Spec => []OneList` |
| `NoDanglingOwner` | `Spec => []OwnerNeverDangles` |
| `NoFetchForgotten` | `Spec => []NoneForgotten` |
| `NeverOverTheLimit` | `Spec => NeverOverLimit` |
| `DocumentsAhead` | `Spec => []DocumentsFirst` |
| `NoStuckQueue` | `Spec => []QueueNeverStuck` |
| `ScriptsHaveReason` | `Spec => []WaitsHaveReason` |
| `Implements` | `Spec => ImplementsPool` |

None of the invariants is inductive alone. `IInv` is their conjunction with two
more:

* `FlagsAgree`: a fetch with a driver is `RUNNING` and `USESLOT`; `RUNNING`,
  `QUEUED` and `INCOMPLETE` exclude one another; a free structure has no flags. It
  is why `ReleaseSlot`, which looks at flags only, counts drivers, and why
  `Disposefetch`, which looks at flags only, never frees a fetch whose driver
  lives.
* `HandledFetch`: the fetch whose final update is being handled is still in
  `running` or `channels`, has no driver, and keeps `RUNNING` (or `INCOMPLETE`),
  so a url that is told of another fetch's failure inside `Checkqueues` and
  drops this one cannot free it under the handler.

The proof has a lemma for each piece that several actions share (`FreeKeeps`,
`StartKeeps`, `StartQueuedKeeps`, `NotingKeeps`, ...), one for each group of
actions (`UrlKeeps`, `UserKeeps`, `DriverKeeps`, `HandlerKeeps`), and
`QueueLemmas` for what insertion, removal and `Tail` do to the set of elements
and to injectivity. `NeverOverTheLimit` follows from `IInv` and the guard
`HasRoom` of every step that takes a slot.

`DocumentsFirst`, `QueueNeverStuck` and `WaitsHaveReason` are inductive relative to `IInv`. There
every step is first shown to be of one of four kinds (`NextKinds`): it frees a
fetch, starts or queues one that was in no queue, takes the head of a queue, or
leaves the lists as they are; what a kind does to the queues, the counters and
`Live` is a lemma (`FreeEffect`, `StartEffect`, `StartQueuedEffect`), and each
theorem has one case for each kind. `QueueNeverStuck` also needs that a handler
leaves a queue only when it is empty or without room (`LeavesDone`), and that a
limit is at least 1: without that a full queue could have no driver.

`Implements` rests on `IInv` and `DocumentsFirst`. `PhaseIs` says what the
invariant makes of the refinement mapping `Phase`, `RoomIs` that the counter
`nrnet` or `nrlocal` is below its limit exactly when the pool has room (which is
`SlotAccounting`), `FreeVanishes` and `StartWants` what the two pieces that most
handlers share are in the pool; then there is one step for each action. That
`Serve` takes documents first is where `DocumentsFirst` is needed; that the
fetch being handled is not freed by a url in between, where `HandledFetch` is.

### Task

`TaskProofs.tla` proves, for any finite sets of tasks and messages, any of the
tasks being `Hot`, `Closing` or `Restoring`, and handlers nested to any depth:

| theorem | statement |
|---|---|
| `Invariant` | `Spec => []IInv` |
| `TypeCorrect` | `Spec => []TypeOK` |
| `OneMessageOnePlace` | `Spec => []OnePlace` |

`OnePlace` says how often a message is at a port, in a handler, held or waited
for; it is proved from `OneAt`, which says where. A place is a kind with an
index, the level of the call for a handler. The other parts of `IInv`:

* `KindsAgree`: a structure of a task's own carries that task's message of that
  kind; what a subtask holds or has at its port is sent to it. Without it the
  reply of an update could go to another subtask.
* `StatesAgree` and `OwnAgree`: object, process and the messages of its own. A
  process that is gone has nothing at its port, holds nothing, waits for no
  update and has sent its last one; a new object has no messages.
* `StartupFirst`: a startup message in use is the one the innermost call waits
  for, and no message of that task is ahead of it. It is why the structure is free when
  the task is started again, and why `Waitformsg` processes no other message of
  a task that has just started.
* `OneStop`: at most one `Stoptask` is about a task, its `TSKF_DISPOSING` is set,
  and a disposal that was put off is not also under way. Two would free the
  object twice.
* `GrantsAwaited`: a runsema is granted once, when the process is gone, to a
  `Stoptask` still in its loop. `Freetask` therefore leaves no grant behind.
* `QuietInside`: inside a handler of a task that sends no synchronous messages
  only starts and disposals of other tasks are called, so
  `TSKF_PROCESSING` stays set until it returns and the task is not freed under it.

A call in the stack is named by its level counted from the event loop, so that
it keeps its name while calls are made above it. Every step of the main task has
one of six forms (`MainSteps`), and each part of `IInv` has a lemma for what the
main task does, one for objects (`Object`) and one for subtasks (`Process`).

`TaskWaits.tla` goes on from `IInv`, also for any tasks and messages:

| theorem | statement |
|---|---|
| `NoWakeupLost` | `Spec => []NoLostWakeup` |
| `FreedForgotten` | `Spec => [](\A t \in Tasks \ Restoring : Forgotten(t))` |
| `StoppedFromOutside` | `Spec => [](\A t \in Tasks \ Restoring : StoppedOutside(t))` |
| `WaitsInvariant` | `Spec /\ []Calm => []WInv` |
| `AwaitedComes` | `Spec /\ []Calm => []AwaitedWillCome` |
| `NoGrantLost` | `Spec /\ []Calm => []NoLostGrant` |
| `AllFreedForgotten` | `Spec /\ []Calm => []FreedIsForgotten` |
| `NeverStoppedInHandler` | `Spec /\ []Calm => []NotStoppedInHandler` |

`NoWakeupLost` is inductive with `AwakeInv`: only the innermost call is in
`Wait()`; if a message is at `taskport`, its signal is set or some call, at any
level, will still look at the port or set the signal again before the event loop
waits; and a call in `Wait()` has the signal if its own message is there. The
second part is why every nested wait ends in `Setportsignal`.

Nothing is assumed of the sets of tasks: any of them may close by itself, get
synchronous messages and have handlers that send some. The last five theorems
are about the behaviours in which the state predicate `Calm` never fails. It says that
while `Waitformsg` waits for the reply of a window,

* there is no last update of that window: it has not said that it is done, or
  its object has disposed of it before;
* the update of that window that is handled in the wait is not one whose handler sends
  synchronous messages (`AOHOT_Restore` of the manager).

The code guarantees neither, and neither can be left out: run `TaskHot` (finding
2) is the first, and with a task that is both `Hot` and `Restoring` and three
messages TLC finds `AwaitedWillCome` violated by the second. What the theorems
add is that there is no third way: a window may close by itself at any other
time, the manager may send itself synchronous messages, disposals may be put
off and waits nested to any depth. `FreedForgotten` and `StoppedFromOutside` hold
without `Calm`, for the tasks outside `Restoring`, inside whose handlers a whole tree of
other handlers may run. `WInv` is:

* `HandlersCalled`: a handler is called by `Processtask`, by the wait for an
  answer of the handled update's own task, or by the `Stoptask` of that task,
  and the task is not free.
* `ProcessingHandled`: `TSKF_PROCESSING` is set inside a handler of that task
  only (section 10 says why the converse is not true).
* `Awaited`: what a wait is for is in use; it is a startup message and the wait
  innermost, or a message to a hot task, and above that wait there are only
  handlers of that task.
* `PutOffLast`: the disposal of a hot task is put off by the handler of its last
  update only. With `Calm`, no wait for an answer of it is then on the stack, so
  that the disposal does not free what is awaited.
* `LoudInside`: inside a handler of a `Restoring` task that task is not stopped.
* `OneStopping`, `GrantSignals`: there is one `Stoptask` at a time, and while a
  grant is at `semaport` its signal is set. No nested `Stoptask` takes the grant of
  an outer one.

Each part is shown for the forms of `MainSteps`. `NewTop` is what the innermost
call can be after a step, with what called it, and `LevelsAre` says that the
other levels are as they were; each part of `WInv` then looks at the new top
and at what it calls.

### Registry

`RegistryProofs.tla` proves, for any addresses, any of
them expiring, any interval between checkpoints, any number of data files and of
failed writes:

| theorem | statement |
|---|---|
| `ReadIsMeant` | `MeansWhatIsRead(r)` for every registration `r` |
| `TypeCorrect` | `Spec => []TypeOK` |
| `ReadsCorrectly` | `Spec => []ReadsWhatIsRegistered` |
| `ReadableForGood` | `Spec => StaysReadable` |
| `NeverCorruptAlways` | `Spec => []NeverCorrupt` |
| `OwnsItsFile` | `Spec => []WritesOwnFile` |
| `RegisteredForGood` | `Spec => StaysRegistered` |

`ReadIsMeant` is about data: `Readcachereg` reads a log entry by entry, replacing
the newest object of an address, forgetting deleted ones and counting expired
ones, and `Documents` says without any order of reading what the log stands for.
The two agree for a log of any length. The library's induction theorems cannot
be used here, so the proof goes by the least counterexample (`MinOfNaturals`,
`UpTo`): first that reading is the function `Upto` of the entries read so far, then
that after each entry the caches are those of the entries that still stand
(`Standing`), numbered in their order. `SetToSeq`, by which a checkpoint lists the
cache, is a `CHOOSE`; `SetToSeqIs` says that it has all elements.

The invariant `Inv` has four parts.

* `TypeInv`: `TypeOK`, the cache is finite, and the job has the shape of a
  handler's operations (`JobOK`): only the last finishes the handler; an AWCR that is opened is
  closed next, and a closing or a deletion of AWCU is followed by the rename or
  the exit; the deletion of AWCU, the first AWCU and the entries of new pages come only at
  the head of a job, so that nothing changes the memory they depend on. A checkpoint inside a handler puts its operations
  in front of the rest, and the shape is kept (`ShapeJoins`, `SaveJoins`).
* `FilesOK`: AWCU is absent only where `Gap` says, between the deletion and the
  rename of a checkpoint, at an exit, or before anything was cached, and AWCR is
  whole there; when AWCU is about to be deleted, AWCR is what the memory says; an AWCU
  without its header is the first, in the step before the header is written.
  `StaysReadable` alone does not say that there is an AWCR when AWCU is deleted.
* `LogOK`: an AWCU that cannot be read to its end is met only while AWeb is down,
  in a session that has not yet written its first checkpoint (`Starting`), after a
  write failed, or before the header of the first AWCU. `NeverCorrupt` is what is
  left of it between two handlers.
* `NumbersOK`: an object that is not closed shares its number with no other and
  with no entry of another address that a start could read; every
  number in the registration is known to the running session, but those
  of expired pages until the checkpoint of the start is written
  (`Starting`) or after a write failed; so is the number of a piece. These are the exceptions of `WritesOwnFile`.

`StaysRegistered` is a property of steps: only a new entry and the deletion of AWCU
change what is registered. A new entry leaves standing what has another number
(`StandingAppended`), also when it is cut short, or mixed with a piece that has
another number, and before the deletion AWCR has every object that is
closed and its url's own.

### Url

`UrlProofs.tla` proves, for any urls, POST addresses, kinds of loads,
preferences, sizes of the caches and numbers of loads, failures and (at least
one) hops:

| theorem | statement |
|---|---|
| `UrlTypes` | `Spec => []TypeOK` |
| `OneTransferHolds` | `Spec => []OneTransfer` |
| `OneOwnerHolds` | `Spec => []OneOwner` |
| `NoOrphansHolds` | `Spec => []NoOrphans` |

The handlers of url.c call one another and a flush may run in the middle of any
of them, for any url. The proof follows that: the state of urls, cache
objects and their order is one record `m`, the handlers are operators on it, and
the invariant `Sound(m)` is about such a record. One lemma for each
handler says that it keeps `m` sound; an action is a handler or two.

None of the properties is inductive alone. `OneOwner` needs that the pointers of
a url are kept apart while `Clearobject` moves them, and that an object of a
verification exists only while the verification runs (`UrlOK`): else `Promote` could
put it beside a page. `NoOrphans` needs `Owns`, or an object would be deleted
through the pointer of another url. The flush needs that the order of the
objects has each just once (`ToSet(m.lru) = DOMAIN m.cac` and `IsInjective`):
`Flushexcess` takes them from there. A final url is found along `movedto`, by
a recursive function over a bound of hops; `StepsExist` and `FinalurlIn` give what it
returns by the least counterexample, as in Registry.

`StuckHasReason` is model-checked only, in both runs. It is a property of steps, and
a view that a step leaves without a transfer need not be of the url that the step
is about: a load of one url may flush another's page, and follows redirections
to a third. A proof needs a second family of lemmas, on what each handler does to a
view that waits (section 2).

### Hotlist

`HotlistProofs.tla` and `HotlistReverts.tla` prove, for any number of messages
under way and any depth of nested waits:

| theorem | statement |
|---|---|
| `HotlistTypes` | `Spec => []TypeOK` |
| `NothingUnsavedHolds` | `Spec => []NothingUnsaved` |
| `CatchesUpHolds` | `Spec => []CatchesUp` |
| `RevertsInductive` (HotlistReverts) | `Spec => [](IInv /\ Reverts)` |
| `FreesDetachedListHolds` (HotlistReverts) | `Spec => []FreesDetachedList` |

`NothingUnsaved` must hold when the program has gone, so the proof has to know
that nothing comes from a window after `Deinstallhotwindow` has waited for it,
in whatever nested handlers that wait runs. This is `Protocol`:

* `OneRequest(w)`: at most one synchronous update of `w` is under way, in the
  port or as a reply that the main task still has to make, and the
  subtask is where it waits for it.
* `Ends(w)`: `AOHOT_Close` is the last update of `w`; a window that the main task
  has given up sends answers only, and the main task does nothing but wait for its end.
* `LastStep`: how far `Deinstallhotwindow` is: both windows to stop, the
  viewer being drained, the manager to stop, being drained, both gone. Handlers
  put steps in front, and none of them opens a window when the viewer is gone
  (`FromViewer`: only the viewer has a button that opens the manager).
* `Announces(job)`: a change of the list in the main task's steps is followed by
  the news for each window.

`CatchesUp` is not inductive: a manager that waits for its save still shows what
it did, and goes on after it. `WillShow` says the same of these places too. Each kind of step
has a lemma for the protocol: a window that sends (`WindowMoves`), the
main task that takes a message and puts the reaction in front
(`ReactingProtocol`), goes on (`PopsProtocol`), replaces a step
(`ReplacesProtocol`), ends a window (`DrainProtocol`, `StopProtocol`), opens one
(`OpenProtocol`), or has deinstalled (`LastsaveProtocol`).

`FreesDetachedList` says what the main task finds after a wait: the manager, asked
with a synchronous dispose, has no nodes. But the answer that ends a wait need
not be the latest thing that happened: while the main task waits, a Revert in a handler
begins another wait, further news is sent, or the manager is closed and
opened again. `Reverts` adds to the protocol what makes the awaited answer mean
"detached now" in all these orders:

* `Orderly(job)`: the waits are nested, and the latest has the largest number
  (`Nesting`); a list is renewed right after the manager was told to dispose, or
  its wait, and the news comes right after the change (`Follows`).
* `InOrder` and `Wanted`: the manager's answers, and then its synchronous
  messages, come in the order of their numbers, each of a wait still in the job.
  When the latest wait has its answer, no dispose is left that would be answered
  later.
* `NoNewsBehind`: no news is in the manager's port behind a synchronous dispose,
  so it cannot build nodes again before the list is renewed.
* an answer under way, or a renewal that comes next, means that the manager is
  `Detached`: gone or leaving, or locked without nodes and without news to come.

`Reverts` was an invariant of TLC's run over 740 thousand states before it was
proved. Its lemmas follow those of the protocol: a job that goes on, gets steps in
front or has one replaced, and a manager that handles, leaves or is opened.

### What the proofs rest on

The assumptions named in `Fetch.tla`, `Task.tla`, `Registry.tla`, `Url.tla` and
`Hotlist.tla`; TLC evaluates
them in the runs. Constants that bound a model (`MaxNr`, `MaxFailures`,
`MaxLoads`, `Room`, `Nested`) may have any value, `MaxHops` any of at least 1
(the code has 99).

Every invariant and every safety property of steps that a passing run checks is
a theorem, except `StuckHasReason`, whose proof is planned; those of the last four
of `TaskWaits` are under `[]Calm`, as the code does not keep them otherwise. So is that the scheduler implements `FetchPool`, which promises
safety only. Out of the reach of TLAPS and left to TLC: the liveness properties
under fairness (`QueuedDocumentStarts`, `DisposedIsFreed`, `UpdateReturns`,
`DisposalEnds`, `MainReturns`, `RedirectionsEnd`). `KeepsItsFile` is not a theorem: it is finding 3. No
module declares a recursive operator; `Readcachereg` is a recursive function.

## 10. Findings

1. **A cancelled POST is sent again** (`FetchCancel`). `fetch.c:1445`: "Will be
   disposed when task returns". If the server refused the POST first, the final
   update tests `FCHF_POSTNOGOOD` before `FCHF_CANCELLED` (lines 1164-1173) and a
   new driver is started.
2. **The main task waits for a freed message** (`TaskHot`). `include/task.h:38`
   says other messages of the task are processed during a wait "to avoid
   deadlocks". If one of them makes the object dispose the task, the nested
   disposal frees the awaited message and `Waitformsg` never returns. The hotlist
   viewer can do this when it closes itself while `Restorehotlist` disposes its
   entries.
3. **A recovered page loses its file** (`RegistryCrash`).
   `user/Docs/Advanced/cache.html:154-156`: after a crash "the cache will be
   recovered automatically". A page that is being written at a checkpoint is
   registered then and again at its end; after a crash two url objects stand for
   it, and the search for duplicates deletes the file.
4. **Follow hangs the program** (`HotlistFollow`).
   `user/Docs/Working/hotlist.html:59-61`: "Now you can load the document with
   either the Follow button or with the Enter key." The window holds `hotsema`
   while it waits for the main task, and the main task may be waiting for
   `hotsema`.

Met while modelling, and not a disagreement with anything written down:

* `task.c:141-145` and `485-486` set `TSKF_STARTED`, "Task did start", for a
  subtask that could not make its port. `Dostartdriver` (`fetch.c:428-444`) then counts a
  slot that nobody gives back.
* `TSKF_PROCESSING` is one flag for all handlers of a task. A handler that waits
  for an answer of its own task, as the hotlist manager's does on Revert, runs the
  task's other handlers, and the first of them to return clears the flag (`task.c:379`)
  under the outer one: a disposal after that is no longer put off.
* The checkpoint leaves out a page that a reload has put aside
  (`cache.c:860`). If the reload then fails, the page is back in the cache but in
  no registration: after a crash it is gone and its file is left over.
* A viewer that reports a change while `Restorehotlist` waits for its Dispose
  gets `AOHOT_Addentry` behind the Dispose; it makes its nodes anew, the list is
  freed under them, and `AOHOT_Newlist` adds the new nodes to the old ones
  (`hotviewer.c:347`). Until then Follow uses a freed entry.
* A window that cannot be opened after its nodes were made (`hotviewer.c:479`, 559;
  `hotmanager.c:1801`, 2076) ends without freeing them: the close functions run
  only if there is a window. `window` and `winobj` are static and not reset after a
  close, so a viewer that is opened again and gets no screen goes on with the old
  ones (`hotviewer.c:660`).
* `locked` (`hotmanager.c:61`) stays TRUE when the manager is closed between
  Dispose and Newlist; the next manager heeds no event.
* A second Revert inside the wait of the first takes its answer (`task.c:458`):
  the main task waits for ever.
* A closing manager walks the list without the semaphore, and
  `Gethotlistcontents` reads it without. `AOHOT_Newlist` after an entry was added to a group
  shows every entry twice in the viewer.
* `Flushexcess` (`cache.c:969`) goes on with a saved next pointer; the url that
  it tells may dispose that very object. `Fixcachereg` (`cache.c:1350`) has the
  same trouble with two objects of one url.
* An entry that a crash cuts short makes the next start report the whole
  registration as corrupt (`ReadCRegStruct_v6`, `cache.c:294`; 654, 1698), although
  every entry before it has been read and is saved again by that start.
* Nobody looks whether an append succeeded (`cache.c:895`). What is appended after
  a failed one is read on into its piece, and may come out as an entry with the
  number of the piece and the address of the new page.
* A chain of redirections that keep the message of a POST is never found to
  be a loop: each has a url object of its own (`url.c:828`), so
  that `Movedtoloop` (807) never sees one come back, and goes on as long as servers send them.
* With slow verification, the deletion of the copy that is being verified
  (`url.c:421`, 908) makes the verification one whose copy was shown already: if it is
  answered "not modified", the view that waits gets nothing.
* A redirected reload gives the waiting view to the target (`url.c:832`) and then
  reloads the target (842), which may be a temporary redirection itself. The reload
  drops that redirection, and the view is left with the source it led to. The
  comment at `frame.c:1148` describes this for copies and avoids it there.
* `Srcupdatevfetch` does not look at `AOURL_Nocache` and follows
  `AOURL_Movedto` but not `AOURL_Seeother` (`url.c:937`).

## 11. Not modelled

* Url: server push, channel loads, volatile urls, `AOURL_Nocache` in a verification, Findurl and the
  address arithmetic.
* Registry: the text of entries, numbers that a piece cut inside its digits would
  have, reading a page from its file, an `OpenAsync` that fails (`cache.c:1570`), the
  answer to the requester about a corrupt registration beyond the repair
  (`Fixcache`), two objects of one url during a repair. The files a start
  deletes go in one step, those of the entries it has read before a crash too (`CrashReading`).
* Hotlist: a window that cannot be opened after its nodes were made, and one that
  runs with the window of its predecessor (section 10); the manager's first walk of the list,
  without the semaphore (section 7).
* Task: section 4 has what is left out. No run of Task has a window that is both
  `Hot` and `Restoring`, as the hotlist manager is; Hotlist and the proofs do.
* Cookies, sources, timers, requesters: planned (section 2). `Flushcookies` has no caller.
* The name server cache, the network status window and the drivers are wrappers
  of calls or user interface; Fetch has the drivers' updates as free choices.
* The parser, layout, frames, forms, windows, the JavaScript interpreter and
  the settings are data transformation and user interface over unbounded
  text and geometry: most of the lines of the repository, and nothing that a state
  machine of this kind would tell a reader about. Plugins, stubs and vendored libraries are
  not AWeb's own logic.

## 12. Running

    tlc -workers 2 -config FetchNet.cfg MCFetch
    tlc -workers 2 -config TaskSafe.cfg MCTask
    tlc -workers 2 -config Url.cfg MCUrl
    tlc -workers 2 -config Registry.cfg MCRegistry
    tlc -workers 2 -config Hotlist.cfg MCHotlist
    tlapm FetchProofs.tla
    tlapm TaskProofs.tla
    tlapm TaskWaits.tla
    tlapm RegistryProofs.tla
    tlapm UrlProofs.tla
    tlapm HotlistProofs.tla
    tlapm HotlistReverts.tla
