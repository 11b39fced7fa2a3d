------------------------------- MODULE Fetch -------------------------------
(***************************************************************************)
(* The fetch scheduler of aweb/fetch.c.  Every document, image or file     *)
(* that AWeb loads is a fetch object: it starts a driver subtask for its   *)
(* protocol, occupies a network or a disk slot while the driver lives,     *)
(* waits in a queue while the slots are taken, and reports to the url      *)
(* object that owns it.                                                    *)
(*                                                                         *)
(* The main task runs every operation here.  A driver is a subtask; what   *)
(* it sends is handled by Updatefetch in the main task, one update at a    *)
(* time, so an update is one step of this module.  The handler of the      *)
(* final update restarts queued fetches in a loop (Checkqueues).  Inside   *)
(* the loop a failed start reports to a url, and the url may load or drop  *)
(* other fetches before the loop goes on: the loop is therefore modelled   *)
(* one iteration per step, and `main' says where the main task is.         *)
(***************************************************************************)
EXTENDS Naturals, FiniteSets, SequencesExt

CONSTANTS Fetches,        \* the fetch objects; a freed object may be reused
          Loads,          \* what the urls ask for
          MaxLimit,       \* largest value the settings give to a slot limit
          WaitRequests,   \* ARexx WAIT commands: [doc : BOOLEAN, img : BOOLEAN]
          Updates         \* what the drivers send before the final update

ASSUME FetchesAssumption == IsFiniteSet(Fetches)

\* The slot class Driverfunction chooses for the address, whether the fetch is
\* for an inlined image, and whether it carries a POST message.
ASSUME LoadsAssumption ==
  Loads \subseteq [class : {"net", "local", "channel", "none"},
                  image : BOOLEAN, post : BOOLEAN]
ASSUME LimitAssumption == MaxLimit \in Nat \ {0}
ASSUME WaitAssumption == WaitRequests \subseteq [doc : BOOLEAN, img : BOOLEAN]
ASSUME UpdatesAssumption ==
  Updates \subseteq {"data", "notmodified", "postnogood"}

VARIABLES
  running,      \* LIST(Fetch) running: everything not queued and no channel
  channels,     \* LIST(Fetch) channels
  queue,        \* queue["net"] is netqueue, queue["local"] is localqueue
  waits,        \* LIST(Waitrequest) waitrequests
  nr,           \* nr["net"] is nrnet, nr["local"] is nrlocal
  limit,        \* prefs.network.maxconnect and prefs.network.maxdiskread
  class,        \* the slot Driverfunction gives the fetch
  image,        \* FCHF_IMAGE
  flags,        \* the other FCHF_ flags
  post,         \* fch->postmsg is set
  short,        \* fch->sofar < fch->total
  task,         \* the driver subtask: none, running, or told to stop
  owner,        \* the url holds the fetch as its fetch, rfetch or vfetch
  main          \* where the main task is

lists == <<running, channels, queue>>
attrs == <<class, image, post, short>>
vars == <<running, channels, queue, waits, nr, limit, class, image, flags,
          post, short, task, owner, main>>

-----------------------------------------------------------------------------
Slots == {"net", "local"}
Classes == Slots \cup {"channel", "none"}

Flags == {"RUNNING", "CANCELLED", "NOTMODIFIED", "DISPOSED", "INCOMPLETE",
          "QUEUED", "USESLOT", "POSTNOGOOD"}

\* What the handler of the final update still does after Checkqueues.  While
\* it is "report" the url has been told and the fetch is not yet freed.
Continuations == {"forward", "retryget", "nothing"}

Idle == [at |-> "idle"]

\* `nested': the last iteration reported to a url, which may now act.
Draining == [at : Slots \cup {"report"}, fetch : Fetches,
             then : Continuations, nested : BOOLEAN]

TypeOK ==
  /\ running \subseteq Fetches
  /\ channels \subseteq Fetches
  /\ queue \in [Slots -> Seq(Fetches)]
  /\ waits \subseteq WaitRequests
  /\ nr \in [Slots -> Nat]
  /\ limit \in [Slots -> 1 .. MaxLimit]
  /\ class \in [Fetches -> Classes]
  /\ image \in [Fetches -> BOOLEAN]
  /\ flags \in [Fetches -> SUBSET Flags]
  /\ post \in [Fetches -> BOOLEAN]
  /\ short \in [Fetches -> BOOLEAN]
  /\ task \in [Fetches -> {"none", "running", "stopping"}]
  /\ owner \in [Fetches -> BOOLEAN]
  /\ main \in {Idle} \cup Draining

Queued(s) == ToSet(queue[s])
Live == running \cup channels \cup Queued("net") \cup Queued("local")

Init ==
  /\ running = {} /\ channels = {} /\ waits = {}
  /\ queue = [s \in Slots |-> << >>]
  /\ nr = [s \in Slots |-> 0]
  /\ limit \in [Slots -> 1 .. MaxLimit]
  /\ class = [f \in Fetches |-> "none"]
  /\ image = [f \in Fetches |-> FALSE]
  /\ flags = [f \in Fetches |-> {}]
  /\ post = [f \in Fetches |-> FALSE]
  /\ short = [f \in Fetches |-> FALSE]
  /\ task = [f \in Fetches |-> "none"]
  /\ owner = [f \in Fetches |-> FALSE]
  /\ main = Idle

-----------------------------------------------------------------------------
(* The pieces the handlers are made of.                                    *)

Raise(f, new) == flags' = [flags EXCEPT ![f] = @ \cup new]

\* AOTSK_Stop, AOTSK_Async: signal the driver, do not wait for it.
Stop(f) ==
  task' = [task EXCEPT ![f] = IF @ = "running" THEN "stopping" ELSE @]

\* Addtoqueue: images at the tail, others before the first image.  Slips: all
\* at the tail; others at the head.
AddtoqueueTail(q, f, img) == Append(q, f)
AddtoqueueHead(q, f, img) == IF img[f] THEN Append(q, f) ELSE << f >> \o q
Addtoqueue(q, f, img) ==
  LET images == {i \in DOMAIN q : img[q[i]]}
  IN  IF img[f] \/ images = {} THEN Append(q, f)
      ELSE InsertAt(q, Min(images), f)

\* Matchwaitrequest: does the request still have to wait for this fetch?
Matches(w, img) == IF img THEN w.img \/ ~w.doc ELSE w.doc \/ ~w.img

\* Checkwaitrequests: reply the requests no fetch of `left' matches.  Slip: it
\* is called while the fetch is still in its list.
CheckwaitrequestsEarly(left) ==
  waits' = {w \in waits : \E f \in Live : Matches(w, image[f])}
Checkwaitrequests(left) ==
  waits' = {w \in waits : \E f \in left : Matches(w, image[f])}

\* The url gets the final update, or it disposes the fetch itself: either way
\* it forgets the pointer.  Slip: it is not told.
ForgottenNot(f) == UNCHANGED owner
Forgotten(f) == owner' = [owner EXCEPT ![f] = FALSE]

\* The last branch of Disposefetch: unlink the object and free it.
Free(f) ==
  /\ running' = running \ {f}
  /\ channels' = channels \ {f}
  /\ queue' = [s \in Slots |-> RemoveFirst(queue[s], f)]
  /\ flags' = [flags EXCEPT ![f] = {}]
  /\ Forgotten(f)
  /\ task' = [task EXCEPT ![f] = "none"]
  /\ class' = [class EXCEPT ![f] = "none"]
  /\ image' = [image EXCEPT ![f] = FALSE]
  /\ post' = [post EXCEPT ![f] = FALSE]
  /\ short' = [short EXCEPT ![f] = FALSE]
  /\ Checkwaitrequests(Live \ {f})

\* Slips: one slot too many, one too few.
HasRoomForMore(s) == nr[s] <= limit[s]
HasRoomForLess(s) == nr[s] + 1 < limit[s]
HasRoom(s) == nr[s] < limit[s]

\* Startdriver when all slots of the class are taken.  Slip: REMOVE before
\* ADDTAIL is missing.
UnlinkNot(f) == UNCHANGED running
Unlink(f) == running' = running \ {f}

Enqueue(f, fl) ==
  /\ class'[f] \in Slots
  /\ ~HasRoom(class'[f])
  /\ Unlink(f)
  /\ queue' = [queue EXCEPT ![class'[f]] = Addtoqueue(@, f, image')]
  /\ flags' = [flags EXCEPT ![f] = fl \cup {"QUEUED"}]
  /\ UNCHANGED <<channels, nr, task>>

\* Dostartdriver, when the subtask starts.  Slip: its slot is not counted.
DostartdriverUncounted(f, fl) ==
  /\ task' = [task EXCEPT ![f] = "running"]
  /\ flags' = [flags EXCEPT ![f] = fl \cup {"RUNNING", "USESLOT"}]
  /\ UNCHANGED nr
Dostartdriver(f, fl) ==
  /\ task' = [task EXCEPT ![f] = "running"]
  /\ flags' = [flags EXCEPT ![f] = fl \cup {"RUNNING", "USESLOT"}]
  /\ nr' = IF class'[f] \in Slots
           THEN [nr EXCEPT ![class'[f]] = @ + 1] ELSE nr

\* Startdriver when the driver can start at once.
StartNow(f, fl) ==
  /\ class'[f] \in Slots => HasRoom(class'[f])
  /\ IF class'[f] = "channel"
       THEN Unlink(f) /\ channels' = channels \cup {f}
       ELSE running' = running \cup {f} /\ UNCHANGED channels
  /\ Dostartdriver(f, fl)
  /\ UNCHANGED queue

Startdriver(f, fl) ==
  /\ short' = [short EXCEPT ![f] = FALSE]
  /\ Enqueue(f, fl) \/ StartNow(f, fl)

-----------------------------------------------------------------------------
(* Operations of the url, the windows, the user and ARexx.                 *)

\* A url acts from the event loop, or inside an update it was just sent.
UrlMayAct == main # Idle => main.nested

\* Newfetch.  When the driver cannot start the object is freed at once and
\* nothing else changes, so that case is no step.
NewFetch(f, load) ==
  /\ UrlMayAct
  /\ f \notin Live
  /\ class' = [class EXCEPT ![f] = load.class]
  /\ image' = [image EXCEPT ![f] = load.image]
  /\ post' = [post EXCEPT ![f] = load.post]
  /\ owner' = [owner EXCEPT ![f] = TRUE]
  /\ Startdriver(f, {})
  /\ UNCHANGED <<waits, limit, main>>

\* AOM_DISPOSE by the url, which forgets the fetch.
Dispose(f) ==
  /\ UrlMayAct
  /\ owner[f]
  /\ IF "RUNNING" \in flags[f]
       THEN /\ Stop(f)
            /\ Raise(f, {"DISPOSED"})
            /\ Forgotten(f)
            /\ UNCHANGED <<lists, attrs, waits>>
       ELSE IF "INCOMPLETE" \in flags[f]
       THEN /\ Raise(f, {"DISPOSED"})
            /\ Forgotten(f)
            /\ UNCHANGED <<lists, attrs, waits, task>>
       ELSE Free(f)
  /\ UNCHANGED <<nr, limit, main>>

\* AOFCH_Cancel, from a window, the network status window, ARexx or a source
\* whose server push is over, and AOFCH_Cancellocal, from an image source that
\* reads the file by itself.  A queued fetch sends its url the final update
\* itself and is freed.
Cancel(f) ==
  /\ UrlMayAct
  /\ f \in Live
  /\ IF "RUNNING" \in flags[f]
       THEN /\ Stop(f)
            /\ Raise(f, {"CANCELLED"})
            /\ UNCHANGED <<lists, attrs, waits, owner>>
       ELSE IF "QUEUED" \in flags[f]
       THEN Free(f)
       ELSE /\ Raise(f, {"CANCELLED"})
            /\ UNCHANGED <<lists, attrs, waits, owner, task>>
  /\ UNCHANGED <<nr, limit, main>>

Addwaitrequest(w) ==
  /\ main = Idle
  /\ waits' = IF \E f \in Live : Matches(w, image[f])
              THEN waits \cup {w} ELSE waits
  /\ UNCHANGED <<lists, attrs, nr, limit, flags, task, owner, main>>

\* The settings program changes a limit; fetch.c is not told.
Setprefs(s, n) ==
  /\ main = Idle
  /\ limit' = [limit EXCEPT ![s] = n]
  /\ UNCHANGED <<lists, attrs, waits, nr, flags, task, owner, main>>

-----------------------------------------------------------------------------
(* What the driver sends; each is Updatefetch in the main task.            *)

DriverAlive(f) == main = Idle /\ task[f] # "none"

\* Lengths, data and redirections change how much of the document is there.
\* `data': the update carries AOURL_Data, which after AOURL_Notmodified stops
\* the driver.
UpdateData(f, sh, data) ==
  /\ DriverAlive(f) /\ "data" \in Updates
  /\ short' = [short EXCEPT ![f] = sh]
  /\ IF data /\ "NOTMODIFIED" \in flags[f] THEN Stop(f) ELSE UNCHANGED task
  /\ UNCHANGED <<lists, class, image, post, waits, nr, limit, flags, owner,
                 main>>

\* AOURL_Notmodified, of a fetch that validates a cached document.
UpdateNotmodified(f) ==
  /\ DriverAlive(f) /\ "notmodified" \in Updates
  /\ Raise(f, {"NOTMODIFIED"})
  /\ UNCHANGED <<lists, attrs, waits, nr, limit, task, owner, main>>

\* AOURL_Postnogood: the server refused a POST; it will be sent as a GET.
UpdatePostnogood(f) ==
  /\ DriverAlive(f) /\ "postnogood" \in Updates
  /\ post[f]
  /\ Stop(f)
  /\ Raise(f, {"POSTNOGOOD"})
  /\ UNCHANGED <<lists, attrs, waits, nr, limit, owner, main>>

\* The `incomplete file' requester is opened for a document that ended early
\* and that nobody stopped.
EndsShort(f) ==
  /\ flags[f] \cap {"CANCELLED", "NOTMODIFIED", "DISPOSED"} = {}
  /\ short[f]

\* The tail of Updatefetch is decided when AOURL_Terminate is met.
AfterQueues(f) ==
  IF "POSTNOGOOD" \in flags[f] THEN {"retryget"}
  ELSE IF EndsShort(f) THEN {"nothing", "forward"}
  ELSE {"forward"}

\* The head of Checkqueues: a fetch that occupies a slot gives it back.  Slip:
\* one that was cancelled does not.
ReleaseSlotUncancelled(f) ==
  nr' = IF {"USESLOT", "CANCELLED"} \cap flags[f] = {"USESLOT"}
           /\ class[f] \in Slots
        THEN [nr EXCEPT ![class[f]] = @ - 1] ELSE nr
ReleaseSlot(f) ==
  nr' = IF "USESLOT" \in flags[f] /\ class[f] \in Slots
        THEN [nr EXCEPT ![class[f]] = @ - 1] ELSE nr

\* The flags of a fetch for which the requester is opened.  Slip: the fetch is
\* not marked.
Unasked(fl) == fl \ {"USESLOT", "RUNNING"}
Asked(fl) == (fl \ {"USESLOT", "RUNNING"}) \cup {"INCOMPLETE"}

\* AOURL_Terminate: dispose the task and enter Checkqueues.  "nothing" is
\* the requester that could be opened (Incompleterequest).
Terminate(f) ==
  /\ DriverAlive(f)
  /\ \E k \in AfterQueues(f) :
       /\ main' = [at |-> "net", fetch |-> f, then |-> k, nested |-> FALSE]
       /\ flags' = [flags EXCEPT ![f] =
                      IF k = "nothing" THEN Asked(@) ELSE @ \ {"USESLOT"}]
  /\ task' = [task EXCEPT ![f] = "none"]
  /\ ReleaseSlot(f)
  /\ UNCHANGED <<lists, attrs, waits, limit, owner>>

-----------------------------------------------------------------------------
(* Checkqueues and what follows it.                                        *)

\* The loop condition over the queue of slot s.
CanStartQueued(s) == main.at = s /\ HasRoom(s) /\ queue[s] # << >>

\* One iteration: the head of the queue leaves it and its driver starts.
StartQueued(s) ==
  /\ CanStartQueued(s)
  /\ UNCHANGED <<channels, attrs, waits, limit, owner>>
  /\ LET f == Head(queue[s])
     IN  /\ queue' = [queue EXCEPT ![s] = Tail(@)]
         /\ running' = running \cup {f}
         /\ Dostartdriver(f, flags[f] \ {"QUEUED"})
  /\ main' = [main EXCEPT !.nested = FALSE]

\* One iteration: the subtask cannot be made.  The url gets the final update
\* and the fetch is freed.
StartQueuedFails(s) ==
  /\ CanStartQueued(s)
  /\ Free(Head(queue[s]))
  /\ main' = [main EXCEPT !.nested = TRUE]
  /\ UNCHANGED <<nr, limit>>

\* The network loop is done and the disk loop begins.
NetLoopDone ==
  /\ main.at = "net"
  /\ ~CanStartQueued("net")
  /\ main' = [main EXCEPT !.at = "local", !.nested = FALSE]
  /\ UNCHANGED <<lists, attrs, waits, nr, limit, flags, task, owner>>

QueuesChecked(k) ==
  /\ main.at = "local"
  /\ ~CanStartQueued("local")
  /\ main.then = k

\* Forward the final update, unless the url disposed the fetch.
Report ==
  /\ QueuesChecked("forward")
  /\ Forgotten(main.fetch)
  /\ main' = [main EXCEPT !.at = "report",
                         !.nested = "DISPOSED" \notin flags[main.fetch]]
  /\ UNCHANGED <<lists, attrs, waits, nr, limit, flags, task>>

\* Then dispose ourselves.
Finish ==
  /\ main.at = "report"
  /\ main' = Idle
  /\ Free(main.fetch)
  /\ UNCHANGED <<nr, limit>>

\* The requester is open; the fetch waits for the user.
AwaitUser ==
  /\ QueuesChecked("nothing")
  /\ main' = Idle
  /\ UNCHANGED <<lists, attrs, waits, nr, limit, flags, task, owner>>

\* Try again with no post message.  Slip: the refusal stays noted.
Refused(fl) == fl \ {"RUNNING"}
Fresh(fl) == fl \ {"RUNNING", "POSTNOGOOD"}

Retryget ==
  /\ QueuesChecked("retryget")
  /\ main' = Idle
  /\ LET f == main.fetch
     IN  /\ UNCHANGED <<class, image>>
         /\ post' = [post EXCEPT ![f] = FALSE]
         /\ Startdriver(f, Fresh(flags[f]))
  /\ UNCHANGED <<waits, limit, owner>>

\* The same when the driver cannot be started: the final update is sent.
\* The second Checkqueues finds nothing to do.
RetrygetFails ==
  /\ QueuesChecked("retryget")
  /\ main' = Idle
  /\ Free(main.fetch)
  /\ UNCHANGED <<nr, limit>>

-----------------------------------------------------------------------------
(* The user's answer to the requester (Incompletereturn).                  *)

\* Cancel or OK, or Retry that cannot start: the final update is sent and
\* the fetch is freed.
IncompleteEnd(f) ==
  /\ main = Idle
  /\ "INCOMPLETE" \in flags[f]
  /\ Free(f)
  /\ UNCHANGED <<nr, limit, main>>

\* Retry, on a fetch whose url still wants it.
IncompleteRetry(f) ==
  /\ main = Idle
  /\ "INCOMPLETE" \in flags[f]
  /\ "DISPOSED" \notin flags[f]
  /\ UNCHANGED <<class, image, post>>
  /\ Startdriver(f, flags[f] \ {"INCOMPLETE"})
  /\ UNCHANGED <<waits, limit, owner, main>>

\* Retry, on a fetch disposed meanwhile: the driver is started all the same,
\* and stopped by the dispose at the end; a queued fetch is freed.
IncompleteRetryDisposed(f) ==
  /\ main = Idle
  /\ {"INCOMPLETE", "DISPOSED"} \subseteq flags[f]
  /\ IF class[f] \in Slots /\ ~HasRoom(class[f])
       THEN Free(f) /\ UNCHANGED nr
       ELSE /\ task' = [task EXCEPT ![f] = "stopping"]
            /\ flags' = [flags EXCEPT ![f] = (@ \ {"INCOMPLETE"}) \cup
                                             {"RUNNING", "USESLOT"}]
            /\ nr' = IF class[f] \in Slots
                     THEN [nr EXCEPT ![class[f]] = @ + 1] ELSE nr
            /\ short' = [short EXCEPT ![f] = FALSE]
            /\ UNCHANGED <<lists, class, image, post, waits, owner>>
  /\ UNCHANGED <<limit, main>>

-----------------------------------------------------------------------------
Url == \/ \E f \in Fetches, load \in Loads : NewFetch(f, load)
       \/ \E f \in Fetches : Dispose(f)

User == \/ \E f \in Fetches : \/ Cancel(f)
                              \/ IncompleteEnd(f)
                              \/ IncompleteRetry(f)
                              \/ IncompleteRetryDisposed(f)
        \/ \E w \in WaitRequests : Addwaitrequest(w)
        \/ \E s \in Slots, n \in 1 .. MaxLimit : Setprefs(s, n)

Driver(f) == \/ \E sh, data \in BOOLEAN : UpdateData(f, sh, data)
             \/ UpdateNotmodified(f)
             \/ UpdatePostnogood(f)
             \/ Terminate(f)

Handler == \/ \E s \in Slots : StartQueued(s) \/ StartQueuedFails(s)
           \/ NetLoopDone
           \/ Report \/ Finish \/ AwaitUser
           \/ Retryget \/ RetrygetFails

Next == Url \/ User \/ Handler \/ \E f \in Fetches : Driver(f)

Spec == Init /\ [][Next]_vars

-----------------------------------------------------------------------------
(* Properties.                                                             *)

\* The counters nrnet and nrlocal are exactly the number of driver subtasks
\* that hold a slot: no slot is given back twice and none leaks, over queue
\* starts, retries, cancels and disposals in any order.
Drivers(s) == {f \in Fetches : class[f] = s /\ task[f] # "none"}

SlotAccounting == \A s \in Slots : nr[s] = Cardinality(Drivers(s))

\* A fetch object is linked in at most one list, once, and FCHF_QUEUED says
\* in which kind: REMOVE and ADDTAIL move one node between four lists.
OneList ==
  /\ running \cap channels = {}
  /\ \A s \in Slots : /\ IsInjective(queue[s])
                      /\ Queued(s) \cap (running \cup channels) = {}
                      /\ \A f \in Queued(s) : class[f] = s
  /\ \A f \in Fetches : "QUEUED" \in flags[f]
                          <=> \E s \in Slots : f \in Queued(s)

\* Addtoqueue keeps every document of a queue ahead of every image.
DocumentsFirst ==
  \A s \in Slots : \A i, j \in DOMAIN queue[s] :
    i < j /\ image[queue[s][i]] => image[queue[s][j]]

\* A queue that is not empty is going to be looked at: a driver of its class
\* is alive, whose end runs Checkqueues, or Checkqueues is running now.  The
\* settings may lower or raise the limit while fetches wait.
QueueNeverStuck ==
  \A s \in Slots : queue[s] # << >> => nr[s] > 0 \/ main.at \in {"net", s}

\* A url never keeps a pointer to a freed fetch: before the object goes, the
\* url gets the final update or has disposed the fetch itself.
OwnerNeverDangles == \A f \in Fetches : owner[f] => f \in Live

\* A live fetch is always somebody's to continue: its driver will report, its
\* queue will be checked, the user is being asked, or the main task is in
\* the handler of its final update.  No fetch is forgotten in a list.
NoneForgotten ==
  \A f \in Live : \/ task[f] # "none"
                  \/ flags[f] \cap {"QUEUED", "INCOMPLETE"} # {}
                  \/ (main # Idle /\ main.fetch = f)

\* An ARexx WAIT is still pending only while some fetch it waits for exists:
\* the script is never left waiting for nothing.
WaitsHaveReason ==
  \A w \in waits : \E f \in Live : Matches(w, image[f])

\* A disk or network slot is never taken beyond the limit of the moment,
\* also by the fetches a url starts from inside Checkqueues.
NeverOverLimit ==
  [][\A s \in Slots : nr'[s] > nr[s] => nr'[s] <= limit'[s]]_vars

\* `Will be disposed when task returns', of a fetch cancelled while its
\* driver runs: once the driver is gone the fetch is gone.
CancelledIsDisposed ==
  [][\A f \in Fetches : {"RUNNING", "CANCELLED"} \subseteq flags[f]
                        => "RUNNING" \in flags'[f] \/ f \notin Live']_vars

\* The scheduler implements FetchPool: the lists, the counters nrnet and
\* nrlocal, the flags of a fetch and the loop of Checkqueues, which urls may
\* interrupt, do for each fetch what the pool promises.
Phase(f) ==
  IF "QUEUED" \in flags[f] THEN "waiting"
  ELSE IF task[f] # "none" THEN "served"
  ELSE IF "INCOMPLETE" \in flags[f] THEN "asking"
  ELSE IF main # Idle /\ main.fetch = f THEN "ending"
  ELSE "free"

Pool == INSTANCE FetchPool WITH phase <- [f \in Fetches |-> Phase(f)],
                                owned <- owner

ImplementsPool == Pool!Spec

-----------------------------------------------------------------------------
(* Liveness.  The main task goes on with its handler, and every driver ends *)
(* sooner or later: protocols end, servers time out, users cancel.  Between *)
(* two updates the main task handles other messages, so a driver's final    *)
(* update is enabled again and again; the message port is a FIFO and it is  *)
(* handled, hence strong fairness.  Nothing else is assumed of drivers or   *)
(* users: no one has to answer a requester.                                 *)

Fairness == /\ WF_vars(Handler)
            /\ \A f \in Fetches : SF_vars(Terminate(f))

FairSpec == Spec /\ Fairness

\* A queued document is started, or freed, whatever keeps arriving.  (Images
\* have no such promise: new documents always go in front of them.)
QueuedDocumentStarts ==
  \A f \in Fetches : "QUEUED" \in flags[f] /\ ~image[f]
                       ~> "QUEUED" \notin flags[f]

\* A fetch disposed while its driver runs is freed in the end, also when a
\* refused POST makes it run a second time.
DisposedIsFreed ==
  \A f \in Fetches : {"RUNNING", "DISPOSED"} \subseteq flags[f]
                       ~> f \notin Live

=============================================================================
