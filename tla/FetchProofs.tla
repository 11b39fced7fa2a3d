---------------------------- MODULE FetchProofs ----------------------------
(***************************************************************************)
(* Theorems about the fetch scheduler (Fetch.tla) for any number of        *)
(* fetches, any limits and any loads: its slots and lists first, then      *)
(* those that wait, the fetches in its queues and the ARexx scripts, and   *)
(* that it implements FetchPool.                                           *)
(***************************************************************************)
EXTENDS Fetch, QueueLemmas

-----------------------------------------------------------------------------
(* The inductive invariant.                                                *)

\* What the flags of a fetch say of its driver and of its place.
FlagsAgree ==
  \A f \in Fetches :
    /\ task[f] # "none" => "RUNNING" \in flags[f] /\ "USESLOT" \in flags[f]
    /\ "RUNNING" \in flags[f] => "QUEUED" \notin flags[f]
    /\ "RUNNING" \in flags[f] => "INCOMPLETE" \notin flags[f]
    /\ "INCOMPLETE" \in flags[f] => "QUEUED" \notin flags[f]
    /\ flags[f] # {} => f \in Live
    /\ f \in channels => class[f] = "channel"

\* The fetch whose final update is being handled survives Checkqueues: its
\* flags keep a url that drops it from freeing it.
HandledFetch ==
  main # Idle =>
    /\ main.fetch \in running \cup channels
    /\ task[main.fetch] = "none"
    /\ "QUEUED" \notin flags[main.fetch]
    /\ main.then # "nothing" => "RUNNING" \in flags[main.fetch]
    /\ main.then = "nothing" => "INCOMPLETE" \in flags[main.fetch]

IInv == /\ TypeOK /\ SlotAccounting /\ OneList /\ OwnerNeverDangles
        /\ NoneForgotten /\ FlagsAgree /\ HandledFetch

\* The handler of a final update goes on, or returns to the event loop.
SameHandler ==
  /\ main' \in {Idle} \cup Draining
  /\ main' # Idle => /\ main # Idle
                     /\ main'.fetch = main.fetch
                     /\ main'.then = main.then

\* It returns only when it has taken care of its own fetch, f.
ReturnsAfter(f) == main # Idle /\ main' = Idle => main.fetch = f

\* The updates of main inside Checkqueues stay with the same final update.
LEMMA HandlerGoesOn ==
  ASSUME NEW h \in Draining, NEW at \in Slots \cup {"report"}, NEW b \in BOOLEAN,
         main = h, main' = [h EXCEPT !.at = at, !.nested = b]
  PROVE  SameHandler /\ main # Idle /\ main' # Idle
<1>1. main' \in Draining
  BY DEF Draining
<1>2. main'.fetch = h.fetch /\ main'.then = h.then
  BY DEF Draining
<1>3. h # Idle /\ main' # Idle
  <2>1. h.at \in Slots \cup {"report"} /\ main'.at \in Slots \cup {"report"}
    BY <1>1 DEF Draining
  <2>2. Idle.at \notin Slots \cup {"report"}
    BY DEF Idle, Slots
  <2> QED
    BY <2>1, <2>2
<1> QED
  BY <1>1, <1>2, <1>3 DEF SameHandler

-----------------------------------------------------------------------------
(* What the pieces of the handlers do to the queues and the counters.      *)

\* Addtoqueue adds the fetch to the queue, once.
LEMMA AddtoqueueSet ==
  ASSUME NEW q \in Seq(Fetches), NEW f \in Fetches, NEW img
  PROVE  /\ Addtoqueue(q, f, img) \in Seq(Fetches)
         /\ ToSet(Addtoqueue(q, f, img)) = ToSet(q) \cup {f}
         /\ IsInjective(q) /\ f \notin ToSet(q)
              => IsInjective(Addtoqueue(q, f, img))
<1> DEFINE images == {i \in DOMAIN q : img[q[i]]}
<1>1. CASE img[f] \/ images = {}
  BY <1>1, AppendSet DEF Addtoqueue
<1>2. CASE ~(img[f] \/ images = {})
  <2>1. images \in SUBSET Nat /\ DOMAIN q = 1 .. Len(q)
    BY LenProperties, SMT
  <2>2. Min(images) \in 1 .. Len(q)
    BY <1>2, <2>1, MinOfNaturals
  <2>3. Addtoqueue(q, f, img) = InsertAt(q, Min(images), f)
    BY <1>2, Zenon DEF Addtoqueue
  <2> HIDE DEF images
  <2> QED
    BY <2>2, <2>3, InsertAtSet
<1> QED
  BY <1>1, <1>2

\* Counting the drivers of a slot class.
LEMMA DriversFinite ==
  ASSUME NEW s
  PROVE  IsFiniteSet(Drivers(s)) /\ IsFiniteSet(Drivers(s)')
<1>1. Drivers(s) \subseteq Fetches /\ Drivers(s)' \subseteq Fetches
  BY DEF Drivers
<1> QED
  BY <1>1, FetchesAssumption, FS_Subset

-----------------------------------------------------------------------------
(* A fetch is unlinked and freed.                                          *)

\* Disposefetch frees a fetch that has no driver.
LEMMA FreeKeeps ==
  ASSUME IInv, NEW f \in Fetches, task[f] = "none", Free(f),
         UNCHANGED <<nr, limit>>, SameHandler, main' # Idle => main.fetch # f,
         ReturnsAfter(f)
  PROVE  IInv'
<1> USE DEF IInv
<1>1. \A s \in Slots : /\ queue'[s] \in Seq(Fetches)
                       /\ Queued(s)' = Queued(s) \ {f}
                       /\ IsInjective(queue'[s])
  <2> SUFFICES ASSUME NEW s \in Slots
               PROVE  /\ queue'[s] \in Seq(Fetches)
                      /\ Queued(s)' = Queued(s) \ {f}
                      /\ IsInjective(queue'[s])
    OBVIOUS
  <2>1. queue[s] \in Seq(Fetches) /\ IsInjective(queue[s])
    BY DEF TypeOK, OneList
  <2>2. queue'[s] = RemoveFirst(queue[s], f)
    BY DEF Free
  <2> QED
    BY <2>1, <2>2, RemoveFirstSet DEF Queued
<1>2. queue' \in [Slots -> Seq(Fetches)]
  BY <1>1 DEF Free
<1>3. TypeOK'
  BY <1>2 DEF TypeOK, Free, Forgotten, Checkwaitrequests, SameHandler, Classes
<1>4. SlotAccounting'
  <2> SUFFICES ASSUME NEW s \in Slots PROVE nr'[s] = Cardinality(Drivers(s)')
    BY DEF SlotAccounting
  <2>1. Drivers(s)' = Drivers(s)
    BY DEF Drivers, Free, TypeOK, Slots
  <2> QED
    BY <2>1 DEF SlotAccounting
<1>5. Live' = Live \ {f}
  BY <1>1 DEF Live, Free, Slots
<1>6. OneList'
  BY <1>1 DEF OneList, Free, TypeOK
<1>7. OwnerNeverDangles'
  BY <1>5 DEF OwnerNeverDangles, Free, Forgotten, TypeOK
<1>8. FlagsAgree'
  BY <1>5 DEF FlagsAgree, Free, TypeOK
<1>9. HandledFetch'
  BY DEF HandledFetch, Free, TypeOK, SameHandler, Draining, Idle
<1>10. NoneForgotten'
  BY <1>5 DEF NoneForgotten, Free, TypeOK, SameHandler, ReturnsAfter
<1> QED
  BY <1>3, <1>4, <1>6, <1>7, <1>8, <1>9, <1>10

-----------------------------------------------------------------------------
(* A driver starts, or the fetch is queued.                                *)

\* Startdriver of a new, a retried or a resent fetch.
LEMMA StartKeeps ==
  ASSUME IInv, NEW f \in Fetches, NEW fl \in SUBSET Flags,
         fl \cap {"RUNNING", "QUEUED", "INCOMPLETE"} = {},
         task[f] = "none", "QUEUED" \notin flags[f],
         NEW c \in Classes, class' = [class EXCEPT ![f] = c],
         c # class[f] => f \notin Live,
         image' \in [Fetches -> BOOLEAN], post' \in [Fetches -> BOOLEAN],
         owner' \in [Fetches -> BOOLEAN],
         \A g \in Fetches \ {f} : owner'[g] = owner[g],
         UNCHANGED <<waits, limit>>, SameHandler,
         main' # Idle => main.fetch # f, ReturnsAfter(f),
         Startdriver(f, fl)
  PROVE  IInv'
<1> USE DEF IInv
<1>1. class'[f] = c /\ \A g \in Fetches \ {f} : class'[g] = class[g]
  BY DEF TypeOK
<1>2. \A s \in Slots : f \notin Queued(s)
  BY DEF OneList
<1>3. f \in channels => c = "channel"
  BY DEF FlagsAgree, Live
<1>4. short' \in [Fetches -> BOOLEAN]
  BY DEF TypeOK, Startdriver
<1>5. CASE Enqueue(f, fl)
  <2>1. c \in Slots
    BY <1>1, <1>5 DEF Enqueue
  <2>2. /\ queue' = [queue EXCEPT ![c] = Addtoqueue(queue[c], f, image')]
        /\ running' = running \ {f}
        /\ flags' = [flags EXCEPT ![f] = fl \cup {"QUEUED"}]
        /\ UNCHANGED <<channels, nr, task>>
    BY <1>1, <1>5 DEF Enqueue, Unlink
  <2>3. \A s \in Slots : queue[s] \in Seq(Fetches) /\ IsInjective(queue[s])
    BY DEF TypeOK, OneList
  <2>4. /\ queue'[c] \in Seq(Fetches)
        /\ Queued(c)' = Queued(c) \cup {f}
        /\ IsInjective(queue'[c])
    <3>1. queue'[c] = Addtoqueue(queue[c], f, image')
      BY <2>1, <2>2 DEF TypeOK
    <3> QED
      BY <1>2, <2>1, <2>3, <3>1, AddtoqueueSet DEF Queued
  <2>5. \A s \in Slots \ {c} : queue'[s] = queue[s] /\ Queued(s)' = Queued(s)
    BY <2>1, <2>2 DEF TypeOK, Queued
  <2>6. TypeOK'
    <3>1. queue' \in [Slots -> Seq(Fetches)]
      BY <2>1, <2>2, <2>4 DEF TypeOK
    <3> QED
      BY <1>4, <2>2, <3>1 DEF TypeOK, SameHandler, Flags
  <2>7. SlotAccounting'
    <3> SUFFICES ASSUME NEW s \in Slots PROVE nr'[s] = Cardinality(Drivers(s)')
      BY DEF SlotAccounting
    <3>1. Drivers(s)' = Drivers(s)
      BY <1>1, <2>2 DEF Drivers
    <3> QED
      BY <2>2, <3>1 DEF SlotAccounting
  <2>8. Live' = Live \cup {f}
    BY <2>1, <2>2, <2>4, <2>5 DEF Live, Slots
  <2>9. OneList'
    BY <1>1, <1>2, <1>3, <2>1, <2>2, <2>3, <2>4, <2>5
       DEF OneList, TypeOK, Slots
  <2>10. OwnerNeverDangles'
    BY <2>8 DEF OwnerNeverDangles
  <2>11. FlagsAgree'
    BY <1>1, <1>3, <2>2, <2>8 DEF FlagsAgree, TypeOK
  <2>12. HandledFetch'
    BY <2>2 DEF HandledFetch, TypeOK, SameHandler
  <2>13. NoneForgotten'
    BY <2>2, <2>8 DEF NoneForgotten, TypeOK, SameHandler, ReturnsAfter
  <2> QED
    BY <2>6, <2>7, <2>9, <2>10, <2>11, <2>12, <2>13
<1>6. CASE StartNow(f, fl)
  <2>1. /\ task' = [task EXCEPT ![f] = "running"]
        /\ flags' = [flags EXCEPT ![f] = fl \cup {"RUNNING", "USESLOT"}]
        /\ nr' = IF c \in Slots THEN [nr EXCEPT ![c] = @ + 1] ELSE nr
        /\ UNCHANGED queue
    BY <1>1, <1>6 DEF StartNow, Dostartdriver
  <2>2. /\ running' = IF c = "channel" THEN running \ {f} ELSE running \cup {f}
        /\ channels' = IF c = "channel" THEN channels \cup {f} ELSE channels
    BY <1>1, <1>6 DEF StartNow, Unlink
  <2>3. \A s \in Slots : queue'[s] = queue[s] /\ Queued(s)' = Queued(s)
    BY <2>1 DEF Queued
  <2>4. TypeOK'
    BY <1>4, <2>1, <2>2 DEF TypeOK, SameHandler, Flags
  <2>5. SlotAccounting'
    <3> SUFFICES ASSUME NEW s \in Slots PROVE nr'[s] = Cardinality(Drivers(s)')
      BY DEF SlotAccounting
    <3>1. f \notin Drivers(s)
      BY DEF Drivers
    <3>2. CASE c = s
      <4>1. Drivers(s)' = Drivers(s) \cup {f}
        BY <1>1, <2>1, <3>2 DEF Drivers, TypeOK
      <4>2. nr'[s] = nr[s] + 1
        BY <2>1, <3>2 DEF TypeOK
      <4>3. IsFiniteSet(Drivers(s))
        BY DriversFinite
      <4>4. Cardinality(Drivers(s) \cup {f}) = Cardinality(Drivers(s)) + 1
        BY <3>1, <4>3, FS_AddElement
      <4> QED
        BY <4>1, <4>2, <4>4 DEF SlotAccounting
    <3>3. CASE c # s
      <4>1. Drivers(s)' = Drivers(s)
        BY <1>1, <2>1, <3>1, <3>3 DEF Drivers, TypeOK
      <4>2. nr'[s] = nr[s]
        BY <2>1, <3>3 DEF TypeOK
      <4> QED
        BY <4>1, <4>2 DEF SlotAccounting
    <3> QED
      BY <3>2, <3>3
  <2>6. Live' = Live \cup {f}
    BY <2>2, <2>3 DEF Live, Slots
  <2>7. OneList'
    BY <1>1, <1>2, <1>3, <2>1, <2>2, <2>3 DEF OneList, TypeOK
  <2>8. OwnerNeverDangles'
    BY <2>6 DEF OwnerNeverDangles
  <2>9. FlagsAgree'
    BY <1>1, <1>3, <2>1, <2>2, <2>6 DEF FlagsAgree, TypeOK
  <2>10. HandledFetch'
    BY <2>1, <2>2 DEF HandledFetch, TypeOK, SameHandler
  <2>11. NoneForgotten'
    BY <2>1, <2>6 DEF NoneForgotten, TypeOK, SameHandler, ReturnsAfter
  <2> QED
    BY <2>4, <2>5, <2>7, <2>8, <2>9, <2>10, <2>11
<1> QED
  BY <1>5, <1>6 DEF Startdriver

-----------------------------------------------------------------------------
(* Steps that neither start nor end a driver nor move a fetch.             *)

\* Flags that only note something, lengths, owners and the place of main.
LEMMA NotingKeeps ==
  ASSUME IInv, TypeOK', UNCHANGED <<running, channels, queue, class, nr>>,
         \A f \in Fetches :
           /\ task'[f] = "none" <=> task[f] = "none"
           /\ \A x \in {"RUNNING", "QUEUED", "INCOMPLETE", "USESLOT"} :
                x \in flags'[f] <=> x \in flags[f]
           /\ flags'[f] # {} => f \in Live
           /\ owner'[f] => owner[f],
         SameHandler,
         main # Idle /\ main' = Idle => "INCOMPLETE" \in flags[main.fetch]
  PROVE  IInv'
<1> USE DEF IInv
<1>1. \A s \in Slots : Queued(s)' = Queued(s)
  BY DEF Queued
<1>2. Live' = Live
  BY <1>1 DEF Live, Slots
<1>3. SlotAccounting'
  <2> SUFFICES ASSUME NEW s \in Slots PROVE nr'[s] = Cardinality(Drivers(s)')
    BY DEF SlotAccounting
  <2>1. Drivers(s)' = Drivers(s)
    BY DEF Drivers
  <2> QED
    BY <2>1 DEF SlotAccounting
<1>4. OneList'
  BY <1>1 DEF OneList
<1>5. OwnerNeverDangles'
  BY <1>2 DEF OwnerNeverDangles
<1>6. FlagsAgree'
  BY <1>2 DEF FlagsAgree
<1>7. HandledFetch'
  BY DEF HandledFetch, TypeOK, SameHandler, Draining
<1>8. NoneForgotten'
  <2>1. \A s \in Slots : queue[s] \in Seq(Fetches)
    BY DEF TypeOK
  <2>2. \A s \in Slots : Queued(s) \subseteq Fetches
    BY <2>1 DEF Queued, ToSet
  <2>3. Live \subseteq Fetches
    BY <2>2 DEF Live, TypeOK, Slots
  <2> QED
    BY <1>2, <2>3 DEF NoneForgotten, SameHandler
<1> QED
  BY <1>3, <1>4, <1>5, <1>6, <1>7, <1>8

-----------------------------------------------------------------------------
(* The actions that are none of these.                                     *)

\* A driver ends, gives its slot back, and Checkqueues begins.
LEMMA TerminateKeeps ==
  ASSUME IInv, NEW f \in Fetches, Terminate(f)
  PROVE  IInv'
<1> USE DEF IInv
<1>1. PICK k \in Continuations :
        /\ k \in AfterQueues(f)
        /\ main' = [at |-> "net", fetch |-> f, then |-> k, nested |-> FALSE]
        /\ flags' = [flags EXCEPT ![f] =
                       IF k = "nothing" THEN Asked(@) ELSE @ \ {"USESLOT"}]
  BY DEF Terminate, AfterQueues, Continuations
<1>2. /\ task[f] # "none"
      /\ "RUNNING" \in flags[f] /\ "USESLOT" \in flags[f]
      /\ "QUEUED" \notin flags[f] /\ "INCOMPLETE" \notin flags[f]
  BY DEF Terminate, DriverAlive, FlagsAgree
<1>3. f \in running \cup channels
  BY <1>2 DEF FlagsAgree, OneList, Live, Slots
<1>4. /\ task' = [task EXCEPT ![f] = "none"]
      /\ nr' = IF class[f] \in Slots THEN [nr EXCEPT ![class[f]] = @ - 1] ELSE nr
      /\ UNCHANGED <<running, channels, queue, class, image, post, short, waits,
                     limit, owner>>
  BY <1>2 DEF Terminate, ReleaseSlot, lists, attrs
<1>5. \A s \in Slots :
        /\ Queued(s)' = Queued(s)
        /\ nr'[s] = Cardinality(Drivers(s)')
        /\ nr'[s] \in Nat
  <2> SUFFICES ASSUME NEW s \in Slots
               PROVE  /\ Queued(s)' = Queued(s)
                      /\ nr'[s] = Cardinality(Drivers(s)')
                      /\ nr'[s] \in Nat
    OBVIOUS
  <2>1. Queued(s)' = Queued(s)
    BY <1>4 DEF Queued
  <2>2. IsFiniteSet(Drivers(s))
    BY DriversFinite
  <2>3. nr[s] = Cardinality(Drivers(s)) /\ nr[s] \in Nat
    BY DEF SlotAccounting, TypeOK
  <2>4. CASE class[f] = s
    <3>1. f \in Drivers(s)
      BY <1>2, <2>4 DEF Drivers
    <3>2. Drivers(s)' = Drivers(s) \ {f}
      BY <1>4, <2>4 DEF Drivers, TypeOK
    <3>3. Cardinality(Drivers(s) \ {f}) = Cardinality(Drivers(s)) - 1
      BY <2>2, <3>1, FS_RemoveElement
    <3>4. Cardinality(Drivers(s) \ {f}) \in Nat
      BY <2>2, FS_RemoveElement, FS_CardinalityType
    <3>5. nr'[s] = nr[s] - 1
      BY <1>4, <2>4 DEF TypeOK
    <3> QED
      BY <2>1, <2>3, <3>2, <3>3, <3>4, <3>5
  <2>5. CASE class[f] # s
    <3>1. Drivers(s)' = Drivers(s)
      BY <1>4, <2>5 DEF Drivers, TypeOK
    <3>2. nr'[s] = nr[s]
      BY <1>4, <2>5 DEF TypeOK
    <3> QED
      BY <2>1, <2>3, <3>1, <3>2
  <2> QED
    BY <2>4, <2>5
<1>6. TypeOK'
  <2>1. nr' \in [Slots -> Nat]
    BY <1>4, <1>5 DEF TypeOK
  <2>2. main' \in Draining
    BY <1>1 DEF Draining, Slots
  <2>3. flags' \in [Fetches -> SUBSET Flags]
    BY <1>1 DEF TypeOK, Asked, Flags
  <2> QED
    BY <1>4, <2>1, <2>2, <2>3 DEF TypeOK
<1>7. SlotAccounting'
  BY <1>5 DEF SlotAccounting
<1>8. Live' = Live
  BY <1>4, <1>5 DEF Live, Slots
<1>9. \A g \in Fetches : "QUEUED" \in flags'[g] <=> "QUEUED" \in flags[g]
  BY <1>1 DEF Asked, TypeOK
<1>10. OneList'
  BY <1>4, <1>5, <1>9 DEF OneList
<1>11. OwnerNeverDangles'
  BY <1>4, <1>8 DEF OwnerNeverDangles
<1>12. FlagsAgree'
  <2> SUFFICES ASSUME NEW g \in Fetches
               PROVE  /\ task'[g] # "none" =>
                           "RUNNING" \in flags'[g] /\ "USESLOT" \in flags'[g]
                      /\ "RUNNING" \in flags'[g] => "QUEUED" \notin flags'[g]
                      /\ "RUNNING" \in flags'[g] => "INCOMPLETE" \notin flags'[g]
                      /\ "INCOMPLETE" \in flags'[g] => "QUEUED" \notin flags'[g]
                      /\ flags'[g] # {} => g \in Live'
                      /\ g \in channels' => class'[g] = "channel"
    BY DEF FlagsAgree
  <2>1. CASE g = f
    BY <1>1, <1>2, <1>3, <1>4, <1>8, <2>1 DEF Asked, TypeOK, FlagsAgree, Live
  <2>2. CASE g # f
    <3>1. flags'[g] = flags[g] /\ task'[g] = task[g]
      BY <1>1, <1>4, <2>2 DEF TypeOK
    <3> QED
      BY <1>4, <1>8, <3>1 DEF FlagsAgree
  <2> QED
    BY <2>1, <2>2
<1>13. HandledFetch'
  BY <1>1, <1>2, <1>3, <1>4 DEF HandledFetch, Asked, TypeOK
<1>14. NoneForgotten'
  <2>1. main = Idle /\ main'.fetch = f /\ main' # Idle
    BY <1>1 DEF Terminate, DriverAlive, Idle
  <2> QED
    BY <1>1, <1>4, <1>8, <2>1 DEF NoneForgotten, Asked, TypeOK
<1> QED
  BY <1>6, <1>7, <1>10, <1>11, <1>12, <1>13, <1>14

\* A driver starts for a fetch that keeps its place.
LEMMA IncompleteRetryDisposedKeeps ==
  ASSUME IInv, NEW f \in Fetches, IncompleteRetryDisposed(f)
  PROVE  IInv'
<1> USE DEF IInv
<1>1. "INCOMPLETE" \in flags[f] /\ task[f] = "none" /\ main = Idle /\ main' = Idle
  BY DEF IncompleteRetryDisposed, FlagsAgree
<1>2. CASE class[f] \in Slots /\ ~HasRoom(class[f])
  BY <1>1, <1>2, FreeKeeps DEF IncompleteRetryDisposed, SameHandler, ReturnsAfter
<1>3. CASE ~(class[f] \in Slots /\ ~HasRoom(class[f]))
  <2>1. /\ task' = [task EXCEPT ![f] = "stopping"]
        /\ flags' = [flags EXCEPT ![f] = (@ \ {"INCOMPLETE"}) \cup
                                         {"RUNNING", "USESLOT"}]
        /\ nr' = IF class[f] \in Slots
                 THEN [nr EXCEPT ![class[f]] = @ + 1] ELSE nr
        /\ short' = [short EXCEPT ![f] = FALSE]
        /\ UNCHANGED <<running, channels, queue, class, image, post, waits,
                       owner, limit, main>>
    BY <1>3 DEF IncompleteRetryDisposed, lists
  <2>2. \A s \in Slots : Queued(s)' = Queued(s)
    BY <2>1 DEF Queued
  <2>3. Live' = Live
    BY <2>1, <2>2 DEF Live, Slots
  <2>4. TypeOK'
    BY <2>1 DEF TypeOK, Flags
  <2>5. SlotAccounting'
    <3> SUFFICES ASSUME NEW s \in Slots PROVE nr'[s] = Cardinality(Drivers(s)')
      BY DEF SlotAccounting
    <3>1. f \notin Drivers(s) /\ IsFiniteSet(Drivers(s))
      BY <1>1, DriversFinite DEF Drivers
    <3>2. CASE class[f] = s
      <4>1. Drivers(s)' = Drivers(s) \cup {f}
        BY <2>1, <3>2 DEF Drivers, TypeOK
      <4>2. nr'[s] = nr[s] + 1
        BY <2>1, <3>2 DEF TypeOK
      <4>3. Cardinality(Drivers(s) \cup {f}) = Cardinality(Drivers(s)) + 1
        BY <3>1, FS_AddElement
      <4> QED
        BY <4>1, <4>2, <4>3 DEF SlotAccounting
    <3>3. CASE class[f] # s
      <4>1. Drivers(s)' = Drivers(s) /\ nr'[s] = nr[s]
        BY <2>1, <3>1, <3>3 DEF Drivers, TypeOK
      <4> QED
        BY <4>1 DEF SlotAccounting
    <3> QED
      BY <3>2, <3>3
  <2>6. OneList'
    BY <2>1, <2>2 DEF OneList, TypeOK
  <2>7. OwnerNeverDangles'
    BY <2>1, <2>3 DEF OwnerNeverDangles
  <2>8. FlagsAgree'
    BY <1>1, <2>1, <2>3 DEF FlagsAgree, TypeOK
  <2>9. HandledFetch'
    BY <1>1 DEF HandledFetch
  <2>10. NoneForgotten'
    BY <1>1, <2>1, <2>3 DEF NoneForgotten, TypeOK
  <2> QED
    BY <2>4, <2>5, <2>6, <2>7, <2>8, <2>9, <2>10
<1> QED
  BY <1>2, <1>3

\* The head of a queue leaves it and its driver starts.
LEMMA StartQueuedKeeps ==
  ASSUME IInv, NEW s \in Slots, StartQueued(s)
  PROVE  IInv'
<1> USE DEF IInv
<1> DEFINE f == Head(queue[s])
<1>1. queue[s] # << >> /\ main \in Draining /\ main' = [main EXCEPT !.nested = FALSE]
  BY DEF StartQueued, CanStartQueued, TypeOK, Idle, Slots
<1>2. /\ queue' = [queue EXCEPT ![s] = Tail(queue[s])]
      /\ running' = running \cup {f}
      /\ task' = [task EXCEPT ![f] = "running"]
      /\ flags' = [flags EXCEPT ![f] = (flags[f] \ {"QUEUED"})
                                       \cup {"RUNNING", "USESLOT"}]
      /\ nr' = IF class'[f] \in Slots
               THEN [nr EXCEPT ![class'[f]] = @ + 1] ELSE nr
      /\ UNCHANGED <<channels, class, image, post, short, waits, limit, owner>>
  BY DEF StartQueued, Dostartdriver, attrs
<1>3. \A r \in Slots : queue[r] \in Seq(Fetches) /\ IsInjective(queue[r])
  BY DEF TypeOK, OneList
<1>4. /\ f \in Queued(s) /\ f \in Fetches
      /\ Tail(queue[s]) \in Seq(Fetches)
      /\ ToSet(Tail(queue[s])) = Queued(s) \ {f}
      /\ IsInjective(Tail(queue[s]))
  BY <1>1, <1>3, TailSet, HeadTailProperties DEF Queued
<1> HIDE DEF f
<1>5. /\ class[f] = s /\ f \notin running \cup channels
      /\ "QUEUED" \in flags[f] /\ task[f] = "none"
      /\ "RUNNING" \notin flags[f] /\ "INCOMPLETE" \notin flags[f]
  BY <1>4 DEF OneList, FlagsAgree
<1>6. nr' = [nr EXCEPT ![s] = @ + 1]
  BY <1>2, <1>5
<1>7. /\ queue' \in [Slots -> Seq(Fetches)]
      /\ queue'[s] = Tail(queue[s])
      /\ Queued(s)' = Queued(s) \ {f}
      /\ \A r \in Slots \ {s} : queue'[r] = queue[r] /\ Queued(r)' = Queued(r)
  BY <1>2, <1>3, <1>4 DEF TypeOK, Queued
<1>8. TypeOK'
  <2>1. main' \in Draining
    BY <1>1 DEF Draining
  <2> QED
    BY <1>2, <1>4, <1>6, <1>7, <2>1 DEF TypeOK, Flags
<1>9. SlotAccounting'
  <2> SUFFICES ASSUME NEW r \in Slots PROVE nr'[r] = Cardinality(Drivers(r)')
    BY DEF SlotAccounting
  <2>1. f \notin Drivers(r) /\ IsFiniteSet(Drivers(r))
    BY <1>5, DriversFinite DEF Drivers
  <2>2. CASE r = s
    <3>1. Drivers(r)' = Drivers(r) \cup {f}
      BY <1>2, <1>4, <1>5, <2>2 DEF Drivers, TypeOK
    <3>2. nr'[r] = nr[r] + 1
      BY <1>6, <2>2 DEF TypeOK
    <3>3. Cardinality(Drivers(r) \cup {f}) = Cardinality(Drivers(r)) + 1
      BY <2>1, FS_AddElement
    <3> QED
      BY <3>1, <3>2, <3>3 DEF SlotAccounting
  <2>3. CASE r # s
    <3>1. Drivers(r)' = Drivers(r)
      BY <1>2, <1>5, <2>3 DEF Drivers, TypeOK
    <3>2. nr'[r] = nr[r]
      BY <1>6, <2>3 DEF TypeOK
    <3> QED
      BY <3>1, <3>2 DEF SlotAccounting
  <2> QED
    BY <2>2, <2>3
<1>10. Live' = Live
  BY <1>2, <1>4, <1>7 DEF Live, Slots
<1>11. OneList'
  <2>1. \A r \in Slots : IsInjective(queue'[r])
    BY <1>3, <1>4, <1>7
  <2>2. \A r \in Slots : Queued(r)' = Queued(r) \ {f}
    BY <1>5, <1>7 DEF OneList
  <2>3. \A g \in Fetches : "QUEUED" \in flags'[g] <=> g # f /\ "QUEUED" \in flags[g]
    BY <1>2, <1>4 DEF TypeOK
  <2> QED
    BY <1>2, <1>5, <2>1, <2>2, <2>3 DEF OneList
<1>12. OwnerNeverDangles'
  BY <1>2, <1>10 DEF OwnerNeverDangles
<1>13. FlagsAgree'
  BY <1>2, <1>4, <1>5, <1>10 DEF FlagsAgree, TypeOK, Live
<1>14. HandledFetch'
  <2>1. /\ main # Idle /\ main'.fetch = main.fetch /\ main'.then = main.then
        /\ main.fetch \in Fetches
    BY <1>1 DEF Draining, Idle, Slots
  <2>2. main.fetch # f
    BY <1>5, <2>1 DEF HandledFetch
  <2> QED
    BY <1>2, <2>1, <2>2 DEF HandledFetch, TypeOK
<1>15. NoneForgotten'
  <2>1. main' # Idle /\ main'.fetch = main.fetch
    BY <1>1 DEF Draining, Idle, Slots
  <2> QED
    BY <1>2, <1>10, <2>1 DEF NoneForgotten, TypeOK
<1> QED
  BY <1>8, <1>9, <1>11, <1>12, <1>13, <1>14, <1>15

-----------------------------------------------------------------------------
(* Every step keeps the invariant.                                         *)

\* The program starts with no fetches at all.
LEMMA InitIInv == Init => IInv
<1> SUFFICES ASSUME Init PROVE IInv
  OBVIOUS
<1> USE DEF Init
<1>1. \A s \in Slots : queue[s] = << >> /\ ToSet(queue[s]) = {}
  BY DEF ToSet
<1>2. TypeOK
  BY LimitAssumption DEF TypeOK, Classes
<1>3. SlotAccounting
  <2>1. \A s \in Slots : Drivers(s) = {}
    BY DEF Drivers
  <2> QED
    BY <2>1, FS_EmptySet DEF SlotAccounting
<1>4. OneList
  BY <1>1 DEF OneList, Queued, IsInjective
<1>5. OwnerNeverDangles /\ FlagsAgree /\ HandledFetch /\ NoneForgotten
  BY <1>1 DEF OwnerNeverDangles, FlagsAgree, HandledFetch, NoneForgotten, Live,
              Queued, Slots
<1> QED
  BY <1>2, <1>3, <1>4, <1>5 DEF IInv

\* What urls do keeps the invariant, also from inside Checkqueues.
LEMMA UrlKeeps == ASSUME IInv, Url PROVE IInv'
<1> USE DEF IInv
<1>1. ASSUME NEW f \in Fetches, NEW load \in Loads, NewFetch(f, load)
      PROVE  IInv'
  <2>1. load.class \in Classes /\ load.image \in BOOLEAN /\ load.post \in BOOLEAN
    BY LoadsAssumption DEF Classes, Slots
  <2>2. f \notin Live /\ flags[f] = {} /\ task[f] = "none"
    BY <1>1 DEF NewFetch, FlagsAgree
  <2>3. /\ class' = [class EXCEPT ![f] = load.class]
        /\ image' = [image EXCEPT ![f] = load.image]
        /\ post' = [post EXCEPT ![f] = load.post]
        /\ owner' = [owner EXCEPT ![f] = TRUE]
        /\ Startdriver(f, {})
        /\ UNCHANGED <<waits, limit, main>>
    BY <1>1 DEF NewFetch
  <2>4. /\ image' \in [Fetches -> BOOLEAN] /\ post' \in [Fetches -> BOOLEAN]
        /\ owner' \in [Fetches -> BOOLEAN]
        /\ \A g \in Fetches \ {f} : owner'[g] = owner[g]
    BY <2>1, <2>3 DEF TypeOK
  <2>5. SameHandler
    BY <2>3 DEF SameHandler, TypeOK
  <2>6. main' # Idle => main.fetch # f
    BY <2>2, <2>3 DEF HandledFetch, Live
  <2> QED
    BY <2>1, <2>2, <2>3, <2>4, <2>5, <2>6, StartKeeps DEF ReturnsAfter
<1>2. ASSUME NEW f \in Fetches, Dispose(f) PROVE IInv'
  <2>1. f \in Live /\ UNCHANGED <<nr, limit, main>> /\ SameHandler
    BY <1>2 DEF Dispose, OwnerNeverDangles, SameHandler, TypeOK
  <2>2. CASE "RUNNING" \in flags[f] \/ "INCOMPLETE" \in flags[f]
    <3>1. /\ task' = [task EXCEPT ![f] = IF @ = "running" THEN "stopping" ELSE @]
             \/ task' = task
          /\ flags' = [flags EXCEPT ![f] = @ \cup {"DISPOSED"}]
          /\ owner' = [owner EXCEPT ![f] = FALSE]
          /\ UNCHANGED <<running, channels, queue, class, image, post, short,
                         waits>>
      BY <1>2, <2>2 DEF Dispose, Stop, Raise, Forgotten, lists, attrs
    <3>2. TypeOK'
      BY <2>1, <3>1 DEF TypeOK, Flags
    <3>3. \A g \in Fetches :
            /\ task'[g] = "none" <=> task[g] = "none"
            /\ \A x \in {"RUNNING", "QUEUED", "INCOMPLETE", "USESLOT"} :
                 x \in flags'[g] <=> x \in flags[g]
            /\ flags'[g] # {} => g \in Live
            /\ owner'[g] => owner[g]
      <4> TAKE g \in Fetches
      <4>1. task'[g] = "none" <=> task[g] = "none"
        BY <3>1 DEF TypeOK
      <4>2. flags'[g] = IF g = f THEN flags[f] \cup {"DISPOSED"} ELSE flags[g]
        BY <3>1 DEF TypeOK
      <4>3. flags'[g] # {} => g \in Live
        BY <2>1, <4>2 DEF FlagsAgree
      <4> QED
        BY <3>1, <4>1, <4>2, <4>3
    <3>4. main' = main
      BY <2>1
    <3> QED
      BY <2>1, <3>1, <3>2, <3>3, <3>4, NotingKeeps
  <2>3. CASE "RUNNING" \notin flags[f] /\ "INCOMPLETE" \notin flags[f]
    <3>1. Free(f)
      BY <1>2, <2>3 DEF Dispose
    <3>2. task[f] = "none"
      BY <2>3 DEF FlagsAgree
    <3>3. main' # Idle => main.fetch # f
      BY <2>1, <2>3 DEF HandledFetch
    <3> QED
      BY <2>1, <3>1, <3>2, <3>3, FreeKeeps DEF ReturnsAfter
  <2> QED
    BY <2>2, <2>3
<1> QED
  BY <1>1, <1>2 DEF Url

\* So does what windows, requesters, ARexx and the settings do.
LEMMA UserKeeps == ASSUME IInv, User PROVE IInv'
<1> USE DEF IInv
<1>1. ASSUME NEW f \in Fetches, Cancel(f) PROVE IInv'
  <2>1. f \in Live /\ UNCHANGED <<nr, limit, main>> /\ SameHandler
    BY <1>1 DEF Cancel, SameHandler, TypeOK
  <2>2. CASE "RUNNING" \in flags[f] \/ "QUEUED" \notin flags[f]
    <3>1. /\ task' = [task EXCEPT ![f] = IF @ = "running" THEN "stopping" ELSE @]
             \/ task' = task
          /\ flags' = [flags EXCEPT ![f] = @ \cup {"CANCELLED"}]
          /\ UNCHANGED <<running, channels, queue, class, image, post, short,
                         waits, owner>>
      BY <1>1, <2>2 DEF Cancel, Stop, Raise, lists, attrs
    <3>2. TypeOK'
      BY <2>1, <3>1 DEF TypeOK, Flags
    <3>3. \A g \in Fetches :
            /\ task'[g] = "none" <=> task[g] = "none"
            /\ \A x \in {"RUNNING", "QUEUED", "INCOMPLETE", "USESLOT"} :
                 x \in flags'[g] <=> x \in flags[g]
            /\ flags'[g] # {} => g \in Live
            /\ owner'[g] => owner[g]
      <4> TAKE g \in Fetches
      <4>1. task'[g] = "none" <=> task[g] = "none"
        BY <3>1 DEF TypeOK
      <4>2. flags'[g] = IF g = f THEN flags[f] \cup {"CANCELLED"} ELSE flags[g]
        BY <3>1 DEF TypeOK
      <4>3. flags'[g] # {} => g \in Live
        BY <2>1, <4>2 DEF FlagsAgree
      <4> QED
        BY <3>1, <4>1, <4>2, <4>3
    <3>4. main' = main
      BY <2>1
    <3> QED
      BY <2>1, <3>1, <3>2, <3>3, <3>4, NotingKeeps
  <2>3. CASE "RUNNING" \notin flags[f] /\ "QUEUED" \in flags[f]
    <3>1. Free(f) /\ task[f] = "none" /\ (main' # Idle => main.fetch # f)
      BY <1>1, <2>1, <2>3 DEF Cancel, FlagsAgree, HandledFetch
    <3> QED
      BY <2>1, <3>1, FreeKeeps DEF ReturnsAfter
  <2> QED
    BY <2>2, <2>3
<1>2. ASSUME NEW f \in Fetches, IncompleteEnd(f) PROVE IInv'
  <2>1. Free(f) /\ UNCHANGED <<nr, limit, main>> /\ main = Idle
    BY <1>2 DEF IncompleteEnd
  <2>2. task[f] = "none"
    BY <1>2 DEF IncompleteEnd, FlagsAgree
  <2> QED
    BY <2>1, <2>2, FreeKeeps DEF SameHandler, ReturnsAfter
<1>3. ASSUME NEW f \in Fetches, IncompleteRetry(f) PROVE IInv'
  <2>1. /\ UNCHANGED <<class, image, post, waits, limit, owner, main>>
        /\ main = Idle
        /\ Startdriver(f, flags[f] \ {"INCOMPLETE"})
    BY <1>3 DEF IncompleteRetry
  <2>2. /\ task[f] = "none" /\ "QUEUED" \notin flags[f]
        /\ (flags[f] \ {"INCOMPLETE"}) \cap {"RUNNING", "QUEUED", "INCOMPLETE"} = {}
        /\ flags[f] \ {"INCOMPLETE"} \in SUBSET Flags
    BY <1>3 DEF IncompleteRetry, FlagsAgree, TypeOK
  <2>3. class[f] \in Classes /\ class' = [class EXCEPT ![f] = class[f]]
    BY <2>1 DEF TypeOK
  <2>4. SameHandler /\ main' = Idle
    BY <2>1 DEF SameHandler
  <2>5. /\ image' \in [Fetches -> BOOLEAN] /\ post' \in [Fetches -> BOOLEAN]
        /\ owner' \in [Fetches -> BOOLEAN]
        /\ \A g \in Fetches \ {f} : owner'[g] = owner[g]
    BY <2>1 DEF TypeOK
  <2> QED
    BY <2>1, <2>2, <2>3, <2>4, <2>5, StartKeeps DEF ReturnsAfter
<1>4. ASSUME NEW w \in WaitRequests, Addwaitrequest(w) PROVE IInv'
  <2>1. UNCHANGED <<running, channels, queue, class, image, post, short, nr,
                    limit, flags, task, owner, main>>
    BY <1>4 DEF Addwaitrequest, lists, attrs
  <2>2. TypeOK'
    BY <1>4, <2>1 DEF TypeOK, Addwaitrequest
  <2> QED
    BY <2>1, <2>2, NotingKeeps DEF TypeOK, SameHandler, FlagsAgree
<1>5. ASSUME NEW s \in Slots, NEW n \in 1 .. MaxLimit, Setprefs(s, n) PROVE IInv'
  <2>1. UNCHANGED <<running, channels, queue, class, image, post, short, nr,
                    waits, flags, task, owner, main>>
    BY <1>5 DEF Setprefs, lists, attrs
  <2>2. TypeOK'
    BY <1>5, <2>1 DEF TypeOK, Setprefs
  <2> QED
    BY <2>1, <2>2, NotingKeeps DEF TypeOK, SameHandler, FlagsAgree
<1> QED
  BY <1>1, <1>2, <1>3, <1>4, <1>5, IncompleteRetryDisposedKeeps DEF User

\* So does every update that a driver sends.
LEMMA DriverKeeps == ASSUME IInv, NEW f \in Fetches, Driver(f) PROVE IInv'
<1> USE DEF IInv
<1>1. ASSUME NEW sh \in BOOLEAN, NEW data \in BOOLEAN, UpdateData(f, sh, data)
      PROVE  IInv'
  <2>1. /\ short' = [short EXCEPT ![f] = sh]
        /\ task' = [task EXCEPT ![f] = IF @ = "running" THEN "stopping" ELSE @]
           \/ task' = task
        /\ UNCHANGED <<running, channels, queue, class, image, post, waits, nr,
                       limit, flags, owner, main>>
    BY <1>1 DEF UpdateData, Stop, lists
  <2>2. TypeOK'
    BY <2>1 DEF TypeOK
  <2> QED
    BY <2>1, <2>2, NotingKeeps DEF TypeOK, SameHandler, FlagsAgree
<1>2. ASSUME UpdateNotmodified(f) PROVE IInv'
  <2>1. /\ f \in Live
        /\ flags' = [flags EXCEPT ![f] = @ \cup {"NOTMODIFIED"}]
        /\ task' = task
        /\ UNCHANGED <<running, channels, queue, class, image, post, short,
                       waits, nr, limit, owner, main>>
    BY <1>2 DEF UpdateNotmodified, DriverAlive, Raise, lists, attrs, FlagsAgree
  <2>2. TypeOK'
    BY <2>1 DEF TypeOK, Flags
  <2> QED
    BY <2>1, <2>2, NotingKeeps DEF TypeOK, SameHandler, FlagsAgree
<1>3. ASSUME UpdatePostnogood(f) PROVE IInv'
  <2>1. /\ f \in Live
        /\ flags' = [flags EXCEPT ![f] = @ \cup {"POSTNOGOOD"}]
        /\ task' = [task EXCEPT ![f] = IF @ = "running" THEN "stopping" ELSE @]
        /\ UNCHANGED <<running, channels, queue, class, image, post, short,
                       waits, nr, limit, owner, main>>
    BY <1>3 DEF UpdatePostnogood, DriverAlive, Stop, Raise, lists, attrs, FlagsAgree
  <2>2. TypeOK'
    BY <2>1 DEF TypeOK, Flags
  <2> QED
    BY <2>1, <2>2, NotingKeeps DEF TypeOK, SameHandler, FlagsAgree
<1> QED
  BY <1>1, <1>2, <1>3, TerminateKeeps DEF Driver

\* So does every step of Checkqueues and of the end of Updatefetch.
LEMMA HandlerKeeps == ASSUME IInv, Handler PROVE IInv'
<1> USE DEF IInv
<1>1. ASSUME NEW s \in Slots, StartQueuedFails(s) PROVE IInv'
  <2> DEFINE f == Head(queue[s])
  <2>1. /\ queue[s] # << >> /\ main \in Draining
        /\ main' = [main EXCEPT !.nested = TRUE]
        /\ Free(f) /\ UNCHANGED <<nr, limit>>
    BY <1>1 DEF StartQueuedFails, CanStartQueued, TypeOK, Idle, Slots
  <2>2. f \in Queued(s) /\ f \in Fetches
    <3>1. queue[s] \in Seq(Fetches) /\ IsInjective(queue[s])
      BY DEF TypeOK, OneList
    <3> QED
      BY <2>1, <3>1, TailSet, HeadTailProperties DEF Queued
  <2> HIDE DEF f
  <2>3. "QUEUED" \in flags[f] /\ task[f] = "none"
    BY <2>2 DEF OneList, FlagsAgree
  <2>4. SameHandler /\ main # Idle /\ main' # Idle
    <3>1. main.at \in Slots \cup {"report"} /\ main' = [main EXCEPT !.at = main.at, !.nested = TRUE]
      BY <2>1 DEF Draining
    <3> QED
      BY <2>1, <3>1, HandlerGoesOn
  <2>5. main.fetch # f
    BY <2>3, <2>4 DEF HandledFetch
  <2>6. ReturnsAfter(f)
    BY <2>4 DEF ReturnsAfter
  <2> QED
    BY <2>1, <2>2, <2>3, <2>4, <2>5, <2>6, FreeKeeps
<1>2. CASE NetLoopDone
  <2>1. /\ main \in Draining
        /\ main' = [main EXCEPT !.at = "local", !.nested = FALSE]
        /\ UNCHANGED <<running, channels, queue, class, image, post, short, nr,
                       waits, limit, flags, task, owner>>
    BY <1>2 DEF NetLoopDone, lists, attrs, TypeOK, Idle
  <2>2. SameHandler /\ main' # Idle
    BY <2>1, HandlerGoesOn DEF Slots
  <2>3. TypeOK'
    BY <2>1, <2>2 DEF TypeOK, SameHandler
  <2> QED
    BY <2>1, <2>2, <2>3, NotingKeeps DEF TypeOK, FlagsAgree
<1>3. ASSUME main.at \in {"local", "report"}
      PROVE  /\ main # Idle /\ main \in Draining
             /\ main' = Idle => SameHandler
             /\ main.fetch \in Fetches /\ task[main.fetch] = "none"
  BY <1>3 DEF SameHandler, Idle, Draining, TypeOK, HandledFetch
<1>4. CASE Finish \/ RetrygetFails
  <2>1. /\ Free(main.fetch) /\ UNCHANGED <<nr, limit>>
        /\ main.at \in {"local", "report"} /\ main' = Idle
    BY <1>4 DEF Finish, RetrygetFails, QueuesChecked
  <2> QED
    BY <1>3, <2>1, FreeKeeps DEF ReturnsAfter
<1>5. CASE AwaitUser
  <2>1. /\ UNCHANGED <<running, channels, queue, class, image, post, short, nr,
                       waits, limit, flags, task, owner>>
        /\ main.at = "local" /\ main' = Idle
    BY <1>5 DEF AwaitUser, lists, attrs, QueuesChecked
  <2>2. TypeOK' /\ SameHandler
    BY <1>3, <2>1 DEF TypeOK
  <2>3. "INCOMPLETE" \in flags[main.fetch]
    BY <1>3, <1>5, <2>1 DEF AwaitUser, QueuesChecked, HandledFetch
  <2> QED
    BY <2>1, <2>2, <2>3, NotingKeeps DEF TypeOK, FlagsAgree
<1>6. CASE Retryget
  <2> DEFINE f == main.fetch
  <2>1. /\ post' = [post EXCEPT ![f] = FALSE]
        /\ UNCHANGED <<class, image, waits, limit, owner>>
        /\ Startdriver(f, Fresh(flags[f]))
        /\ main.then = "retryget" /\ main.at = "local" /\ main' = Idle
    BY <1>6 DEF Retryget, QueuesChecked
  <2>2. /\ main # Idle /\ main' = Idle /\ SameHandler
        /\ f \in Fetches /\ task[f] = "none"
    BY <1>3, <2>1
  <2>3. "RUNNING" \in flags[f] /\ "QUEUED" \notin flags[f] /\ "INCOMPLETE" \notin flags[f]
    BY <2>1, <2>2 DEF HandledFetch, FlagsAgree
  <2>7. ReturnsAfter(f)
    BY DEF ReturnsAfter
  <2> HIDE DEF f
  <2>4. /\ Fresh(flags[f]) \cap {"RUNNING", "QUEUED", "INCOMPLETE"} = {}
        /\ Fresh(flags[f]) \in SUBSET Flags
    BY <2>2, <2>3 DEF Fresh, TypeOK
  <2>5. class[f] \in Classes /\ class' = [class EXCEPT ![f] = class[f]]
    BY <2>1, <2>2 DEF TypeOK
  <2>6. /\ image' \in [Fetches -> BOOLEAN] /\ post' \in [Fetches -> BOOLEAN]
        /\ owner' \in [Fetches -> BOOLEAN]
        /\ \A g \in Fetches \ {f} : owner'[g] = owner[g]
    BY <2>1 DEF TypeOK
  <2> QED
    BY <2>1, <2>2, <2>3, <2>4, <2>5, <2>6, <2>7, StartKeeps
<1>7. CASE Report
  <2>1. /\ main.at = "local" /\ owner' = [owner EXCEPT ![main.fetch] = FALSE]
        /\ main' = [main EXCEPT !.at = "report",
                               !.nested = "DISPOSED" \notin flags[main.fetch]]
        /\ UNCHANGED <<running, channels, queue, class, image, post, short, nr,
                       waits, limit, flags, task>>
    BY <1>7 DEF Report, QueuesChecked, Forgotten, lists, attrs
  <2>2. SameHandler /\ main' # Idle
    BY <1>3, <2>1, HandlerGoesOn
  <2>3. TypeOK'
    BY <2>1, <2>2 DEF TypeOK, SameHandler
  <2> QED
    BY <2>1, <2>2, <2>3, NotingKeeps DEF TypeOK, FlagsAgree
<1> QED
  BY <1>1, <1>2, <1>4, <1>5, <1>6, <1>7, StartQueuedKeeps DEF Handler

\* The invariant is inductive.
LEMMA NextIInv == IInv /\ [Next]_vars => IInv'
<1> SUFFICES ASSUME IInv, [Next]_vars PROVE IInv'
  OBVIOUS
<1>1. CASE Next
  BY <1>1, UrlKeeps, UserKeeps, HandlerKeeps, DriverKeeps DEF Next
<1>2. CASE UNCHANGED vars
  <2>1. TypeOK'
    BY <1>2 DEF vars, IInv, TypeOK
  <2> QED
    BY <1>2, <2>1, NotingKeeps DEF vars, IInv, TypeOK, SameHandler, FlagsAgree
<1> QED
  BY <1>1, <1>2

-----------------------------------------------------------------------------
(* No step takes a slot beyond the limit.                                  *)

WithinLimit == \A s \in Slots : nr'[s] > nr[s] => nr'[s] <= limit'[s]

\* A start takes a slot only when the class has room.
LEMMA StartWithinLimit ==
  ASSUME TypeOK, NEW f \in Fetches, NEW fl, Startdriver(f, fl),
         UNCHANGED limit
  PROVE  WithinLimit
<1>1. CASE Enqueue(f, fl)
  BY <1>1 DEF Enqueue, WithinLimit, TypeOK
<1>2. CASE StartNow(f, fl)
  <2>1. /\ class'[f] \in Slots => nr[class'[f]] < limit[class'[f]]
        /\ nr' = IF class'[f] \in Slots
                 THEN [nr EXCEPT ![class'[f]] = @ + 1] ELSE nr
    BY <1>2 DEF StartNow, Dostartdriver, HasRoom
  <2> QED
    BY <2>1 DEF WithinLimit, TypeOK
<1> QED
  BY <1>1, <1>2 DEF Startdriver

\* Every other step gives slots back, leaves them alone, or checks for room.
LEMMA NextWithinLimit == IInv /\ [Next]_vars => WithinLimit
<1> SUFFICES ASSUME IInv, [Next]_vars PROVE WithinLimit
  OBVIOUS
<1>0. TypeOK
  BY DEF IInv
<1>1. CASE UNCHANGED nr
  BY <1>0, <1>1 DEF WithinLimit, TypeOK
<1>2. ASSUME NEW f \in Fetches, NEW load \in Loads, NewFetch(f, load)
      PROVE  WithinLimit
  BY <1>0, <1>2, StartWithinLimit DEF NewFetch
<1>3. ASSUME NEW f \in Fetches, IncompleteRetry(f) PROVE WithinLimit
  BY <1>0, <1>3, StartWithinLimit DEF IncompleteRetry
<1>4. ASSUME NEW f \in Fetches, IncompleteRetryDisposed(f) PROVE WithinLimit
  <2>1. CASE class[f] \in Slots /\ HasRoom(class[f])
    <3>1. nr' = [nr EXCEPT ![class[f]] = @ + 1] /\ UNCHANGED limit
      BY <1>4, <2>1 DEF IncompleteRetryDisposed
    <3>2. nr[class[f]] < limit[class[f]]
      BY <2>1 DEF HasRoom
    <3> QED
      BY <1>0, <2>1, <3>1, <3>2 DEF WithinLimit, TypeOK
  <2>2. CASE ~(class[f] \in Slots /\ HasRoom(class[f]))
    BY <1>1, <1>4, <2>2 DEF IncompleteRetryDisposed
  <2> QED
    BY <2>1, <2>2
<1>5. ASSUME NEW f \in Fetches, Terminate(f) PROVE WithinLimit
  <2>1. nr' = IF "USESLOT" \in flags[f] /\ class[f] \in Slots
              THEN [nr EXCEPT ![class[f]] = @ - 1] ELSE nr
    BY <1>5 DEF Terminate, ReleaseSlot
  <2> QED
    BY <1>0, <2>1 DEF WithinLimit, TypeOK
<1>6. ASSUME NEW s \in Slots, StartQueued(s) PROVE WithinLimit
  <2>1. /\ nr[s] < limit[s] /\ UNCHANGED <<class, limit>>
        /\ queue[s] # << >>
        /\ nr' = IF class'[Head(queue[s])] \in Slots
                 THEN [nr EXCEPT ![class'[Head(queue[s])]] = @ + 1] ELSE nr
    BY <1>6 DEF StartQueued, CanStartQueued, HasRoom, Dostartdriver, attrs
  <2>2. Head(queue[s]) \in Queued(s)
    <3>1. queue[s] \in Seq(Fetches) /\ IsInjective(queue[s])
      BY <1>0 DEF TypeOK, IInv, OneList
    <3> QED
      BY <2>1, <3>1, TailSet DEF Queued
  <2>3. class[Head(queue[s])] = s
    BY <2>2 DEF IInv, OneList
  <2> QED
    BY <1>0, <2>1, <2>3 DEF WithinLimit, TypeOK
<1>7. ASSUME Retryget PROVE WithinLimit
  <2>1. /\ main \in Draining /\ UNCHANGED limit
        /\ Startdriver(main.fetch, Fresh(flags[main.fetch]))
    BY <1>0, <1>7 DEF Retryget, QueuesChecked, TypeOK, Idle
  <2>2. main.fetch \in Fetches
    BY <2>1 DEF Draining
  <2> QED
    BY <1>0, <2>1, <2>2, StartWithinLimit
<1>8. CASE Url
  <2>1. ASSUME NEW f \in Fetches, Dispose(f) PROVE UNCHANGED nr
    BY <2>1 DEF Dispose
  <2> QED
    BY <1>1, <1>2, <1>8, <2>1 DEF Url
<1>9. CASE User
  <2>1. ASSUME NEW f \in Fetches, Cancel(f) \/ IncompleteEnd(f)
        PROVE  UNCHANGED nr
    BY <2>1 DEF Cancel, IncompleteEnd
  <2>2. ASSUME NEW w, Addwaitrequest(w) PROVE UNCHANGED nr
    BY <2>2 DEF Addwaitrequest
  <2>3. ASSUME NEW s, NEW n, Setprefs(s, n) PROVE UNCHANGED nr
    BY <2>3 DEF Setprefs
  <2> QED
    BY <1>1, <1>3, <1>4, <1>9, <2>1, <2>2, <2>3 DEF User
<1>10. CASE Handler
  <2>1. ASSUME NEW s \in Slots, StartQueuedFails(s) PROVE UNCHANGED nr
    BY <2>1 DEF StartQueuedFails
  <2>2. ASSUME NetLoopDone \/ Report \/ Finish \/ AwaitUser \/ RetrygetFails
        PROVE  UNCHANGED nr
    BY <2>2 DEF NetLoopDone, Report, Finish, AwaitUser, RetrygetFails
  <2> QED
    BY <1>1, <1>6, <1>7, <1>10, <2>1, <2>2 DEF Handler
<1>11. ASSUME NEW f \in Fetches, Driver(f) PROVE WithinLimit
  <2>1. ASSUME NEW sh, NEW data, UpdateData(f, sh, data) PROVE UNCHANGED nr
    BY <2>1 DEF UpdateData
  <2>2. ASSUME UpdateNotmodified(f) \/ UpdatePostnogood(f) PROVE UNCHANGED nr
    BY <2>2 DEF UpdateNotmodified, UpdatePostnogood
  <2> QED
    BY <1>1, <1>5, <1>11, <2>1, <2>2 DEF Driver
<1>12. CASE UNCHANGED vars
  BY <1>1, <1>12 DEF vars
<1> QED
  BY <1>8, <1>9, <1>10, <1>11, <1>12 DEF Next

-----------------------------------------------------------------------------
(* The theorems.                                                           *)

\* The invariant holds in every state the scheduler can reach.
THEOREM Invariant == Spec => []IInv
  BY InitIInv, NextIInv, PTL DEF Spec

\* Every variable keeps its type; in particular the counters nrnet and nrlocal
\* never become negative.
THEOREM TypeCorrect == Spec => []TypeOK
<1>1. IInv => TypeOK
  BY DEF IInv
<1> QED
  BY <1>1, Invariant, PTL

\* nrnet and nrlocal count exactly the drivers that hold a slot, whatever is
\* cancelled, disposed, retried or queued in between.
THEOREM SlotsAccounted == Spec => []SlotAccounting
<1>1. IInv => SlotAccounting
  BY DEF IInv
<1> QED
  BY <1>1, Invariant, PTL

\* REMOVE and ADDTAIL keep a fetch in one list, once, the queue of its class.
THEOREM OneListOnly == Spec => []OneList
<1>1. IInv => OneList
  BY DEF IInv
<1> QED
  BY <1>1, Invariant, PTL

\* A url never holds a pointer to a freed fetch.
THEOREM NoDanglingOwner == Spec => []OwnerNeverDangles
<1>1. IInv => OwnerNeverDangles
  BY DEF IInv
<1> QED
  BY <1>1, Invariant, PTL

\* No fetch is left in a list with nobody to go on with it: neither a driver,
\* nor a queue, nor the user, nor the handler of its final update.
THEOREM NoFetchForgotten == Spec => []NoneForgotten
<1>1. IInv => NoneForgotten
  BY DEF IInv
<1> QED
  BY <1>1, Invariant, PTL

\* A slot is taken only within the limit of the moment, in every handler.
THEOREM NeverOverTheLimit == Spec => NeverOverLimit
<1>1. IInv /\ [Next]_vars
        => [\A s \in Slots : nr'[s] > nr[s] => nr'[s] <= limit'[s]]_vars
  BY NextWithinLimit DEF WithinLimit
<1> QED
  BY <1>1, Invariant, PTL DEF Spec, NeverOverLimit

-----------------------------------------------------------------------------
(* What a step does to the lists.                                          *)

Queues == Queued("net") \cup Queued("local")

\* A fetch is freed.
Frees == (\E f \in Fetches : Free(f)) /\ UNCHANGED nr

\* A fetch that is in no queue is started or queued.
Starts ==
  /\ \E f \in Fetches, fl \in SUBSET Flags : Startdriver(f, fl) /\ f \notin Queues
  /\ \A g \in Live : image'[g] = image[g]
  /\ UNCHANGED <<waits, limit>>

\* The lists stay as they are.
Stays ==
  /\ UNCHANGED <<lists, image>>
  /\ \A s \in Slots : nr'[s] >= nr[s] \/ main'.at = "net"
  /\ waits' = waits \/ \E w \in WaitRequests : Addwaitrequest(w)

\* The handler of a final update leaves a queue only when it is done with it.
LeavesDone ==
  \/ main'.at \in {main.at, "net"}
  \/ main.at = "net" /\ main'.at = "local" /\ ~CanStartQueued("net")
  \/ main.at = "local" /\ ~CanStartQueued("local")
  \/ main.at = "report"

\* An empty queue holds no fetch.
LEMMA EmptyToSet == ToSet(<< >>) = {}
  BY SMT DEF ToSet

\* Queues are lists of fetches without repetition.
LEMMA QueuesOK ==
  ASSUME IInv
  PROVE  /\ \A s \in Slots : queue[s] \in Seq(Fetches) /\ IsInjective(queue[s])
         /\ \A s \in Slots : Queued(s) \subseteq Fetches
         /\ Queues \subseteq Live
<1>1. \A s \in Slots : queue[s] \in Seq(Fetches) /\ IsInjective(queue[s])
  BY DEF IInv, TypeOK, OneList
<1>2. ASSUME NEW s \in Slots, NEW x \in Queued(s) PROVE x \in Fetches
  <2>1. PICK i \in 1 .. Len(queue[s]) : queue[s][i] = x
    BY <1>1, <1>2, InToSet DEF Queued
  <2> QED
    BY <1>1, <2>1
<1> QED
  BY <1>1, <1>2 DEF Queues, Live

\* The counters are numbers.
LEMMA CounterStays ==
  ASSUME IInv, UNCHANGED nr
  PROVE  \A s \in Slots : nr'[s] >= nr[s]
<1>1. \A s \in Slots : nr[s] \in Nat
  BY DEF IInv, TypeOK
<1> QED
  BY <1>1, SMT

\* A step that leaves lists, requests and counters alone.
LEMMA Untouched ==
  ASSUME IInv, UNCHANGED <<running, channels, queue, image, nr, waits>>
  PROVE  Stays
  BY CounterStays DEF Stays, lists

\* What urls do; then users, drivers, and the handler of a final update.
LEMMA UrlKinds == ASSUME IInv, Url PROVE (Frees \/ Starts \/ Stays) /\ LeavesDone
<1>1. ASSUME NEW f \in Fetches, NEW load \in Loads, NewFetch(f, load)
      PROVE  Starts /\ LeavesDone
  <2>1. /\ f \notin Live /\ Startdriver(f, {}) /\ UNCHANGED <<waits, limit, main>>
        /\ image' = [image EXCEPT ![f] = load.image]
    BY <1>1 DEF NewFetch
  <2>2. f \notin Queues /\ \A g \in Live : image'[g] = image[g]
    BY <2>1 DEF Queues, Live, IInv, TypeOK
  <2> QED
    BY <2>1, <2>2 DEF Starts, LeavesDone
<1>2. ASSUME NEW f \in Fetches, Dispose(f) PROVE (Frees \/ Stays) /\ LeavesDone
  BY <1>2, Untouched DEF Dispose, Frees, LeavesDone, lists, attrs
<1> QED
  BY <1>1, <1>2 DEF Url

LEMMA UserKinds == ASSUME IInv, User PROVE (Frees \/ Starts \/ Stays) /\ LeavesDone
<1>1. ASSUME NEW f \in Fetches, Cancel(f) PROVE (Frees \/ Stays) /\ LeavesDone
  BY <1>1, Untouched DEF Cancel, Frees, LeavesDone, lists, attrs
<1>2. ASSUME NEW f \in Fetches, IncompleteEnd(f) PROVE Frees /\ LeavesDone
  BY <1>2 DEF IncompleteEnd, Frees, LeavesDone
<1>3. ASSUME NEW f \in Fetches, IncompleteRetry(f) PROVE Starts /\ LeavesDone
  <2>1. /\ "INCOMPLETE" \in flags[f] /\ Startdriver(f, flags[f] \ {"INCOMPLETE"})
        /\ UNCHANGED <<image, waits, limit, main>>
    BY <1>3 DEF IncompleteRetry
  <2>2. f \notin Queues /\ flags[f] \ {"INCOMPLETE"} \in SUBSET Flags
    BY <2>1 DEF IInv, OneList, FlagsAgree, Queues, TypeOK, Slots
  <2> QED
    BY <2>1, <2>2 DEF Starts, LeavesDone
<1>4. ASSUME NEW f \in Fetches, IncompleteRetryDisposed(f)
      PROVE  (Frees \/ Stays) /\ LeavesDone
  <2>1. CASE class[f] \in Slots /\ ~HasRoom(class[f])
    BY <1>4, <2>1 DEF IncompleteRetryDisposed, Frees, LeavesDone
  <2>2. CASE ~(class[f] \in Slots /\ ~HasRoom(class[f]))
    <3>1. /\ UNCHANGED <<lists, image, waits, main>>
          /\ nr' = IF class[f] \in Slots
                   THEN [nr EXCEPT ![class[f]] = @ + 1] ELSE nr
      BY <1>4, <2>2 DEF IncompleteRetryDisposed
    <3>2. \A s \in Slots : nr'[s] >= nr[s]
      <4>1. nr \in [Slots -> Nat]
        BY DEF IInv, TypeOK
      <4> QED
        BY <3>1, <4>1, SMT
    <3> QED
      BY <3>1, <3>2 DEF Stays, LeavesDone
  <2> QED
    BY <2>1, <2>2
<1>5. ASSUME NEW w \in WaitRequests, Addwaitrequest(w) PROVE Stays /\ LeavesDone
  BY <1>5, CounterStays DEF Addwaitrequest, Stays, LeavesDone, attrs
<1>6. ASSUME NEW s \in Slots, NEW n \in 1 .. MaxLimit, Setprefs(s, n)
      PROVE  Stays /\ LeavesDone
  BY <1>6, Untouched DEF Setprefs, LeavesDone, lists, attrs
<1> QED
  BY <1>1, <1>2, <1>3, <1>4, <1>5, <1>6 DEF User

LEMMA DriverKinds ==
  ASSUME IInv, NEW f \in Fetches, Driver(f) PROVE Stays /\ LeavesDone
<1>1. ASSUME NEW sh, NEW data, UpdateData(f, sh, data) PROVE Stays /\ LeavesDone
  BY <1>1, Untouched DEF UpdateData, LeavesDone, lists
<1>2. CASE UpdateNotmodified(f) \/ UpdatePostnogood(f)
  BY <1>2, Untouched DEF UpdateNotmodified, UpdatePostnogood, LeavesDone, lists, attrs
<1>3. CASE Terminate(f)
  BY <1>3 DEF Terminate, Stays, LeavesDone, attrs
<1> QED
  BY <1>1, <1>2, <1>3 DEF Driver

LEMMA HandlerKinds ==
  ASSUME IInv, Handler
  PROVE  (Frees \/ Starts \/ Stays \/ \E s \in Slots : StartQueued(s)) /\ LeavesDone
<1>0. main \in {Idle} \cup Draining
  BY DEF IInv, TypeOK
<1>1. ASSUME NEW s \in Slots, StartQueued(s) PROVE LeavesDone
  BY <1>0, <1>1 DEF StartQueued, CanStartQueued, LeavesDone, Idle, Draining, Slots
<1>2. ASSUME NEW s \in Slots, StartQueuedFails(s) PROVE Frees /\ LeavesDone
  <2>1. Head(queue[s]) \in Fetches
    BY <1>2, QueuesOK, HeadTailProperties DEF StartQueuedFails, CanStartQueued
  <2> QED
    BY <1>0, <1>2, <2>1
       DEF StartQueuedFails, CanStartQueued, Frees, LeavesDone, Idle, Draining, Slots
<1>3. CASE NetLoopDone
  <2>1. main # Idle
    BY <1>3 DEF NetLoopDone, Idle
  <2>2. main'.at = "local"
    BY <1>0, <1>3, <2>1 DEF NetLoopDone, Draining
  <2> QED
    BY <1>3, <2>2, Untouched DEF NetLoopDone, LeavesDone, lists, attrs
<1>4. CASE Report
  BY <1>4, Untouched DEF Report, QueuesChecked, LeavesDone, lists, attrs
<1>5. CASE AwaitUser
  BY <1>5, Untouched DEF AwaitUser, QueuesChecked, LeavesDone, lists, attrs
<1>6. CASE Finish
  <2>1. main.fetch \in Fetches
    BY <1>0, <1>6 DEF Finish, Idle, Draining
  <2> QED
    BY <1>6, <2>1 DEF Finish, Frees, LeavesDone
<1>7. CASE RetrygetFails
  <2>1. main.fetch \in Fetches
    BY <1>0, <1>7 DEF RetrygetFails, QueuesChecked, Idle, Draining
  <2> QED
    BY <1>7, <2>1 DEF RetrygetFails, QueuesChecked, Frees, LeavesDone
<1>8. CASE Retryget
  <2>1. /\ main.at = "local" /\ ~CanStartQueued("local")
        /\ UNCHANGED <<image, waits, limit>>
        /\ Startdriver(main.fetch, Fresh(flags[main.fetch]))
    BY <1>8 DEF Retryget, QueuesChecked
  <2>2. main # Idle /\ main.fetch \in Fetches
    BY <1>0, <2>1 DEF Idle, Draining
  <2>3. main.fetch \notin Queues /\ Fresh(flags[main.fetch]) \in SUBSET Flags
    BY <2>2 DEF IInv, HandledFetch, OneList, Queues, Slots, Fresh, TypeOK
  <2> QED
    BY <2>1, <2>2, <2>3 DEF Starts, LeavesDone
<1> QED
  BY <1>1, <1>2, <1>3, <1>4, <1>5, <1>6, <1>7, <1>8 DEF Handler

\* Every step is of one of four kinds.
LEMMA NextKinds ==
  ASSUME IInv, [Next]_vars
  PROVE  (Frees \/ Starts \/ Stays \/ \E s \in Slots : StartQueued(s)) /\ LeavesDone
<1>1. CASE UNCHANGED vars
  BY <1>1, Untouched DEF vars, LeavesDone
<1> QED
  BY <1>1, UrlKinds, UserKinds, HandlerKinds, DriverKinds DEF Next

-----------------------------------------------------------------------------
(* What these kinds do to the queues and to Live.                          *)

LEMMA FreeEffect ==
  ASSUME IInv, NEW f \in Fetches, Free(f)
  PROVE  /\ \A s \in Slots : queue'[s] = RemoveFirst(queue[s], f)
         /\ \A s \in Slots : Queued(s)' = Queued(s) \ {f}
         /\ Live' = Live \ {f}
         /\ \A g \in Fetches \ {f} : image'[g] = image[g]
<1>1. \A s \in Slots : queue'[s] = RemoveFirst(queue[s], f)
  BY DEF Free
<1>2. \A s \in Slots : Queued(s)' = Queued(s) \ {f}
  BY <1>1, QueuesOK, RemoveFirstSet DEF Queued
<1>3. Live' = Live \ {f}
  BY <1>2 DEF Live, Free, Slots
<1>4. \A g \in Fetches \ {f} : image'[g] = image[g]
  BY DEF Free, IInv, TypeOK
<1> QED
  BY <1>1, <1>2, <1>3, <1>4

\* Startdriver leaves all queues alone, or adds to one whose slots are taken.
LEMMA StartEffect ==
  ASSUME IInv, NEW f \in Fetches, NEW fl \in SUBSET Flags, Startdriver(f, fl),
         f \notin Queues
  PROVE  /\ Live \subseteq Live'
         /\ \A s \in Slots : nr'[s] >= nr[s]
         /\ \A s \in Slots :
              \/ queue'[s] = queue[s]
              \/ /\ queue'[s] = Addtoqueue(queue[s], f, image')
                 /\ ~HasRoom(s)
<1>0. nr \in [Slots -> Nat] /\ queue \in [Slots -> Seq(Fetches)]
  BY DEF IInv, TypeOK
<1>1. CASE Enqueue(f, fl)
  <2>1. PICK c \in Slots :
          /\ ~HasRoom(c)
          /\ running' = running \ {f} /\ UNCHANGED <<channels, nr>>
          /\ queue' = [queue EXCEPT ![c] = Addtoqueue(queue[c], f, image')]
    BY <1>1 DEF Enqueue, Unlink
  <2>2. /\ queue'[c] = Addtoqueue(queue[c], f, image')
        /\ \A s \in Slots \ {c} : queue'[s] = queue[s]
    BY <1>0, <2>1
  <2>3. Queued(c)' = Queued(c) \cup {f}
    BY <1>0, <2>1, <2>2, AddtoqueueSet DEF Queued
  <2>4. \A s \in Slots \ {c} : Queued(s)' = Queued(s)
    BY <2>2 DEF Queued
  <2>5. Live \subseteq Live'
    BY <2>1, <2>3, <2>4 DEF Live, Slots
  <2> QED
    BY <2>1, <2>2, <2>5, CounterStays
<1>2. CASE StartNow(f, fl)
  <2>1. /\ f \in running' \cup channels'
        /\ running \ {f} \subseteq running' /\ channels \subseteq channels'
        /\ UNCHANGED queue
    BY <1>2 DEF StartNow, Unlink
  <2>2. Live \subseteq Live'
    BY <2>1 DEF Live, Queued
  <2>3. \A s \in Slots : nr'[s] >= nr[s]
    <3>1. nr' = IF class'[f] \in Slots
                THEN [nr EXCEPT ![class'[f]] = @ + 1] ELSE nr
      BY <1>2 DEF StartNow, Dostartdriver
    <3> QED
      BY <1>0, <3>1, SMT
  <2> QED
    BY <2>1, <2>2, <2>3
<1> QED
  BY <1>1, <1>2 DEF Startdriver

\* The head of a queue goes to the running fetches.
LEMMA StartQueuedEffect ==
  ASSUME IInv, NEW s \in Slots, StartQueued(s)
  PROVE  /\ queue[s] # << >> /\ queue' = [queue EXCEPT ![s] = Tail(queue[s])]
         /\ Live \subseteq Live'
         /\ nr' = [nr EXCEPT ![s] = @ + 1]
         /\ UNCHANGED <<image, waits>>
<1>1. /\ queue[s] # << >> /\ queue' = [queue EXCEPT ![s] = Tail(queue[s])]
      /\ running' = running \cup {Head(queue[s])}
      /\ nr' = IF class'[Head(queue[s])] \in Slots
               THEN [nr EXCEPT ![class'[Head(queue[s])]] = @ + 1] ELSE nr
      /\ UNCHANGED <<channels, class, image, waits>>
  BY DEF StartQueued, CanStartQueued, Dostartdriver, attrs
<1>2. /\ Head(queue[s]) \in Queued(s)
      /\ ToSet(Tail(queue[s])) = Queued(s) \ {Head(queue[s])}
  BY <1>1, QueuesOK, TailSet DEF Queued
<1>3. class[Head(queue[s])] = s
  BY <1>2 DEF IInv, OneList
<1>4. queue \in [Slots -> Seq(Fetches)]
  BY DEF IInv, TypeOK
<1>5. Queued(s)' = Queued(s) \ {Head(queue[s])}
  BY <1>1, <1>2, <1>4 DEF Queued
<1>6. \A r \in Slots \ {s} : Queued(r)' = Queued(r)
  BY <1>1, <1>4 DEF Queued
<1>7. Live \subseteq Live'
  BY <1>1, <1>5, <1>6 DEF Live, Slots
<1> QED
  BY <1>1, <1>3, <1>7

-----------------------------------------------------------------------------
(* ARexx scripts.                                                          *)

\* Every step leaves each script a fetch it waits for.
LEMMA NextWaits == IInv /\ WaitsHaveReason /\ [Next]_vars => WaitsHaveReason'
<1> SUFFICES ASSUME IInv, WaitsHaveReason, [Next]_vars PROVE WaitsHaveReason'
  OBVIOUS
<1>0. Live \subseteq Fetches
  BY QueuesOK DEF Live, IInv, TypeOK, Slots
<1>1. CASE Frees
  <2>1. PICK f \in Fetches : Free(f)
    BY <1>1 DEF Frees
  <2>2. waits' = {w \in waits : \E g \in Live \ {f} : Matches(w, image[g])}
    BY <2>1 DEF Free, Checkwaitrequests
  <2>3. /\ Live' = Live \ {f}
        /\ \A g \in Live \ {f} : image'[g] = image[g]
    BY <1>0, <2>1, FreeEffect
  <2> QED
    BY <2>2, <2>3 DEF WaitsHaveReason
<1>2. CASE Starts
  <2>1. /\ UNCHANGED waits /\ Live \subseteq Live'
        /\ \A g \in Live : image'[g] = image[g]
    BY <1>2, StartEffect DEF Starts
  <2> QED
    BY <2>1 DEF WaitsHaveReason
<1>3. CASE Stays
  <2>1. UNCHANGED <<Live, image>>
    BY <1>3 DEF Stays, lists, Live, Queued
  <2>2. \A w \in waits' : w \in waits \/ \E f \in Live : Matches(w, image[f])
    BY <1>3 DEF Stays, Addwaitrequest
  <2> QED
    BY <2>1, <2>2 DEF WaitsHaveReason
<1>4. ASSUME NEW s \in Slots, StartQueued(s) PROVE WaitsHaveReason'
  BY <1>4, StartQueuedEffect DEF WaitsHaveReason
<1> QED
  BY <1>1, <1>2, <1>3, <1>4, NextKinds

-----------------------------------------------------------------------------
(* No queue is stuck.                                                      *)

\* No step leaves a queue that nobody will look at.
LEMMA NextNeverStuck == IInv /\ QueueNeverStuck /\ [Next]_vars => QueueNeverStuck'
<1> SUFFICES ASSUME IInv, QueueNeverStuck, [Next]_vars, NEW s \in Slots,
                    queue'[s] # << >>
             PROVE  nr'[s] > 0 \/ main'.at \in {"net", s}
  BY DEF QueueNeverStuck
<1>0. nr[s] \in Nat /\ limit[s] \in Nat /\ limit[s] > 0 /\ queue[s] \in Seq(Fetches)
  <2>1. nr[s] \in Nat /\ limit[s] \in 1 .. MaxLimit /\ queue[s] \in Seq(Fetches)
    BY DEF IInv, TypeOK
  <2> QED
    BY <2>1, LimitAssumption, SMT
<1>1. HasRoom(s) \/ nr[s] > 0
  BY <1>0, SMT DEF HasRoom
\* A queue the handler leaves is empty or has no room; so has one it has left.
<1>2. queue[s] # << >> => nr[s] > 0 \/ main'.at \in {"net", s}
  <2> SUFFICES ASSUME queue[s] # << >>, ~(nr[s] > 0), main'.at \notin {"net", s}
               PROVE  FALSE
    OBVIOUS
  <2>1. main.at \in {"net", s} /\ main.at # main'.at
    BY NextKinds DEF QueueNeverStuck, LeavesDone
  <2>2. main.at = s \/ (main.at = "net" /\ main'.at = "local")
    BY <2>1, NextKinds DEF LeavesDone
  <2>3. main.at = s
    BY <2>2 DEF Slots
  <2>4. CanStartQueued(s)
    BY <1>1, <2>3 DEF CanStartQueued
  <2> QED
    BY <2>1, <2>3, <2>4, NextKinds DEF LeavesDone, Slots
<1>3. CASE queue[s] # << >> /\ nr'[s] >= nr[s]
  <2>1. nr'[s] \in Nat
    BY NextIInv DEF IInv, TypeOK
  <2> QED
    BY <1>0, <1>2, <1>3, <2>1, SMT
<1>4. CASE Frees
  <2>1. PICK f \in Fetches : Free(f)
    BY <1>4 DEF Frees
  <2>2. queue[s] # << >>
    <3>1. CASE queue[s] = << >>
      <4>1. Queued(s) = {}
        BY <3>1, EmptyToSet DEF Queued
      <4>2. Queued(s)' = {}
        BY <2>1, <4>1, FreeEffect
      <4>3. queue'[s] \in Seq(Fetches) /\ Len(queue'[s]) > 0
        BY NextIInv, EmptySeq DEF IInv, TypeOK
      <4>4. queue'[s][1] \in Queued(s)'
        BY <4>3, InToSet, SMT DEF Queued
      <4> QED
        BY <4>2, <4>4
    <3> QED
      BY <3>1
  <2> QED
    BY <1>3, <1>4, <2>2, CounterStays DEF Frees
<1>5. CASE Starts
  <2>1. /\ nr'[s] >= nr[s]
        /\ queue'[s] = queue[s] \/ ~HasRoom(s)
    BY <1>5, StartEffect DEF Starts
  <2>2. nr'[s] \in Nat
    BY NextIInv DEF IInv, TypeOK
  <2> QED
    BY <1>0, <1>1, <1>3, <2>1, <2>2, SMT
<1>6. CASE Stays
  <2>1. queue'[s] = queue[s] /\ (nr'[s] >= nr[s] \/ main'.at = "net")
    BY <1>6 DEF Stays, lists
  <2> QED
    BY <1>3, <2>1
<1>7. ASSUME NEW r \in Slots, StartQueued(r)
      PROVE  nr'[s] > 0 \/ main'.at \in {"net", s}
  <2>1. nr' = [nr EXCEPT ![r] = @ + 1] /\ nr \in [Slots -> Nat]
    BY <1>7, StartQueuedEffect DEF IInv, TypeOK
  <2>2. CASE r = s
    BY <1>0, <2>1, <2>2, SMT
  <2>3. CASE r # s
    <3>1. queue'[s] = queue[s] /\ nr'[s] = nr[s]
      BY <1>7, <2>1, <2>3, StartQueuedEffect DEF IInv, TypeOK
    <3> QED
      BY <1>0, <1>3, <3>1, SMT
  <2> QED
    BY <2>2, <2>3
<1> QED
  BY <1>4, <1>5, <1>6, <1>7, NextKinds

-----------------------------------------------------------------------------
(* Documents ahead of images: what the list operations do to the order.    *)

\* The documents of q come before its images.
Ordered(q, img) ==
  \A i, j \in 1 .. Len(q) : i < j /\ img[q[i]] => img[q[j]]

\* A queue stays in order when a fetch is unlinked from it.
LEMMA RemoveFirstOrder ==
  ASSUME NEW S, NEW q \in Seq(S), NEW e, NEW img, Ordered(q, img)
  PROVE  Ordered(RemoveFirst(q, e), img)
<1>1. CASE ~ \E i \in 1 .. Len(q) : q[i] = e
  BY <1>1 DEF RemoveFirst
<1>2. CASE \E i \in 1 .. Len(q) : q[i] = e
  <2>1. {i \in 1 .. Len(q) : q[i] = e} \in SUBSET Nat
    BY SMT
  <2>2. PICK k \in 1 .. Len(q) : RemoveFirst(q, e) = RemoveAt(q, k)
    BY <1>2, <2>1, MinOfNaturals DEF RemoveFirst, SelectInSeq
  <2> DEFINE r == RemoveAt(q, k)
  <2>3. /\ Len(q) \in Nat /\ Len(r) = Len(q) - 1
        /\ \A j \in 1 .. Len(q) - 1 : r[j] = IF j < k THEN q[j] ELSE q[j + 1]
    BY RemoveAtElements, LenProperties
  <2> HIDE DEF r
  <2> SUFFICES ASSUME NEW i \in 1 .. Len(r), NEW j \in 1 .. Len(r),
                      i < j, img[r[i]]
               PROVE  img[r[j]]
    BY <2>2 DEF Ordered, r
  <2> DEFINE m == IF i < k THEN i ELSE i + 1
             n == IF j < k THEN j ELSE j + 1
  <2>4. m \in 1 .. Len(q) /\ n \in 1 .. Len(q) /\ m < n
    BY <2>3, SMT
  <2>5. i \in 1 .. Len(q) - 1 /\ j \in 1 .. Len(q) - 1
    BY <2>3, SMT
  <2>6. r[i] = q[m] /\ r[j] = q[n]
    BY <2>3, <2>5, Zenon
  <2> HIDE DEF m, n
  <2> QED
    BY <2>4, <2>5, <2>6 DEF Ordered
<1> QED
  BY <1>1, <1>2

\* It stays in order when its head is taken.
LEMMA TailOrder ==
  ASSUME NEW S, NEW q \in Seq(S), q # << >>, NEW img, Ordered(q, img)
  PROVE  Ordered(Tail(q), img)
<1>1. /\ Len(q) \in Nat /\ Len(Tail(q)) = Len(q) - 1
      /\ \A i \in 1 .. Len(Tail(q)) : Tail(q)[i] = q[i + 1]
  BY HeadTailProperties, EmptySeq, SMT
<1> QED
  BY <1>1, SMT DEF Ordered

\* Addtoqueue keeps the order.
LEMMA AddtoqueueOrder ==
  ASSUME NEW q \in Seq(Fetches), NEW f \in Fetches, NEW img, Ordered(q, img)
  PROVE  Ordered(Addtoqueue(q, f, img), img)
<1> DEFINE images == {i \in DOMAIN q : img[q[i]]}
<1>0. images \in SUBSET Nat /\ DOMAIN q = 1 .. Len(q) /\ Len(q) \in Nat
  BY LenProperties, SMT
<1>1. CASE img[f] \/ images = {}
  <2>1. Addtoqueue(q, f, img) = Append(q, f)
    BY <1>1, Zenon DEF Addtoqueue
  <2>2. /\ Len(Append(q, f)) = Len(q) + 1
        /\ \A i \in 1 .. Len(q) : Append(q, f)[i] = q[i]
        /\ Append(q, f)[Len(q) + 1] = f
    BY SMT
  <2>3. \A i \in 1 .. Len(q) : img[q[i]] => img[f]
    BY <1>0, <1>1
  <2> HIDE DEF images
  <2> QED
    BY <1>0, <2>1, <2>2, <2>3, SMT DEF Ordered
<1>2. CASE ~(img[f] \/ images = {})
  <2> DEFINE k == Min(images)
  <2>1. /\ k \in 1 .. Len(q) /\ img[q[k]]
        /\ \A i \in 1 .. Len(q) : img[q[i]] => k <= i
    BY <1>0, <1>2, MinOfNaturals
  <2>2. Addtoqueue(q, f, img) = InsertAt(q, k, f)
    BY <1>2, Zenon DEF Addtoqueue
  <2> HIDE DEF images, k
  <2>3. /\ Len(InsertAt(q, k, f)) = Len(q) + 1
        /\ \A j \in 1 .. Len(q) + 1 :
             InsertAt(q, k, f)[j] = IF j < k THEN q[j]
                                    ELSE IF j = k THEN f ELSE q[j - 1]
    BY <2>1, InsertAtElements
  <2>4. \A j \in k .. Len(q) : img[q[j]]
    BY <1>0, <2>1, SMT DEF Ordered
  <2> QED
    BY <1>0, <1>2, <2>1, <2>2, <2>3, <2>4, SMT DEF Ordered
<1> QED
  BY <1>1, <1>2

\* Only the kinds of the queued fetches matter.
LEMMA SameKinds ==
  ASSUME NEW S, NEW q \in Seq(S), NEW img, NEW jmg, Ordered(q, img),
         \A g \in ToSet(q) : jmg[g] = img[g]
  PROVE  Ordered(q, jmg)
  BY InToSet, SMT DEF Ordered

\* Every step keeps the order of both queues.
LEMMA NextOrder == IInv /\ DocumentsFirst /\ [Next]_vars => DocumentsFirst'
<1> SUFFICES ASSUME IInv, DocumentsFirst, [Next]_vars, NEW s \in Slots
             PROVE  Ordered(queue'[s], image')
  <2>1. ASSUME IInv, [Next]_vars, NEW r \in Slots
        PROVE  queue'[r] \in Seq(Fetches) /\ DOMAIN queue'[r] = 1 .. Len(queue'[r])
    <3>1. queue'[r] \in Seq(Fetches)
      BY <2>1, NextIInv DEF IInv, TypeOK
    <3> QED
      BY <3>1, LenProperties
  <2> QED
    BY <2>1 DEF DocumentsFirst, Ordered
<1>0. queue[s] \in Seq(Fetches) /\ IsInjective(queue[s])
  BY QueuesOK
<1>1. Ordered(queue[s], image)
  BY <1>0 DEF DocumentsFirst, Ordered
<1>2. CASE Frees
  <2>1. PICK f \in Fetches : Free(f)
    BY <1>2 DEF Frees
  <2> DEFINE r == RemoveFirst(queue[s], f)
  <2>2. queue'[s] = r /\ \A g \in Fetches \ {f} : image'[g] = image[g]
    BY <2>1, FreeEffect
  <2>3. r \in Seq(Fetches) /\ ToSet(r) \subseteq Fetches \ {f}
    BY <1>0, QueuesOK, RemoveFirstSet DEF Queued
  <2>4. Ordered(r, image)
    BY <1>0, <1>1, RemoveFirstOrder
  <2> HIDE DEF r
  <2>5. \A g \in ToSet(r) : image'[g] = image[g]
    BY <2>2, <2>3
  <2> QED
    BY <2>2, <2>3, <2>4, <2>5, SameKinds
<1>3. CASE Starts
  <2>1. PICK f \in Fetches, fl \in SUBSET Flags : Startdriver(f, fl) /\ f \notin Queues
    BY <1>3 DEF Starts
  <2>2. queue'[s] = queue[s] \/ queue'[s] = Addtoqueue(queue[s], f, image')
    BY <2>1, StartEffect
  <2>3. \A g \in ToSet(queue[s]) : image'[g] = image[g]
    BY <1>3 DEF Starts, Live, Queued, Slots
  <2>4. Ordered(queue[s], image')
    BY <1>0, <1>1, <2>3, SameKinds
  <2> QED
    BY <1>0, <2>2, <2>4, AddtoqueueOrder
<1>4. CASE Stays
  BY <1>1, <1>4 DEF Stays, lists
<1>5. ASSUME NEW r \in Slots, StartQueued(r) PROVE Ordered(queue'[s], image')
  <2>1. /\ queue[r] # << >> /\ queue' = [queue EXCEPT ![r] = Tail(queue[r])]
        /\ UNCHANGED image /\ queue \in [Slots -> Seq(Fetches)]
    BY <1>5, StartQueuedEffect DEF IInv, TypeOK
  <2>2. CASE r = s
    BY <1>0, <1>1, <2>1, <2>2, TailOrder
  <2>3. CASE r # s
    BY <1>1, <2>1, <2>3
  <2> QED
    BY <2>2, <2>3
<1> QED
  BY <1>2, <1>3, <1>4, <1>5, NextKinds

-----------------------------------------------------------------------------
(* The theorems.                                                           *)

\* An ARexx script that waits for a page's loads waits for a fetch that is
\* still in a list of the scheduler: Checkwaitrequests leaves none behind.
THEOREM ScriptsHaveReason == Spec => []WaitsHaveReason
<1>1. Init => WaitsHaveReason
  BY DEF Init, WaitsHaveReason
<1> QED
  BY <1>1, NextWaits, Invariant, PTL DEF Spec

\* As long as fetches wait in a queue a driver of their class runs, or the
\* handler of a final update is about to look at the queue.
THEOREM NoStuckQueue == Spec => []QueueNeverStuck
<1>1. Init => QueueNeverStuck
  BY DEF Init, QueueNeverStuck
<1> QED
  BY <1>1, NextNeverStuck, Invariant, PTL DEF Spec

\* Addtoqueue keeps every document of a queue ahead of every image, whatever is
\* cancelled, started or retried in between.
THEOREM DocumentsAhead == Spec => []DocumentsFirst
<1>1. Init => DocumentsFirst
  BY DEF Init, DocumentsFirst
<1> QED
  BY <1>1, NextOrder, Invariant, PTL DEF Spec

-----------------------------------------------------------------------------
(* It implements FetchPool: what the pool sees of a fetch.                 *)

\* The final update of f is being handled.
Handled(f) == main # Idle /\ main.fetch = f

\* Nothing happens to the other fetches.
OnlyTo(f) ==
  \A g \in Fetches \ {f} : /\ flags'[g] = flags[g] /\ task'[g] = task[g]
                           /\ Handled(g)' <=> Handled(g)

\* The flags, the drivers and the handler decide on the phase.
LEMMA PhaseIs ==
  ASSUME IInv, NEW f \in Fetches
  PROVE  /\ Phase(f) = "waiting" <=> "QUEUED" \in flags[f]
         /\ Phase(f) = "served" <=> task[f] # "none"
         /\ Handled(f) => Phase(f) \in {"ending", "asking"}
         /\ "INCOMPLETE" \in flags[f] => Phase(f) = "asking"
         /\ f \notin Live => Phase(f) = "free"
<1>1. /\ task[f] # "none" => "QUEUED" \notin flags[f]
      /\ "INCOMPLETE" \in flags[f] => "QUEUED" \notin flags[f] /\ task[f] = "none"
      /\ f \notin Live => flags[f] = {} /\ task[f] = "none"
  BY DEF IInv, FlagsAgree
<1>2. Handled(f) => f \in Live /\ "QUEUED" \notin flags[f] /\ task[f] = "none"
  BY DEF IInv, HandledFetch, Live, Handled
<1> QED
  BY <1>1, <1>2 DEF Phase, Handled

\* The phase of a fetch whose flags, driver and handler stay the same.
LEMMA PhaseStays ==
  ASSUME NEW f \in Fetches,
         "QUEUED" \in flags'[f] <=> "QUEUED" \in flags[f],
         "INCOMPLETE" \in flags'[f] <=> "INCOMPLETE" \in flags[f],
         task'[f] = "none" <=> task[f] = "none",
         \/ Handled(f)' <=> Handled(f)
         \/ "INCOMPLETE" \in flags[f]
  PROVE  Phase(f)' = Phase(f)
  BY DEF Phase, Handled

\* One fetch changes its phase.
LEMMA PhaseBecomes ==
  ASSUME NEW f \in Fetches, NEW p, Phase(f)' = p, OnlyTo(f)
  PROVE  Pool!Becomes(f, p)
<1>1. \A g \in Fetches \ {f} : Phase(g)' = Phase(g)
  BY PhaseStays DEF OnlyTo
<1> QED
  BY <1>1 DEF Pool!Becomes

\* There is room in the pool when the counter is below the limit.
LEMMA RoomIs ==
  ASSUME IInv, NEW s \in Classes
  PROVE  Pool!Room(s) <=> (s \in Slots => HasRoom(s))
<1>1. Pool!Served(s) = Drivers(s)
  <2>1. \A f \in Fetches : Phase(f) = "served" <=> task[f] # "none"
    BY PhaseIs
  <2> QED
    BY <2>1 DEF Pool!Served, Drivers
<1>2. s \in Slots => nr[s] = Cardinality(Drivers(s))
  BY DEF IInv, SlotAccounting
<1>3. Pool!Cardinality(Drivers(s)) = Cardinality(Drivers(s))
  BY DEF Pool!Cardinality, Cardinality
<1> QED
  BY <1>1, <1>2, <1>3 DEF Pool!Room, Pool!Limited, HasRoom, Slots

-----------------------------------------------------------------------------
(* What the pieces of the handlers are in the pool.                        *)

\* Disposefetch frees a fetch: it vanishes.
LEMMA FreeVanishes ==
  ASSUME IInv, NEW f \in Fetches, Free(f), UNCHANGED limit,
         Phase(f) \notin {"free", "served"}, ~Handled(f)',
         \A g \in Fetches \ {f} : Handled(g)' <=> Handled(g)
  PROVE  Pool!Vanish(f)
<1>1. /\ flags' = [flags EXCEPT ![f] = {}] /\ task' = [task EXCEPT ![f] = "none"]
      /\ owner' = [owner EXCEPT ![f] = FALSE]
      /\ class' = [class EXCEPT ![f] = "none"]
      /\ image' = [image EXCEPT ![f] = FALSE]
  BY DEF Free, Forgotten
<1>2. flags'[f] = {} /\ task'[f] = "none" /\ OnlyTo(f)
  BY <1>1 DEF IInv, TypeOK, OnlyTo
<1>3. Phase(f)' = "free"
  BY <1>2 DEF Phase, Handled
<1>4. Pool!Becomes(f, "free")
  BY <1>2, <1>3, PhaseBecomes
<1> QED
  BY <1>1, <1>4 DEF Pool!Vanish, Pool!Vanishes

\* Startdriver: the fetch wants a driver.
LEMMA StartWants ==
  ASSUME IInv, NEW f \in Fetches, NEW fl \in SUBSET Flags, Startdriver(f, fl),
         "QUEUED" \notin fl, NEW c \in Classes, class'[f] = c,
         \A g \in Fetches \ {f} : Handled(g)' <=> Handled(g)
  PROVE  Pool!Wants(f, c)
<1>1. CASE Enqueue(f, fl)
  <2>1. /\ flags' = [flags EXCEPT ![f] = fl \cup {"QUEUED"}] /\ task' = task
        /\ c \in Slots /\ ~HasRoom(c)
    BY <1>1 DEF Enqueue
  <2>2. "QUEUED" \in flags'[f] /\ OnlyTo(f)
    BY <2>1 DEF IInv, TypeOK, OnlyTo
  <2>3. Phase(f)' = "waiting"
    BY <2>2 DEF Phase
  <2>4. Pool!Becomes(f, "waiting") /\ ~Pool!Room(c)
    BY <2>1, <2>2, <2>3, PhaseBecomes, RoomIs
  <2> QED
    BY <2>4 DEF Pool!Wants
<1>2. CASE StartNow(f, fl)
  <2>1. /\ flags' = [flags EXCEPT ![f] = fl \cup {"RUNNING", "USESLOT"}]
        /\ task' = [task EXCEPT ![f] = "running"]
        /\ c \in Slots => HasRoom(c)
    BY <1>2 DEF StartNow, Dostartdriver
  <2>2. "QUEUED" \notin flags'[f] /\ task'[f] = "running" /\ OnlyTo(f)
    BY <2>1 DEF IInv, TypeOK, OnlyTo
  <2>3. Phase(f)' = "served"
    BY <2>2 DEF Phase
  <2>4. Pool!Becomes(f, "served") /\ Pool!Room(c)
    BY <2>1, <2>2, <2>3, PhaseBecomes, RoomIs
  <2> QED
    BY <2>4 DEF Pool!Wants
<1> QED
  BY <1>1, <1>2 DEF Startdriver

\* A step that changes no phase, kind or limit is no step of the pool.
LEMMA Unseen ==
  ASSUME \A g \in Fetches : Phase(g)' = Phase(g), UNCHANGED <<class, image, limit>>
  PROVE  /\ UNCHANGED owner => UNCHANGED Pool!vars
         /\ \A f \in Fetches : owner[f] /\ Phase(f) # "waiting" /\ Forgotten(f)
                                 => Pool!Release(f)
<1>1. UNCHANGED [f \in Fetches |-> Phase(f)]
  OBVIOUS
<1>2. UNCHANGED owner => UNCHANGED Pool!vars
  BY <1>1 DEF Pool!vars
<1>3. ASSUME NEW f \in Fetches, owner[f], Phase(f) # "waiting", Forgotten(f)
      PROVE  Pool!Release(f)
  BY <1>1, <1>3 DEF Pool!Release, Forgotten
<1> QED
  BY <1>2, <1>3

-----------------------------------------------------------------------------
(* Each step of the scheduler is a step of the pool, or none.              *)

\* A step of the pool, or none.
PoolStep == [Pool!Next]_(Pool!vars)

\* The steps of a fetch in the pool.
LEMMA PoolSteps ==
  ASSUME NEW f \in Fetches,
         \/ Pool!Ask(f) \/ Pool!Serve(f) \/ Pool!Release(f) \/ Pool!End(f)
         \/ Pool!Again(f) \/ Pool!Vanish(f)
  PROVE  PoolStep
  BY DEF PoolStep, Pool!Next

\* Urls: Ask, Release, Vanish.
LEMMA UrlPool == ASSUME IInv, Url PROVE PoolStep
<1>1. ASSUME NEW f \in Fetches, NEW load \in Loads, NewFetch(f, load)
      PROVE  Pool!Ask(f)
  <2>1. /\ f \notin Live /\ Startdriver(f, {}) /\ UNCHANGED <<limit, main>>
        /\ class' = [class EXCEPT ![f] = load.class]
        /\ image' = [image EXCEPT ![f] = load.image]
        /\ owner' = [owner EXCEPT ![f] = TRUE]
    BY <1>1 DEF NewFetch
  <2>2. /\ load.class \in Pool!Limited \cup {"channel", "none"}
        /\ load.class \in Classes /\ load.image \in BOOLEAN
    BY LoadsAssumption DEF Classes, Slots, Pool!Limited
  <2>3. class'[f] = load.class
    BY <2>1 DEF IInv, TypeOK
  <2>4. Pool!Wants(f, load.class)
    BY <2>1, <2>2, <2>3, StartWants DEF Handled
  <2>5. Phase(f) = "free"
    BY <2>1, PhaseIs
  <2> QED
    BY <2>1, <2>2, <2>4, <2>5 DEF Pool!Ask
<1>2. ASSUME NEW f \in Fetches, Dispose(f) PROVE PoolStep
  <2>1. owner[f] /\ f \in Live /\ UNCHANGED <<limit, main>>
    BY <1>2 DEF Dispose, IInv, OwnerNeverDangles
  <2>2. CASE "RUNNING" \in flags[f] \/ "INCOMPLETE" \in flags[f]
    <3>1. /\ flags' = [flags EXCEPT ![f] = @ \cup {"DISPOSED"}]
          /\ Forgotten(f) /\ UNCHANGED <<class, image>>
          /\ \A g \in Fetches : task'[g] = "none" <=> task[g] = "none"
      BY <1>2, <2>2 DEF Dispose, Raise, Stop, attrs, IInv, TypeOK
    <3>2. \A g \in Fetches : Phase(g)' = Phase(g)
      BY <2>1, <3>1, PhaseStays DEF Handled, IInv, TypeOK
    <3>3. Phase(f) # "waiting"
      BY <2>2, PhaseIs DEF IInv, FlagsAgree
    <3> QED
      BY <2>1, <3>1, <3>2, <3>3, Unseen, PoolSteps
  <2>3. CASE ~("RUNNING" \in flags[f] \/ "INCOMPLETE" \in flags[f])
    <3>1. Free(f)
      BY <1>2, <2>3 DEF Dispose
    <3>2. task[f] = "none" /\ ~Handled(f)
      BY <2>3 DEF IInv, FlagsAgree, HandledFetch, Handled
    <3>3. "QUEUED" \in flags[f]
      BY <2>1, <2>3, <3>2 DEF IInv, NoneForgotten, Handled, OneList
    <3>4. Phase(f) = "waiting"
      BY <3>3, PhaseIs
    <3> QED
      BY <2>1, <3>1, <3>2, <3>4, FreeVanishes, PoolSteps DEF Handled
  <2> QED
    BY <2>2, <2>3
<1> QED
  BY <1>1, <1>2, PoolSteps DEF Url

\* Users: Vanish, Again, Setlimit.
LEMMA UserPool == ASSUME IInv, User PROVE PoolStep
<1>1. ASSUME NEW f \in Fetches, Cancel(f) PROVE PoolStep
  <2>1. f \in Live /\ UNCHANGED <<limit, main>>
    BY <1>1 DEF Cancel
  <2>2. CASE "RUNNING" \in flags[f] \/ "QUEUED" \notin flags[f]
    <3>1. /\ flags' = [flags EXCEPT ![f] = @ \cup {"CANCELLED"}]
          /\ UNCHANGED <<class, image, owner>>
          /\ \A g \in Fetches : task'[g] = "none" <=> task[g] = "none"
      BY <1>1, <2>2 DEF Cancel, Raise, Stop, attrs, IInv, TypeOK
    <3>2. \A g \in Fetches : Phase(g)' = Phase(g)
      BY <2>1, <3>1, PhaseStays DEF Handled, IInv, TypeOK
    <3> QED
      BY <2>1, <3>1, <3>2, Unseen DEF PoolStep
  <2>3. CASE "RUNNING" \notin flags[f] /\ "QUEUED" \in flags[f]
    <3>1. Free(f)
      BY <1>1, <2>3 DEF Cancel
    <3>2. Phase(f) = "waiting" /\ ~Handled(f)
      BY <2>3, PhaseIs
    <3> QED
      BY <2>1, <3>1, <3>2, FreeVanishes, PoolSteps DEF Handled
  <2> QED
    BY <2>2, <2>3
<1>2. ASSUME NEW f \in Fetches, IncompleteEnd(f) PROVE Pool!Vanish(f)
  <2>1. /\ main = Idle /\ "INCOMPLETE" \in flags[f] /\ Free(f)
        /\ UNCHANGED <<limit, main>>
    BY <1>2 DEF IncompleteEnd
  <2>2. Phase(f) = "asking"
    BY <2>1, PhaseIs
  <2> QED
    BY <2>1, <2>2, FreeVanishes DEF Handled
<1>3. ASSUME NEW f \in Fetches, IncompleteRetry(f) PROVE Pool!Again(f)
  <2>1. /\ "INCOMPLETE" \in flags[f] /\ UNCHANGED <<class, image, limit, owner, main>>
        /\ Startdriver(f, flags[f] \ {"INCOMPLETE"})
    BY <1>3 DEF IncompleteRetry
  <2>2. /\ class[f] \in Classes /\ flags[f] \ {"INCOMPLETE"} \in SUBSET Flags
        /\ "QUEUED" \notin flags[f]
    BY <2>1 DEF IInv, TypeOK, FlagsAgree
  <2>3. Pool!Wants(f, class[f])
    BY <2>1, <2>2, StartWants DEF Handled
  <2>4. Phase(f) = "asking"
    BY <2>1, PhaseIs
  <2> QED
    BY <2>1, <2>3, <2>4 DEF Pool!Again
<1>4. ASSUME NEW f \in Fetches, IncompleteRetryDisposed(f) PROVE PoolStep
  <2>1. /\ main = Idle /\ "INCOMPLETE" \in flags[f] /\ UNCHANGED <<limit, main>>
    BY <1>4 DEF IncompleteRetryDisposed
  <2>2. Phase(f) = "asking" /\ class[f] \in Classes
    BY <2>1, PhaseIs DEF IInv, TypeOK
  <2>3. CASE class[f] \in Slots /\ ~HasRoom(class[f])
    <3>1. Free(f)
      BY <1>4, <2>3 DEF IncompleteRetryDisposed
    <3> QED
      BY <2>1, <2>2, <3>1, FreeVanishes, PoolSteps DEF Handled
  <2>4. CASE ~(class[f] \in Slots /\ ~HasRoom(class[f]))
    <3>1. /\ task' = [task EXCEPT ![f] = "stopping"]
          /\ flags' = [flags EXCEPT ![f] = (@ \ {"INCOMPLETE"}) \cup
                                           {"RUNNING", "USESLOT"}]
          /\ UNCHANGED <<class, image, owner>>
      BY <1>4, <2>4 DEF IncompleteRetryDisposed
    <3>2. "QUEUED" \notin flags'[f] /\ task'[f] = "stopping" /\ OnlyTo(f)
      BY <2>1, <3>1 DEF IInv, TypeOK, FlagsAgree, OnlyTo, Handled
    <3>3. Phase(f)' = "served"
      BY <3>2 DEF Phase
    <3>4. Pool!Becomes(f, "served") /\ Pool!Room(class[f])
      BY <2>2, <2>4, <3>2, <3>3, PhaseBecomes, RoomIs
    <3>5. Pool!Again(f)
      BY <2>1, <2>2, <3>1, <3>4 DEF Pool!Again, Pool!Wants
    <3> QED
      BY <3>5, PoolSteps
  <2> QED
    BY <2>3, <2>4
<1>5. ASSUME NEW w \in WaitRequests, Addwaitrequest(w) PROVE PoolStep
  <2>1. UNCHANGED <<flags, task, main, owner, class, image, limit>>
    BY <1>5 DEF Addwaitrequest, attrs
  <2>2. \A g \in Fetches : Phase(g)' = Phase(g)
    BY <2>1 DEF Phase
  <2> QED
    BY <2>1, <2>2, Unseen DEF PoolStep
<1>6. ASSUME NEW s \in Slots, NEW n \in 1 .. MaxLimit, Setprefs(s, n) PROVE PoolStep
  <2>1. /\ limit' = [limit EXCEPT ![s] = n]
        /\ UNCHANGED <<flags, task, main, owner, class, image>>
    BY <1>6 DEF Setprefs, attrs
  <2>2. UNCHANGED [f \in Fetches |-> Phase(f)]
    BY <2>1 DEF Phase
  <2>3. s \in Pool!Limited /\ Pool!Setlimit(s, n)
    BY <2>1, <2>2 DEF Pool!Setlimit, Pool!Limited, Slots
  <2> QED
    BY <2>3 DEF PoolStep, Pool!Next
<1> QED
  BY <1>1, <1>2, <1>3, <1>4, <1>5, <1>6, PoolSteps DEF User

\* Drivers: End.
LEMMA DriverPool == ASSUME IInv, NEW f \in Fetches, Driver(f) PROVE PoolStep
<1>1. CASE ~Terminate(f)
  <2>1. /\ \A g \in Fetches : task'[g] = "none" <=> task[g] = "none"
        /\ UNCHANGED <<main, owner, class, image, limit>>
        /\ \E new \in {{}, {"NOTMODIFIED"}, {"POSTNOGOOD"}} :
             \A g \in Fetches : flags'[g] \in {flags[g], flags[g] \cup new}
    BY <1>1 DEF Driver, UpdateData, UpdateNotmodified, UpdatePostnogood, Stop,
                Raise, attrs, IInv, TypeOK
  <2>2. \A g \in Fetches : /\ "QUEUED" \in flags'[g] <=> "QUEUED" \in flags[g]
                           /\ "INCOMPLETE" \in flags'[g] <=> "INCOMPLETE" \in flags[g]
    BY <2>1
  <2>3. \A g \in Fetches : Phase(g)' = Phase(g)
    BY <2>1, <2>2, PhaseStays DEF Handled
  <2> QED
    BY <2>1, <2>3, Unseen DEF PoolStep
<1>2. CASE Terminate(f)
  <2>1. PICK k \in AfterQueues(f) :
          /\ main' = [at |-> "net", fetch |-> f, then |-> k, nested |-> FALSE]
          /\ flags' = [flags EXCEPT ![f] =
                         IF k = "nothing" THEN Asked(@) ELSE @ \ {"USESLOT"}]
    BY <1>2 DEF Terminate
  <2>2. /\ task' = [task EXCEPT ![f] = "none"] /\ main = Idle /\ task[f] # "none"
        /\ UNCHANGED <<owner, class, image, limit>>
    BY <1>2 DEF Terminate, DriverAlive, attrs
  <2>3. "QUEUED" \notin flags'[f] /\ task'[f] = "none"
    BY <2>1, <2>2 DEF IInv, TypeOK, FlagsAgree, Asked
  <2>4. main' # Idle /\ main'.fetch = f
    BY <2>1 DEF Idle
  <2>5. OnlyTo(f)
    BY <2>1, <2>2, <2>4 DEF IInv, TypeOK, OnlyTo, Handled
  <2>6. Phase(f)' \in {"ending", "asking"}
    BY <2>3, <2>4 DEF Phase
  <2>7. \E p \in {"ending", "asking"} : Pool!Becomes(f, p)
    BY <2>5, <2>6, PhaseBecomes
  <2>8. Phase(f) = "served"
    BY <2>2, PhaseIs
  <2>9. Pool!End(f)
    BY <2>2, <2>7, <2>8 DEF Pool!End
  <2> QED
    BY <2>9, PoolSteps
<1> QED
  BY <1>1, <1>2

\* The loop of Checkqueues serves a fetch whose turn it is: it is the head of
\* its queue, and if it is an image no document waits behind it.
LEMMA StartQueuedServes ==
  ASSUME IInv, DocumentsFirst, NEW s \in Slots, StartQueued(s)
  PROVE  \E f \in Fetches : Pool!Serve(f)
<1>0. queue[s] # << >> /\ queue[s] \in Seq(Fetches) /\ IsInjective(queue[s])
  BY QueuesOK DEF StartQueued, CanStartQueued
<1> PICK f \in Fetches : f = Head(queue[s])
  BY <1>0, HeadTailProperties
<1>1. /\ HasRoom(s)
      /\ task' = [task EXCEPT ![f] = "running"]
      /\ flags' = [flags EXCEPT ![f] = (flags[f] \ {"QUEUED"})
                                       \cup {"RUNNING", "USESLOT"}]
      /\ UNCHANGED <<owner, class, image, limit>>
      /\ main' = [main EXCEPT !.nested = FALSE]
  BY DEF StartQueued, CanStartQueued, Dostartdriver, attrs
<1>2. main # Idle /\ main \in Draining
  BY DEF StartQueued, CanStartQueued, IInv, TypeOK, Idle, Slots
<1>3. main' # Idle /\ main'.fetch = main.fetch
  BY <1>1, <1>2, HandlerGoesOn DEF StartQueued, CanStartQueued, SameHandler, Draining,
     Slots, Idle
<1>4. /\ f \in Queued(s) /\ class[f] = s /\ "QUEUED" \in flags[f]
      /\ f = queue[s][1]
  BY <1>0, TailSet, HeadTailProperties DEF Queued, IInv, OneList
<1>5. ASSUME image[f], NEW g \in Fetches, Phase(g) = "waiting", class[g] = class[f]
      PROVE  image[g]
  <2>1. "QUEUED" \in flags[g]
    BY <1>5, PhaseIs
  <2>2. g \in Queued(s)
    BY <1>4, <1>5, <2>1 DEF IInv, OneList
  <2>3. PICK j \in 1 .. Len(queue[s]) : queue[s][j] = g
    BY <1>0, <2>2, InToSet DEF Queued
  <2>4. DOMAIN queue[s] = 1 .. Len(queue[s]) /\ Len(queue[s]) \in Nat
    BY <1>0, LenProperties
  <2>5. 1 \in 1 .. Len(queue[s]) /\ (1 < j \/ j = 1)
    BY <2>3, <2>4, SMT
  <2> QED
    BY <1>4, <1>5, <2>3, <2>4, <2>5 DEF DocumentsFirst
<1>6. "QUEUED" \notin flags'[f] /\ task'[f] = "running" /\ OnlyTo(f)
  BY <1>1, <1>2, <1>3, <1>4 DEF IInv, TypeOK, OnlyTo, Handled
<1>7. Phase(f)' = "served"
  BY <1>6 DEF Phase
<1>8. Pool!Becomes(f, "served") /\ Phase(f) = "waiting"
  BY <1>4, <1>6, <1>7, PhaseBecomes, PhaseIs
<1>9. Pool!Room(class[f])
  BY <1>1, <1>4, RoomIs DEF Classes
<1> QED
  BY <1>1, <1>4, <1>5, <1>8, <1>9 DEF Pool!Serve

\* The handler of a final update: Serve, Vanish, Release, Again.
LEMMA HandlerPool == ASSUME IInv, DocumentsFirst, Handler PROVE PoolStep
<1>0. main \in {Idle} \cup Draining
  BY DEF IInv, TypeOK
<1>1. ASSUME NEW s \in Slots, StartQueued(s) PROVE PoolStep
  BY <1>1, StartQueuedServes, PoolSteps
<1>2. ASSUME NEW s \in Slots, StartQueuedFails(s) PROVE PoolStep
  <2> DEFINE f == Head(queue[s])
  <2>1. /\ queue[s] # << >> /\ main \in Draining
        /\ main' = [main EXCEPT !.nested = TRUE]
        /\ Free(f) /\ UNCHANGED limit
    BY <1>0, <1>2 DEF StartQueuedFails, CanStartQueued, Idle, Slots
  <2>2. main # Idle /\ main' # Idle /\ main'.fetch = main.fetch
    BY <2>1, HandlerGoesOn DEF SameHandler, Draining, Slots, Idle
  <2>3. f \in Queued(s) /\ f \in Fetches /\ "QUEUED" \in flags[f]
    BY <2>1, QueuesOK, TailSet DEF Queued, IInv, OneList
  <2> HIDE DEF f
  <2>4. Phase(f) = "waiting" /\ ~Handled(f)
    BY <2>3, PhaseIs
  <2> QED
    BY <2>1, <2>2, <2>3, <2>4, FreeVanishes, PoolSteps DEF Handled
<1>3. CASE NetLoopDone
  <2>1. main # Idle /\ main' = [main EXCEPT !.at = "local", !.nested = FALSE]
    BY <1>3 DEF NetLoopDone, Idle
  <2>2. main' # Idle /\ main'.fetch = main.fetch
    BY <1>0, <2>1, HandlerGoesOn DEF SameHandler, Slots
  <2>3. UNCHANGED <<flags, task, owner, class, image, limit>>
    BY <1>3 DEF NetLoopDone, attrs
  <2>4. \A g \in Fetches : Phase(g)' = Phase(g)
    BY <2>1, <2>2, <2>3 DEF Phase
  <2> QED
    BY <2>3, <2>4, Unseen DEF PoolStep
<1>4. CASE Report
  <2> DEFINE f == main.fetch
  <2>1. main # Idle /\ f \in Fetches /\ Handled(f)
    BY <1>0, <1>4 DEF Report, QueuesChecked, Idle, Draining, Handled
  <2>2. main' # Idle /\ main'.fetch = main.fetch
    BY <1>0, <1>4, <2>1 DEF Report, Draining, Idle
  <2>3. Forgotten(f) /\ UNCHANGED <<flags, task, class, image, limit>>
    BY <1>4 DEF Report, attrs
  <2>4. \A g \in Fetches : Phase(g)' = Phase(g)
    BY <2>1, <2>2, <2>3 DEF Phase
  <2> HIDE DEF f
  <2>5. CASE owner[f]
    <3>1. Phase(f) # "waiting"
      BY <2>1, PhaseIs
    <3> QED
      BY <2>1, <2>3, <2>4, <2>5, <3>1, Unseen, PoolSteps
  <2>6. CASE ~owner[f]
    <3>1. UNCHANGED owner
      BY <2>1, <2>3, <2>6 DEF Forgotten, IInv, TypeOK
    <3> QED
      BY <2>3, <2>4, <3>1, Unseen DEF PoolStep
  <2> QED
    BY <2>5, <2>6
<1>5. CASE Finish
  <2> DEFINE f == main.fetch
  <2>1. f \in Fetches /\ Handled(f) /\ main' = Idle /\ Free(f) /\ UNCHANGED limit
    BY <1>0, <1>5 DEF Finish, Idle, Draining, Handled
  <2>2. \A g \in Fetches \ {f} : ~Handled(g)
    BY DEF Handled
  <2> HIDE DEF f
  <2> QED
    BY <2>1, <2>2, PhaseIs, FreeVanishes, PoolSteps DEF Handled
<1>6. CASE AwaitUser
  <2>1. main # Idle /\ main.then = "nothing" /\ main' = Idle
    BY <1>6 DEF AwaitUser, QueuesChecked, Idle
  <2>2. "INCOMPLETE" \in flags[main.fetch]
    BY <2>1 DEF IInv, HandledFetch
  <2>3. UNCHANGED <<flags, task, owner, class, image, limit>>
    BY <1>6 DEF AwaitUser, attrs
  <2>4. \A g \in Fetches : Phase(g)' = Phase(g)
    BY <2>1, <2>2, <2>3 DEF Phase
  <2> QED
    BY <2>3, <2>4, Unseen DEF PoolStep
<1>7. CASE RetrygetFails
  <2> DEFINE f == main.fetch
  <2>1. f \in Fetches /\ Handled(f) /\ main' = Idle /\ Free(f) /\ UNCHANGED limit
    BY <1>0, <1>7 DEF RetrygetFails, QueuesChecked, Idle, Draining, Handled
  <2>2. \A g \in Fetches \ {f} : ~Handled(g)
    BY DEF Handled
  <2> HIDE DEF f
  <2> QED
    BY <2>1, <2>2, PhaseIs, FreeVanishes, PoolSteps DEF Handled
<1>8. CASE Retryget
  <2> DEFINE f == main.fetch
  <2>1. /\ f \in Fetches /\ Handled(f) /\ main' = Idle
        /\ Startdriver(f, Fresh(flags[f]))
        /\ UNCHANGED <<class, image, limit, owner>>
    BY <1>0, <1>8 DEF Retryget, QueuesChecked, Idle, Draining, Handled
  <2>2. \A g \in Fetches \ {f} : ~Handled(g)
    BY DEF Handled
  <2>3. /\ Fresh(flags[f]) \in SUBSET Flags /\ "QUEUED" \notin Fresh(flags[f])
        /\ class[f] \in Classes
    BY <2>1 DEF IInv, TypeOK, HandledFetch, Handled, Fresh
  <2> HIDE DEF f
  <2>4. Pool!Wants(f, class[f])
    BY <2>1, <2>2, <2>3, StartWants DEF Handled
  <2>5. Phase(f) \in {"ending", "asking"}
    BY <2>1, PhaseIs
  <2>6. Pool!Again(f)
    BY <2>1, <2>4, <2>5 DEF Pool!Again
  <2> QED
    BY <2>1, <2>6, PoolSteps
<1> QED
  BY <1>1, <1>2, <1>3, <1>4, <1>5, <1>6, <1>7, <1>8 DEF Handler

-----------------------------------------------------------------------------
(* The theorem.                                                            *)

\* At the start no fetch exists.
LEMMA InitPool == Init => Pool!Init
<1> SUFFICES ASSUME Init PROVE Pool!Init
  OBVIOUS
<1>1. \A f \in Fetches : Phase(f) = "free"
  BY DEF Init, Phase
<1> QED
  BY <1>1 DEF Init, Pool!Init, Pool!Limited, Slots

\* Every step is a step of the pool or none.
LEMMA NextPool == IInv /\ DocumentsFirst /\ [Next]_vars => PoolStep
<1> SUFFICES ASSUME IInv, DocumentsFirst, [Next]_vars PROVE PoolStep
  OBVIOUS
<1>1. CASE UNCHANGED vars
  <2>1. \A g \in Fetches : Phase(g)' = Phase(g)
    BY <1>1 DEF vars, lists, attrs, Phase
  <2> QED
    BY <1>1, <2>1, Unseen DEF PoolStep, vars, attrs
<1> QED
  BY <1>1, UrlPool, UserPool, HandlerPool, DriverPool DEF Next

\* The scheduler implements the pool: what its lists, counters, flags and the
\* interrupted loop of Checkqueues do to a fetch is what FetchPool promises.
\* No fetch is served beyond the limit or before its turn, none waits while
\* there is room, and each is its url's until one final update or disposal.
THEOREM Implements == Spec => ImplementsPool
<1>1. Init => Pool!Init
  BY InitPool
<1>2. IInv /\ DocumentsFirst /\ [Next]_vars => [Pool!Next]_(Pool!vars)
  BY NextPool DEF PoolStep
<1> QED
  BY <1>1, <1>2, Invariant, DocumentsAhead, PTL DEF Spec, ImplementsPool, Pool!Spec
=============================================================================
