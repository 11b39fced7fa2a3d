------------------------------ MODULE Hotlist -------------------------------
(***************************************************************************)
(* The hotlist and its two windows, of aweb/hotlist.c, hotviewer.c and     *)
(* hotmanager.c of aweblibs/hotlist.                                       *)
(*                                                                         *)
(* The main task and the subtasks of the two windows share one list in     *)
(* memory, under the semaphore hotsema.  A window tells of its work by     *)
(* updates, which the main task takes from its port; the main task tells   *)
(* the windows by messages to their ports.  Both may be synchronous, and a *)
(* window holds hotsema during its synchronous updates.  While the main    *)
(* task waits for an answer or for the end of a window it runs the         *)
(* handlers of that window's updates: their steps go in front of the       *)
(* steps, in `job', that it still has to do.                               *)
(*                                                                         *)
(* A critical section without an update in it is one step that needs the   *)
(* semaphore free.  Answers to asynchronous messages, which only free the  *)
(* message, are left out.                                                  *)
(***************************************************************************)
EXTENDS Naturals, SequencesExt, Lists

CONSTANTS Room,     \* bound on messages under way, beyond which users rest
          Nested    \* bound on the waits in which the manager is reverted

ASSUME HotlistAssumption == Room \in Nat /\ Nested \in Nat

VARIABLES
  unsaved,     \* the list in memory is not the one in the file
  hotchanged,
  hotsema,     \* the window that holds it during an update, or "free"
  nodes,       \* the list browser nodes of a window: made from the list as
               \* it is, or from the list before some change
  locked,      \* hotmanager.c's locked; the viewer's read-only gadgets
  sub,         \* where the subtask of a window is
  brk,         \* Ctrl-C was sent to it
  inbox,       \* task->subport
  port,        \* taskport: updates and answers of the windows
  task,        \* how->task is not NULL
  job,         \* what the main task is to do
  up           \* it has not deinstalled the hotlist

list == <<unsaved, hotchanged>>
window == <<nodes, locked, brk>>
main == <<task, job, up>>
vars == <<list, hotsema, window, sub, inbox, port, main>>

-----------------------------------------------------------------------------
Windows == {"viewer", "manager"}

Async == {"changed", "restore", "close"}
Updates == [from : Windows,
            is : Async \cup {"follow", "manager", "save", "dims"}]
Answers == [from : Windows, is : {"answer"}, id : Nat]
Orders == [is : {"addentry", "dispose", "newlist"}, id : Nat]

Steps == [do : {"add", "save", "reread", "replace", "lastsave"}]
         \cup [do : {"open", "stop", "drain", "reply"}, w : Windows]
         \cup [do : {"put", "tell"}, w : Windows, is : {"addentry", "dispose", "newlist"}]
         \cup [do : {"await"}, w : Windows, id : Nat]

TypeOK ==
  /\ unsaved \in BOOLEAN /\ hotchanged \in BOOLEAN /\ up \in BOOLEAN
  /\ hotsema \in Windows \cup {"free"}
  /\ \A w \in Windows : sub[w] \in {"asking", "asked"} <=> hotsema = w
  /\ nodes \in [Windows -> SUBSET {"current", "old"}]
  /\ locked \in [Windows -> BOOLEAN]
  /\ brk \in [Windows -> BOOLEAN]
  /\ sub \in [Windows -> {"none", "build", "loop", "events", "asking",
                          "asked", "saving", "saved", "closing", "closed",
                          "leaving", "ended"}]
  /\ inbox \in [Windows -> Seq(Orders)]
  /\ port \in Seq(Updates \cup Answers)
  /\ task \in [Windows -> BOOLEAN]
  /\ job \in Seq(Steps)

Init ==
  /\ unsaved = FALSE /\ hotchanged = FALSE /\ up = TRUE
  /\ hotsema = "free"
  /\ nodes = [w \in Windows |-> {}]
  /\ locked = [w \in Windows |-> FALSE]
  /\ brk = [w \in Windows |-> FALSE]
  /\ sub = [w \in Windows |-> "none"]
  /\ inbox = [w \in Windows |-> << >>]
  /\ port = << >>
  /\ task = [w \in Windows |-> FALSE]
  /\ job = << >>

Traffic == Len(port) + Len(inbox["viewer"]) + Len(inbox["manager"])

\* The subtask has its port.
Accepts(w) == task[w] /\ sub[w] \notin {"none", "ended"}

\* What a change of the list makes of nodes.
Aged(S) == IF S = {} THEN {} ELSE {"old"}

Do(do) == [do |-> do]
On(do, w) == [do |-> do, w |-> w]
Send(do, w, is) == [do |-> do, w |-> w, is |-> is]

-----------------------------------------------------------------------------
(* The main task: what its functions consist of.                           *)

Both(do, is) == <<Send(do, "viewer", is), Send(do, "manager", is)>>

\* Slips: the windows are told first, or not waited for; edits that a window
\* reports while it is being disposed are not in the file.
AddTellsFirst(is) == Both("put", is) \o <<Do("add"), Do("save")>>
RestoreWithoutWaiting ==
  Both("put", "dispose") \o <<Do("reread")>> \o Both("put", "newlist")
DeinstallSavesFirst ==
  <<Do("lastsave"), On("stop", "viewer"), On("stop", "manager")>>

Addtohotlist(is) == <<Do("add")>> \o Both("put", is) \o <<Do("save")>>

Renewed(do) == Both("tell", "dispose") \o <<Do(do)>> \o Both("put", "newlist")
Restorehotlist == Renewed("reread")
Sethotlistcontents == Renewed("replace")

Deinstallhotwindow ==
  <<On("stop", "viewer"), On("stop", "manager"), Do("lastsave")>>

Commands ==
  {Addtohotlist("addentry"), Addtohotlist("newlist"), <<Do("save")>>,
   Restorehotlist, Sethotlistcontents, Deinstallhotwindow}
  \cup {<<On("open", w)>> : w \in Windows}
  \cup {<<On("stop", w)>> : w \in Windows}

\* The user, or an ARexx program, gives a command.
Command ==
  /\ up /\ job = << >> /\ Traffic < Room
  /\ job' \in Commands
  /\ UNCHANGED <<list, hotsema, window, sub, inbox, port, task, up>>

-----------------------------------------------------------------------------
(* The main task: handlers of updates.                                     *)

\* A window is being disposed, HOTF_BREAKING; without a task it has been.
Breaking(w) == \E i \in DOMAIN job : job[i] = On("drain", w)

Handler(m) ==
  CASE m.is = "manager" -> <<On("open", "manager")>>
    [] m.is = "changed" -> <<Send("put", "viewer", "addentry")>>
    [] m.is = "save" -> <<Do("save")>>
    [] m.is = "restore" -> Restorehotlist
    [] m.is = "close" -> IF Breaking(m.from) THEN << >>
                         ELSE <<On("drain", m.from)>>
    [] OTHER -> << >>

\* Processreply of a message that was taken from the port, before `rest'.
\* Updates to a window that has given up its task reach nobody.
Processreply(m, rest) ==
  IF m.is = "answer"
    THEN job' = rest /\ UNCHANGED <<hotchanged, task>>
    ELSE /\ job' = (IF task[m.from] THEN Handler(m) ELSE << >>)
                   \o (IF m.is \in Async THEN << >>
                       ELSE <<On("reply", m.from)>>)
                   \o rest
         /\ hotchanged' = (hotchanged \/ (m.is = "changed" /\ task[m.from]))
         /\ task' = IF m.is = "close" /\ ~Breaking(m.from)
                    THEN [task EXCEPT ![m.from] = FALSE] ELSE task

Processtask ==
  /\ up /\ job = << >> /\ port # << >>
  /\ Processreply(Head(port), << >>)
  /\ port' = Tail(port)
  /\ UNCHANGED <<unsaved, hotsema, window, sub, inbox, up>>

-----------------------------------------------------------------------------
(* The main task: its steps.                                               *)

Doing(do) == job # << >> /\ Head(job).do = do
Proceed == job' = Tail(job)

\* The first message of w in the port, the way Waitformsg looks for it.
From(w) == {i \in DOMAIN port : port[i].from = w}
FirstFrom(w) == CHOOSE i \in From(w) : \A j \in From(w) : i <= j

Take(w) ==
  /\ From(w) # {}
  /\ port' = RemoveAt(port, FirstFrom(w))

\* Asetattrsasync to a window.
Put ==
  /\ Doing("put") /\ Proceed
  /\ LET s == Head(job)
     IN  inbox' = IF Accepts(s.w)
                  THEN [inbox EXCEPT ![s.w] = Append(@, [is |-> s.is, id |-> 0])]
                  ELSE inbox
  /\ UNCHANGED <<list, hotsema, window, sub, port, task, up>>

\* Asetattrssync: Messagetask, then Waitformsg.
Awaited == Cardinality({i \in DOMAIN job : job[i].do = "await"}) + 1

Tell ==
  /\ Doing("tell")
  /\ LET s == Head(job)
     IN  IF Accepts(s.w)
           THEN /\ inbox' = [inbox EXCEPT ![s.w] =
                               Append(@, [is |-> s.is, id |-> Awaited])]
                /\ job' = <<[do |-> "await", w |-> s.w, id |-> Awaited]>>
                          \o Tail(job)
           ELSE Proceed /\ UNCHANGED inbox
  /\ UNCHANGED <<list, hotsema, window, sub, port, task, up>>

Waitformsg ==
  /\ Doing("await") /\ Take(Head(job).w)
  /\ LET s == Head(job)
         m == port[FirstFrom(s.w)]
     IN  IF m = [from |-> s.w, is |-> "answer", id |-> s.id]
           THEN Proceed /\ UNCHANGED <<hotchanged, task>>
           ELSE Processreply(m, job)
  /\ UNCHANGED <<unsaved, hotsema, window, sub, inbox, up>>

\* Disposehotwindow: Ctrl-C, and Stoptask waits until the subtask has ended.
\* The handler of AOHOT_Close does the latter only.
Stop ==
  /\ Doing("stop")
  /\ LET w == Head(job).w
     IN  IF task[w]
           THEN job' = <<On("drain", w)>> \o Tail(job)
           ELSE Proceed
  /\ UNCHANGED <<list, hotsema, window, sub, inbox, port, task, up>>

Drain ==
  /\ Doing("drain")
  /\ LET w == Head(job).w
     IN  \/ /\ ~brk[w] /\ brk' = [brk EXCEPT ![w] = TRUE]
            /\ UNCHANGED <<hotchanged, sub, port, task, job>>
         \/ /\ brk[w] /\ Take(w)
            /\ Processreply(port[FirstFrom(w)], job)
            /\ UNCHANGED <<brk, sub>>
         \/ /\ brk[w] /\ From(w) = {} /\ sub[w] = "ended"
            /\ task' = [task EXCEPT ![w] = FALSE]
            /\ sub' = [sub EXCEPT ![w] = "none"]
            /\ Proceed
            /\ UNCHANGED <<hotchanged, brk, port>>
  /\ UNCHANGED <<unsaved, hotsema, nodes, locked, inbox, up>>

\* Hotlistviewer and Hotlistmanager, Starttask.
Open ==
  /\ Doing("open") /\ Proceed
  /\ LET w == Head(job).w
     IN  IF task[w] THEN UNCHANGED <<task, sub, brk>>
         ELSE /\ task' = [task EXCEPT ![w] = TRUE]
              /\ sub' = [sub EXCEPT ![w] = "build"]
              /\ brk' = [brk EXCEPT ![w] = FALSE]
  /\ UNCHANGED <<list, hotsema, nodes, locked, inbox, port, up>>

Reply ==
  /\ Doing("reply") /\ Proceed
  /\ LET w == Head(job).w
     IN  sub' = [sub EXCEPT ![w] = CASE @ = "asking" -> "asked"
                                     [] @ = "saving" -> "saved"
                                     [] @ = "closing" -> "closed"]
  /\ UNCHANGED <<list, hotsema, window, inbox, port, task, up>>

\* The critical sections.  Saving and reading are assumed to work.
Add ==
  /\ Doing("add") /\ Proceed /\ hotsema = "free"
  /\ unsaved' = TRUE /\ hotchanged' = TRUE
  /\ nodes' = [w \in Windows |-> Aged(nodes[w])]
  /\ UNCHANGED <<hotsema, locked, brk, sub, inbox, port, task, up>>

Savehotlist ==
  /\ Doing("save") /\ Proceed /\ hotsema = "free"
  /\ unsaved' = (unsaved /\ ~hotchanged)
  /\ hotchanged' = FALSE
  /\ UNCHANGED <<hotsema, window, sub, inbox, port, task, up>>

Renew ==
  /\ Doing("reread") \/ Doing("replace")
  /\ Proceed /\ hotsema = "free"
  /\ unsaved' = Doing("replace") /\ hotchanged' = Doing("replace")
  /\ nodes' = [w \in Windows |-> Aged(nodes[w])]
  /\ UNCHANGED <<hotsema, locked, brk, sub, inbox, port, task, up>>

Lastsave ==
  /\ Doing("lastsave") /\ Proceed
  /\ unsaved' = (unsaved /\ ~hotchanged)
  /\ up' = FALSE
  /\ UNCHANGED <<hotchanged, hotsema, window, sub, inbox, port, task>>

MainStep == \/ Put \/ Tell \/ Waitformsg \/ Stop \/ Drain \/ Open \/ Reply
            \/ Add \/ Savehotlist \/ Renew \/ Lastsave \/ Processtask

-----------------------------------------------------------------------------
(* The windows.                                                            *)

Goto(w, s) == sub' = [sub EXCEPT ![w] = s]
Update(w, is) == port' = Append(port, [from |-> w, is |-> is])

\* Buildhotviewwindow, Buildhotlistwindow.  The manager looks at the list once
\* before it waits for the semaphore.
Build(w) ==
  /\ sub[w] = "build" /\ hotsema = "free"
  /\ nodes' = [nodes EXCEPT ![w] = {"current"}]
  /\ locked' = [locked EXCEPT !["viewer"] = @ /\ w # "viewer"]
  /\ Goto(w, "loop")
  /\ UNCHANGED <<list, hotsema, brk, inbox, port, main>>

\* There is no screen, so there are no nodes either: only AOHOT_Close.  A window
\* that cannot be opened after its nodes were made leaves them allocated
\* (hotviewer.c:559, hotmanager.c:2076), which is not modelled.
BuildFails(w) ==
  /\ sub[w] = "build" /\ Goto(w, "leaving") /\ Update(w, "close")
  /\ UNCHANGED <<list, hotsema, window, inbox, main>>

\* What the messages do.  Newlist of the viewer frees no nodes.
Handled(w, is) ==
  CASE is = "addentry" -> {"current"}
    [] is = "dispose" -> {}
    [] is = "newlist" -> {"current"} \cup
                         (IF w = "viewer" THEN nodes[w] ELSE {})

Handletaskmsg(w) ==
  /\ sub[w] = "loop" /\ ~brk[w] /\ inbox[w] # << >> /\ hotsema = "free"
  /\ LET m == Head(inbox[w])
     IN  /\ nodes' = [nodes EXCEPT ![w] = Handled(w, m.is)]
         /\ locked' = [locked EXCEPT ![w] =
                         m.is = "dispose" \/ (@ /\ m.is # "newlist")]
         /\ port' = IF m.id = 0 THEN port
                    ELSE Append(port, [from |-> w, is |-> "answer",
                                       id |-> m.id])
  /\ inbox' = [inbox EXCEPT ![w] = Tail(@)]
  /\ UNCHANGED <<list, hotsema, brk, sub, main>>

\* The loop over window events.  Gettaskmsg found no message before.
Handlewindow(w) ==
  /\ sub[w] = "loop" /\ ~brk[w] /\ inbox[w] = << >>
  /\ Goto(w, "events")
  /\ UNCHANGED <<list, hotsema, window, inbox, port, main>>

Lastevent(w) ==
  /\ sub[w] = "events" /\ Goto(w, "loop")
  /\ UNCHANGED <<list, hotsema, window, inbox, port, main>>

EventUnlocked(w) == sub[w] = "events"
Event(w) == sub[w] = "events" /\ hotsema = "free"
Heeds(w) == w = "manager" => ~locked[w]

\* AOHOT_Follow and, from the viewer, AOHOT_Manager: synchronous, under the
\* semaphore.  A read-only viewer still takes the Enter key.
Ask(w, is) ==
  /\ Event(w) /\ Heeds(w)
  /\ is = "follow" => nodes[w] # {}
  /\ is = "manager" => w = "viewer" /\ ~locked[w]
  /\ hotsema' = w /\ Goto(w, "asking") /\ Update(w, is)
  /\ UNCHANGED <<list, window, inbox, main>>

Asked(w) ==
  /\ sub[w] = "asked" /\ hotsema' = "free" /\ Goto(w, "events")
  /\ UNCHANGED <<list, window, inbox, port, main>>

\* The user opens or closes a group, in the viewer.
Showhide ==
  /\ Event("viewer") /\ nodes["viewer"] # {} /\ Traffic < Room
  /\ unsaved' = TRUE /\ Update("viewer", "changed")
  /\ UNCHANGED <<hotchanged, hotsema, window, sub, inbox, main>>

\* The URLs checkbox of a window, and the list chooser of the manager.
Rebuild(w) ==
  /\ Event(w) /\ ~locked[w]
  /\ nodes' = [nodes EXCEPT ![w] = {"current"}]
  /\ UNCHANGED <<list, hotsema, locked, brk, sub, inbox, port, main>>

\* Any change in the manager, which updates its own nodes.
Edit ==
  /\ Event("manager") /\ Heeds("manager") /\ Traffic < Room
  /\ unsaved' = TRUE /\ Update("manager", "changed")
  /\ nodes' = [nodes EXCEPT !["viewer"] = Aged(@)]
  /\ UNCHANGED <<hotchanged, hotsema, locked, brk, sub, inbox, main>>

Revert ==
  /\ Event("manager") /\ Heeds("manager") /\ Traffic < Room
  /\ Awaited <= Nested
  /\ Update("manager", "restore")
  /\ UNCHANGED <<list, hotsema, window, sub, inbox, main>>

\* GID_SAVE, without the semaphore, which the manager then takes again.
Save ==
  /\ Event("manager") /\ Heeds("manager")
  /\ Goto("manager", "saving") /\ Update("manager", "save")
  /\ UNCHANGED <<list, hotsema, window, inbox, main>>

Saved ==
  /\ sub["manager"] = "saved" /\ hotsema = "free" /\ Goto("manager", "events")
  /\ UNCHANGED <<list, hotsema, window, inbox, port, main>>

\* The user closes the window, or Gettaskmsg returns AOTSK_Stop.
Close(w) ==
  /\ \/ Event(w) /\ Heeds(w)
     \/ sub[w] = "loop" /\ brk[w]
  /\ Goto(w, "closing") /\ Update(w, "dims")
  /\ UNCHANGED <<list, hotsema, window, inbox, main>>

Closed(w) ==
  /\ sub[w] = "closed"
  /\ nodes' = [nodes EXCEPT ![w] = {}]
  /\ Goto(w, "leaving") /\ Update(w, "close")
  /\ UNCHANGED <<list, hotsema, locked, brk, inbox, main>>

\* The end of Subtask: what is still in the port is replied.
Leave(w) ==
  /\ sub[w] = "leaving" /\ Goto(w, "ended")
  /\ LET sync == Without(inbox[w], {m \in Orders : m.id = 0})
     IN  port' = port \o [i \in DOMAIN sync |->
                            [from |-> w, is |-> "answer", id |-> sync[i].id]]
  /\ inbox' = [inbox EXCEPT ![w] = << >>]
  /\ UNCHANGED <<list, hotsema, window, main>>

User(w) == \/ \E is \in {"follow", "manager"} : Ask(w, is)
           \/ Rebuild(w)
           \/ w = "viewer" /\ Showhide
           \/ w = "manager" /\ (Edit \/ Revert \/ Save)

WindowStep(w) ==
  \/ Build(w) \/ BuildFails(w) \/ Handletaskmsg(w)
  \/ Handlewindow(w) \/ Lastevent(w)
  \/ Asked(w) \/ (w = "manager" /\ Saved)
  \/ Close(w) \/ Closed(w) \/ Leave(w)

Next == \/ Command \/ MainStep
        \/ \E w \in Windows : User(w) \/ WindowStep(w)

Spec == Init /\ [][Next]_vars

\* Subtasks run, and so does the main task, which waits for a semaphore in a
\* queue.  Users need not do anything.
FairSpec == /\ Spec /\ SF_vars(MainStep)
            /\ \A w \in Windows : SF_vars(WindowStep(w))

-----------------------------------------------------------------------------
(* Properties.                                                             *)

InPort(w, is) == \E i \in From(w) : port[i].is = is

\* "If the hotlist was changed, it will be saved automatically when you leave
\* AWeb" (hotlist.html): whoever changed the list, in whatever order the
\* updates of the windows, restores and saves are handled, the main task knows
\* or will know of it, and the file has everything when AWeb is gone.
NothingUnsaved ==
  unsaved => up /\ (hotchanged \/ \E w \in Windows : InPort(w, "changed"))

\* A window that shows a list from before a change is told, unless it is about
\* to close: the news is in its port, with the main task, or on its way there.
\* (The viewer may show old nodes beside current ones: Newlist frees none.)
Told(w) ==
  \/ \E i \in DOMAIN inbox[w] : inbox[w][i].is \in {"addentry", "newlist"}
  \/ \E i \in DOMAIN job : job[i].do = "put" /\ job[i].w = w
  \/ w = "viewer" /\ \E v \in Windows : InPort(v, "changed")

CatchesUp ==
  \A w \in Windows :
    nodes[w] = {"old"} /\ sub[w] \in {"loop", "events", "asking", "asked"}
      => Told(w) \/ brk[w]

\* The items of the list are freed and made anew only while the manager, whose
\* nodes hang on the items, has none: "Dispose the gadget lists and disable"
\* (hotlist.h:103-104) is answered first, also by a manager that is opened,
\* closed or asked to revert again in between.
FreesDetachedList ==
  Doing("reread") \/ Doing("replace") => nodes["manager"] = {}

\* "you can load the document with either the Follow button or with the Enter
\* key" (hotlist.html:59-61): AOHOT_Follow is handled.
FollowLoads ==
  (\E w \in Windows : InPort(w, "follow")) ~>
    ~(\E w \in Windows : InPort(w, "follow"))
=============================================================================
