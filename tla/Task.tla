------------------------------- MODULE Task --------------------------------
(***************************************************************************)
(* The subtasks of aweb/task.c and the messages they exchange with the     *)
(* main task.                                                              *)
(*                                                                         *)
(* A subtask reports to the main task with update messages on `taskport'.  *)
(* A synchronous update blocks the subtask until the main task replies it. *)
(* The main task sends messages to `subport'; for a synchronous one it     *)
(* waits in Waitformsg, and to dispose a task it waits in Stoptask.  Both  *)
(* waits run the update handlers of the task they wait for, and a handler  *)
(* may wait again: the calls that the main task is in are a stack.         *)
(*                                                                         *)
(* Exec signals are bits: any number of messages sets one bit, and Wait()  *)
(* clears it.  The waits inside handlers consume the bit that main()'s     *)
(* event loop waits for, so they have to set it again.                     *)
(*                                                                         *)
(* A critical section under task.sema or portsema is one step.             *)
(***************************************************************************)
EXTENDS Naturals, FiniteSets, SequencesExt

CONSTANTS Tasks,     \* the task objects; a freed object may be reused
          Msgs,      \* Ataskmsg structures; a freed structure is reused
          Hot,       \* tasks that get synchronous messages (hotlist windows)
          Closing,   \* tasks that may end without being stopped
          Restoring, \* tasks whose update handlers send synchronous messages
          Nobody     \* no message

ASSUME TasksAssumption ==
  IsFiniteSet(Tasks) /\ Hot \cup Closing \cup Restoring \subseteq Tasks
ASSUME OwnAssumption ==
  ({Nobody} \cup Msgs) \cap (Tasks \X {"startup", "update", "last"}) = {}
ASSUME MsgsAssumption == IsFiniteSet(Msgs)
ASSUME NobodyAssumption == Nobody \notin Msgs

VARIABLES
  state,      \* task->state, "FREE" when there is no such object
  flags,      \* task->flags
  target,     \* task->target is set
  updport,    \* the subtask could make its updport
  sub,        \* where the subtask process is
  ctrlc,      \* SIGBREAKF_CTRL_C of the subtask
  subport,    \* the messages at task->subport
  hold,       \* the message the subtask got and has not replied
  replied,    \* the subtask's update has come back to updport
  msg,        \* what an Ataskmsg is
  taskport,   \* the messages at taskport
  signal,     \* the signal bit of taskport
  semaport,   \* the runsema grants at semaport
  semasignal, \* the signal bit of semaport
  stack       \* the calls the main task is in, innermost first

object == <<state, flags, target>>
process == <<updport, sub, ctrlc, subport, hold, replied>>
ports == <<taskport, signal>>
semas == <<semaport, semasignal>>
vars == <<state, flags, target, updport, sub, ctrlc, subport, hold, replied,
          msg, taskport, signal, semaport, semasignal, stack>>

-----------------------------------------------------------------------------
\* A task has one startup message, one synchronous update and one last update
\* at a time: they are structures of their own.
OwnKinds == {"startup", "update", "last"}
Own == Tasks \X OwnKinds
AllMsgs == Msgs \cup Own

States == {"FREE", "NEW", "RUN", "DEAD"}
Flags == {"DISPOSING", "PROCESSING", "MUSTDISPOSE", "STARTED"}

\* "failed" and "ending" are the subtask after it is dead, with runsema.
Places == {"none", "created", "run", "update", "last", "ending", "failed"}

\* update: AOM_UPDATE, synchronous; async, last: asynchronous ones, "last" the
\* one that says the subtask is done; send: Messagetask; set: AsetattrsasyncA.
Kinds == {"startup", "update", "async", "last", "send", "set"}
Updates == {"update", "async", "last"}
NoMsg == [kind |-> "free"]

\* loop: Processtask; update: the handler of an update; wait, sleep: Waitformsg
\* scanning the port and in Wait(); first, procured, again, last: Stoptask
\* before Procure, in Wait(), processing messages, and after the loop.
Frames == [at : {"loop"}]
          \cup [at : {"update", "wait", "sleep"}, msg : AllMsgs]
          \cup [at : {"first", "procured", "again", "last"}, task : Tasks]

TypeOK ==
  /\ state \in [Tasks -> States]
  /\ flags \in [Tasks -> SUBSET Flags]
  /\ target \in [Tasks -> BOOLEAN]
  /\ updport \in [Tasks -> BOOLEAN]
  /\ sub \in [Tasks -> Places]
  /\ ctrlc \in [Tasks -> BOOLEAN]
  /\ subport \in [Tasks -> Seq(Msgs)]
  /\ hold \in [Tasks -> Msgs \cup {Nobody}]
  /\ replied \in [Tasks -> BOOLEAN]
  /\ msg \in [AllMsgs -> {NoMsg} \cup [kind : Kinds, task : Tasks]]
  /\ taskport \in Seq(AllMsgs)
  /\ signal \in BOOLEAN
  /\ semaport \in Seq(Tasks)
  /\ semasignal \in BOOLEAN
  /\ stack \in Seq(Frames)

Init ==
  /\ state = [t \in Tasks |-> "FREE"]
  /\ flags = [t \in Tasks |-> {}]
  /\ target = [t \in Tasks |-> FALSE]
  /\ updport = [t \in Tasks |-> FALSE]
  /\ sub = [t \in Tasks |-> "none"]
  /\ ctrlc = [t \in Tasks |-> FALSE]
  /\ subport = [t \in Tasks |-> << >>]
  /\ hold = [t \in Tasks |-> Nobody]
  /\ replied = [t \in Tasks |-> FALSE]
  /\ msg = [m \in AllMsgs |-> NoMsg]
  /\ taskport = << >> /\ signal = FALSE
  /\ semaport = << >> /\ semasignal = FALSE
  /\ stack = << >>

-----------------------------------------------------------------------------
(* Messages and calls.                                                     *)

Unused(m) == m \in Msgs /\ msg[m] = NoMsg
Is(m, kinds) == msg[m].kind \in kinds
Sender(m) == msg[m].task
Of(m, t) == msg[m] # NoMsg /\ Sender(m) = t

Top == Head(stack)
In(places) == stack # << >> /\ Top.at \in places
Call(frame, st) == << frame >> \o st
Stopping(t) == [at |-> "first", task |-> t]

\* PutMsg or ReplyMsg to taskport, which sets its signal.
Putmsg(m) == taskport' = Append(taskport, m) /\ signal' = TRUE

\* Our port's signal, after a Wait() for it that did not get all messages.
\* Slip: forgotten.
NoPortsignal == UNCHANGED signal
Setportsignal == signal' = TRUE

\* The first message at taskport that came from or back from this task.
HasMsgOf(t) == \E i \in DOMAIN taskport : Of(taskport[i], t)
FirstOf(t) == SelectInSeq(taskport, LAMBDA m : Of(m, t))

\* Waitformsg's `msg==atm'.  Slip: the awaited message is taken for another.
IsAwaitedNever(m) == FALSE
IsAwaited(m) == m = Top.msg

\* The first half of Stoptask tells the subtask to stop.  Slip: it does not.
Unsignalled(t) == ctrlc
Signalled(t) == [ctrlc EXCEPT ![t] = @ \/ state[t] = "RUN"]

\* The end of Processreply, with the task's flags being fl: dispose the task
\* when its object asked for that while the update was processed.
Replydone(t, fl, st) ==
  IF "MUSTDISPOSE" \in fl
    THEN /\ flags' = [flags EXCEPT ![t] = fl \ {"MUSTDISPOSE"}]
         /\ ctrlc' = Signalled(t)
         /\ stack' = Call(Stopping(t), st)
    ELSE /\ flags' = [flags EXCEPT ![t] = fl]
         /\ stack' = st
         /\ UNCHANGED ctrlc

\* Free the structure, or reply it to the subtask that waits for it.  Slip:
\* it is freed only.
GivebackNone(m) ==
  /\ msg' = [msg EXCEPT ![m] = NoMsg]
  /\ UNCHANGED replied
Giveback(m) ==
  IF Is(m, {"update"})
    THEN replied' = [replied EXCEPT ![Sender(m)] = TRUE] /\ UNCHANGED msg
    ELSE msg' = [msg EXCEPT ![m] = NoMsg] /\ UNCHANGED replied

\* Processreply.  An update with a target runs the target's handler.
Processreply(m, st) ==
  LET t == Sender(m)
  IN  IF Is(m, Updates) /\ target[t]
        THEN /\ flags' = [flags EXCEPT ![t] = @ \cup {"PROCESSING"}]
             /\ stack' = Call([at |-> "update", msg |-> m], st)
             /\ UNCHANGED <<ctrlc, replied, msg>>
        ELSE Giveback(m) /\ Replydone(t, flags[t], st)

-----------------------------------------------------------------------------
(* The main task: event loop and waits.                                    *)

\* Processtask, from main()'s loop: one message, then set the signal again
\* if there are more.
Processtask ==
  /\ stack = << >>
  /\ signal
  /\ IF taskport = << >>
       THEN /\ stack' = << [at |-> "loop"] >>
            /\ UNCHANGED <<taskport, flags, ctrlc, replied, msg>>
       ELSE /\ taskport' = Tail(taskport)
            /\ Processreply(Head(taskport), << [at |-> "loop"] >>)
  /\ signal' = FALSE
  /\ UNCHANGED <<state, target, updport, sub, subport, hold, semas>>

Resignal ==
  /\ In({"loop"})
  /\ signal' = (signal \/ taskport # << >>)
  /\ stack' = Tail(stack)
  /\ UNCHANGED <<object, process, msg, taskport, semas>>

\* Take this task's first message from the port and process it, in frame st.
TakeAndProcess(t, st) ==
  /\ taskport' = RemoveAt(taskport, FirstOf(t))
  /\ Processreply(taskport[FirstOf(t)], st)
  /\ UNCHANGED <<state, target, updport, sub, subport, hold, signal, semas>>

\* One pass of Waitformsg's loop: another message of the same task.  Slip: the
\* wait is for the one message only.
WaitformsgAlone == FALSE
WaitformsgOther ==
  /\ In({"wait"})
  /\ LET t == Sender(Top.msg)
     IN  /\ Is(Top.msg, Kinds)
         /\ HasMsgOf(t)
         /\ ~IsAwaited(taskport[FirstOf(t)])
         /\ TakeAndProcess(t, stack)

\* The message has been replied.  Starttask frees the startup message;
\* Messagetask processes the reply.
WaitformsgDone ==
  /\ In({"wait"})
  /\ LET m == Top.msg
         t == Sender(m)
         fl == flags[t] \cup (IF Is(m, {"startup"}) THEN {"STARTED"} ELSE {})
     IN  /\ Is(m, Kinds)
         /\ HasMsgOf(t)
         /\ IsAwaited(taskport[FirstOf(t)])
         /\ taskport' = RemoveAt(taskport, FirstOf(t))
         /\ Giveback(m)
         /\ IF Is(m, {"startup"})
              THEN /\ flags' = [flags EXCEPT ![t] = fl]
                   /\ stack' = Tail(stack)
                   /\ UNCHANGED ctrlc
              ELSE Replydone(t, fl, Tail(stack))
  /\ Setportsignal
  /\ UNCHANGED <<state, target, updport, sub, subport, hold, semas>>

\* No message of the task: Wait() for the port.
WaitformsgSleep ==
  /\ In({"wait"})
  /\ Is(Top.msg, Kinds) => ~HasMsgOf(Sender(Top.msg))
  /\ stack' = Call([Top EXCEPT !.at = "sleep"], Tail(stack))
  /\ UNCHANGED <<object, process, msg, ports, semas>>

WaitformsgWake ==
  /\ In({"sleep"})
  /\ signal
  /\ signal' = FALSE
  /\ stack' = Call([Top EXCEPT !.at = "wait"], Tail(stack))
  /\ UNCHANGED <<object, process, msg, taskport, semas>>

\* Processtaskreply, in each of the places Stoptask and Dodisposetask call it.
Processtaskreply ==
  /\ In({"first", "again", "last"})
  /\ HasMsgOf(Top.task)
  /\ TakeAndProcess(Top.task, stack)

HasRunsema(t) == sub[t] \in {"run", "update", "last", "ending", "failed"}
\* Slip: the port is not looked at.
DrainedAlways(place) == In({place})
Drained(place) == In({place}) /\ ~HasMsgOf(Top.task)

\* Procure the task's runsema; it is granted at once when it is free.
Procure ==
  /\ Drained("first")
  /\ IF HasRunsema(Top.task)
       THEN UNCHANGED semas
       ELSE semaport' = Append(semaport, Top.task) /\ semasignal' = TRUE
  /\ stack' = Call([Top EXCEPT !.at = "procured"], Tail(stack))
  /\ UNCHANGED <<object, process, msg, ports>>

\* The Wait() that returned tells to look at semaport.  Slip: only when it
\* does not tell to look at taskport, as with an `else'.
SemaAlone == semasignal /\ ~signal
SemaToo == semasignal

\* Wait() for either port, one pass of Stoptask's loop.
StoptaskWake ==
  /\ In({"procured"})
  /\ signal \/ semasignal
  /\ LET granted == SemaToo /\ semaport # << >>
         ended == granted /\ Head(semaport) = Top.task
     IN  /\ semaport' = IF granted THEN Tail(semaport) ELSE semaport
         /\ IF ended THEN Setportsignal ELSE signal' = FALSE
         /\ stack' = Call([Top EXCEPT !.at = IF ended THEN "last"
                                             ELSE IF signal THEN "again"
                                             ELSE "procured"], Tail(stack))
  /\ semasignal' = FALSE
  /\ UNCHANGED <<object, process, msg, taskport>>

StoptaskAgain ==
  /\ Drained("again")
  /\ stack' = Call([Top EXCEPT !.at = "procured"], Tail(stack))
  /\ UNCHANGED <<object, process, msg, ports, semas>>

\* The end of Dodisposetask: the object is freed.
Freetask ==
  /\ Drained("last")
  /\ state' = [state EXCEPT ![Top.task] = "FREE"]
  /\ flags' = [flags EXCEPT ![Top.task] = {}]
  /\ target' = [target EXCEPT ![Top.task] = FALSE]
  /\ ctrlc' = [ctrlc EXCEPT ![Top.task] = FALSE]
  /\ updport' = [updport EXCEPT ![Top.task] = FALSE]
  /\ stack' = Tail(stack)
  /\ UNCHANGED <<sub, subport, hold, replied, msg, ports, semas>>

-----------------------------------------------------------------------------
(* The main task: what objects do, from the event loop or in a handler.    *)

InHandler == In({"update"})
MainRuns == stack = << >> \/ InHandler

\* The end of Processreply after the handler.  The object disposes its task
\* no later than in the handler of the last update.
HandlerReturns ==
  /\ InHandler
  /\ LET m == Top.msg
         t == Sender(m)
     IN  /\ Is(m, {"last"}) => "DISPOSING" \in flags[t]
         /\ Giveback(m)
         /\ Replydone(t, flags[t] \ {"PROCESSING"}, Tail(stack))
  /\ UNCHANGED <<state, target, updport, sub, subport, hold, ports, semas>>

Newtask(t) ==
  /\ MainRuns
  /\ state[t] = "FREE"
  /\ state' = [state EXCEPT ![t] = "NEW"]
  /\ target' = [target EXCEPT ![t] = TRUE]
  /\ UNCHANGED <<flags, process, msg, ports, semas, stack>>

CanStart(t) ==
  MainRuns /\ state[t] = "NEW" /\ "DISPOSING" \notin flags[t]

\* The process is made; Waitformsg for its startup message.
Starttask(t) ==
  /\ CanStart(t)
  /\ sub' = [sub EXCEPT ![t] = "created"]
  /\ msg' = [msg EXCEPT ![<<t, "startup">>] = [kind |-> "startup", task |-> t]]
  /\ stack' = Call([at |-> "wait", msg |-> <<t, "startup">>], stack)
  /\ UNCHANGED <<object, updport, ctrlc, subport, hold, replied, ports, semas>>

StarttaskFails(t) ==
  /\ CanStart(t)
  /\ state' = [state EXCEPT ![t] = "DEAD"]
  /\ UNCHANGED <<flags, target, process, msg, ports, semas, stack>>

\* Stoptask with AOTSK_Async, by the objects that wait for the last update.
StoptaskAsync(t) ==
  /\ MainRuns
  /\ t \notin Hot
  /\ state[t] = "RUN" /\ ~ctrlc[t]
  /\ ctrlc' = [ctrlc EXCEPT ![t] = TRUE]
  /\ UNCHANGED <<object, updport, sub, subport, hold, replied, msg, ports,
                 semas, stack>>

\* Who disposes a task: the event loop, the handler of the task's own last
\* update, and handlers of other tasks' updates when they were called from
\* the event loop (a document that arrives replaces another, with its images;
\* no update closes a hotlist window).
MayDispose(t) ==
  \/ stack = << >>
  \/ InHandler /\ Is(Top.msg, {"last"}) /\ Sender(Top.msg) = t
  \/ /\ InHandler /\ Sender(Top.msg) # t /\ stack[2].at = "loop"
     /\ t \notin Hot \cup Restoring

\* Slip: TSKF_PROCESSING is not looked at.
BusyNever(t) == FALSE
Busy(t) == "PROCESSING" \in flags[t]

Disposetask(t) ==
  /\ MayDispose(t)
  /\ state[t] # "FREE"
  /\ "DISPOSING" \notin flags[t]
  /\ IF Busy(t)
       THEN /\ flags' = [flags EXCEPT ![t] = @ \cup {"DISPOSING", "MUSTDISPOSE"}]
            /\ target' = [target EXCEPT ![t] = FALSE]
            /\ UNCHANGED <<ctrlc, stack>>
       ELSE /\ flags' = [flags EXCEPT ![t] = @ \cup {"DISPOSING"}]
            /\ ctrlc' = Signalled(t)
            /\ stack' = Call(Stopping(t), stack)
            /\ UNCHANGED target
  /\ UNCHANGED <<state, updport, sub, subport, hold, replied, msg, ports,
                 semas>>

\* Put a new message at the subtask's port.
Post(m, k, t) ==
  /\ state[t] = "RUN"
  /\ Unused(m)
  /\ msg' = [msg EXCEPT ![m] = [kind |-> k, task |-> t]]
  /\ subport' = [subport EXCEPT ![t] = Append(@, m)]

\* Asetattrsasync.  For a dead subtask the message is dropped: no step.
AsetattrsasyncA(m, t) ==
  /\ MainRuns
  /\ Post(m, "set", t)
  /\ UNCHANGED <<object, updport, sub, ctrlc, hold, replied, ports, semas,
                 stack>>

\* Asetattrssync: Messagetask and Waitformsg.  For a dead subtask the message
\* is replied at once: no step.  Hotlist windows get them from the event loop,
\* and from the handler of the manager's asynchronous AOHOT_Restore.
AsetattrssyncA(m, t) ==
  /\ t \in Hot
  /\ stack = << >> \/ (InHandler /\ Is(Top.msg, {"async"})
                                 /\ Sender(Top.msg) \in Restoring)
  /\ Post(m, "send", t)
  /\ stack' = Call([at |-> "wait", msg |-> m], stack)
  /\ UNCHANGED <<object, updport, sub, ctrlc, hold, replied, ports, semas>>

-----------------------------------------------------------------------------
(* The subtask.                                                            *)

\* Subtask up to the call of its entry function; `upd': updport was made.
Subtask(t, upd) ==
  /\ sub[t] = "created"
  /\ sub' = [sub EXCEPT ![t] = "run"]
  /\ state' = [state EXCEPT ![t] = "RUN"]
  /\ updport' = [updport EXCEPT ![t] = upd]
  /\ Putmsg(<<t, "startup">>)
  /\ UNCHANGED <<flags, target, ctrlc, subport, hold, replied, msg, semas,
                 stack>>

\* The subtask cannot make its port: the startup message is replied all the
\* same.
SubtaskFails(t) ==
  /\ sub[t] = "created"
  /\ sub' = [sub EXCEPT ![t] = "failed"]
  /\ state' = [state EXCEPT ![t] = "DEAD"]
  /\ Putmsg(<<t, "startup">>)
  /\ UNCHANGED <<flags, target, updport, ctrlc, subport, hold, replied, msg,
                 semas, stack>>

\* Gettaskmsg, when it returns a message of the port.  After Ctrl-C it only
\* returns stop messages that it makes itself, which changes nothing here.
Gettaskmsg(t) ==
  /\ sub[t] = "run" /\ hold[t] = Nobody /\ subport[t] # << >>
  /\ ~ctrlc[t]
  /\ hold' = [hold EXCEPT ![t] = Head(subport[t])]
  /\ subport' = [subport EXCEPT ![t] = Tail(@)]
  /\ UNCHANGED <<object, updport, sub, ctrlc, replied, msg, ports, semas,
                 stack>>

\* Replytaskmsg.  Slip: also when there was no message.
HoldsAnything(t) == sub[t] = "run"
Holds(t) == sub[t] = "run" /\ hold[t] # Nobody

Replytaskmsg(t) ==
  /\ Holds(t)
  /\ Putmsg(hold[t])
  /\ hold' = [hold EXCEPT ![t] = Nobody]
  /\ UNCHANGED <<object, updport, sub, ctrlc, subport, replied, msg, semas,
                 stack>>

\* Updatetask and Updatetaskattrs: send an update, without an updport do
\* nothing.
Update(m, t, k) ==
  /\ sub[t] = "run" /\ updport[t]
  /\ msg[m] = NoMsg
  /\ msg' = [msg EXCEPT ![m] = [kind |-> k, task |-> t]]
  /\ Putmsg(m)
  /\ UNCHANGED <<object, updport, ctrlc, subport, hold, replied, semas, stack>>

UpdateAsync(m, t) ==
  m \in Msgs /\ Update(m, t, "async") /\ UNCHANGED sub

\* Without AOTSK_Async the subtask waits for the reply.
UpdateSync(t) ==
  /\ Update(<<t, "update">>, t, "update")
  /\ sub' = [sub EXCEPT ![t] = "update"]

\* The update has come back to updport.
Updated(t) ==
  /\ sub[t] = "update" /\ replied[t]
  /\ sub' = [sub EXCEPT ![t] = "run"]
  /\ msg' = [msg EXCEPT ![<<t, "update">>] = NoMsg]
  /\ replied' = [replied EXCEPT ![t] = FALSE]
  /\ UNCHANGED <<object, updport, ctrlc, subport, hold, ports, semas, stack>>

\* The entry function ends: it was stopped, or its work is done.  The last
\* thing it does is to say so, if it has an updport.
EntryEnds(t) ==
  /\ sub[t] = "run" /\ hold[t] = Nobody
  /\ ctrlc[t] \/ t \in Closing
  /\ sub' = [sub EXCEPT ![t] = "last"]
  /\ IF updport[t]
       THEN /\ msg' = [msg EXCEPT ![<<t, "last">>] = [kind |-> "last", task |-> t]]
            /\ Putmsg(<<t, "last">>)
       ELSE UNCHANGED <<msg, ports>>
  /\ UNCHANGED <<object, updport, ctrlc, subport, hold, replied, semas, stack>>

\* What is left at subport is replied.  Slip: it is lost with the port.
ReplyNone(t) == UNCHANGED ports
ReplyAll(t) ==
  /\ taskport' = taskport \o subport[t]
  /\ signal' = (signal \/ subport[t] # << >>)

\* Subtask after the entry function.
SubtaskEnds(t) ==
  /\ sub[t] = "last"
  /\ ReplyAll(t)
  /\ subport' = [subport EXCEPT ![t] = << >>]
  /\ state' = [state EXCEPT ![t] = "DEAD"]
  /\ sub' = [sub EXCEPT ![t] = "ending"]
  /\ UNCHANGED <<flags, target, updport, ctrlc, hold, replied, msg, semas,
                 stack>>

\* Stoptask waits for the runsema of this task.
Procured(t) ==
  \E i \in DOMAIN stack : /\ stack[i].at \in {"procured", "again"}
                          /\ stack[i].task = t

\* The subtask releases runsema and is gone.
ReleaseRunsema(t) ==
  /\ sub[t] \in {"ending", "failed"}
  /\ sub' = [sub EXCEPT ![t] = "none"]
  /\ IF Procured(t)
       THEN semaport' = Append(semaport, t) /\ semasignal' = TRUE
       ELSE UNCHANGED semas
  /\ UNCHANGED <<object, updport, ctrlc, subport, hold, replied, msg, ports,
                 stack>>

-----------------------------------------------------------------------------
Main == \/ Processtask \/ Resignal
        \/ WaitformsgOther \/ WaitformsgDone
        \/ WaitformsgSleep \/ WaitformsgWake
        \/ Processtaskreply \/ Procure \/ StoptaskWake \/ StoptaskAgain
        \/ Freetask

Object(t) == \/ Newtask(t) \/ Starttask(t) \/ StarttaskFails(t)
             \/ StoptaskAsync(t) \/ Disposetask(t)
             \/ \E m \in Msgs : AsetattrsasyncA(m, t) \/ AsetattrssyncA(m, t)

\* What a scheduled subtask does without the entry function.
Wrapper(t) == \/ \E upd \in BOOLEAN : Subtask(t, upd)
              \/ SubtaskFails(t)
              \/ Updated(t) \/ SubtaskEnds(t) \/ ReleaseRunsema(t)

Process(t) == \/ Wrapper(t)
              \/ Gettaskmsg(t) \/ Replytaskmsg(t)
              \/ UpdateSync(t) \/ \E m \in Msgs : UpdateAsync(m, t)
              \/ EntryEnds(t)

Next == Main \/ HandlerReturns \/ \E t \in Tasks : Object(t) \/ Process(t)

Spec == Init /\ [][Next]_vars

-----------------------------------------------------------------------------
(* Properties.                                                             *)

\* The main task never sleeps on a message it should handle.  In the event
\* loop, a message at taskport has its signal set; in the waits, a message of
\* the task that is waited for has.  Every wait nested in a handler consumed
\* the bit for all tasks and has to give it back.
Sleeping(t) ==
  \/ In({"sleep"}) /\ Of(Top.msg, t)
  \/ In({"procured"}) /\ Top.task = t

NoLostWakeup ==
  /\ stack = << >> /\ taskport # << >> => signal
  /\ \A t \in Tasks : Sleeping(t) /\ HasMsgOf(t) => signal

\* Nor on a grant: when Stoptask waits and a runsema is granted, semaport's
\* signal is set, which every pass of its loop clears.
NoLostGrant == In({"procured"}) /\ semaport # << >> => semasignal

\* Every message structure in use is in exactly one place: at a port, held by
\* the subtask, or in the handler that processes it.  None is leaked, freed
\* while somebody has it, or replied twice, whatever ends in between.
Count(q, m) == Cardinality({i \in DOMAIN q : q[i] = m})
HandlersOf(m) ==
  Cardinality({i \in DOMAIN stack : stack[i].at = "update" /\ stack[i].msg = m})
PlacesOf(m) ==
  Count(taskport, m) + HandlersOf(m)
  + Cardinality({t \in Tasks : hold[t] = m})
  + Cardinality({t \in Tasks : m = <<t, "update">> /\ replied[t]})
  + Cardinality({t \in Tasks : m \in ToSet(subport[t])})
  + Cardinality({t \in Tasks : m = <<t, "startup">> /\ sub[t] = "created"})

OnePlace == \A m \in AllMsgs : PlacesOf(m) = IF msg[m] = NoMsg THEN 0 ELSE 1

\* When a task object is freed its process is gone, and no message and no
\* call of the main task refers to it any more.
Forgotten(t) ==
  state[t] = "FREE" =>
    /\ sub[t] = "none"
    /\ \A m \in AllMsgs : ~Of(m, t)
    /\ \A i \in DOMAIN stack : "task" \in DOMAIN stack[i] => stack[i].task # t

FreedIsForgotten == \A t \in Tasks : Forgotten(t)

\* Stoptask never waits for a subtask from inside a handler of one of its own
\* updates: the subtask could be waiting for that very update.  It is what
\* TSKF_PROCESSING and TSKF_MUSTDISPOSE put the disposal off for.
StoppedOutside(t) ==
  \A i, j \in DOMAIN stack :
    i < j /\ "task" \in DOMAIN stack[i] /\ stack[i].task = t
          /\ stack[j].at = "update"
      => ~Of(stack[j].msg, t)

NotStoppedInHandler == \A t \in Tasks : StoppedOutside(t)

\* Waitformsg waits for a message that will come: `While waiting, other
\* messages from the same task are processed to avoid deadlocks.'
AwaitedWillCome ==
  \A i \in DOMAIN stack : stack[i].at \in {"wait", "sleep"}
                            => msg[stack[i].msg] # NoMsg

-----------------------------------------------------------------------------
(* Liveness.  The main task goes on; its handlers return, the one of a last *)
(* update after its object has disposed the task; every pass of the event   *)
(* loop looks at the signal of taskport.  A subtask is scheduled, replies   *)
(* the message it has and, when stopped, ends: its entry function "must     *)
(* call Gettaskmsg() regularly" and must then return.  It may send updates  *)
(* in between, hence strong fairness.  One that is not stopped need not end. *)

Fairness ==
  /\ WF_vars(Main) /\ SF_vars(Processtask)
  /\ \A t \in Tasks :
       /\ SF_vars((HandlerReturns \/ Disposetask(t)) /\ InHandler
                                        /\ Sender(Top.msg) = t)
       /\ SF_vars(\/ Gettaskmsg(t) \/ Replytaskmsg(t)
                  \/ ctrlc[t] /\ EntryEnds(t))
       /\ WF_vars(Wrapper(t))

FairSpec == Spec /\ Fairness

\* A subtask that waits for its update to come back goes on, whatever waits
\* the main task is in: it may itself be waiting for this subtask.
UpdateReturns == \A t \in Tasks : sub[t] = "update" ~> sub[t] # "update"

\* The disposal of a task ends, also when it is put off by a handler.
DisposalEnds ==
  \A t \in Tasks : "DISPOSING" \in flags[t] ~> state[t] = "FREE"

\* The main task always gets back to its event loop, where the user is.
MainReturns == stack # << >> ~> stack = << >>

=============================================================================
