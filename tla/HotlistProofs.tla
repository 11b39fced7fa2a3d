--------------------------- MODULE HotlistProofs ----------------------------
(***************************************************************************)
(* The hotlist is saved and its windows catch up, proved for any number of *)
(* messages under way and any depth of nested waits.                       *)
(*                                                                         *)
(* Both rest on the protocol between the main task and a window: at most   *)
(* one synchronous update of the window is under way and the window waits  *)
(* for its reply; AOHOT_Close is the window's last update, and the main    *)
(* task does nothing else from then on until it has ended; the steps of    *)
(* Deinstallhotwindow come to the end of each window before the save; and  *)
(* each change of the list in `job' is followed by the news for each       *)
(* window.                                                                 *)
(***************************************************************************)
EXTENDS Hotlist, QueueLemmas

Msgs == Updates \cup Answers
Synchronous == {"follow", "manager", "save", "dims"}
IsRequest(m, w) == m.from = w /\ m.is \in Synchronous

\* Where the subtask is while such an update is under way.
Waits == {"asking", "saving", "closing"}

OneRequest(w) ==
  /\ \A i, j \in 1 .. Len(port) :
       IsRequest(port[i], w) /\ IsRequest(port[j], w) => i = j
  /\ \A i, j \in 1 .. Len(job) :
       job[i] = On("reply", w) /\ job[j] = On("reply", w) => i = j
  /\ \A i \in 1 .. Len(port), j \in 1 .. Len(job) :
       ~(IsRequest(port[i], w) /\ job[j] = On("reply", w))
  /\ \A i \in 1 .. Len(port) : IsRequest(port[i], w) => sub[w] \in Waits
  /\ \A j \in 1 .. Len(job) : job[j] = On("reply", w) => sub[w] \in Waits

Gone(w) == sub[w] = "none"
Silent(w) == \A i \in 1 .. Len(port) : port[i].from = w => port[i].is = "answer"

Ends(w) ==
  /\ Gone(w) => ~task[w] /\ \A i \in 1 .. Len(port) : port[i].from # w
  /\ ~task[w] => Silent(w) /\ sub[w] \in {"none", "leaving", "ended"}
  /\ ~task[w] /\ ~Gone(w) => job # << >> /\ Head(job) = On("drain", w)
  /\ \A i \in 1 .. Len(port) : port[i].from = w /\ port[i].is = "close" =>
       /\ sub[w] \in {"leaving", "ended"}
       /\ \A j \in 1 .. Len(port) :
            i < j /\ port[j].from = w => port[j].is = "answer"

\* Only the viewer has a button that opens the manager.
FromViewer ==
  \A i \in 1 .. Len(port) : port[i].is = "manager" => port[i].from = "viewer"

\* How far Deinstallhotwindow is.  The main task's handlers put steps before
\* its steps, but none that opens a window once the viewer is gone.
StopsBoth == /\ Len(job) = 3
             /\ job[1] = On("stop", "viewer") /\ job[2] = On("stop", "manager")
DrainsViewer == /\ Len(job) >= 3 /\ job[Len(job) - 2] = On("drain", "viewer")
                /\ job[Len(job) - 1] = On("stop", "manager")
StopsManager == Len(job) = 2 /\ job[1] = On("stop", "manager") /\ Gone("viewer")
DrainsManager == /\ Len(job) >= 2 /\ job[Len(job) - 1] = On("drain", "manager")
                 /\ Gone("viewer")
                 /\ \A i \in 1 .. Len(job) : job[i].do # "open"
BothGone == Gone("viewer") /\ Gone("manager")

LastStep ==
  /\ \A i \in 1 .. Len(job) : job[i].do = "lastsave" => i = Len(job)
  /\ Len(job) > 0 /\ job[Len(job)].do = "lastsave" =>
       \/ StopsBoth \/ DrainsViewer \/ StopsManager \/ DrainsManager
       \/ Len(job) = 1 /\ BothGone
  /\ ~up => job = << >> /\ BothGone

\* A change of the list is followed by the news for each window.
News == {"addentry", "newlist"}
Changes == {"add", "reread", "replace"}
Announces(q) ==
  /\ \A i \in 1 .. Len(q) : q[i].do = "put" => q[i].is \in News
  /\ \A i \in 1 .. Len(q), w \in Windows : q[i].do \in Changes =>
       \E j \in 1 .. Len(q) : i < j /\ q[j].do = "put" /\ q[j].w = w

Protocol == /\ \A w \in Windows : OneRequest(w) /\ Ends(w)
            /\ FromViewer /\ LastStep /\ Announces(job)

\* CatchesUp, also of a window that waits for its save.
Shows(w) == sub[w] \in {"loop", "events", "asking", "asked", "saving", "saved"}
WillShow ==
  \A w \in Windows : nodes[w] = {"old"} /\ Shows(w) => Told(w) \/ brk[w]

IInv == TypeOK /\ Protocol /\ NothingUnsaved /\ WillShow

-----------------------------------------------------------------------------
(* Messages and steps.                                                     *)

LEMMA MsgFields ==
  ASSUME NEW m \in Msgs
  PROVE  /\ m.from \in Windows
         /\ m.is \in Async \cup Synchronous \cup {"answer"}
  BY SMT DEF Msgs, Updates, Answers, Async, Synchronous

LEMMA MsgForms ==
  ASSUME NEW w \in Windows
  PROVE  /\ \A is \in Async \cup Synchronous : [from |-> w, is |-> is] \in Msgs
         /\ \A id \in Nat : [from |-> w, is |-> "answer", id |-> id] \in Msgs
<1>1. ASSUME NEW is \in Async \cup Synchronous PROVE [from |-> w, is |-> is] \in Msgs
  <2>1. is \in Async \cup {"follow", "manager", "save", "dims"}
    BY Zenon DEF Synchronous
  <2>2. [from |-> w, is |-> is] \in Updates
    BY <2>1, Zenon DEF Updates
  <2> QED
    BY <2>2, Zenon DEF Msgs
<1>2. ASSUME NEW id \in Nat
      PROVE  [from |-> w, is |-> "answer", id |-> id] \in Msgs
  <2>1. [from |-> w, is |-> "answer", id |-> id] \in Answers
    BY SMT DEF Answers
  <2> QED
    BY <2>1, Zenon DEF Msgs
<1> QED
  BY <1>1, <1>2, Zenon

LEMMA StepForms ==
  /\ \A do \in {"add", "save", "reread", "replace", "lastsave"} : Do(do) \in Steps
  /\ \A do \in {"open", "stop", "drain", "reply"}, w \in Windows :
       On(do, w) \in Steps
  /\ \A do \in {"put", "tell"}, w \in Windows,
        is \in {"addentry", "dispose", "newlist"} : Send(do, w, is) \in Steps
  /\ \A w \in Windows, id \in Nat : [do |-> "await", w |-> w, id |-> id] \in Steps
<1>1. ASSUME NEW do \in {"add", "save", "reread", "replace", "lastsave"}
      PROVE  Do(do) \in Steps
  <2>1. [do |-> do] \in [do : {"add", "save", "reread", "replace", "lastsave"}]
    BY SMT
  <2> QED
    BY <2>1, Zenon DEF Steps, Do
<1>2. ASSUME NEW do \in {"open", "stop", "drain", "reply"}, NEW w \in Windows
      PROVE  On(do, w) \in Steps
  <2>1. [do |-> do, w |-> w]
          \in [do : {"open", "stop", "drain", "reply"}, w : Windows]
    BY SMT
  <2> QED
    BY <2>1, Zenon DEF Steps, On
<1>3. ASSUME NEW do \in {"put", "tell"}, NEW w \in Windows,
             NEW is \in {"addentry", "dispose", "newlist"}
      PROVE  Send(do, w, is) \in Steps
  <2>1. [do |-> do, w |-> w, is |-> is]
          \in [do : {"put", "tell"}, w : Windows,
               is : {"addentry", "dispose", "newlist"}]
    BY SMT
  <2> QED
    BY <2>1, Zenon DEF Steps, Send
<1>4. ASSUME NEW w \in Windows, NEW id \in Nat
      PROVE  [do |-> "await", w |-> w, id |-> id] \in Steps
  <2>1. [do |-> "await", w |-> w, id |-> id]
          \in [do : {"await"}, w : Windows, id : Nat]
    BY SMT
  <2> QED
    BY <2>1, Zenon DEF Steps
<1> QED
  BY <1>1, <1>2, <1>3, <1>4, Zenon

\* What the fields of a step can be.
LEMMA StepFields ==
  ASSUME NEW s \in Steps
  PROVE  /\ s.do \in {"open", "stop", "drain", "reply", "put", "tell", "await"}
              => s.w \in Windows
         /\ s.do \in {"open", "stop", "drain", "reply"} => s = On(s.do, s.w)
         /\ s.do \in {"put", "tell"} => s.is \in {"addentry", "dispose", "newlist"}
         /\ s.do = "await" => s.id \in Nat
<1>1. CASE s \in [do : {"add", "save", "reread", "replace", "lastsave"}]
  BY <1>1, SMT
<1>2. CASE s \in [do : {"open", "stop", "drain", "reply"}, w : Windows]
  <2>1. s = [do |-> s.do, w |-> s.w] /\ s.w \in Windows
    BY <1>2, Zenon
  <2> QED
    BY <1>2, <2>1, SMT DEF On
<1>3. CASE s \in [do : {"put", "tell"}, w : Windows,
                  is : {"addentry", "dispose", "newlist"}]
  BY <1>3, SMT
<1>4. CASE s \in [do : {"await"}, w : Windows, id : Nat]
  BY <1>4, SMT
<1> QED
  BY <1>1, <1>2, <1>3, <1>4, Zenon DEF Steps

LEMMA StepDo ==
  ASSUME NEW do, NEW w, NEW is
  PROVE  /\ Do(do).do = do
         /\ On(do, w).do = do /\ On(do, w).w = w
         /\ Send(do, w, is).do = do /\ Send(do, w, is).w = w
         /\ Send(do, w, is).is = is
  BY Zenon DEF Do, On, Send

-----------------------------------------------------------------------------
(* Windows: what a subtask does to the protocol, when it sends nothing, an *)
(* update or some answers.                                                 *)

Moves(w, news, s) ==
  /\ port' = port \o news /\ sub' = [sub EXCEPT ![w] = s]
  /\ UNCHANGED <<job, task, up>>

May(w, news, s) ==
  /\ ~Gone(w) /\ s # "none"
  /\ \A i \in 1 .. Len(news) : news[i].from = w
  /\ \A i \in 1 .. Len(news) : news[i].is # "answer" =>
       Len(news) = 1 /\ sub[w] \notin {"leaving", "ended"}
  /\ \A i \in 1 .. Len(news) :
       news[i].is \in Synchronous => sub[w] \notin Waits /\ s \in Waits
  /\ sub[w] \in Waits => s \in Waits
  /\ sub[w] \in {"leaving", "ended"} => s \in {"leaving", "ended"}
  /\ \A i \in 1 .. Len(news) : news[i].is = "close" => s = "leaving"
  /\ \A i \in 1 .. Len(news) : news[i].is = "manager" => w = "viewer"

\* Where the messages of the new port are from.
LEMMA Sent ==
  ASSUME port \in Seq(Msgs), NEW news \in Seq(Msgs), port' = port \o news
  PROVE  /\ port' \in Seq(Msgs)
         /\ Len(port) \in Nat /\ Len(news) \in Nat
         /\ Len(port') = Len(port) + Len(news)
         /\ \A i \in 1 .. Len(port') :
              \/ i \in 1 .. Len(port) /\ port'[i] = port[i]
              \/ /\ i > Len(port) /\ i - Len(port) \in 1 .. Len(news)
                 /\ port'[i] = news[i - Len(port)]
         /\ \A i \in 1 .. Len(port) : i \in 1 .. Len(port') /\ port'[i] = port[i]
<1>1. /\ port' \in Seq(Msgs) /\ Len(port') = Len(port) + Len(news)
      /\ \A i \in 1 .. Len(port) + Len(news) : port'[i] =
           IF i <= Len(port) THEN port[i] ELSE news[i - Len(port)]
  BY ConcatProperties, Zenon
<1>2. Len(port) \in Nat /\ Len(news) \in Nat
  BY SMT
<1> QED
  BY <1>1, <1>2, SMT

LEMMA WindowMoves ==
  ASSUME TypeOK, Protocol, NEW w \in Windows, NEW s, NEW news \in Seq(Msgs),
         Moves(w, news, s), May(w, news, s)
  PROVE  Protocol'
<1>1. /\ port' \in Seq(Msgs)
      /\ Len(port) \in Nat /\ Len(news) \in Nat
      /\ Len(port') = Len(port) + Len(news)
      /\ \A i \in 1 .. Len(port') :
           \/ i \in 1 .. Len(port) /\ port'[i] = port[i]
           \/ /\ i > Len(port) /\ i - Len(port) \in 1 .. Len(news)
              /\ port'[i] = news[i - Len(port)]
      /\ \A i \in 1 .. Len(port) : i \in 1 .. Len(port') /\ port'[i] = port[i]
  <2>1. port \in Seq(Msgs) /\ port' = port \o news
    BY Zenon DEF TypeOK, Msgs, Moves
  <2> QED
    BY <2>1, Sent
<1>2. /\ job' = job /\ task' = task /\ up' = up
      /\ \A v \in Windows : sub'[v] = IF v = w THEN s ELSE sub[v]
  <2>1. sub \in [Windows -> {"none", "build", "loop", "events", "asking",
                             "asked", "saving", "saved", "closing", "closed",
                             "leaving", "ended"}]
    BY Zenon DEF TypeOK
  <2> QED
    BY <2>1, Zenon DEF Moves
<1>3. \A v \in Windows : Gone(v)' <=> Gone(v)
  BY <1>2, Zenon DEF May, Gone
<1>4. \A i \in 1 .. Len(news) :
        /\ news[i].from = w
        /\ news[i].is # "answer" => i = 1 /\ Len(news) = 1
  BY <1>1, SMT DEF May
\* A message that is new in the port.
<1>10. ASSUME NEW i \in 1 .. Len(port'), ~(i \in 1 .. Len(port))
       PROVE  /\ port'[i].from = w
              /\ port'[i].is \in Synchronous => sub[w] \notin Waits /\ s \in Waits
              /\ port'[i].is = "close" => s = "leaving"
  <2>1. i - Len(port) \in 1 .. Len(news) /\ port'[i] = news[i - Len(port)]
    BY <1>1, <1>10
  <2>2. /\ \A n \in 1 .. Len(news) : news[n].from = w
        /\ \A n \in 1 .. Len(news) :
             news[n].is \in Synchronous => sub[w] \notin Waits /\ s \in Waits
        /\ \A n \in 1 .. Len(news) : news[n].is = "close" => s = "leaving"
    BY Zenon DEF May
  <2> QED
    BY <2>1, <2>2, Zenon
<1>5. ASSUME NEW v \in Windows PROVE OneRequest(v)'
  <2>0. OneRequest(v)
    BY Zenon DEF Protocol
  <2>1. ASSUME NEW i \in 1 .. Len(port'), NEW j \in 1 .. Len(port'),
               IsRequest(port'[i], v), IsRequest(port'[j], v)
        PROVE  i = j
    <3>1. CASE i \in 1 .. Len(port) /\ j \in 1 .. Len(port)
      BY <1>1, <2>0, <2>1, <3>1, Zenon DEF OneRequest
    <3>2. CASE ~(i \in 1 .. Len(port)) /\ ~(j \in 1 .. Len(port))
      <4>1. i - Len(port) = 1 /\ j - Len(port) = 1
        BY <1>1, <1>4, <2>1, <3>2, SMT DEF IsRequest, Synchronous
      <4> QED
        BY <1>1, <4>1, SMT
    <3>3. CASE i \in 1 .. Len(port) /\ ~(j \in 1 .. Len(port))
      <4>1. v = w /\ sub[w] \notin Waits
        BY <1>10, <2>1, <3>3, Zenon DEF IsRequest
      <4> QED
        BY <1>1, <2>0, <2>1, <3>3, <4>1, Zenon DEF OneRequest
    <3>4. CASE ~(i \in 1 .. Len(port)) /\ j \in 1 .. Len(port)
      <4>1. v = w /\ sub[w] \notin Waits
        BY <1>10, <2>1, <3>4, Zenon DEF IsRequest
      <4> QED
        BY <1>1, <2>0, <2>1, <3>4, <4>1, Zenon DEF OneRequest
    <3> QED
      BY <3>1, <3>2, <3>3, <3>4, Zenon
  <2>2. ASSUME NEW i \in 1 .. Len(port'), IsRequest(port'[i], v)
        PROVE  /\ sub'[v] \in Waits
               /\ \A j \in 1 .. Len(job) : job[j] # On("reply", v)
    <3>1. CASE i \in 1 .. Len(port)
      BY <1>1, <1>2, <2>0, <2>2, <3>1, Zenon DEF OneRequest, May
    <3>2. CASE ~(i \in 1 .. Len(port))
      <4>1. v = w /\ sub[w] \notin Waits /\ s \in Waits
        BY <1>10, <2>2, <3>2, Zenon DEF IsRequest
      <4> QED
        BY <1>2, <2>0, <4>1, Zenon DEF OneRequest
    <3> QED
      BY <3>1, <3>2, Zenon
  <2>3. \A j \in 1 .. Len(job) : job[j] = On("reply", v) => sub'[v] \in Waits
    BY <1>2, <2>0, Zenon DEF OneRequest, May
  <2> QED
    BY <1>2, <2>0, <2>1, <2>2, <2>3, Zenon DEF OneRequest
<1>6. ASSUME NEW v \in Windows PROVE Ends(v)'
  <2>0. Ends(v)
    BY Zenon DEF Protocol
  <2>1. ASSUME Gone(v)', NEW i \in 1 .. Len(port') PROVE port'[i].from # v
    <3>1. Gone(v) /\ v # w
      BY <1>3, <2>1, Zenon DEF May
    <3> QED
      BY <1>1, <1>4, <2>0, <3>1, Zenon DEF Ends
  <2>2. ASSUME ~task[v]
        PROVE  Silent(v)' /\ sub'[v] \in {"none", "leaving", "ended"}
    <3>1. Silent(v) /\ sub[v] \in {"none", "leaving", "ended"}
      BY <2>0, <2>2, Zenon DEF Ends
    <3>2. sub'[v] \in {"none", "leaving", "ended"}
      BY <1>2, <3>1, Zenon DEF May, Gone
    <3>3. ASSUME NEW i \in 1 .. Len(port'), port'[i].from = v
          PROVE  port'[i].is = "answer"
      <4>1. CASE i \in 1 .. Len(port)
        BY <1>1, <3>1, <3>3, <4>1, Zenon DEF Silent
      <4>2. CASE ~(i \in 1 .. Len(port))
        <5>1. v = w /\ sub[w] \in {"leaving", "ended"}
          BY <1>1, <1>4, <3>1, <3>3, <4>2, Zenon DEF May, Gone
        <5> QED
          BY <1>1, <4>2, <5>1, Zenon DEF May
      <4> QED
        BY <4>1, <4>2, Zenon
    <3> QED
      BY <3>2, <3>3, Zenon DEF Silent
  <2>3. ASSUME NEW i \in 1 .. Len(port'), port'[i].from = v, port'[i].is = "close"
        PROVE  /\ sub'[v] \in {"leaving", "ended"}
               /\ \A j \in 1 .. Len(port') :
                    i < j /\ port'[j].from = v => port'[j].is = "answer"
    <3>1. CASE i \in 1 .. Len(port)
      <4>1. /\ sub[v] \in {"leaving", "ended"}
            /\ \A j \in 1 .. Len(port) :
                 i < j /\ port[j].from = v => port[j].is = "answer"
        BY <1>1, <2>0, <2>3, <3>1, Zenon DEF Ends
      <4>2. sub'[v] \in {"leaving", "ended"}
        BY <1>2, <4>1, Zenon DEF May
      <4>3. ASSUME NEW j \in 1 .. Len(port'), i < j, port'[j].from = v
            PROVE  port'[j].is = "answer"
        <5>1. CASE j \in 1 .. Len(port)
          BY <1>1, <4>1, <4>3, <5>1, Zenon
        <5>2. CASE ~(j \in 1 .. Len(port))
          <6>1. port'[j] = news[j - Len(port)] /\ j - Len(port) \in 1 .. Len(news)
            BY <1>1, <5>2, Zenon
          <6>2. v = w
            BY <1>4, <4>3, <6>1, Zenon
          <6> QED
            BY <4>1, <6>1, <6>2, Zenon DEF May
        <5> QED
          BY <5>1, <5>2, Zenon
      <4> QED
        BY <4>2, <4>3, Zenon
    <3>2. CASE ~(i \in 1 .. Len(port))
      <4>1. v = w /\ s = "leaving" /\ i = Len(port')
        <5>1. v = w /\ s = "leaving"
          BY <1>10, <2>3, <3>2, Zenon
        <5>2. Len(news) = 1 /\ i > Len(port)
          <6>1. /\ port'[i] = news[i - Len(port)] /\ i - Len(port) \in 1 .. Len(news)
                /\ i > Len(port)
            BY <1>1, <3>2, Zenon
          <6>2. news[i - Len(port)].is # "answer"
            BY <2>3, <6>1, SMT
          <6> QED
            BY <1>4, <6>1, <6>2, Zenon
        <5> QED
          BY <1>1, <5>1, <5>2, SMT
      <4>2. sub'[v] = "leaving"
        BY <1>2, <4>1, Zenon
      <4>3. \A j \in 1 .. Len(port') : ~(i < j)
        BY <1>1, <4>1, SMT
      <4> QED
        BY <4>2, <4>3, Zenon
    <3> QED
      BY <3>1, <3>2, Zenon
  <2>4. ~task[v] /\ ~Gone(v)' => job # << >> /\ Head(job) = On("drain", v)
    BY <1>3, <2>0, Zenon DEF Ends
  <2>5. Gone(v)' => ~task[v]
    BY <1>3, <2>0, Zenon DEF Ends
  <2> QED
    BY <1>2, <2>1, <2>2, <2>3, <2>4, <2>5, Zenon DEF Ends
<1>7. FromViewer'
  <2>1. FromViewer
    BY Zenon DEF Protocol
  <2>2. ASSUME NEW i \in 1 .. Len(port'), port'[i].is = "manager"
        PROVE  port'[i].from = "viewer"
    <3>1. CASE i \in 1 .. Len(port)
      BY <1>1, <2>1, <2>2, <3>1, Zenon DEF FromViewer
    <3>2. CASE ~(i \in 1 .. Len(port))
      <4>1. port'[i] = news[i - Len(port)] /\ i - Len(port) \in 1 .. Len(news)
        BY <1>1, <3>2, Zenon
      <4> QED
        BY <1>4, <2>2, <4>1, Zenon DEF May
    <3> QED
      BY <3>1, <3>2, Zenon
  <2> QED
    BY <2>2, Zenon DEF FromViewer
<1>8. LastStep'
  <2>1. LastStep /\ "viewer" \in Windows /\ "manager" \in Windows
    BY Zenon DEF Protocol, Windows
  <2>2. (Gone("viewer")' <=> Gone("viewer")) /\ (Gone("manager")' <=> Gone("manager"))
    BY <1>3, <2>1, Zenon
  <2> QED
    BY <1>2, <2>1, <2>2, Zenon
       DEF LastStep, StopsBoth, DrainsViewer, StopsManager, DrainsManager, BothGone
<1>9. Announces(job)'
  <2>1. Announces(job)
    BY Zenon DEF Protocol
  <2> QED
    BY <1>2, <2>1
<1> QED
  BY <1>5, <1>6, <1>7, <1>8, <1>9, Zenon DEF Protocol

-----------------------------------------------------------------------------
(* The main task takes a message of a window.                              *)

Takes(k) ==
  /\ k \in 1 .. Len(port)
  /\ \A j \in 1 .. k - 1 : port[j].from # port[k].from
  /\ port' \in Seq(Msgs) /\ Len(port') = Len(port) - 1
  /\ \A j \in 1 .. Len(port) - 1 : port'[j] = IF j < k THEN port[j] ELSE port[j + 1]

LEMMA TakesFirstFrom ==
  ASSUME port \in Seq(Msgs), NEW w, Take(w)
  PROVE  /\ Takes(FirstFrom(w)) /\ port[FirstFrom(w)] \in Msgs
         /\ port[FirstFrom(w)].from = w
<1> DEFINE k == FirstFrom(w)
<1>1. From(w) \in SUBSET Nat /\ From(w) # {}
  BY SMT DEF From, Take
<1>2. k \in From(w) /\ \A j \in From(w) : k <= j
  <2>1. Min(From(w)) \in From(w) /\ \A n \in From(w) : Min(From(w)) <= n
    BY <1>1, MinOfNaturals
  <2> QED
    BY <2>1, Zenon DEF FirstFrom
<1> HIDE DEF k
<1>3. k \in 1 .. Len(port) /\ port[k].from = w /\ port[k] \in Msgs /\ Len(port) \in Nat
  BY <1>2, SMT DEF From
<1>4. \A j \in 1 .. k - 1 : port[j].from # w
  BY <1>2, <1>3, SMT DEF From
<1>5. port' = RemoveAt(port, k)
  BY Zenon DEF Take, k
<1>6. /\ port' \in Seq(Msgs) /\ Len(port') = Len(port) - 1
      /\ \A j \in 1 .. Len(port) - 1 : port'[j] = IF j < k THEN port[j] ELSE port[j + 1]
  BY <1>3, <1>5, RemoveAtElements
<1> QED
  BY <1>3, <1>4, <1>6, Zenon DEF Takes, k

LEMMA TakesHead ==
  ASSUME port \in Seq(Msgs), port # << >>, port' = Tail(port)
  PROVE  Takes(1) /\ port[1] = Head(port) /\ port[1] \in Msgs
<1>1. /\ port' \in Seq(Msgs) /\ Len(port') = Len(port) - 1
      /\ \A i \in 1 .. Len(port') : port'[i] = port[i + 1]
  BY HeadTailProperties
<1>2. Len(port) \in Nat /\ Len(port) # 0 /\ Head(port) = port[1]
  BY SMT
<1>3. 1 \in 1 .. Len(port) /\ port[1] \in Msgs
  BY <1>2, SMT
<1> QED
  BY <1>1, <1>2, <1>3, SMT DEF Takes

\* The other messages stay, in their order.
Before(k, j) == IF j < k THEN j ELSE j + 1
LEMMA Stays ==
  ASSUME port \in Seq(Msgs), NEW k, Takes(k)
  PROVE  /\ Len(port) \in Nat /\ k \in 1 .. Len(port)
         /\ \A j \in 1 .. Len(port') :
              /\ Before(k, j) \in 1 .. Len(port) /\ Before(k, j) # k
              /\ port'[j] = port[Before(k, j)]
         /\ \A i, j \in 1 .. Len(port') :
              /\ i < j => Before(k, i) < Before(k, j)
              /\ Before(k, i) = Before(k, j) => i = j
         /\ \A j \in 1 .. Len(port') :
              port'[j].from = port[k].from => k < Before(k, j)
         /\ \A i \in 1 .. Len(port) : i # k =>
              \E j \in 1 .. Len(port') : port'[j] = port[i]
<1>1. Len(port) \in Nat /\ k \in 1 .. Len(port) /\ k \in Nat
  BY SMT DEF Takes
<1>2. \A j \in 1 .. Len(port') :
        /\ Before(k, j) \in 1 .. Len(port) /\ Before(k, j) # k
        /\ port'[j] = port[Before(k, j)]
  BY <1>1, SMT DEF Takes, Before
<1>3. \A i, j \in 1 .. Len(port') :
        /\ i < j => Before(k, i) < Before(k, j)
        /\ Before(k, i) = Before(k, j) => i = j
  BY <1>1, SMT DEF Before
<1>4. ASSUME NEW j \in 1 .. Len(port'), port'[j].from = port[k].from
      PROVE  k < Before(k, j)
  <2>1. j < k => port'[j].from # port[k].from
    BY <1>1, SMT DEF Takes
  <2> QED
    BY <1>1, <1>4, <2>1, SMT DEF Before
<1>5. ASSUME NEW i \in 1 .. Len(port), i # k
      PROVE  \E j \in 1 .. Len(port') : port'[j] = port[i]
  <2>1. CASE i < k
    <3>1. i \in 1 .. Len(port')
      BY <1>1, <2>1, SMT DEF Takes
    <3>2. port'[i] = port[i]
      BY <1>1, <2>1, <3>1, SMT DEF Takes
    <3> QED
      BY <3>1, <3>2
  <2>2. CASE ~(i < k)
    <3>1. i - 1 \in 1 .. Len(port') /\ ~(i - 1 < k) /\ (i - 1) + 1 = i
      BY <1>1, <1>5, <2>2, SMT DEF Takes
    <3>2. port'[i - 1] = port[(i - 1) + 1]
      BY <1>1, <3>1, SMT DEF Takes
    <3> QED
      BY <3>1, <3>2
  <2> QED
    BY <2>1, <2>2
<1> QED
  BY <1>1, <1>2, <1>3, <1>4, <1>5, Zenon

\* What the main task is to do because of a message.
Reaction(m) == (IF task[m.from] THEN Handler(m) ELSE << >>)
               \o (IF m.is \in Async \cup {"answer"} THEN << >>
                   ELSE <<On("reply", m.from)>>)

LEMMA Tuples ==
  ASSUME NEW S
  PROVE  /\ << >> \in Seq(S) /\ << >> \o << >> = << >>
         /\ \A a \in S : /\ <<a>> \in Seq(S) /\ Len(<<a>>) = 1 /\ <<a>>[1] = a
                         /\ <<a>> \o << >> = <<a>> /\ << >> \o <<a>> = <<a>>
         /\ \A a, b \in S : <<a>> \o <<b>> = <<a, b>>
<1>1. << >> \in Seq(S) /\ << >> \o << >> = << >>
  BY SMT
<1>2. ASSUME NEW a \in S
      PROVE  /\ <<a>> \in Seq(S) /\ Len(<<a>>) = 1 /\ <<a>>[1] = a
             /\ <<a>> \o << >> = <<a>> /\ << >> \o <<a>> = <<a>>
  <2>1. <<a>> \in Seq(S) /\ Len(<<a>>) = 1 /\ <<a>>[1] = a
    BY SMT
  <2> QED
    BY <2>1, ConcatEmptySeq
<1>3. ASSUME NEW a \in S, NEW b \in S PROVE <<a>> \o <<b>> = <<a, b>>
  <2>1. <<a>> \in Seq(S) /\ <<b>> \in Seq(S) /\ <<a, b>> \in Seq(S)
        /\ Len(<<a>>) = 1 /\ Len(<<b>>) = 1 /\ Len(<<a, b>>) = 2
        /\ <<a>>[1] = a /\ <<b>>[1] = b /\ <<a, b>>[1] = a /\ <<a, b>>[2] = b
    BY SMT
  <2> DEFINE s == <<a>>
             t == <<b>>
             u == <<a, b>>
  <2> HIDE DEF s, t, u
  <2>2. /\ s \in Seq(S) /\ t \in Seq(S) /\ u \in Seq(S)
        /\ Len(s) = 1 /\ Len(t) = 1 /\ Len(u) = 2
        /\ s[1] = a /\ t[1] = b /\ u[1] = a /\ u[2] = b
    BY <2>1 DEF s, t, u
  <2>3. /\ s \o t \in Seq(S) /\ Len(s \o t) = Len(s) + Len(t)
        /\ \A i \in 1 .. Len(s) + Len(t) :
             (s \o t)[i] = IF i <= Len(s) THEN s[i] ELSE t[i - Len(s)]
    BY <2>2, ConcatProperties
  <2>4. Len(s \o t) = 2 /\ (s \o t)[1] = a /\ (s \o t)[2] = b
    BY <2>2, <2>3, SMT
  <2>5. s \o t = u
    BY <2>2, <2>3, <2>4, SeqEqual, SMT
  <2> QED
    BY <2>5 DEF s, t, u
<1> QED
  BY <1>1, <1>2, <1>3, Zenon

LEMMA Reactions ==
  ASSUME NEW m \in Msgs
  PROVE  \/ Reaction(m) = << >> /\ m.is \notin Synchronous
            /\ (m.is = "changed" => ~task[m.from])
            /\ (m.is = "close" => ~task[m.from] \/ Breaking(m.from))
         \/ Reaction(m) = <<Send("put", "viewer", "addentry")>> /\ m.is = "changed"
         \/ Reaction(m) = Restorehotlist /\ m.is = "restore"
         \/ Reaction(m) = <<On("drain", m.from)>> /\ m.is = "close"
            /\ task[m.from] /\ ~Breaking(m.from)
         \/ Reaction(m) = <<On("reply", m.from)>> /\ m.is \in Synchronous
         \/ Reaction(m) = <<On("open", "manager"), On("reply", m.from)>>
            /\ m.is = "manager"
         \/ Reaction(m) = <<Do("save"), On("reply", m.from)>> /\ m.is = "save"
<1> DEFINE h == IF task[m.from] THEN Handler(m) ELSE << >>
           r == IF m.is \in Async \cup {"answer"} THEN << >>
                ELSE <<On("reply", m.from)>>
<1>1. Reaction(m) = h \o r
  BY DEF Reaction
<1>2. m.is \in Async \cup Synchronous \cup {"answer"} /\ m.from \in Windows
  BY MsgFields
<1>3. /\ m.is \in Synchronous => r = <<On("reply", m.from)>>
      /\ m.is \notin Synchronous => r = << >>
  BY <1>2, SMT DEF Async, Synchronous
<1>4. /\ ~task[m.from] => h = << >>
      /\ task[m.from] /\ m.is = "manager" => h = <<On("open", "manager")>>
      /\ task[m.from] /\ m.is = "changed" => h = <<Send("put", "viewer", "addentry")>>
      /\ task[m.from] /\ m.is = "save" => h = <<Do("save")>>
      /\ task[m.from] /\ m.is = "restore" => h = Restorehotlist
      /\ task[m.from] /\ m.is = "close" =>
           h = IF Breaking(m.from) THEN << >> ELSE <<On("drain", m.from)>>
      /\ m.is \in {"follow", "dims", "answer"} => h = << >>
  BY SMT DEF Handler
<1> HIDE DEF h, r
<1>5. /\ \A a \in Steps : <<a>> \o << >> = <<a>> /\ << >> \o <<a>> = <<a>>
      /\ \A a, b \in Steps : <<a>> \o <<b>> = <<a, b>>
      /\ << >> \o << >> = << >>
  BY Tuples
<1>6. /\ On("reply", m.from) \in Steps /\ On("open", "manager") \in Steps
      /\ On("drain", m.from) \in Steps /\ Do("save") \in Steps
      /\ Send("put", "viewer", "addentry") \in Steps
  <2>1. "viewer" \in Windows /\ "manager" \in Windows
    BY Zenon DEF Windows
  <2> QED
    BY <1>2, <2>1, StepForms, Zenon
<1>7. Restorehotlist \in Seq(Steps) /\ Restorehotlist \o << >> = Restorehotlist
  <2>1. /\ Restorehotlist = Both("tell", "dispose") \o <<Do("reread")>>
                            \o Both("put", "newlist")
    BY DEF Restorehotlist, Renewed
  <2>2. /\ Send("tell", "viewer", "dispose") \in Steps
        /\ Send("tell", "manager", "dispose") \in Steps
        /\ Send("put", "viewer", "newlist") \in Steps
        /\ Send("put", "manager", "newlist") \in Steps
        /\ Do("reread") \in Steps
    <3>1. "viewer" \in Windows /\ "manager" \in Windows
      BY Zenon DEF Windows
    <3> QED
      BY <3>1, StepForms, Zenon
  <2>3. /\ Both("tell", "dispose") \in Seq(Steps)
        /\ Both("put", "newlist") \in Seq(Steps)
        /\ <<Do("reread")>> \in Seq(Steps)
    BY <2>2, SMT DEF Both
  <2>4. Both("tell", "dispose") \o <<Do("reread")>> \in Seq(Steps)
    BY <2>3, ConcatProperties
  <2>5. Restorehotlist \in Seq(Steps)
    BY <2>1, <2>3, <2>4, ConcatProperties
  <2> QED
    BY <2>5, ConcatEmptySeq
<1>8. CASE m.is \in {"follow", "dims"}
  <2>1. m.is \in Synchronous
    BY <1>8, Zenon DEF Synchronous
  <2> QED
    BY <1>1, <1>3, <1>4, <1>5, <1>6, <1>8, <2>1, Zenon
<1>9. CASE m.is = "manager"
  <2>1. m.is \in Synchronous
    BY <1>9, Zenon DEF Synchronous
  <2> QED
    BY <1>1, <1>3, <1>4, <1>5, <1>6, <1>9, <2>1, Zenon
<1>10. CASE m.is = "save"
  <2>1. m.is \in Synchronous
    BY <1>10, Zenon DEF Synchronous
  <2> QED
    BY <1>1, <1>3, <1>4, <1>5, <1>6, <1>10, <2>1, Zenon
<1>11. CASE m.is = "changed"
  <2>1. m.is \notin Synchronous /\ m.is # "close"
    BY <1>11, SMT DEF Synchronous
  <2> QED
    BY <1>1, <1>3, <1>4, <1>5, <1>6, <1>11, <2>1, Zenon
<1>12. CASE m.is = "restore"
  <2>1. m.is \notin Synchronous /\ m.is # "close" /\ m.is # "changed"
    BY <1>12, SMT DEF Synchronous
  <2> QED
    BY <1>1, <1>3, <1>4, <1>5, <1>7, <1>12, <2>1, Zenon
<1>13. CASE m.is = "close"
  <2>1. m.is \notin Synchronous /\ m.is # "changed"
    BY <1>13, SMT DEF Synchronous
  <2> QED
    BY <1>1, <1>3, <1>4, <1>5, <1>6, <1>13, <2>1, Zenon
<1>14. CASE m.is = "answer"
  <2>1. m.is \notin Synchronous /\ m.is # "changed" /\ m.is # "close"
    BY <1>14, SMT DEF Synchronous
  <2> QED
    BY <1>1, <1>3, <1>4, <1>5, <1>14, <2>1, Zenon
<1> QED
  BY <1>2, <1>8, <1>9, <1>10, <1>11, <1>12, <1>13, <1>14, Zenon
     DEF Async, Synchronous

-----------------------------------------------------------------------------
(* Lists of steps.                                                         *)

LEMMA TellBoth ==
  ASSUME NEW do \in {"put", "tell"}, NEW is \in {"addentry", "dispose", "newlist"}
  PROVE  /\ Both(do, is) \in Seq(Steps) /\ Len(Both(do, is)) = 2
         /\ Both(do, is)[1] = Send(do, "viewer", is)
         /\ Both(do, is)[2] = Send(do, "manager", is)
<1>1. Send(do, "viewer", is) \in Steps /\ Send(do, "manager", is) \in Steps
  <2>1. "viewer" \in Windows /\ "manager" \in Windows
    BY Zenon DEF Windows
  <2> QED
    BY <2>1, StepForms, Zenon
<1> QED
  BY <1>1, SMT DEF Both

LEMMA SingleStep ==
  ASSUME NEW s \in Steps
  PROVE  <<s>> \in Seq(Steps) /\ Len(<<s>>) = 1 /\ <<s>>[1] = s
OBVIOUS

LEMMA RenewedSteps ==
  ASSUME NEW do \in {"reread", "replace"}
  PROVE  /\ Renewed(do) \in Seq(Steps) /\ Len(Renewed(do)) = 5
         /\ Renewed(do)[1] = Send("tell", "viewer", "dispose")
         /\ Renewed(do)[2] = Send("tell", "manager", "dispose")
         /\ Renewed(do)[3] = Do(do)
         /\ Renewed(do)[4] = Send("put", "viewer", "newlist")
         /\ Renewed(do)[5] = Send("put", "manager", "newlist")
<1> DEFINE a == Both("tell", "dispose")
           b == <<Do(do)>>
           c == Both("put", "newlist")
           d == a \o b
<1>1. /\ a \in Seq(Steps) /\ Len(a) = 2
      /\ a[1] = Send("tell", "viewer", "dispose")
      /\ a[2] = Send("tell", "manager", "dispose")
  BY TellBoth
<1>2. /\ c \in Seq(Steps) /\ Len(c) = 2
      /\ c[1] = Send("put", "viewer", "newlist")
      /\ c[2] = Send("put", "manager", "newlist")
  BY TellBoth
<1>3. b \in Seq(Steps) /\ Len(b) = 1 /\ b[1] = Do(do)
  <2>1. Do(do) \in Steps
    BY StepForms, Zenon
  <2> QED
    BY <2>1, SingleStep
<1>4. Renewed(do) = d \o c
  BY DEF Renewed
<1> HIDE DEF a, b, c
<1>5. /\ d \in Seq(Steps) /\ Len(d) = Len(a) + Len(b)
      /\ \A i \in 1 .. Len(a) + Len(b) :
           d[i] = IF i <= Len(a) THEN a[i] ELSE b[i - Len(a)]
  BY <1>1, <1>3, ConcatProperties
<1> HIDE DEF d
<1>6. Len(d) = 3 /\ d[1] = a[1] /\ d[2] = a[2] /\ d[3] = b[1]
  BY <1>1, <1>3, <1>5, SMT
<1>7. /\ d \o c \in Seq(Steps) /\ Len(d \o c) = Len(d) + Len(c)
      /\ \A i \in 1 .. Len(d) + Len(c) :
           (d \o c)[i] = IF i <= Len(d) THEN d[i] ELSE c[i - Len(d)]
  <2>1. d \in Seq(Steps) /\ c \in Seq(Steps)
    BY <1>2, <1>5
  <2> QED
    BY <2>1, ConcatProperties
<1>8. /\ Len(d \o c) = 5 /\ (d \o c)[1] = d[1] /\ (d \o c)[2] = d[2]
      /\ (d \o c)[3] = d[3] /\ (d \o c)[4] = c[1] /\ (d \o c)[5] = c[2]
  BY <1>2, <1>6, <1>7, SMT
<1> QED
  BY <1>1, <1>2, <1>3, <1>4, <1>6, <1>7, <1>8, Zenon

LEMMA AddtohotlistSteps ==
  ASSUME NEW is \in News
  PROVE  /\ Addtohotlist(is) \in Seq(Steps) /\ Len(Addtohotlist(is)) = 4
         /\ Addtohotlist(is)[1] = Do("add")
         /\ Addtohotlist(is)[2] = Send("put", "viewer", is)
         /\ Addtohotlist(is)[3] = Send("put", "manager", is)
         /\ Addtohotlist(is)[4] = Do("save")
<1> DEFINE a == <<Do("add")>>
           b == Both("put", is)
           c == <<Do("save")>>
           d == a \o b
<1>1. b \in Seq(Steps) /\ Len(b) = 2
      /\ b[1] = Send("put", "viewer", is) /\ b[2] = Send("put", "manager", is)
  <2>1. is \in {"addentry", "dispose", "newlist"}
    BY SMT DEF News
  <2> QED
    BY <2>1, TellBoth
<1>2. a \in Seq(Steps) /\ Len(a) = 1 /\ a[1] = Do("add")
  <2>1. Do("add") \in Steps
    BY StepForms, Zenon
  <2> QED
    BY <2>1, SingleStep
<1>3. c \in Seq(Steps) /\ Len(c) = 1 /\ c[1] = Do("save")
  <2>1. Do("save") \in Steps
    BY StepForms, Zenon
  <2> QED
    BY <2>1, SingleStep
<1>4. Addtohotlist(is) = d \o c
  BY DEF Addtohotlist
<1> HIDE DEF a, b, c
<1>5. /\ d \in Seq(Steps) /\ Len(d) = Len(a) + Len(b)
      /\ \A i \in 1 .. Len(a) + Len(b) :
           d[i] = IF i <= Len(a) THEN a[i] ELSE b[i - Len(a)]
  BY <1>1, <1>2, ConcatProperties
<1> HIDE DEF d
<1>6. Len(d) = 3 /\ d[1] = a[1] /\ d[2] = b[1] /\ d[3] = b[2]
  BY <1>1, <1>2, <1>5, SMT
<1>7. /\ d \o c \in Seq(Steps) /\ Len(d \o c) = Len(d) + Len(c)
      /\ \A i \in 1 .. Len(d) + Len(c) :
           (d \o c)[i] = IF i <= Len(d) THEN d[i] ELSE c[i - Len(d)]
  <2>1. d \in Seq(Steps) /\ c \in Seq(Steps)
    BY <1>3, <1>5
  <2> QED
    BY <2>1, ConcatProperties
<1>8. /\ Len(d \o c) = 4 /\ (d \o c)[1] = d[1] /\ (d \o c)[2] = d[2]
      /\ (d \o c)[3] = d[3] /\ (d \o c)[4] = c[1]
  BY <1>3, <1>6, <1>7, SMT
<1> QED
  BY <1>1, <1>2, <1>3, <1>4, <1>6, <1>7, <1>8, Zenon

LEMMA AnnouncesConcat ==
  ASSUME NEW a \in Seq(Steps), NEW b \in Seq(Steps), Announces(a), Announces(b)
  PROVE  Announces(a \o b)
<1> DEFINE q == a \o b
<1>1. /\ Len(q) = Len(a) + Len(b) /\ Len(a) \in Nat /\ Len(b) \in Nat
      /\ \A i \in 1 .. Len(a) + Len(b) :
           q[i] = IF i <= Len(a) THEN a[i] ELSE b[i - Len(a)]
  <2>1. Len(a) \in Nat /\ Len(b) \in Nat
    BY SMT
  <2> QED
    BY <2>1, ConcatProperties
<1> HIDE DEF q
<1>2. /\ \A i \in 1 .. Len(a) : i \in 1 .. Len(q) /\ q[i] = a[i]
      /\ \A i \in 1 .. Len(b) : Len(a) + i \in 1 .. Len(q) /\ q[Len(a) + i] = b[i]
      /\ \A i \in 1 .. Len(q) : i \in 1 .. Len(a) \/ i - Len(a) \in 1 .. Len(b)
      /\ \A i \in 1 .. Len(q) : i - Len(a) \in 1 .. Len(b) => q[i] = b[i - Len(a)]
  BY <1>1, SMT
<1>3. ASSUME NEW i \in 1 .. Len(q), q[i].do = "put" PROVE q[i].is \in News
  <2>1. \/ i \in 1 .. Len(a) /\ q[i] = a[i]
        \/ i - Len(a) \in 1 .. Len(b) /\ q[i] = b[i - Len(a)]
    BY <1>2, Zenon
  <2>2. /\ \A j \in 1 .. Len(a) : a[j].do = "put" => a[j].is \in News
        /\ \A j \in 1 .. Len(b) : b[j].do = "put" => b[j].is \in News
    BY Zenon DEF Announces
  <2> QED
    BY <1>3, <2>1, <2>2, SMT
<1>4. ASSUME NEW i \in 1 .. Len(q), NEW w \in Windows, q[i].do \in Changes
      PROVE  \E j \in 1 .. Len(q) : i < j /\ q[j].do = "put" /\ q[j].w = w
  <2>1. CASE i \in 1 .. Len(a)
    <3>1. PICK j \in 1 .. Len(a) : i < j /\ a[j].do = "put" /\ a[j].w = w
      BY <1>2, <1>4, <2>1, Zenon DEF Announces
    <3> QED
      BY <1>2, <3>1, Zenon
  <2>2. CASE i - Len(a) \in 1 .. Len(b)
    <3>1. PICK j \in 1 .. Len(b) : i - Len(a) < j /\ b[j].do = "put" /\ b[j].w = w
      BY <1>2, <1>4, <2>2, Zenon DEF Announces
    <3>2. i < Len(a) + j
      BY <1>1, <3>1, SMT
    <3> QED
      BY <1>2, <3>1, <3>2, Zenon
  <2> QED
    BY <1>2, <2>1, <2>2, Zenon
<1>5. Announces(q)
  BY <1>3, <1>4, Zenon DEF Announces
<1> QED
  BY <1>5 DEF q

LEMMA AnnouncesTail ==
  ASSUME NEW q \in Seq(Steps), q # << >>, Announces(q)
  PROVE  Announces(Tail(q))
<1> DEFINE t == Tail(q)
<1>1. /\ Len(t) = Len(q) - 1 /\ Len(q) \in Nat
      /\ \A i \in 1 .. Len(t) : t[i] = q[i + 1]
  <2>1. Len(q) \in Nat
    BY SMT
  <2> QED
    BY <2>1, HeadTailProperties
<1> HIDE DEF t
<1>2. /\ \A i \in 1 .. Len(t) : i + 1 \in 1 .. Len(q)
      /\ \A i \in 1 .. Len(t), j \in 1 .. Len(q) : i + 1 < j =>
           i < j - 1 /\ j - 1 \in 1 .. Len(t) /\ t[j - 1] = q[j]
  BY <1>1, SMT
<1>3. ASSUME NEW i \in 1 .. Len(t), t[i].do = "put" PROVE t[i].is \in News
  <2>1. i + 1 \in 1 .. Len(q) /\ t[i] = q[i + 1]
    BY <1>1, <1>2, Zenon
  <2>2. \A j \in 1 .. Len(q) : q[j].do = "put" => q[j].is \in News
    BY Zenon DEF Announces
  <2> QED
    BY <1>3, <2>1, <2>2, SMT
<1>4. ASSUME NEW i \in 1 .. Len(t), NEW w \in Windows, t[i].do \in Changes
      PROVE  \E j \in 1 .. Len(t) : i < j /\ t[j].do = "put" /\ t[j].w = w
  <2>1. PICK j \in 1 .. Len(q) : i + 1 < j /\ q[j].do = "put" /\ q[j].w = w
    BY <1>1, <1>2, <1>4, Zenon DEF Announces
  <2> QED
    BY <1>2, <2>1, Zenon
<1>5. Announces(t)
  BY <1>3, <1>4, Zenon DEF Announces
<1> QED
  BY <1>5 DEF t

\* A short list that changes nothing.
LEMMA AnnouncesPlain ==
  ASSUME NEW q \in Seq(Steps),
         \A i \in 1 .. Len(q) : /\ q[i].do = "put" => q[i].is \in News
                                /\ q[i].do \notin Changes
  PROVE  Announces(q)
BY Zenon DEF Announces

\* The steps of a reaction.
Reacts(m, r) ==
  /\ r \in Seq(Steps) /\ Announces(r)
  /\ \A i \in 1 .. Len(r) :
       /\ r[i].do # "lastsave"
       /\ r[i].do = "open" => m.is = "manager"
       /\ r[i].do = "reply" => /\ m.is \in Synchronous /\ i = Len(r)
                               /\ r[i] = On("reply", m.from)

LEMMA PairOfSteps ==
  ASSUME NEW s \in Steps, NEW t \in Steps
  PROVE  /\ <<s, t>> \in Seq(Steps) /\ Len(<<s, t>>) = 2
         /\ <<s, t>>[1] = s /\ <<s, t>>[2] = t
OBVIOUS

LEMMA ReactionSteps ==
  ASSUME NEW m \in Msgs
  PROVE  Reacts(m, Reaction(m))
<1> DEFINE r == Reaction(m)
<1>1. m.from \in Windows /\ "manager" \in Windows /\ "viewer" \in Windows
  BY MsgFields, Zenon DEF Windows
<1>2. CASE r = << >>
  <2>1. r \in Seq(Steps) /\ Len(r) = 0
    BY <1>2, SMT
  <2> HIDE DEF r
  <2>2. ~ \E i \in 1 .. Len(r) : TRUE
    BY <2>1, SMT
  <2>3. Announces(r)
    BY <2>1, <2>2, AnnouncesPlain
  <2> QED
    BY <2>1, <2>2, <2>3, Zenon DEF Reacts, r
<1>3. ASSUME NEW s \in Steps, r = <<s>>,
             \/ s = Send("put", "viewer", "addentry")
             \/ s = On("drain", m.from)
             \/ s = On("reply", m.from) /\ m.is \in Synchronous
      PROVE  Reacts(m, r)
  <2>1. r \in Seq(Steps) /\ Len(r) = 1 /\ r[1] = s
    BY <1>3, SingleStep
  <2> HIDE DEF r
  <2>2. \A i \in 1 .. Len(r) : i = Len(r) /\ r[i] = s
    BY <2>1, SMT
  <2>3. /\ s.do = "put" => s.is \in News
        /\ s.do \notin Changes /\ s.do # "lastsave" /\ s.do # "open"
        /\ s.do = "reply" => m.is \in Synchronous /\ s = On("reply", m.from)
    BY <1>3, StepDo, SMT DEF News, Changes
  <2>4. Announces(r)
    BY <2>1, <2>2, <2>3, AnnouncesPlain
  <2> QED
    BY <2>1, <2>2, <2>3, <2>4, Zenon DEF Reacts
<1>4. ASSUME NEW s \in Steps, NEW t \in Steps, r = <<s, t>>,
             (s = On("open", "manager") /\ m.is = "manager") \/ s = Do("save"),
             t = On("reply", m.from), m.is \in Synchronous
      PROVE  Reacts(m, r)
  <2>1. r \in Seq(Steps) /\ Len(r) = 2 /\ r[1] = s /\ r[2] = t
    BY <1>4, PairOfSteps
  <2> HIDE DEF r
  <2>2. \A i \in 1 .. Len(r) : r[i] = s \/ (i = Len(r) /\ r[i] = t)
    BY <2>1, SMT
  <2>3. /\ s.do \notin Changes /\ s.do # "lastsave" /\ s.do # "put"
        /\ s.do # "reply" /\ (s.do = "open" => m.is = "manager")
        /\ t.do = "reply"
    BY <1>4, StepDo, SMT DEF Changes
  <2>4. Announces(r)
    <3>1. \A i \in 1 .. Len(r) : /\ r[i].do = "put" => r[i].is \in News
                                 /\ r[i].do \notin Changes
      BY <2>2, <2>3, SMT DEF Changes
    <3> QED
      BY <2>1, <3>1, AnnouncesPlain
  <2>5. \A i \in 1 .. Len(r) :
          /\ r[i].do # "lastsave"
          /\ r[i].do = "open" => m.is = "manager"
          /\ r[i].do = "reply" => i = Len(r) /\ r[i] = t
    BY <2>2, <2>3, SMT
  <2> QED
    BY <1>4, <2>1, <2>4, <2>5, Zenon DEF Reacts
<1>5. ASSUME r = Restorehotlist PROVE Reacts(m, r)
  <2>1. /\ r \in Seq(Steps) /\ Len(r) = 5
        /\ r[1] = Send("tell", "viewer", "dispose")
        /\ r[2] = Send("tell", "manager", "dispose")
        /\ r[3] = Do("reread")
        /\ r[4] = Send("put", "viewer", "newlist")
        /\ r[5] = Send("put", "manager", "newlist")
    BY <1>5, RenewedSteps, Zenon DEF Restorehotlist
  <2> HIDE DEF r
  <2>2. /\ r[1].do = "tell" /\ r[2].do = "tell" /\ r[3].do = "reread"
        /\ r[4].do = "put" /\ r[4].w = "viewer" /\ r[4].is = "newlist"
        /\ r[5].do = "put" /\ r[5].w = "manager" /\ r[5].is = "newlist"
    BY <2>1, SMT DEF Do, Send
  <2>3. /\ \A i \in 1 .. Len(r) : i \in {1, 2, 3, 4, 5}
        /\ {4, 5} \subseteq 1 .. Len(r) /\ 3 < 4 /\ 3 < 5
    BY <2>1, SMT
  <2>4. Announces(r)
    <3>1. \A i \in 1 .. Len(r) : r[i].do = "put" => r[i].is \in News
      BY <2>2, <2>3, SMT DEF News
    <3>2. ASSUME NEW i \in 1 .. Len(r), NEW w \in Windows, r[i].do \in Changes
          PROVE  \E j \in 1 .. Len(r) : i < j /\ r[j].do = "put" /\ r[j].w = w
      <4>1. i = 3
        BY <2>2, <2>3, <3>2, SMT DEF Changes
      <4>2. w = "viewer" \/ w = "manager"
        BY Zenon DEF Windows
      <4> QED
        BY <2>2, <2>3, <4>1, <4>2, Zenon
    <3> QED
      BY <3>1, <3>2, Zenon DEF Announces
  <2>5. \A i \in 1 .. Len(r) :
          r[i].do # "lastsave" /\ r[i].do # "open" /\ r[i].do # "reply"
    BY <2>2, <2>3, SMT
  <2> QED
    BY <2>1, <2>4, <2>5, Zenon DEF Reacts
<1>6. /\ On("reply", m.from) \in Steps /\ On("open", "manager") \in Steps
      /\ On("drain", m.from) \in Steps /\ Do("save") \in Steps
      /\ Send("put", "viewer", "addentry") \in Steps
  BY <1>1, StepForms, Zenon
<1>7. m.is = "manager" \/ m.is = "save" => m.is \in Synchronous
  BY Zenon DEF Synchronous
<1>8. \/ r = << >>
      \/ r = <<Send("put", "viewer", "addentry")>>
      \/ r = Restorehotlist
      \/ r = <<On("drain", m.from)>>
      \/ r = <<On("reply", m.from)>> /\ m.is \in Synchronous
      \/ r = <<On("open", "manager"), On("reply", m.from)>> /\ m.is = "manager"
      \/ r = <<Do("save"), On("reply", m.from)>> /\ m.is = "save"
  BY Reactions, Zenon
<1> HIDE DEF r
<1> QED
  BY <1>2, <1>3, <1>4, <1>5, <1>6, <1>7, <1>8, Zenon DEF r

\* Processreply in these terms.
LEMMA ProcessreplyIs ==
  ASSUME NEW m \in Msgs, NEW rest \in Seq(Steps), hotchanged \in BOOLEAN,
         Processreply(m, rest)
  PROVE  /\ job' = Reaction(m) \o rest
         /\ hotchanged' = (hotchanged \/ (m.is = "changed" /\ task[m.from]))
         /\ task' = IF m.is = "close" /\ ~Breaking(m.from)
                    THEN [task EXCEPT ![m.from] = FALSE] ELSE task
<1>1. CASE m.is = "answer"
  <2>1. m.is # "close" /\ m.is # "changed" /\ m.is \notin Synchronous
    BY <1>1, SMT DEF Synchronous
  <2>2. job' = rest /\ hotchanged' = hotchanged /\ task' = task
    BY <1>1, Zenon DEF Processreply
  <2>3. Reaction(m) = << >>
    <3>1. (IF m.is \in Async \cup {"answer"} THEN << >>
           ELSE <<On("reply", m.from)>>) = << >>
      BY <1>1, Zenon
    <3>2. Handler(m) = << >>
      BY <1>1, SMT DEF Handler
    <3>3. Reaction(m) = << >> \o << >>
      BY <3>1, <3>2, Zenon DEF Reaction
    <3> QED
      BY <3>3, SMT
  <2>4. << >> \o rest = rest
    BY ConcatEmptySeq
  <2> QED
    BY <2>1, <2>2, <2>3, <2>4, Zenon
<1>2. CASE m.is # "answer"
  <2>1. (m.is \in Async \cup {"answer"}) <=> m.is \in Async
    BY <1>2, Zenon
  <2> QED
    BY <1>2, <2>1, Zenon DEF Processreply, Reaction
<1> QED
  BY <1>1, <1>2, Zenon

\* What the main task does with a message keeps the protocol.
Reacting(k) ==
  /\ Takes(k)
  /\ job' = Reaction(port[k]) \o job
  /\ task' = IF port[k].is = "close" /\ ~Breaking(port[k].from)
             THEN [task EXCEPT ![port[k].from] = FALSE] ELSE task
  /\ sub' = sub /\ up' = up
  /\ job # << >> => /\ Head(job).do \in {"await", "drain"}
                    /\ Head(job).w = port[k].from

\* The steps before which a reaction is put.
LEMMA InFront ==
  ASSUME job \in Seq(Steps), NEW r \in Seq(Steps), job' = r \o job
  PROVE  /\ job' \in Seq(Steps) /\ Len(job) \in Nat /\ Len(r) \in Nat
         /\ Len(job') = Len(r) + Len(job)
         /\ \A i \in 1 .. Len(job') :
              /\ i \in 1 .. Len(r) => job'[i] = r[i]
              /\ i \notin 1 .. Len(r) => /\ i - Len(r) \in 1 .. Len(job)
                                        /\ job'[i] = job[i - Len(r)]
         /\ \A i \in 1 .. Len(r) : i \in 1 .. Len(job') /\ job'[i] = r[i]
         /\ \A i \in 1 .. Len(job) : /\ Len(r) + i \in 1 .. Len(job')
                                     /\ job'[Len(r) + i] = job[i]
         /\ r = << >> => job' = job
<1>1. /\ job' \in Seq(Steps) /\ Len(job') = Len(r) + Len(job)
      /\ \A i \in 1 .. Len(r) + Len(job) : job'[i] =
           IF i <= Len(r) THEN r[i] ELSE job[i - Len(r)]
  BY ConcatProperties, Zenon
<1>2. Len(job) \in Nat /\ Len(r) \in Nat
  BY SMT
<1>3. r = << >> => job' = job
  BY ConcatEmptySeq
<1>4. /\ \A i \in 1 .. Len(job') :
              /\ i \in 1 .. Len(r) => job'[i] = r[i]
              /\ i \notin 1 .. Len(r) => /\ i - Len(r) \in 1 .. Len(job)
                                        /\ job'[i] = job[i - Len(r)]
      /\ \A i \in 1 .. Len(r) : i \in 1 .. Len(job') /\ job'[i] = r[i]
      /\ \A i \in 1 .. Len(job) : /\ Len(r) + i \in 1 .. Len(job')
                                  /\ job'[Len(r) + i] = job[i]
  BY <1>1, <1>2, SMT
<1> QED
  BY <1>1, <1>2, <1>3, <1>4, Zenon

LEMMA OnParts ==
  ASSUME NEW do, NEW v, NEW w, On(do, v) = On(do, w)
  PROVE  v = w
<1>1. On(do, v).w = v /\ On(do, w).w = w
  BY Zenon DEF On
<1> QED
  BY <1>1, Zenon

LEMMA ReactingOneRequest ==
  ASSUME TypeOK, Protocol, NEW k, Reacting(k), NEW v \in Windows
  PROVE  OneRequest(v)'
<1> DEFINE m == port[k]
           r == Reaction(m)
<1>1. port \in Seq(Msgs) /\ job \in Seq(Steps) /\ OneRequest(v)
  BY Zenon DEF TypeOK, Msgs, Protocol
<1>2. /\ k \in 1 .. Len(port)
      /\ \A j \in 1 .. Len(port') : /\ Before(k, j) \in 1 .. Len(port)
                                    /\ Before(k, j) # k
                                    /\ port'[j] = port[Before(k, j)]
      /\ \A i, j \in 1 .. Len(port') : Before(k, i) = Before(k, j) => i = j
  <2>1. Takes(k)
    BY Zenon DEF Reacting
  <2> QED
    BY <1>1, <2>1, Stays
<1>3. m \in Msgs
  BY <1>1, <1>2, SMT
<1>4. Reacts(m, r)
  BY <1>3, ReactionSteps
<1>5. job' = r \o job /\ sub' = sub
  BY Zenon DEF Reacting
<1> HIDE DEF r
<1>6. /\ Len(job) \in Nat /\ Len(r) \in Nat
      /\ \A i \in 1 .. Len(job') :
           /\ i \in 1 .. Len(r) => job'[i] = r[i]
           /\ i \notin 1 .. Len(r) => /\ i - Len(r) \in 1 .. Len(job)
                                     /\ job'[i] = job[i - Len(r)]
  <2>1. r \in Seq(Steps)
    BY <1>4, Zenon DEF Reacts
  <2> QED
    BY <1>1, <1>5, <2>1, InFront
<1> HIDE DEF m
<1>7. ASSUME NEW i \in 1 .. Len(r), r[i] = On("reply", v)
      PROVE  i = Len(r) /\ IsRequest(m, v)
  <2>1. r[i].do = "reply"
    BY <1>7, SMT DEF On
  <2>2. i = Len(r) /\ m.is \in Synchronous /\ On("reply", m.from) = On("reply", v)
    BY <1>4, <1>7, <2>1, Zenon DEF Reacts
  <2>3. m.from = v
    BY <2>2, OnParts
  <2> QED
    BY <2>2, <2>3, Zenon DEF IsRequest
<1>8. ASSUME NEW i \in 1 .. Len(port'), NEW j \in 1 .. Len(port'),
             IsRequest(port'[i], v), IsRequest(port'[j], v)
      PROVE  i = j
  BY <1>1, <1>2, <1>8, Zenon DEF OneRequest
<1>9. ASSUME NEW i \in 1 .. Len(job'), NEW j \in 1 .. Len(job'),
             job'[i] = On("reply", v), job'[j] = On("reply", v)
      PROVE  i = j
  <2>1. CASE i \in 1 .. Len(r) /\ j \in 1 .. Len(r)
    <3>1. r[i] = On("reply", v) /\ r[j] = On("reply", v)
      BY <1>6, <1>9, <2>1, Zenon
    <3> QED
      BY <1>7, <2>1, <3>1, Zenon
  <2>2. CASE i \notin 1 .. Len(r) /\ j \notin 1 .. Len(r)
    <3>1. i - Len(r) = j - Len(r)
      BY <1>1, <1>6, <1>9, <2>2, Zenon DEF OneRequest
    <3> QED
      BY <1>6, <3>1, SMT
  <2>3. ~(IsRequest(m, v) /\ \E n \in 1 .. Len(job) : job[n] = On("reply", v))
    BY <1>1, <1>2, Zenon DEF OneRequest, m
  <2>4. CASE i \in 1 .. Len(r) /\ j \notin 1 .. Len(r)
    <3>1. r[i] = On("reply", v)
      BY <1>6, <1>9, <2>4, Zenon
    <3> QED
      BY <1>6, <1>7, <1>9, <2>3, <2>4, <3>1, Zenon
  <2>5. CASE i \notin 1 .. Len(r) /\ j \in 1 .. Len(r)
    <3>1. r[j] = On("reply", v)
      BY <1>6, <1>9, <2>5, Zenon
    <3> QED
      BY <1>6, <1>7, <1>9, <2>3, <2>5, <3>1, Zenon
  <2> QED
    BY <2>1, <2>2, <2>4, <2>5, Zenon
<1>10. ASSUME NEW j \in 1 .. Len(job'), job'[j] = On("reply", v)
       PROVE  /\ sub'[v] \in Waits
              /\ \A i \in 1 .. Len(port') : ~IsRequest(port'[i], v)
  <2>1. CASE j \in 1 .. Len(r)
    <3>1. r[j] = On("reply", v)
      BY <1>6, <1>10, <2>1, Zenon
    <3>2. IsRequest(m, v)
      BY <1>7, <2>1, <3>1, Zenon
    <3> QED
      BY <1>1, <1>2, <1>5, <3>2, Zenon DEF OneRequest, m
  <2>2. CASE j \notin 1 .. Len(r)
    <3>1. /\ j - Len(r) \in 1 .. Len(job)
          /\ job[j - Len(r)] = On("reply", v)
      BY <1>6, <1>10, <2>2, Zenon
    <3>2. /\ sub[v] \in Waits
          /\ \A i \in 1 .. Len(port) : ~IsRequest(port[i], v)
      BY <1>1, <3>1, Zenon DEF OneRequest
    <3> QED
      BY <1>2, <1>5, <3>2, Zenon
  <2> QED
    BY <2>1, <2>2, Zenon
<1>11. \A i \in 1 .. Len(port') : IsRequest(port'[i], v) => sub'[v] \in Waits
  BY <1>1, <1>2, <1>5, Zenon DEF OneRequest
<1> QED
  BY <1>8, <1>9, <1>10, <1>11, Zenon DEF OneRequest

LEMMA ReactingEnds ==
  ASSUME TypeOK, Protocol, NEW k, Reacting(k), NEW v \in Windows
  PROVE  Ends(v)'
<1> DEFINE m == port[k]
           r == Reaction(m)
<1>1. port \in Seq(Msgs) /\ job \in Seq(Steps) /\ Ends(v) /\ task \in [Windows -> BOOLEAN]
  BY Zenon DEF TypeOK, Msgs, Protocol
<1>2. /\ k \in 1 .. Len(port)
      /\ \A j \in 1 .. Len(port') : /\ Before(k, j) \in 1 .. Len(port)
                                    /\ Before(k, j) # k
                                    /\ port'[j] = port[Before(k, j)]
      /\ \A i, j \in 1 .. Len(port') : i < j => Before(k, i) < Before(k, j)
      /\ \A j \in 1 .. Len(port') : port'[j].from = m.from => k < Before(k, j)
  <2>1. Takes(k)
    BY Zenon DEF Reacting
  <2> QED
    BY <1>1, <2>1, Stays
<1>3. m \in Msgs /\ m.from \in Windows
  <2>1. m \in Msgs
    BY <1>1, <1>2, SMT
  <2> QED
    BY <2>1, MsgFields
<1>4. /\ job' = r \o job /\ sub' = sub
      /\ task' = IF m.is = "close" /\ ~Breaking(m.from)
                 THEN [task EXCEPT ![m.from] = FALSE] ELSE task
      /\ job # << >> => Head(job).w = m.from
  BY Zenon DEF Reacting
<1>5. /\ m.is = "answer" => r = << >>
      /\ m.is = "close" /\ task[m.from] /\ ~Breaking(m.from) =>
           r = <<On("drain", m.from)>>
  <2>1. \/ Reaction(m) = << >> /\ m.is \notin Synchronous
           /\ (m.is = "changed" => ~task[m.from])
           /\ (m.is = "close" => ~task[m.from] \/ Breaking(m.from))
        \/ Reaction(m) = <<Send("put", "viewer", "addentry")>> /\ m.is = "changed"
        \/ Reaction(m) = Restorehotlist /\ m.is = "restore"
        \/ Reaction(m) = <<On("drain", m.from)>> /\ m.is = "close"
           /\ task[m.from] /\ ~Breaking(m.from)
        \/ Reaction(m) = <<On("reply", m.from)>> /\ m.is \in Synchronous
        \/ Reaction(m) = <<On("open", "manager"), On("reply", m.from)>>
           /\ m.is = "manager"
        \/ Reaction(m) = <<Do("save"), On("reply", m.from)>> /\ m.is = "save"
    <3>1. m \in Msgs
      BY <1>3
    <3> HIDE DEF m
    <3> QED
      BY <3>1, Reactions
  <2>2. /\ m.is = "answer" => m.is \notin Synchronous /\ m.is # "changed"
             /\ m.is # "restore" /\ m.is # "close" /\ m.is # "manager" /\ m.is # "save"
        /\ m.is = "close" => m.is \notin Synchronous /\ m.is # "changed"
             /\ m.is # "restore" /\ m.is # "manager" /\ m.is # "save"
    BY SMT DEF Synchronous
  <2> QED
    BY <2>1, <2>2, Zenon
<1>6. r \in Seq(Steps) /\ (r = << >> => job' = job)
      /\ (r = <<On("drain", m.from)>> =>
            job' # << >> /\ Head(job') = On("drain", m.from))
  <2>1. r \in Seq(Steps)
    BY <1>3, ReactionSteps, Zenon DEF Reacts
  <2> HIDE DEF r
  <2>2. r = << >> => job' = job
    BY <1>1, <1>4, <2>1, InFront
  <2>3. ASSUME r = <<On("drain", m.from)>>
        PROVE  job' # << >> /\ Head(job') = On("drain", m.from)
    <3>1. Len(r) = 1 /\ r[1] = On("drain", m.from)
      BY <2>3
    <3>2. /\ job' \in Seq(Steps) /\ \A i \in 1 .. Len(r) : i \in 1 .. Len(job') /\ job'[i] = r[i]
      BY <1>1, <1>4, <2>1, InFront, Zenon
    <3>3. 1 \in 1 .. Len(job') /\ job'[1] = On("drain", m.from)
      BY <3>1, <3>2, SMT
    <3> QED
      BY <3>2, <3>3, SMT
  <2> QED
    BY <2>1, <2>2, <2>3, Zenon
<1> HIDE DEF r, m
<1>7. /\ Gone(v)' <=> Gone(v)
      /\ ~task[v] => ~task'[v]
      /\ task[v] /\ ~task'[v] => v = m.from /\ m.is = "close" /\ ~Breaking(m.from)
  BY <1>1, <1>3, <1>4, SMT DEF Gone
<1>8. Gone(v)' => ~task'[v] /\ \A i \in 1 .. Len(port') : port'[i].from # v
  BY <1>1, <1>2, <1>7, Zenon DEF Ends
<1>9. ASSUME ~task'[v]
      PROVE  Silent(v)' /\ sub'[v] \in {"none", "leaving", "ended"}
  <2>1. CASE ~task[v]
    <3>1. Silent(v) /\ sub[v] \in {"none", "leaving", "ended"}
      BY <1>1, <2>1, Zenon DEF Ends
    <3>2. Silent(v)'
      BY <1>2, <3>1, Zenon DEF Silent
    <3> QED
      BY <1>4, <3>1, <3>2, Zenon
  <2>2. CASE task[v]
    <3>1. v = m.from /\ m.is = "close"
      BY <1>7, <1>9, <2>2, Zenon
    <3>2. /\ sub[v] \in {"leaving", "ended"}
          /\ \A j \in 1 .. Len(port) :
               k < j /\ port[j].from = v => port[j].is = "answer"
      BY <1>1, <1>2, <3>1, Zenon DEF Ends, m
    <3>3. Silent(v)'
      BY <1>2, <3>1, <3>2, Zenon DEF Silent
    <3> QED
      BY <1>4, <3>2, <3>3, Zenon
  <2> QED
    BY <2>1, <2>2, Zenon
<1>10. ASSUME ~task'[v], ~Gone(v)'
       PROVE  job' # << >> /\ Head(job') = On("drain", v)
  <2>1. CASE ~task[v]
    <3>1. job # << >> /\ Head(job) = On("drain", v) /\ Silent(v)
      BY <1>1, <1>7, <1>10, <2>1, Zenon DEF Ends
    <3>2. m.from = v
      <4>1. Head(job).w = v
        BY <3>1, SMT DEF On
      <4> QED
        BY <1>4, <3>1, <4>1, Zenon
    <3>3. m.is = "answer"
      BY <1>2, <3>1, <3>2, Zenon DEF Silent, m
    <3> QED
      BY <1>5, <1>6, <3>1, <3>3, Zenon
  <2>2. CASE task[v]
    <3>1. v = m.from /\ m.is = "close" /\ ~Breaking(m.from)
      BY <1>7, <1>10, <2>2, Zenon
    <3> QED
      BY <1>5, <1>6, <2>2, <3>1, Zenon
  <2> QED
    BY <2>1, <2>2, Zenon
<1>11. ASSUME NEW i \in 1 .. Len(port'), port'[i].from = v, port'[i].is = "close"
       PROVE  /\ sub'[v] \in {"leaving", "ended"}
              /\ \A j \in 1 .. Len(port') :
                   i < j /\ port'[j].from = v => port'[j].is = "answer"
  <2>1. /\ sub[v] \in {"leaving", "ended"}
        /\ \A j \in 1 .. Len(port) :
             Before(k, i) < j /\ port[j].from = v => port[j].is = "answer"
    BY <1>1, <1>2, <1>11, Zenon DEF Ends
  <2> QED
    BY <1>2, <1>4, <2>1, Zenon
<1> QED
  BY <1>8, <1>9, <1>10, <1>11, Zenon DEF Ends

LEMMA ReactingLastStep ==
  ASSUME TypeOK, Protocol, NEW k, Reacting(k)
  PROVE  LastStep' /\ FromViewer' /\ Announces(job)'
<1> DEFINE m == port[k]
           r == Reaction(m)
<1>1. /\ port \in Seq(Msgs) /\ job \in Seq(Steps)
      /\ FromViewer /\ LastStep /\ Announces(job)
      /\ \A v \in Windows : Ends(v)
  BY Zenon DEF TypeOK, Msgs, Protocol
<1>2. /\ k \in 1 .. Len(port)
      /\ \A j \in 1 .. Len(port') : /\ Before(k, j) \in 1 .. Len(port)
                                    /\ port'[j] = port[Before(k, j)]
  <2>1. Takes(k)
    BY Zenon DEF Reacting
  <2> QED
    BY <1>1, <2>1, Stays
<1>3. m \in Msgs /\ m.from \in Windows
  <2>1. m \in Msgs
    BY <1>1, <1>2, SMT
  <2> QED
    BY <2>1, MsgFields
<1>4. /\ job' = r \o job /\ sub' = sub /\ up' = up
      /\ job # << >> => Head(job).do \in {"await", "drain"}
  BY Zenon DEF Reacting
<1>5. Reacts(m, r)
  BY <1>3, ReactionSteps
<1>6. ~Gone(m.from)
  BY <1>1, <1>2, <1>3, Zenon DEF Ends, m
<1>7. m.is = "manager" => m.from = "viewer"
  BY <1>1, <1>2, Zenon DEF FromViewer, m
<1> HIDE DEF m, r
<1>8. r \in Seq(Steps) /\ Announces(r)
  BY <1>5, Zenon DEF Reacts
<1>9. Announces(job)'
  <2>1. Announces(r \o job)
    BY <1>1, <1>8, AnnouncesConcat
  <2> QED
    BY <1>4, <2>1
<1>10. FromViewer'
  BY <1>1, <1>2, Zenon DEF FromViewer
<1>11. /\ Len(job) \in Nat /\ Len(r) \in Nat /\ Len(job') = Len(r) + Len(job)
       /\ \A i \in 1 .. Len(job') :
            /\ i \in 1 .. Len(r) => job'[i] = r[i]
            /\ i \notin 1 .. Len(r) => /\ i - Len(r) \in 1 .. Len(job)
                                      /\ job'[i] = job[i - Len(r)]
       /\ \A i \in 1 .. Len(job) : /\ Len(r) + i \in 1 .. Len(job')
                                   /\ job'[Len(r) + i] = job[i]
  BY <1>1, <1>4, <1>8, InFront
<1>12. up
  <2>1. ~up => Gone("viewer") /\ Gone("manager")
    BY <1>1, Zenon DEF LastStep, BothGone
  <2> QED
    BY <1>3, <1>6, <2>1, Zenon DEF Windows
<1>13. ASSUME NEW i \in 1 .. Len(job'), job'[i].do = "lastsave"
       PROVE  /\ i = Len(job') /\ i \notin 1 .. Len(r)
              /\ Len(job) > 0 /\ job[Len(job)].do = "lastsave"
  <2>1. i \notin 1 .. Len(r)
    BY <1>5, <1>11, <1>13, Zenon DEF Reacts
  <2>2. i - Len(r) \in 1 .. Len(job) /\ job[i - Len(r)].do = "lastsave"
    BY <1>11, <1>13, <2>1, Zenon
  <2>3. i - Len(r) = Len(job)
    BY <1>1, <2>2, Zenon DEF LastStep
  <2> QED
    BY <1>11, <2>1, <2>2, <2>3, SMT
<1>14. ASSUME Len(job') > 0, job'[Len(job')].do = "lastsave"
       PROVE  DrainsViewer' \/ DrainsManager'
  <2>1. Len(job) > 0 /\ job[Len(job)].do = "lastsave"
    <3>1. Len(job') \in 1 .. Len(job')
      BY <1>11, <1>14, SMT
    <3> QED
      BY <1>13, <1>14, <3>1, Zenon
  <2>2. job # << >> /\ Head(job) = job[1]
    BY <1>1, <2>1, SMT
  <2>3. \/ StopsBoth \/ DrainsViewer \/ StopsManager \/ DrainsManager
        \/ Len(job) = 1 /\ BothGone
    BY <1>1, <2>1, Zenon DEF LastStep
  <2>4. ~StopsBoth /\ ~StopsManager /\ Len(job) # 1
    BY <1>4, <2>1, <2>2, SMT DEF StopsBoth, StopsManager, On
  <2>5. CASE DrainsViewer
    <3>1. /\ Len(job) - 2 \in 1 .. Len(job) /\ Len(job) - 1 \in 1 .. Len(job)
          /\ Len(r) + (Len(job) - 2) = Len(job') - 2
          /\ Len(r) + (Len(job) - 1) = Len(job') - 1 /\ Len(job') >= 3
      BY <1>11, <2>5, SMT DEF DrainsViewer
    <3>2. job'[Len(job') - 2] = job[Len(job) - 2] /\ job'[Len(job') - 1] = job[Len(job) - 1]
      BY <1>11, <3>1, Zenon
    <3> QED
      BY <2>5, <3>1, <3>2, Zenon DEF DrainsViewer
  <2>6. CASE DrainsManager
    <3>1. /\ Len(job) - 1 \in 1 .. Len(job)
          /\ Len(r) + (Len(job) - 1) = Len(job') - 1 /\ Len(job') >= 2
      BY <1>11, <2>6, SMT DEF DrainsManager
    <3>2. job'[Len(job') - 1] = job[Len(job) - 1]
      BY <1>11, <3>1, Zenon
    <3>3. Gone("viewer") /\ Gone("viewer")'
      BY <1>4, <2>6, Zenon DEF DrainsManager, Gone
    <3>4. m.is # "manager"
      BY <1>6, <1>7, <3>3, Zenon
    <3>5. \A i \in 1 .. Len(job') : job'[i].do # "open"
      <4>1. \A i \in 1 .. Len(r) : r[i].do # "open"
        BY <1>5, <3>4, Zenon DEF Reacts
      <4>2. \A i \in 1 .. Len(job) : job[i].do # "open"
        BY <2>6, Zenon DEF DrainsManager
      <4>3. ASSUME NEW i \in 1 .. Len(job') PROVE job'[i].do # "open"
        <5>1. CASE i \in 1 .. Len(r)
          BY <1>11, <4>1, <5>1, SMT
        <5>2. CASE i \notin 1 .. Len(r)
          <6>1. /\ i - Len(r) \in 1 .. Len(job)
                /\ job'[i] = job[i - Len(r)]
            BY <1>11, <5>2, Zenon
          <6> QED
            BY <4>2, <6>1, Zenon
        <5> QED
          BY <5>1, <5>2, Zenon
      <4> QED
        BY <4>3, Zenon
    <3> QED
      BY <2>6, <3>1, <3>2, <3>3, <3>5, Zenon DEF DrainsManager
  <2> QED
    BY <2>3, <2>4, <2>5, <2>6, Zenon
<1>15. LastStep'
  <2>1. up'
    BY <1>4, <1>12, Zenon
  <2> QED
    BY <1>13, <1>14, <2>1, Zenon DEF LastStep
<1> QED
  BY <1>9, <1>10, <1>15, Zenon

LEMMA ReactingProtocol ==
  ASSUME TypeOK, Protocol, NEW k, Reacting(k)
  PROVE  Protocol'
<1>1. \A v \in Windows : OneRequest(v)' /\ Ends(v)'
  BY ReactingOneRequest, ReactingEnds, Zenon
<1> QED
  BY <1>1, ReactingLastStep, Zenon DEF Protocol

-----------------------------------------------------------------------------
(* The main task does its next step.  The port may lose a message, an      *)
(* answer that was waited for: f says where the others were.               *)

Thinned(f) ==
  /\ \A j \in 1 .. Len(port') : f[j] \in 1 .. Len(port) /\ port'[j] = port[f[j]]
  /\ \A i, j \in 1 .. Len(port') : /\ i < j => f[i] < f[j]
                                   /\ f[i] = f[j] => i = j

LEMMA SamePort ==
  ASSUME port \in Seq(Msgs), port' = port
  PROVE  \E f : Thinned(f)
<1> DEFINE f == [j \in 1 .. Len(port) |-> j]
<1>1. Thinned(f)
  BY SMT DEF Thinned
<1> QED
  BY <1>1, Zenon

LEMMA TakenFromPort ==
  ASSUME port \in Seq(Msgs), NEW k, Takes(k)
  PROVE  \E f : Thinned(f)
<1> DEFINE f == [j \in 1 .. Len(port') |-> Before(k, j)]
<1>1. /\ \A j \in 1 .. Len(port') :
           Before(k, j) \in 1 .. Len(port) /\ port'[j] = port[Before(k, j)]
      /\ \A i, j \in 1 .. Len(port') :
           /\ i < j => Before(k, i) < Before(k, j)
           /\ Before(k, i) = Before(k, j) => i = j
  BY Stays
<1>2. \A j \in 1 .. Len(port') : f[j] = Before(k, j)
  BY Zenon
<1> HIDE DEF f
<1>3. \A j \in 1 .. Len(port') : f[j] \in 1 .. Len(port) /\ port'[j] = port[f[j]]
  BY <1>1, <1>2, SMT
<1>4. \A i, j \in 1 .. Len(port') : /\ i < j => f[i] < f[j]
                                    /\ f[i] = f[j] => i = j
  BY <1>1, <1>2, SMT
<1>5. Thinned(f)
  BY <1>3, <1>4, Zenon DEF Thinned
<1> QED
  BY <1>5, Zenon

LEMMA Popped ==
  ASSUME job \in Seq(Steps), job # << >>, job' = Tail(job)
  PROVE  /\ job' \in Seq(Steps) /\ Len(job) \in Nat /\ Len(job) > 0
         /\ Len(job') = Len(job) - 1 /\ Head(job) = job[1]
         /\ \A i \in 1 .. Len(job') : /\ i + 1 \in 1 .. Len(job) /\ i + 1 # 1
                                      /\ job'[i] = job[i + 1]
<1>1. Len(job) \in Nat /\ Len(job) > 0 /\ Head(job) = job[1]
  BY SMT
<1>2. /\ job' \in Seq(Steps) /\ Len(job') = Len(job) - 1
      /\ \A i \in 1 .. Len(job') : job'[i] = job[i + 1]
  BY HeadTailProperties, Zenon
<1> QED
  BY <1>1, <1>2, SMT

LEMMA PopsOneRequest ==
  ASSUME TypeOK, Protocol, NEW f, Thinned(f), job # << >>, job' = Tail(job),
         NEW v \in Windows,
         \/ sub'[v] = sub[v]
         \/ sub[v] \notin Waits
         \/ Head(job) = On("reply", v)
  PROVE  OneRequest(v)'
<1>1. port \in Seq(Msgs) /\ job \in Seq(Steps) /\ OneRequest(v)
  BY Zenon DEF TypeOK, Msgs, Protocol
<1>2. /\ Head(job) = job[1] /\ 1 \in 1 .. Len(job)
      /\ \A i \in 1 .. Len(job') : /\ i + 1 \in 1 .. Len(job) /\ i + 1 # 1
                                   /\ job'[i] = job[i + 1]
      /\ \A i, j \in 1 .. Len(job') : i + 1 = j + 1 => i = j
  <2>1. /\ Len(job) \in Nat /\ Len(job) > 0 /\ Head(job) = job[1]
        /\ \A i \in 1 .. Len(job') : /\ i + 1 \in 1 .. Len(job) /\ i + 1 # 1
                                     /\ job'[i] = job[i + 1]
    BY <1>1, Popped
  <2> QED
    BY <2>1, SMT
<1>3. /\ \A j \in 1 .. Len(port') : f[j] \in 1 .. Len(port) /\ port'[j] = port[f[j]]
      /\ \A i, j \in 1 .. Len(port') : f[i] = f[j] => i = j
  BY Zenon DEF Thinned
<1>4. ASSUME NEW i \in 1 .. Len(port'), IsRequest(port'[i], v)
      PROVE  sub[v] \in Waits /\ \A j \in 1 .. Len(job) : job[j] # On("reply", v)
  <2>1. f[i] \in 1 .. Len(port) /\ IsRequest(port[f[i]], v)
    BY <1>3, <1>4, SMT
  <2> QED
    BY <1>1, <2>1, Zenon DEF OneRequest
<1>5. ASSUME NEW i \in 1 .. Len(job'), job'[i] = On("reply", v)
      PROVE  /\ sub[v] \in Waits
             /\ \A j \in 1 .. Len(job) : job[j] = On("reply", v) => j = i + 1
  <2>1. i + 1 \in 1 .. Len(job) /\ job[i + 1] = On("reply", v)
    BY <1>2, <1>5, SMT
  <2> QED
    BY <1>1, <2>1, Zenon DEF OneRequest
<1>6. ASSUME NEW i \in 1 .. Len(port'), IsRequest(port'[i], v)
      PROVE  sub'[v] \in Waits
  BY <1>2, <1>4, <1>6, Zenon
<1>7. ASSUME NEW i \in 1 .. Len(job'), job'[i] = On("reply", v)
      PROVE  sub'[v] \in Waits
  BY <1>2, <1>5, <1>7, Zenon
<1>8. ASSUME NEW i \in 1 .. Len(port'), NEW j \in 1 .. Len(port'),
             IsRequest(port'[i], v), IsRequest(port'[j], v)
      PROVE  i = j
  <2>1. /\ f[i] \in 1 .. Len(port) /\ IsRequest(port[f[i]], v)
        /\ f[j] \in 1 .. Len(port) /\ IsRequest(port[f[j]], v)
    BY <1>3, <1>8, SMT
  <2>2. f[i] = f[j]
    BY <1>1, <2>1, Zenon DEF OneRequest
  <2> QED
    BY <1>3, <2>2, Zenon
<1>9. ASSUME NEW i \in 1 .. Len(job'), NEW j \in 1 .. Len(job'),
             job'[i] = On("reply", v), job'[j] = On("reply", v)
      PROVE  i = j
  <2>1. j + 1 \in 1 .. Len(job) /\ job[j + 1] = On("reply", v)
    BY <1>2, <1>9, SMT
  <2>2. j + 1 = i + 1
    BY <1>5, <1>9, <2>1, Zenon
  <2> QED
    BY <1>2, <2>2, Zenon
<1>10. ASSUME NEW i \in 1 .. Len(port'), IsRequest(port'[i], v),
              NEW j \in 1 .. Len(job')
       PROVE  job'[j] # On("reply", v)
  <2>1. j + 1 \in 1 .. Len(job) /\ job'[j] = job[j + 1]
    BY <1>2, SMT
  <2> QED
    BY <1>4, <1>10, <2>1, Zenon
<1> QED
  BY <1>6, <1>7, <1>8, <1>9, <1>10, Zenon DEF OneRequest

\* A window that ends, or has a task, and whose task and state stay.
LEMMA KeepsEnds ==
  ASSUME NEW v, Ends(v), NEW f, Thinned(f), task'[v] = task[v],
         task[v] \/ Gone(v),
         \/ sub'[v] = sub[v]
         \/ /\ sub[v] \notin {"none", "leaving", "ended"}
            /\ sub'[v] \notin {"none", "leaving", "ended"}
  PROVE  Ends(v)'
<1>1. /\ \A j \in 1 .. Len(port') : f[j] \in 1 .. Len(port) /\ port'[j] = port[f[j]]
      /\ \A i, j \in 1 .. Len(port') : i < j => f[i] < f[j]
  BY Zenon DEF Thinned
<1>2. Gone(v)' <=> Gone(v)
  BY Zenon DEF Gone
<1>3. Gone(v)' => ~task'[v] /\ \A i \in 1 .. Len(port') : port'[i].from # v
  BY <1>1, <1>2, Zenon DEF Ends
<1>4. ~task'[v] => Silent(v)' /\ sub'[v] \in {"none", "leaving", "ended"}
  <2>1. ~task'[v] => Silent(v) /\ Gone(v)'
    BY <1>2, Zenon DEF Ends
  <2>2. Silent(v) => Silent(v)'
    BY <1>1, Zenon DEF Silent
  <2> QED
    BY <2>1, <2>2, Zenon DEF Gone
<1>5. ASSUME NEW i \in 1 .. Len(port'), port'[i].from = v, port'[i].is = "close"
      PROVE  /\ sub'[v] \in {"leaving", "ended"}
             /\ \A j \in 1 .. Len(port') :
                  i < j /\ port'[j].from = v => port'[j].is = "answer"
  <2>1. /\ sub[v] \in {"leaving", "ended"}
        /\ \A j \in 1 .. Len(port) :
             f[i] < j /\ port[j].from = v => port[j].is = "answer"
    BY <1>1, <1>5, Zenon DEF Ends
  <2>2. sub'[v] = sub[v]
    BY <2>1, Zenon
  <2>3. ASSUME NEW j \in 1 .. Len(port'), i < j, port'[j].from = v
        PROVE  port'[j].is = "answer"
    BY <1>1, <2>1, <2>3, SMT
  <2> QED
    BY <2>1, <2>2, <2>3, Zenon
<1> QED
  BY <1>2, <1>3, <1>4, <1>5, Zenon DEF Ends

LEMMA ThinnedFromViewer ==
  ASSUME FromViewer, NEW f, Thinned(f)
  PROVE  FromViewer'
BY SMT DEF FromViewer, Thinned

\* While the main task does something else, a window has a task or is gone.
LEMMA NotDraining ==
  ASSUME Protocol, NEW v \in Windows, job = << >> \/ Head(job).do # "drain"
  PROVE  task[v] \/ Gone(v)
<1>1. Ends(v)
  BY Zenon DEF Protocol
<1>2. Head(job) = On("drain", v) => Head(job).do = "drain"
  BY SMT DEF On
<1> QED
  BY <1>1, <1>2, Zenon DEF Ends

\* How far Deinstallhotwindow is after a step, if stopping a window and
\* draining it end when it is gone.
LEMMA PopsLastStep ==
  ASSUME LastStep, job \in Seq(Steps), job # << >>, job' = Tail(job), up' = up,
         Head(job).do # "lastsave",
         Gone("viewer") /\ Head(job).do # "open" => Gone("viewer")',
         \A v \in Windows :
           Head(job) \in {On("stop", v), On("drain", v)} => Gone(v)'
  PROVE  LastStep'
<1>1. /\ Len(job) \in Nat /\ Len(job) > 0 /\ Len(job') = Len(job) - 1
      /\ Head(job) = job[1] /\ 1 \in 1 .. Len(job)
      /\ \A i \in 1 .. Len(job') : i + 1 \in 1 .. Len(job) /\ job'[i] = job[i + 1]
  <2>1. /\ Len(job) \in Nat /\ Len(job) > 0
        /\ Len(job') = Len(job) - 1 /\ Head(job) = job[1]
        /\ \A i \in 1 .. Len(job') : /\ i + 1 \in 1 .. Len(job)
                                     /\ job'[i] = job[i + 1]
    BY Popped
  <2> QED
    BY <2>1, SMT
<1> DEFINE z == Len(job)
           q == job'
<1>2. z \in Nat /\ z > 0 /\ Len(q) = z - 1
  BY <1>1, Zenon
<1> HIDE DEF z, q
<1>3. ASSUME NEW i \in 1 .. Len(q), q[i].do = "lastsave"
      PROVE  i = Len(q) /\ job[z].do = "lastsave"
  <2>1. i + 1 \in 1 .. Len(job) /\ job[i + 1].do = "lastsave"
    BY <1>1, <1>3, Zenon DEF q
  <2>2. i + 1 = z
    BY <2>1, Zenon DEF LastStep, z
  <2>3. i = Len(q)
    BY <1>2, <2>2, SMT
  <2> QED
    BY <2>1, <2>2, <2>3, Zenon
<1>4. ASSUME Len(q) > 0, q[Len(q)].do = "lastsave"
      PROVE  \/ StopsBoth' \/ DrainsViewer' \/ StopsManager' \/ DrainsManager'
             \/ Len(q) = 1 /\ BothGone'
  <2>1. job[z].do = "lastsave" /\ z # 1
    <3>1. Len(q) \in 1 .. Len(q)
      BY <1>2, <1>4, SMT
    <3>2. z # 1
      BY <1>2, <1>4, SMT
    <3> QED
      BY <1>3, <1>4, <3>1, <3>2, Zenon
  <2>2. StopsBoth \/ DrainsViewer \/ StopsManager \/ DrainsManager
    BY <1>1, <2>1, Zenon DEF LastStep, z
  <2>3. CASE StopsBoth
    <3>1. /\ z = 3 /\ Head(job) = On("stop", "viewer")
          /\ job[2] = On("stop", "manager")
      BY <1>1, <2>3, Zenon DEF StopsBoth, z
    <3>2. Gone("viewer")'
      BY <3>1, Zenon DEF Windows
    <3>3. Len(q) = 2 /\ 1 \in 1 .. Len(q) /\ 1 + 1 = 2
      BY <1>2, <3>1, SMT
    <3>4. q[1] = job[2]
      BY <1>1, <3>3, Zenon DEF q
    <3> QED
      BY <3>1, <3>2, <3>3, <3>4, Zenon DEF StopsManager, q
  <2>4. CASE DrainsViewer
    <3>1. /\ z >= 3 /\ job[z - 2] = On("drain", "viewer")
          /\ job[z - 1] = On("stop", "manager")
      BY <2>4, Zenon DEF DrainsViewer, z
    <3>2. CASE z = 3
      <4>1. z - 2 = 1 /\ z - 1 = 2 /\ Len(q) = 2 /\ 1 \in 1 .. Len(q) /\ 1 + 1 = 2
        BY <1>2, <3>2, SMT
      <4>2. Head(job) = On("drain", "viewer") /\ q[1] = On("stop", "manager")
        BY <1>1, <3>1, <4>1, Zenon DEF q
      <4>3. Gone("viewer")'
        BY <4>2, Zenon DEF Windows
      <4> QED
        BY <4>1, <4>2, <4>3, Zenon DEF StopsManager, q
    <3>3. CASE z # 3
      <4>1. /\ Len(q) - 2 \in 1 .. Len(q) /\ Len(q) - 1 \in 1 .. Len(q)
            /\ (Len(q) - 2) + 1 = z - 2 /\ (Len(q) - 1) + 1 = z - 1 /\ Len(q) >= 3
        BY <1>2, <3>1, <3>3, SMT
      <4>2. q[Len(q) - 2] = job[z - 2] /\ q[Len(q) - 1] = job[z - 1]
        <5>1. /\ q[Len(q) - 2] = job[(Len(q) - 2) + 1]
              /\ q[Len(q) - 1] = job[(Len(q) - 1) + 1]
          BY <1>1, <4>1, Zenon DEF q
        <5> QED
          BY <4>1, <5>1, Zenon
      <4> QED
        BY <3>1, <4>1, <4>2, Zenon DEF DrainsViewer, q
    <3> QED
      BY <3>2, <3>3, Zenon
  <2>5. CASE StopsManager
    <3>1. z = 2 /\ Head(job) = On("stop", "manager") /\ Gone("viewer")
      BY <1>1, <2>5, Zenon DEF StopsManager, z
    <3>2. Head(job).do # "open"
      BY <3>1, SMT DEF On
    <3>3. Gone("viewer")' /\ Gone("manager")'
      BY <3>1, <3>2, Zenon DEF Windows
    <3>4. Len(q) = 1
      BY <1>2, <3>1, SMT
    <3> QED
      BY <3>3, <3>4, Zenon DEF BothGone
  <2>6. CASE DrainsManager
    <3>1. /\ z >= 2 /\ job[z - 1] = On("drain", "manager") /\ Gone("viewer")
          /\ \A i \in 1 .. Len(job) : job[i].do # "open"
      BY <2>6, Zenon DEF DrainsManager, z
    <3>2. Gone("viewer")'
      BY <1>1, <3>1, Zenon
    <3>3. CASE z = 2
      <4>1. z - 1 = 1 /\ Len(q) = 1
        BY <1>2, <3>3, SMT
      <4>2. Head(job) = On("drain", "manager")
        BY <1>1, <3>1, <4>1, Zenon
      <4>3. Gone("manager")'
        BY <4>2, Zenon DEF Windows
      <4> QED
        BY <3>2, <4>1, <4>3, Zenon DEF BothGone
    <3>4. CASE z # 2
      <4>1. /\ Len(q) - 1 \in 1 .. Len(q) /\ (Len(q) - 1) + 1 = z - 1
            /\ Len(q) >= 2
        BY <1>2, <3>1, <3>4, SMT
      <4>2. q[Len(q) - 1] = job[z - 1]
        <5>1. q[Len(q) - 1] = job[(Len(q) - 1) + 1]
          BY <1>1, <4>1, Zenon DEF q
        <5> QED
          BY <4>1, <5>1, Zenon
      <4>3. ASSUME NEW i \in 1 .. Len(q) PROVE q[i].do # "open"
        <5>1. i + 1 \in 1 .. Len(job) /\ q[i] = job[i + 1]
          BY <1>1, <4>3, Zenon DEF q
        <5> QED
          BY <3>1, <5>1, SMT
      <4> QED
        BY <3>1, <3>2, <4>1, <4>2, <4>3, Zenon DEF DrainsManager, q
    <3> QED
      BY <3>3, <3>4, Zenon
  <2> QED
    BY <2>2, <2>3, <2>4, <2>5, <2>6, Zenon
<1>5. up
  BY Zenon DEF LastStep
<1>6. up'
  BY <1>5
<1> QED
  BY <1>3, <1>4, <1>6, Zenon DEF LastStep, q

\* A step after which the others remain to be done.
LEMMA PopsProtocol ==
  ASSUME TypeOK, Protocol, NEW f, Thinned(f), job # << >>, job' = Tail(job),
         Head(job).do \notin {"stop", "drain", "lastsave"},
         task' = task, up' = up,
         \A v \in Windows : \/ sub'[v] = sub[v]
                            \/ /\ Head(job) = On("reply", v)
                               /\ sub'[v] \notin {"none", "leaving", "ended"}
  PROVE  Protocol'
<1>1. /\ job \in Seq(Steps) /\ LastStep /\ FromViewer /\ Announces(job)
      /\ \A v \in Windows : OneRequest(v) /\ Ends(v)
  BY Zenon DEF TypeOK, Protocol
<1>2. /\ Len(job) \in Nat /\ Len(job) > 0 /\ Len(job') = Len(job) - 1
      /\ Head(job) = job[1] /\ 1 \in 1 .. Len(job)
      /\ \A i \in 1 .. Len(job') : i + 1 \in 1 .. Len(job) /\ job'[i] = job[i + 1]
  <2>1. /\ Len(job) \in Nat /\ Len(job) > 0
        /\ Len(job') = Len(job) - 1 /\ Head(job) = job[1]
        /\ \A i \in 1 .. Len(job') : /\ i + 1 \in 1 .. Len(job)
                                     /\ job'[i] = job[i + 1]
    BY <1>1, Popped
  <2> QED
    BY <2>1, SMT
<1>3. \A v \in Windows : OneRequest(v)'
  BY PopsOneRequest, Zenon
<1>4. \A v \in Windows :
        \/ sub'[v] = sub[v]
        \/ /\ sub[v] \notin {"none", "leaving", "ended"}
           /\ sub'[v] \notin {"none", "leaving", "ended"}
  <2>1. \A v \in Windows : Head(job) = On("reply", v) => sub[v] \in Waits
    BY <1>1, <1>2, Zenon DEF OneRequest
  <2>2. \A x \in Waits : x \notin {"none", "leaving", "ended"}
    BY SMT DEF Waits
  <2> QED
    BY <2>1, <2>2, Zenon
<1>5. ASSUME NEW v \in Windows PROVE Ends(v)'
  <2>1. task[v] \/ Gone(v)
    BY NotDraining, SMT
  <2>2. Ends(v) /\ task'[v] = task[v]
    BY <1>1, Zenon
  <2> QED
    BY <1>4, <2>1, <2>2, KeepsEnds, Zenon
<1>6. FromViewer'
  BY <1>1, ThinnedFromViewer, Zenon
<1>7. Announces(job)'
  <2>1. Announces(Tail(job))
    BY <1>1, AnnouncesTail
  <2> QED
    BY <2>1
<1>8. LastStep'
  <2>1. Gone("viewer") => Gone("viewer")'
    BY <1>4, Zenon DEF Gone, Windows
  <2>2. /\ \A v \in Windows : Head(job) \notin {On("stop", v), On("drain", v)}
        /\ Head(job).do # "lastsave"
    BY SMT DEF On
  <2> QED
    BY <1>1, <2>1, <2>2, PopsLastStep, Zenon
<1> QED
  BY <1>3, <1>5, <1>6, <1>7, <1>8, Zenon DEF Protocol

\* Another step takes the place of the first one.
LEMMA Replaced ==
  ASSUME job \in Seq(Steps), job # << >>, NEW s \in Steps,
         job' = <<s>> \o Tail(job)
  PROVE  /\ job' \in Seq(Steps) /\ Len(job) \in Nat /\ Len(job) > 0
         /\ Len(job') = Len(job) /\ Head(job) = job[1] /\ job'[1] = s
         /\ job' # << >> /\ Head(job') = s
         /\ \A i \in 1 .. Len(job) : i # 1 => job'[i] = job[i]
<1> DEFINE a == <<s>>
           t == Tail(job)
<1>1. Len(job) \in Nat /\ Len(job) > 0 /\ Head(job) = job[1]
  BY SMT
<1>2. /\ t \in Seq(Steps) /\ Len(t) = Len(job) - 1
      /\ \A i \in 1 .. Len(t) : t[i] = job[i + 1]
  BY HeadTailProperties
<1>3. a \in Seq(Steps) /\ Len(a) = 1 /\ a[1] = s
  BY SingleStep
<1>4. job' = a \o t
  OBVIOUS
<1> HIDE DEF a, t
<1>5. /\ a \o t \in Seq(Steps) /\ Len(a \o t) = Len(a) + Len(t)
      /\ \A i \in 1 .. Len(a) + Len(t) :
           (a \o t)[i] = IF i <= Len(a) THEN a[i] ELSE t[i - Len(a)]
  <2>1. a \in Seq(Steps) /\ t \in Seq(Steps)
    BY <1>2, <1>3
  <2> QED
    BY <2>1, ConcatProperties
<1>6. /\ job' \in Seq(Steps) /\ Len(job') = Len(job)
      /\ \A i \in 1 .. Len(job) : job'[i] = IF i <= 1 THEN a[i] ELSE t[i - 1]
  <2>1. Len(a) + Len(t) = Len(job) /\ Len(a) = 1
    BY <1>1, <1>2, <1>3, SMT
  <2> QED
    BY <1>4, <1>5, <2>1, Zenon
<1>7. job'[1] = s
  BY <1>1, <1>3, <1>6, SMT
<1>8. ASSUME NEW i \in 1 .. Len(job), i # 1 PROVE job'[i] = job[i]
  <2>1. ~(i <= 1) /\ i - 1 \in 1 .. Len(t) /\ (i - 1) + 1 = i
    BY <1>1, <1>2, <1>8, SMT
  <2>2. t[i - 1] = job[(i - 1) + 1]
    BY <1>2, <2>1, Zenon
  <2> QED
    BY <1>6, <2>1, <2>2, SMT
<1>9. job' # << >> /\ Head(job') = s
  BY <1>1, <1>6, <1>7, SMT
<1> QED
  BY <1>1, <1>6, <1>7, <1>8, <1>9, Zenon

\* Stoptask of a window with a task, and Asetattrssync to one.
LEMMA ReplacesProtocol ==
  ASSUME TypeOK, Protocol, job # << >>, NEW s \in Steps,
         job' = <<s>> \o Tail(job), UNCHANGED <<sub, port, task, up>>,
         \/ \E w \in Windows : Head(job) = On("stop", w) /\ s = On("drain", w)
         \/ Head(job).do = "tell" /\ s.do = "await"
  PROVE  Protocol'
<1>1. /\ job \in Seq(Steps) /\ port \in Seq(Msgs)
      /\ LastStep /\ FromViewer /\ Announces(job)
      /\ \A v \in Windows : OneRequest(v) /\ Ends(v)
  BY Zenon DEF TypeOK, Msgs, Protocol
<1>2. /\ Len(job) \in Nat /\ Len(job) > 0 /\ 1 \in 1 .. Len(job)
      /\ Len(job') = Len(job) /\ Head(job) = job[1] /\ job'[1] = s
      /\ \A i \in 1 .. Len(job) : i # 1 => job'[i] = job[i]
  <2>1. /\ Len(job) \in Nat /\ Len(job) > 0
        /\ Len(job') = Len(job) /\ Head(job) = job[1] /\ job'[1] = s
        /\ \A i \in 1 .. Len(job) : i # 1 => job'[i] = job[i]
    BY <1>1, Replaced
  <2> QED
    BY <2>1, SMT
<1>3. /\ sub' = sub /\ port' = port /\ task' = task /\ up' = up
      /\ \A v : Gone(v)' <=> Gone(v)
  BY Zenon DEF Gone
<1>4. /\ Head(job).do # "drain" /\ Head(job).do # "lastsave" /\ Head(job).do # "open"
      /\ s.do \in {"drain", "await"}
  BY SMT DEF On
<1>5. ASSUME NEW v \in Windows PROVE OneRequest(v)'
  <2>1. \A i \in 1 .. Len(job') : job'[i] = On("reply", v) =>
          i \in 1 .. Len(job) /\ job[i] = On("reply", v)
    <3>1. s # On("reply", v)
      BY <1>4, SMT DEF On
    <3> QED
      BY <1>2, <3>1, SMT
  <2> QED
    BY <1>1, <1>3, <2>1, Zenon DEF OneRequest
<1>6. ASSUME NEW v \in Windows PROVE Ends(v)'
  <2>1. Ends(v) /\ (task[v] \/ Gone(v))
    BY <1>1, <1>4, NotDraining, Zenon
  <2> QED
    BY <1>3, <2>1, Zenon DEF Ends, Silent
<1>7. FromViewer'
  BY <1>1, <1>3, Zenon DEF FromViewer
<1>8. Announces(job)'
  <2>1. Announces(Tail(job)) /\ Tail(job) \in Seq(Steps)
    BY <1>1, AnnouncesTail
  <2>2. <<s>> \in Seq(Steps) /\ Len(<<s>>) = 1 /\ <<s>>[1] = s
    BY SingleStep
  <2> DEFINE a == <<s>>
  <2> HIDE DEF a
  <2>3. a \in Seq(Steps) /\ \A i \in 1 .. Len(a) : a[i] = s
    BY <2>2, SMT DEF a
  <2>4. Announces(a)
    <3>1. s.do # "put" /\ s.do \notin Changes
      BY <1>4, SMT DEF Changes
    <3>2. \A i \in 1 .. Len(a) : /\ a[i].do = "put" => a[i].is \in News
                                 /\ a[i].do \notin Changes
      BY <2>3, <3>1, SMT
    <3> QED
      BY <2>3, <3>2, AnnouncesPlain
  <2>5. Announces(a \o Tail(job))
    BY <2>1, <2>3, <2>4, AnnouncesConcat
  <2> QED
    BY <2>5 DEF a
<1>9. ASSUME NEW i \in 1 .. Len(job'), job'[i].do = "lastsave"
      PROVE  i = Len(job')
  <2>1. i # 1
    BY <1>2, <1>4, <1>9, SMT
  <2> QED
    BY <1>1, <1>2, <1>9, <2>1, Zenon DEF LastStep
<1>10. ASSUME Len(job') > 0, job'[Len(job')].do = "lastsave"
       PROVE  \/ StopsBoth' \/ DrainsViewer' \/ StopsManager' \/ DrainsManager'
              \/ Len(job') = 1 /\ BothGone'
  <2>1. Len(job) # 1 /\ job[Len(job)].do = "lastsave"
    <3>1. Len(job) # 1
      BY <1>2, <1>4, <1>10, SMT
    <3> QED
      BY <1>2, <1>10, <3>1, SMT
  <2>2. \/ StopsBoth \/ DrainsViewer \/ StopsManager \/ DrainsManager
    BY <1>1, <1>2, <2>1, Zenon DEF LastStep
  <2>3. CASE StopsBoth
    <3>1. job[1] = On("stop", "viewer") /\ Len(job) = 3 /\ job[2] = On("stop", "manager")
      BY <2>3, Zenon DEF StopsBoth
    <3>2. s = On("drain", "viewer")
      <4>1. Head(job).do = "stop" /\ Head(job).w = "viewer"
        BY <1>2, <3>1, SMT DEF On
      <4>2. PICK w \in Windows : Head(job) = On("stop", w) /\ s = On("drain", w)
        BY <4>1, SMT
      <4>3. w = "viewer"
        BY <4>1, <4>2, SMT DEF On
      <4> QED
        BY <4>2, <4>3
    <3> QED
      <4>1. /\ Len(job') = 3 /\ job'[1] = On("drain", "viewer")
            /\ job'[2] = On("stop", "manager")
        <5>1. 2 \in 1 .. Len(job) /\ 2 # 1
          BY <3>1, SMT
        <5> QED
          BY <1>2, <3>1, <3>2, <5>1, Zenon
      <4>2. Len(job') >= 3 /\ Len(job') - 2 = 1 /\ Len(job') - 1 = 2
        BY <4>1, SMT
      <4> QED
        BY <4>1, <4>2, Zenon DEF DrainsViewer
  <2>4. CASE DrainsViewer
    <3>1. Len(job) # 3
      BY <1>2, <1>4, <2>4, SMT DEF DrainsViewer, On
    <3>2. /\ Len(job) - 2 \in 1 .. Len(job) /\ Len(job) - 2 # 1
          /\ Len(job) - 1 \in 1 .. Len(job) /\ Len(job) - 1 # 1
      BY <1>2, <2>4, <3>1, SMT DEF DrainsViewer
    <3> QED
      BY <1>2, <2>4, <3>2, Zenon DEF DrainsViewer
  <2>5. CASE StopsManager
    <3>1. job[1] = On("stop", "manager") /\ Len(job) = 2 /\ Gone("viewer")
      BY <2>5, Zenon DEF StopsManager
    <3>2. s = On("drain", "manager")
      <4>1. Head(job).do = "stop" /\ Head(job).w = "manager"
        BY <1>2, <3>1, SMT DEF On
      <4>2. PICK w \in Windows : Head(job) = On("stop", w) /\ s = On("drain", w)
        BY <4>1, SMT
      <4>3. w = "manager"
        BY <4>1, <4>2, SMT DEF On
      <4> QED
        BY <4>2, <4>3
    <3>3. \A i \in 1 .. Len(job') : job'[i].do # "open"
      <4>1. \A i \in 1 .. Len(job') : i = 1 \/ i = Len(job')
        <5>1. Len(job') = 2
          BY <1>2, <3>1, Zenon
        <5>2. \A i \in 1 .. 2 : i = 1 \/ i = 2
          BY SMT
        <5> QED
          BY <5>1, <5>2, Zenon
      <4>2. job'[1].do # "open"
        BY <1>2, <1>4, SMT
      <4>3. job'[Len(job')].do # "open"
        BY <1>10, SMT
      <4> QED
        BY <4>1, <4>2, <4>3, Zenon
    <3>4. Len(job') >= 2 /\ job'[Len(job') - 1] = On("drain", "manager")
      <4>1. Len(job') = 2 /\ job'[1] = On("drain", "manager")
        BY <1>2, <3>1, <3>2, Zenon
      <4>2. Len(job') >= 2 /\ Len(job') - 1 = 1
        BY <4>1, SMT
      <4> QED
        BY <4>1, <4>2, Zenon
    <3> QED
      BY <1>3, <3>1, <3>3, <3>4, Zenon DEF DrainsManager
  <2>6. CASE DrainsManager
    <3>1. Len(job) # 2
      BY <1>2, <1>4, <2>6, SMT DEF DrainsManager, On
    <3>2. Len(job) - 1 \in 1 .. Len(job) /\ Len(job) - 1 # 1
      BY <1>2, <2>6, <3>1, SMT DEF DrainsManager
    <3>3. \A i \in 1 .. Len(job') : job'[i].do # "open"
      BY <1>2, <1>4, <2>6, SMT DEF DrainsManager
    <3> QED
      BY <1>2, <1>3, <2>6, <3>2, <3>3, Zenon DEF DrainsManager
  <2> QED
    BY <2>2, <2>3, <2>4, <2>5, <2>6, Zenon
<1>11. LastStep'
  <2>1. up
    BY <1>1, Zenon DEF LastStep
  <2>2. up'
    BY <1>3, <2>1
  <2> QED
    BY <1>9, <1>10, <2>2, Zenon DEF LastStep
<1> QED
  BY <1>5, <1>6, <1>7, <1>8, <1>11, Zenon DEF Protocol

LEMMA PoppedRest ==
  ASSUME TypeOK, Protocol, job # << >>, job' = Tail(job), port' = port
  PROVE  /\ FromViewer' /\ Announces(job)'
         /\ \E f : Thinned(f)
         /\ \A v \in Windows : OneRequest(v) /\ Ends(v)
         /\ LastStep /\ job \in Seq(Steps)
<1>1. /\ job \in Seq(Steps) /\ port \in Seq(Msgs)
      /\ LastStep /\ FromViewer /\ Announces(job)
      /\ \A v \in Windows : OneRequest(v) /\ Ends(v)
  BY Zenon DEF TypeOK, Msgs, Protocol
<1>2. \E f : Thinned(f)
  BY <1>1, SamePort
<1>3. FromViewer'
  BY <1>1, Zenon DEF FromViewer
<1>4. Announces(job)'
  <2>1. Announces(Tail(job))
    BY <1>1, AnnouncesTail
  <2> QED
    BY <2>1
<1> QED
  BY <1>1, <1>2, <1>3, <1>4, Zenon

\* Stoptask of a window without a task.
LEMMA StopProtocol ==
  ASSUME TypeOK, Protocol, Doing("stop"), ~task[Head(job).w],
         job' = Tail(job), UNCHANGED <<sub, port, task, up>>
  PROVE  Protocol'
<1>1. job # << >> /\ Head(job).do = "stop" /\ port' = port
  BY Zenon DEF Doing
<1>2. /\ FromViewer' /\ Announces(job)' /\ LastStep /\ job \in Seq(Steps)
      /\ \A v \in Windows : OneRequest(v) /\ Ends(v)
  BY <1>1, PoppedRest, Zenon
<1>3. PICK f : Thinned(f)
  BY <1>1, PoppedRest, Zenon
<1>4. \A v \in Windows : OneRequest(v)'
  BY <1>1, <1>3, PopsOneRequest, Zenon
<1>5. ASSUME NEW v \in Windows PROVE Ends(v)'
  <2>1. task[v] \/ Gone(v)
    BY <1>1, NotDraining, SMT
  <2> QED
    BY <1>2, <1>3, <2>1, KeepsEnds, Zenon
<1>6. LastStep'
  <2>1. \A v \in Windows : Head(job) \in {On("stop", v), On("drain", v)} =>
          Gone(v)'
    <3>1. ASSUME NEW v \in Windows, Head(job) \in {On("stop", v), On("drain", v)}
          PROVE  Gone(v)'
      <4>1. Head(job).w = v
        BY <3>1, SMT DEF On
      <4>2. task[v] \/ Gone(v)
        BY <1>1, NotDraining, SMT
      <4> QED
        BY <4>1, <4>2, Zenon DEF Gone
    <3> QED
      BY <3>1, Zenon
  <2>2. Gone("viewer") => Gone("viewer")'
    BY Zenon DEF Gone
  <2>3. Head(job).do # "lastsave" /\ up' = up
    BY <1>1, SMT
  <2> QED
    BY <1>1, <1>2, <2>1, <2>2, <2>3, PopsLastStep, Zenon
<1> QED
  BY <1>2, <1>4, <1>5, <1>6, Zenon DEF Protocol

\* The end of Stoptask's wait.
LEMMA DrainProtocol ==
  ASSUME TypeOK, Protocol, Doing("drain"), NEW w \in Windows, w = Head(job).w,
         From(w) = {}, sub[w] = "ended",
         task' = [task EXCEPT ![w] = FALSE],
         sub' = [sub EXCEPT ![w] = "none"],
         job' = Tail(job), UNCHANGED <<port, up>>
  PROVE  Protocol'
<1>1. job # << >> /\ Head(job).do = "drain" /\ port' = port /\ up' = up
  BY Zenon DEF Doing
<1>2. /\ FromViewer' /\ Announces(job)' /\ LastStep /\ job \in Seq(Steps)
      /\ \A v \in Windows : OneRequest(v) /\ Ends(v)
  BY <1>1, PoppedRest, Zenon
<1>3. PICK f : Thinned(f)
  BY <1>1, PoppedRest, Zenon
<1>4. /\ sub'[w] = "none" /\ ~task'[w]
      /\ \A v \in Windows : v # w => sub'[v] = sub[v] /\ task'[v] = task[v]
  BY SMT DEF TypeOK
<1>5. sub[w] \notin Waits
  BY SMT DEF Waits
<1>6. ASSUME NEW v \in Windows PROVE OneRequest(v)'
  BY <1>1, <1>3, <1>4, <1>5, PopsOneRequest, Zenon
<1>7. Ends(w)'
  <2>1. \A i \in 1 .. Len(port') : port'[i].from # w
    <3>1. port \in Seq(Msgs)
      BY Zenon DEF TypeOK, Msgs
    <3>2. \A i \in 1 .. Len(port) : port[i].from # w
      BY <3>1, SMT DEF From
    <3> QED
      BY <1>1, <3>2, Zenon
  <2> QED
    BY <1>4, <2>1, Zenon DEF Ends, Gone, Silent
<1>8. ASSUME NEW v \in Windows, v # w PROVE Ends(v)'
  <2>1. task[v] \/ Gone(v)
    <3>1. Head(job) # On("drain", v)
      BY <1>8, SMT DEF On
    <3> QED
      BY <1>2, <3>1, Zenon DEF Ends
  <2> QED
    BY <1>2, <1>3, <1>4, <1>8, <2>1, KeepsEnds, Zenon
<1>9. LastStep'
  <2>1. \A v \in Windows : Head(job) \in {On("stop", v), On("drain", v)} =>
          Gone(v)'
    <3>1. \A v \in Windows : Head(job) \in {On("stop", v), On("drain", v)} => v = w
      BY SMT DEF On
    <3> QED
      BY <1>4, <3>1, Zenon DEF Gone
  <2>2. Gone("viewer") => Gone("viewer")'
    BY <1>4, Zenon DEF Gone, Windows
  <2>3. Head(job).do # "lastsave"
    BY <1>1, SMT
  <2> QED
    BY <1>1, <1>2, <2>1, <2>2, <2>3, PopsLastStep, Zenon
<1> QED
  BY <1>2, <1>6, <1>7, <1>8, <1>9, Zenon DEF Protocol

\* Starttask of a window without a task.
LEMMA OpenProtocol ==
  ASSUME TypeOK, Protocol, Doing("open"), NEW w \in Windows, w = Head(job).w,
         ~task[w],
         task' = [task EXCEPT ![w] = TRUE],
         sub' = [sub EXCEPT ![w] = "build"],
         job' = Tail(job), UNCHANGED <<port, up>>
  PROVE  Protocol'
<1>1. job # << >> /\ Head(job).do = "open" /\ port' = port /\ up' = up
  BY Zenon DEF Doing
<1>2. /\ FromViewer' /\ Announces(job)' /\ LastStep /\ job \in Seq(Steps)
      /\ \A v \in Windows : OneRequest(v) /\ Ends(v)
  BY <1>1, PoppedRest, Zenon
<1>3. PICK f : Thinned(f)
  BY <1>1, PoppedRest, Zenon
<1>4. /\ sub'[w] = "build" /\ task'[w]
      /\ \A v \in Windows : v # w => sub'[v] = sub[v] /\ task'[v] = task[v]
  BY SMT DEF TypeOK
<1>5. \A v \in Windows : task[v] \/ Gone(v)
  <2>1. Head(job).do # "drain"
    BY <1>1, SMT
  <2> QED
    BY <2>1, NotDraining, Zenon
<1>6. Gone(w) /\ sub[w] \notin Waits
  <2>1. Gone(w)
    BY <1>5, Zenon
  <2>2. "none" \notin Waits
    BY SMT DEF Waits
  <2> QED
    BY <2>1, <2>2, Zenon DEF Gone
<1>7. ASSUME NEW v \in Windows PROVE OneRequest(v)'
  BY <1>1, <1>3, <1>4, <1>6, PopsOneRequest, Zenon
<1>8. Ends(w)'
  <2>1. \A i \in 1 .. Len(port') : port'[i].from # w
    BY <1>1, <1>2, <1>6, Zenon DEF Ends
  <2> QED
    BY <1>4, <2>1, Zenon DEF Ends, Gone
<1>9. ASSUME NEW v \in Windows, v # w PROVE Ends(v)'
  BY <1>2, <1>3, <1>4, <1>5, <1>9, KeepsEnds, Zenon
<1>10. LastStep'
  <2>1. /\ \A v \in Windows : Head(job) \notin {On("stop", v), On("drain", v)}
        /\ Head(job).do # "lastsave"
    BY <1>1, SMT DEF On
  <2> QED
    BY <1>1, <1>2, <2>1, PopsLastStep, Zenon
<1> QED
  BY <1>2, <1>7, <1>8, <1>9, <1>10, Zenon DEF Protocol

\* The last save: nothing is left to do and both windows are gone.
LEMMA LastsaveEnds ==
  ASSUME TypeOK, Protocol, Doing("lastsave")
  PROVE  BothGone /\ Tail(job) = << >>
<1>1. job \in Seq(Steps) /\ job # << >> /\ Head(job).do = "lastsave" /\ LastStep
  BY Zenon DEF TypeOK, Protocol, Doing
<1>2. Len(job) \in Nat /\ Len(job) > 0 /\ Head(job) = job[1] /\ 1 \in 1 .. Len(job)
  BY <1>1, SMT
<1>3. Len(job) = 1
  <2>1. \A i \in 1 .. Len(job) : job[i].do = "lastsave" => i = Len(job)
    BY <1>1, Zenon DEF LastStep
  <2>2. job[1].do = "lastsave"
    BY <1>1, <1>2
  <2>3. 1 = Len(job)
    BY <1>2, <2>1, <2>2, Zenon
  <2> QED
    BY <2>3
<1>4. ~StopsBoth /\ ~DrainsViewer /\ ~StopsManager /\ ~DrainsManager
  BY <1>3, SMT DEF StopsBoth, DrainsViewer, StopsManager, DrainsManager
<1>5. BothGone
  BY <1>1, <1>2, <1>3, <1>4, Zenon DEF LastStep
<1>6. Tail(job) = << >>
  <2>1. Tail(job) \in Seq(Steps) /\ Len(Tail(job)) = 0
    BY <1>1, <1>3, HeadTailProperties, SMT
  <2> QED
    BY <2>1, EmptySeq
<1> QED
  BY <1>5, <1>6

LEMMA LastsaveProtocol ==
  ASSUME TypeOK, Protocol, Doing("lastsave"), job' = Tail(job), up' = FALSE,
         UNCHANGED <<sub, port, task>>
  PROVE  Protocol'
<1>1. job # << >> /\ Head(job).do = "lastsave" /\ port' = port
  BY Zenon DEF Doing
<1>2. /\ FromViewer' /\ Announces(job)' /\ LastStep /\ job \in Seq(Steps)
      /\ \A v \in Windows : OneRequest(v) /\ Ends(v)
  BY <1>1, PoppedRest, Zenon
<1>3. PICK f : Thinned(f)
  BY <1>1, PoppedRest, Zenon
<1>4. \A v \in Windows : OneRequest(v)'
  BY <1>1, <1>3, PopsOneRequest, Zenon
<1>5. ASSUME NEW v \in Windows PROVE Ends(v)'
  <2>1. task[v] \/ Gone(v)
    BY <1>1, NotDraining, SMT
  <2> QED
    BY <1>2, <1>3, <2>1, KeepsEnds, Zenon
<1>6. LastStep'
  <2>1. BothGone /\ Tail(job) = << >>
    BY LastsaveEnds
  <2>2. job' = << >>
    BY <2>1, Zenon
  <2>3. Len(<< >>) = 0 /\ ~(0 > 0) /\ 1 .. 0 = {}
    BY SMT
  <2>4. ~(Len(job') > 0) /\ 1 .. Len(job') = {}
    BY <2>2, <2>3, Zenon
  <2>5. BothGone'
    BY <2>1, Zenon DEF BothGone, Gone
  <2> QED
    BY <2>2, <2>4, <2>5, Zenon DEF LastStep
<1> QED
  BY <1>2, <1>4, <1>5, <1>6, Zenon DEF Protocol

-----------------------------------------------------------------------------
(* Commands of the user and of ARexx programs.                             *)

Quiet(c) == \A i \in 1 .. Len(c) : c[i].do # "reply" /\ c[i].do # "lastsave"

LEMMA RenewedCommand ==
  ASSUME NEW do \in {"reread", "replace"}
  PROVE  Renewed(do) \in Seq(Steps) /\ Announces(Renewed(do)) /\ Quiet(Renewed(do))
<1> DEFINE r == Renewed(do)
<1>1. /\ r \in Seq(Steps) /\ Len(r) = 5
      /\ r[1] = Send("tell", "viewer", "dispose")
      /\ r[2] = Send("tell", "manager", "dispose")
      /\ r[3] = Do(do)
      /\ r[4] = Send("put", "viewer", "newlist")
      /\ r[5] = Send("put", "manager", "newlist")
  BY RenewedSteps
<1> HIDE DEF r
<1>2. /\ r[1].do = "tell" /\ r[2].do = "tell" /\ r[3].do = do
      /\ r[4].do = "put" /\ r[4].w = "viewer" /\ r[4].is = "newlist"
      /\ r[5].do = "put" /\ r[5].w = "manager" /\ r[5].is = "newlist"
  BY <1>1, SMT DEF Do, Send
<1>3. /\ \A i \in 1 .. Len(r) : i \in {1, 2, 3, 4, 5}
      /\ {4, 5} \subseteq 1 .. Len(r) /\ 3 < 4 /\ 3 < 5
  BY <1>1, SMT
<1>4. \A i \in 1 .. Len(r) : r[i].do = "put" => r[i].is \in News
  BY <1>2, <1>3, SMT DEF News
<1>5. ASSUME NEW i \in 1 .. Len(r), NEW w \in Windows, r[i].do \in Changes
      PROVE  \E j \in 1 .. Len(r) : i < j /\ r[j].do = "put" /\ r[j].w = w
  <2>1. i = 3
    BY <1>2, <1>3, <1>5, SMT DEF Changes
  <2>2. w = "viewer" \/ w = "manager"
    BY Zenon DEF Windows
  <2> QED
    BY <1>2, <1>3, <2>1, <2>2, Zenon
<1>6. Announces(r)
  BY <1>4, <1>5, Zenon DEF Announces
<1>7. Quiet(r)
  BY <1>2, <1>3, SMT DEF Quiet
<1> QED
  BY <1>1, <1>6, <1>7 DEF r

LEMMA AddCommand ==
  ASSUME NEW is \in News
  PROVE  /\ Addtohotlist(is) \in Seq(Steps) /\ Announces(Addtohotlist(is))
         /\ Quiet(Addtohotlist(is))
<1> DEFINE r == Addtohotlist(is)
<1>1. /\ r \in Seq(Steps) /\ Len(r) = 4
      /\ r[1] = Do("add")
      /\ r[2] = Send("put", "viewer", is)
      /\ r[3] = Send("put", "manager", is)
      /\ r[4] = Do("save")
  BY AddtohotlistSteps
<1> HIDE DEF r
<1>2. /\ r[1].do = "add" /\ r[4].do = "save"
      /\ r[2].do = "put" /\ r[2].w = "viewer" /\ r[2].is = is
      /\ r[3].do = "put" /\ r[3].w = "manager" /\ r[3].is = is
  BY <1>1, SMT DEF Do, Send
<1>3. /\ \A i \in 1 .. Len(r) : i \in {1, 2, 3, 4}
      /\ {2, 3} \subseteq 1 .. Len(r) /\ 1 < 2 /\ 1 < 3
  BY <1>1, SMT
<1>4. \A i \in 1 .. Len(r) : r[i].do = "put" => r[i].is \in News
  BY <1>2, <1>3, SMT
<1>5. ASSUME NEW i \in 1 .. Len(r), NEW w \in Windows, r[i].do \in Changes
      PROVE  \E j \in 1 .. Len(r) : i < j /\ r[j].do = "put" /\ r[j].w = w
  <2>1. i = 1
    BY <1>2, <1>3, <1>5, SMT DEF Changes
  <2>2. w = "viewer" \/ w = "manager"
    BY Zenon DEF Windows
  <2> QED
    BY <1>2, <1>3, <2>1, <2>2, Zenon
<1>6. Announces(r)
  BY <1>4, <1>5, Zenon DEF Announces
<1>7. Quiet(r)
  BY <1>2, <1>3, SMT DEF Quiet
<1> QED
  BY <1>1, <1>6, <1>7 DEF r

LEMMA DeinstallCommand ==
  LET c == Deinstallhotwindow
  IN  /\ c \in Seq(Steps) /\ Announces(c) /\ Len(c) = 3
      /\ c[1] = On("stop", "viewer") /\ c[2] = On("stop", "manager")
      /\ \A i \in 1 .. Len(c) :
           /\ c[i].do # "reply"
           /\ c[i].do = "lastsave" => i = Len(c)
<1> DEFINE c == Deinstallhotwindow
<1>1. /\ On("stop", "viewer") \in Steps /\ On("stop", "manager") \in Steps
      /\ Do("lastsave") \in Steps
  <2>1. "viewer" \in Windows /\ "manager" \in Windows
    BY Zenon DEF Windows
  <2> QED
    BY <2>1, StepForms, Zenon
<1>2. /\ c \in Seq(Steps) /\ Len(c) = 3
      /\ c[1] = On("stop", "viewer") /\ c[2] = On("stop", "manager")
      /\ c[3] = Do("lastsave")
  BY <1>1, SMT DEF Deinstallhotwindow
<1> HIDE DEF c
<1>3. c[1].do = "stop" /\ c[2].do = "stop" /\ c[3].do = "lastsave"
  BY <1>2, SMT DEF On, Do
<1>4. \A i \in 1 .. Len(c) : i \in {1, 2, 3}
  BY <1>2, SMT
<1>5. \A i \in 1 .. Len(c) : c[i].do # "put" /\ c[i].do \notin Changes
  BY <1>3, <1>4, SMT DEF Changes
<1>6. Announces(c)
  BY <1>2, <1>5, AnnouncesPlain, Zenon
<1>7. \A i \in 1 .. Len(c) : /\ c[i].do # "reply"
                             /\ c[i].do = "lastsave" => i = Len(c)
  BY <1>2, <1>3, <1>4, SMT
<1> QED
  BY <1>2, <1>6, <1>7, Zenon DEF c

LEMMA CommandIs ==
  ASSUME NEW c \in Commands
  PROVE  \/ c = Deinstallhotwindow
         \/ c \in Seq(Steps) /\ Announces(c) /\ Quiet(c)
<1>1. ASSUME NEW s \in Steps, s.do \in {"save", "open", "stop"}, c = <<s>>
      PROVE  c \in Seq(Steps) /\ Announces(c) /\ Quiet(c)
  <2>1. c \in Seq(Steps) /\ Len(c) = 1 /\ c[1] = s
    BY <1>1, SingleStep
  <2>2. \A i \in 1 .. Len(c) : c[i] = s
    BY <2>1, SMT
  <2>3. /\ s.do # "put" /\ s.do \notin Changes
        /\ s.do # "reply" /\ s.do # "lastsave"
    BY <1>1, SMT DEF Changes
  <2>4. /\ \A i \in 1 .. Len(c) : c[i].do # "put" /\ c[i].do \notin Changes
        /\ \A i \in 1 .. Len(c) : c[i].do # "reply" /\ c[i].do # "lastsave"
    BY <2>2, <2>3, SMT
  <2>5. Announces(c)
    BY <2>1, <2>4, AnnouncesPlain, Zenon
  <2> QED
    BY <2>1, <2>4, <2>5, Zenon DEF Quiet
<1>2. CASE c = Addtohotlist("addentry") \/ c = Addtohotlist("newlist")
  BY <1>2, AddCommand, Zenon DEF News
<1>3. CASE c = Restorehotlist \/ c = Sethotlistcontents
  BY <1>3, RenewedCommand, Zenon DEF Restorehotlist, Sethotlistcontents
<1>4. CASE c = <<Do("save")>>
  <2>1. Do("save") \in Steps /\ Do("save").do = "save"
    BY StepForms, Zenon DEF Do
  <2> QED
    BY <1>1, <1>4, <2>1, Zenon
<1>5. ASSUME NEW w \in Windows, c = <<On("open", w)>> \/ c = <<On("stop", w)>>
      PROVE  c \in Seq(Steps) /\ Announces(c) /\ Quiet(c)
  <2>1. /\ On("open", w) \in Steps /\ On("open", w).do = "open"
        /\ On("stop", w) \in Steps /\ On("stop", w).do = "stop"
    BY StepForms, Zenon DEF On
  <2> QED
    BY <1>1, <1>5, <2>1, Zenon
<1>6. \/ c \in {Addtohotlist("addentry"), Addtohotlist("newlist"), <<Do("save")>>,
                 Restorehotlist, Sethotlistcontents, Deinstallhotwindow}
      \/ c \in {<<On("open", w)>> : w \in Windows}
      \/ c \in {<<On("stop", w)>> : w \in Windows}
  BY DEF Commands
<1>7. \/ c = Addtohotlist("addentry") \/ c = Addtohotlist("newlist")
      \/ c = <<Do("save")>> \/ c = Restorehotlist \/ c = Sethotlistcontents
      \/ c = Deinstallhotwindow
      \/ \E w \in Windows : c = <<On("open", w)>> \/ c = <<On("stop", w)>>
  BY <1>6, Zenon
<1>8. CASE \E w \in Windows : c = <<On("open", w)>> \/ c = <<On("stop", w)>>
  BY <1>5, <1>8
<1> QED
  BY <1>2, <1>3, <1>4, <1>7, <1>8

LEMMA CommandProtocol ==
  ASSUME TypeOK, Protocol, Command
  PROVE  Protocol' /\ job' \in Seq(Steps)
<1>1. /\ up /\ job = << >> /\ job' \in Commands
      /\ sub' = sub /\ port' = port /\ task' = task /\ up' = up
  BY Zenon DEF Command
<1>2. /\ port \in Seq(Msgs) /\ FromViewer
      /\ \A v \in Windows : OneRequest(v) /\ Ends(v)
  BY Zenon DEF TypeOK, Msgs, Protocol
<1>3. \/ job' = Deinstallhotwindow
      \/ job' \in Seq(Steps) /\ Announces(job') /\ Quiet(job')
  BY <1>1, CommandIs
<1>4. /\ job' \in Seq(Steps) /\ Announces(job')
      /\ \A i \in 1 .. Len(job') :
           /\ job'[i].do # "reply"
           /\ job'[i].do = "lastsave" => i = Len(job') /\ StopsBoth'
  <2>1. CASE job' = Deinstallhotwindow
    BY <2>1, DeinstallCommand, Zenon DEF StopsBoth
  <2>2. CASE job' \in Seq(Steps) /\ Announces(job') /\ Quiet(job')
    BY <2>2, Zenon DEF Quiet
  <2> QED
    BY <1>3, <2>1, <2>2, Zenon
<1>5. ASSUME NEW v \in Windows PROVE OneRequest(v)'
  <2>1. \A i \in 1 .. Len(job') : job'[i] # On("reply", v)
    BY <1>4, SMT DEF On
  <2> QED
    BY <1>1, <1>2, <2>1, Zenon DEF OneRequest
<1>6. ASSUME NEW v \in Windows PROVE Ends(v)'
  <2>1. Ends(v) /\ (task[v] \/ Gone(v))
    BY <1>1, <1>2, NotDraining, Zenon
  <2> QED
    BY <1>1, <2>1, Zenon DEF Ends, Silent, Gone
<1>7. FromViewer'
  BY <1>1, <1>2, Zenon DEF FromViewer
<1>8. LastStep'
  <2>1. up'
    BY <1>1
  <2>2. Len(job') > 0 => Len(job') \in 1 .. Len(job')
    BY <1>4, SMT
  <2> QED
    BY <1>4, <2>1, <2>2, Zenon DEF LastStep
<1>9. Announces(job)'
  BY <1>4
<1> QED
  BY <1>4, <1>5, <1>6, <1>7, <1>8, <1>9, Zenon DEF Protocol

LEMMA InitProtocol ==
  ASSUME Init
  PROVE  Protocol
<1>1. /\ port = << >> /\ job = << >> /\ up = TRUE
      /\ \A w \in Windows : sub[w] = "none" /\ task[w] = FALSE
  BY Zenon DEF Init
<1>2. 1 .. Len(port) = {} /\ 1 .. Len(job) = {} /\ ~(Len(job) > 0)
  <2>1. Len(<< >>) = 0 /\ 1 .. 0 = {} /\ ~(0 > 0)
    BY SMT
  <2> QED
    BY <1>1, <2>1, Zenon
<1>3. \A w \in Windows : OneRequest(w) /\ Ends(w)
  BY <1>1, <1>2, Zenon DEF OneRequest, Ends, Gone, Silent
<1>4. FromViewer /\ LastStep /\ Announces(job)
  BY <1>1, <1>2, Zenon DEF FromViewer, LastStep, Announces
<1> QED
  BY <1>3, <1>4, Zenon DEF Protocol

-----------------------------------------------------------------------------
(* What the windows do keeps the protocol.                                 *)

LEMMA MovesSilently ==
  ASSUME TypeOK, Protocol, NEW w \in Windows, NEW s,
         sub' = [sub EXCEPT ![w] = s], UNCHANGED <<port, job, task, up>>,
         sub[w] # "none", s # "none", sub[w] \in Waits => s \in Waits,
         sub[w] \in {"leaving", "ended"} => s \in {"leaving", "ended"}
  PROVE  Protocol' /\ port' \in Seq(Msgs)
<1>1. port \in Seq(Msgs) /\ << >> \in Seq(Msgs) /\ port \o << >> = port
  <2>1. port \in Seq(Msgs)
    BY Zenon DEF TypeOK, Msgs
  <2> QED
    BY <2>1, ConcatEmptySeq, EmptySeq
<1>2. Len(<< >>) = 0 /\ 1 .. 0 = {}
  BY SMT
<1>3. Moves(w, << >>, s)
  BY <1>1, Zenon DEF Moves
<1>4. May(w, << >>, s)
  BY <1>2, Zenon DEF May, Gone
<1>5. Protocol'
  BY <1>1, <1>3, <1>4, WindowMoves
<1> QED
  BY <1>1, <1>5, Zenon

LEMMA MovesUpdate ==
  ASSUME TypeOK, Protocol, NEW w \in Windows, NEW s,
         NEW is \in Async \cup Synchronous,
         sub' = [sub EXCEPT ![w] = s], Update(w, is), UNCHANGED <<job, task, up>>,
         sub[w] \notin {"none", "leaving", "ended"}, s # "none",
         is \in Synchronous => sub[w] \notin Waits /\ s \in Waits,
         sub[w] \in Waits => s \in Waits,
         is = "close" => s = "leaving", is = "manager" => w = "viewer"
  PROVE  Protocol' /\ port' \in Seq(Msgs)
<1> DEFINE m == [from |-> w, is |-> is]
<1>1. m \in Msgs /\ m.from = w /\ m.is = is
  BY MsgForms, Zenon
<1>2. port \in Seq(Msgs) /\ port' = Append(port, m)
  BY Zenon DEF TypeOK, Msgs, Update
<1> HIDE DEF m
<1>3. port' = port \o <<m>> /\ <<m>> \in Seq(Msgs) /\ Len(<<m>>) = 1 /\ <<m>>[1] = m
  BY <1>1, <1>2, AppendIsConcat, SMT
<1>4. port' \in Seq(Msgs)
  BY <1>1, <1>2, SMT
<1>5. \A i \in 1 .. Len(<<m>>) : <<m>>[i] = m
  BY <1>3, SMT
<1>6. Moves(w, <<m>>, s)
  BY <1>3, Zenon DEF Moves
<1>7. May(w, <<m>>, s)
  BY <1>1, <1>3, <1>5, Zenon DEF May, Gone
<1>8. Protocol'
  BY <1>3, <1>6, <1>7, WindowMoves
<1> QED
  BY <1>4, <1>8, Zenon

LEMMA MovesAnswers ==
  ASSUME TypeOK, Protocol, NEW w \in Windows, NEW s, NEW news \in Seq(Msgs),
         sub' = [sub EXCEPT ![w] = s], port' = port \o news,
         UNCHANGED <<job, task, up>>,
         \A i \in 1 .. Len(news) : news[i].from = w /\ news[i].is = "answer",
         sub[w] # "none", s # "none", sub[w] \in Waits => s \in Waits,
         sub[w] \in {"leaving", "ended"} => s \in {"leaving", "ended"}
  PROVE  Protocol' /\ port' \in Seq(Msgs)
<1>1. port \in Seq(Msgs)
  BY Zenon DEF TypeOK, Msgs
<1>2. Moves(w, news, s)
  BY Zenon DEF Moves
<1>3. "answer" \notin Synchronous /\ "answer" # "close" /\ "answer" # "manager"
  BY Zenon DEF Synchronous
<1>4. May(w, news, s)
  BY <1>3, Zenon DEF May, Gone
<1>5. Protocol'
  BY <1>2, <1>4, WindowMoves
<1>6. port' \in Seq(Msgs)
  BY <1>1, Sent
<1> QED
  BY <1>5, <1>6, Zenon

\* The subtask stays where it is.
LEMMA SameSub ==
  ASSUME TypeOK, NEW w \in Windows, sub' = sub
  PROVE  sub' = [sub EXCEPT ![w] = sub[w]]
BY Zenon DEF TypeOK

LEMMA WindowProtocol ==
  ASSUME TypeOK, Protocol, NEW w \in Windows, WindowStep(w)
  PROVE  Protocol' /\ port' \in Seq(Msgs)
<1>1. CASE Build(w)
  <2>1. /\ sub[w] = "build" /\ sub' = [sub EXCEPT ![w] = "loop"]
        /\ UNCHANGED <<port, job, task, up>>
    BY <1>1, Zenon DEF Build, Goto, main
  <2> QED
    BY <2>1, MovesSilently, Zenon DEF Waits
<1>2. CASE BuildFails(w)
  <2>1. /\ sub[w] = "build" /\ sub' = [sub EXCEPT ![w] = "leaving"]
        /\ Update(w, "close") /\ UNCHANGED <<job, task, up>>
    BY <1>2, Zenon DEF BuildFails, Goto, main
  <2> QED
    BY <2>1, MovesUpdate, Zenon DEF Waits, Async, Synchronous
<1>3. CASE Handletaskmsg(w)
  <2> DEFINE m == Head(inbox[w])
             a == [from |-> w, is |-> "answer", id |-> m.id]
  <2>1. /\ sub[w] = "loop" /\ sub' = sub /\ inbox[w] # << >>
        /\ port' = IF m.id = 0 THEN port ELSE Append(port, a)
        /\ UNCHANGED <<job, task, up>>
    BY <1>3, Zenon DEF Handletaskmsg, main
  <2>2. sub' = [sub EXCEPT ![w] = sub[w]]
    BY <2>1, SameSub
  <2>3. CASE m.id = 0
    <3>1. port' = port
      BY <2>1, <2>3
    <3> QED
      BY <2>1, <2>2, <3>1, MovesSilently, Zenon DEF Waits
  <2>4. CASE m.id # 0
    <3>1. inbox[w] \in Seq(Orders) /\ port \in Seq(Msgs)
      BY Zenon DEF TypeOK, Msgs
    <3>2. m \in Orders
      BY <2>1, <3>1, SMT
    <3>3. m.id \in Nat
      BY <3>2, SMT DEF Orders
    <3>4. a \in Msgs /\ a.from = w /\ a.is = "answer"
      BY <3>3, MsgForms, Zenon
    <3>5. port' = Append(port, a)
      BY <2>1, <2>4, Zenon
    <3> HIDE DEF a
    <3>6. /\ port' = port \o <<a>> /\ <<a>> \in Seq(Msgs)
          /\ Len(<<a>>) = 1 /\ <<a>>[1] = a
      BY <3>1, <3>4, <3>5, AppendIsConcat, SMT
    <3>7. \A i \in 1 .. Len(<<a>>) : <<a>>[i].from = w /\ <<a>>[i].is = "answer"
      BY <3>4, <3>6, SMT
    <3> QED
      BY <2>1, <2>2, <3>6, <3>7, MovesAnswers, Zenon DEF Waits
  <2> QED
    BY <2>3, <2>4
<1>4. CASE Handlewindow(w)
  <2>1. /\ sub[w] = "loop" /\ sub' = [sub EXCEPT ![w] = "events"]
        /\ UNCHANGED <<port, job, task, up>>
    BY <1>4, Zenon DEF Handlewindow, Goto, main
  <2> QED
    BY <2>1, MovesSilently, Zenon DEF Waits
<1>5. CASE Lastevent(w)
  <2>1. /\ sub[w] = "events" /\ sub' = [sub EXCEPT ![w] = "loop"]
        /\ UNCHANGED <<port, job, task, up>>
    BY <1>5, Zenon DEF Lastevent, Goto, main
  <2> QED
    BY <2>1, MovesSilently, Zenon DEF Waits
<1>6. CASE Asked(w)
  <2>1. /\ sub[w] = "asked" /\ sub' = [sub EXCEPT ![w] = "events"]
        /\ UNCHANGED <<port, job, task, up>>
    BY <1>6, Zenon DEF Asked, Goto, main
  <2> QED
    BY <2>1, MovesSilently, Zenon DEF Waits
<1>7. CASE w = "manager" /\ Saved
  <2>1. /\ sub[w] = "saved" /\ sub' = [sub EXCEPT ![w] = "events"]
        /\ UNCHANGED <<port, job, task, up>>
    BY <1>7, Zenon DEF Saved, Goto, main
  <2> QED
    BY <2>1, MovesSilently, Zenon DEF Waits
<1>8. CASE Close(w)
  <2>1. /\ sub[w] \in {"events", "loop"} /\ sub' = [sub EXCEPT ![w] = "closing"]
        /\ Update(w, "dims") /\ UNCHANGED <<job, task, up>>
    BY <1>8, Zenon DEF Close, Event, Goto, main
  <2> QED
    BY <2>1, MovesUpdate, Zenon DEF Waits, Async, Synchronous
<1>9. CASE Closed(w)
  <2>1. /\ sub[w] = "closed" /\ sub' = [sub EXCEPT ![w] = "leaving"]
        /\ Update(w, "close") /\ UNCHANGED <<job, task, up>>
    BY <1>9, Zenon DEF Closed, Goto, main
  <2> QED
    BY <2>1, MovesUpdate, Zenon DEF Waits, Async, Synchronous
<1>10. CASE Leave(w)
  <2> DEFINE sync == Without(inbox[w], {m \in Orders : m.id = 0})
             news == [i \in DOMAIN sync |->
                        [from |-> w, is |-> "answer", id |-> sync[i].id]]
  <2>1. /\ sub[w] = "leaving" /\ sub' = [sub EXCEPT ![w] = "ended"]
        /\ port' = port \o news /\ UNCHANGED <<job, task, up>>
    BY <1>10, Zenon DEF Leave, Goto, main
  <2>2. inbox[w] \in Seq(Orders)
    BY Zenon DEF TypeOK
  <2>3. sync \in Seq(Orders)
    BY <2>2, WithoutSet
  <2> HIDE DEF sync
  <2>4. /\ DOMAIN sync = 1 .. Len(sync) /\ Len(sync) \in Nat
        /\ \A i \in 1 .. Len(sync) : sync[i].id \in Nat
    <3>1. /\ DOMAIN sync = 1 .. Len(sync) /\ Len(sync) \in Nat
          /\ \A i \in 1 .. Len(sync) : sync[i] \in Orders
      BY <2>3, SMT
    <3>2. \A m \in Orders : m.id \in Nat
      BY SMT DEF Orders
    <3> QED
      BY <3>1, <3>2, Zenon
  <2>5. \A i \in 1 .. Len(sync) :
          [from |-> w, is |-> "answer", id |-> sync[i].id] \in Msgs
    BY <2>4, MsgForms, Zenon
  <2>6. news \in [1 .. Len(sync) -> Msgs]
    BY <2>4, <2>5, Zenon
  <2>7. news \in Seq(Msgs) /\ Len(news) = Len(sync)
    BY <2>4, <2>6, SMT
  <2>8. \A i \in 1 .. Len(news) : news[i].from = w /\ news[i].is = "answer"
    BY <2>4, <2>7, Zenon
  <2> HIDE DEF news
  <2> QED
    BY <2>1, <2>7, <2>8, MovesAnswers, Zenon DEF Waits
<1> QED
  BY <1>1, <1>2, <1>3, <1>4, <1>5, <1>6, <1>7, <1>8, <1>9, <1>10, Zenon
     DEF WindowStep

LEMMA UserProtocol ==
  ASSUME TypeOK, Protocol, NEW w \in Windows, User(w)
  PROVE  Protocol' /\ port' \in Seq(Msgs)
<1>1. ASSUME NEW is \in {"follow", "manager"}, Ask(w, is)
      PROVE  Protocol' /\ port' \in Seq(Msgs)
  <2>1. /\ sub[w] = "events" /\ sub' = [sub EXCEPT ![w] = "asking"]
        /\ Update(w, is) /\ UNCHANGED <<job, task, up>>
        /\ is = "manager" => w = "viewer"
    BY <1>1, Zenon DEF Ask, Event, Goto, main
  <2>2. is \in Async \cup Synchronous /\ is # "close"
    BY Zenon DEF Synchronous
  <2> QED
    BY <2>1, <2>2, MovesUpdate, Zenon DEF Waits
<1>2. CASE Rebuild(w)
  <2>1. /\ sub[w] = "events" /\ sub' = sub /\ UNCHANGED <<port, job, task, up>>
    BY <1>2, Zenon DEF Rebuild, Event, main
  <2>2. sub' = [sub EXCEPT ![w] = sub[w]]
    BY <2>1, SameSub
  <2> QED
    BY <2>1, <2>2, MovesSilently, Zenon DEF Waits
<1>3. CASE (w = "viewer" /\ Showhide) \/ (w = "manager" /\ Edit)
  <2>1. /\ sub[w] = "events" /\ sub' = sub /\ Update(w, "changed")
        /\ UNCHANGED <<job, task, up>>
    BY <1>3, Zenon DEF Showhide, Edit, Event, main
  <2>2. sub' = [sub EXCEPT ![w] = sub[w]]
    BY <2>1, SameSub
  <2> QED
    BY <2>1, <2>2, MovesUpdate, Zenon DEF Waits, Async, Synchronous
<1>4. CASE w = "manager" /\ Revert
  <2>1. /\ sub[w] = "events" /\ sub' = sub /\ Update(w, "restore")
        /\ UNCHANGED <<job, task, up>>
    BY <1>4, Zenon DEF Revert, Event, main
  <2>2. sub' = [sub EXCEPT ![w] = sub[w]]
    BY <2>1, SameSub
  <2> QED
    BY <2>1, <2>2, MovesUpdate, Zenon DEF Waits, Async, Synchronous
<1>5. CASE w = "manager" /\ Save
  <2>1. /\ sub[w] = "events" /\ sub' = [sub EXCEPT ![w] = "saving"]
        /\ Update(w, "save") /\ UNCHANGED <<job, task, up>>
    BY <1>5, Zenon DEF Save, Event, Goto, main
  <2> QED
    BY <2>1, MovesUpdate, Zenon DEF Waits, Async, Synchronous
<1>6. \/ \E is \in {"follow", "manager"} : Ask(w, is)
      \/ Rebuild(w)
      \/ (w = "viewer" /\ Showhide) \/ (w = "manager" /\ Edit)
      \/ w = "manager" /\ Revert
      \/ w = "manager" /\ Save
  BY Zenon DEF User
<1>7. CASE \E is \in {"follow", "manager"} : Ask(w, is)
  BY <1>1, <1>7
<1> QED
  BY <1>2, <1>3, <1>4, <1>5, <1>6, <1>7, Zenon

-----------------------------------------------------------------------------
(* What the main task does keeps the protocol.                             *)

KeepsProtocol == Protocol' /\ job' \in Seq(Steps) /\ port' \in Seq(Msgs)

LEMMA HeadStep ==
  ASSUME TypeOK, job # << >>
  PROVE  /\ job \in Seq(Steps) /\ port \in Seq(Msgs) /\ Tail(job) \in Seq(Steps)
         /\ Head(job) = job[1] /\ Head(job) \in Steps
         /\ Len(job) \in Nat /\ 1 \in 1 .. Len(job)
<1>1. job \in Seq(Steps) /\ port \in Seq(Msgs)
  BY Zenon DEF TypeOK, Msgs
<1> QED
  BY <1>1, SMT

LEMMA SameProtocol ==
  ASSUME Protocol, UNCHANGED <<sub, port, task, job, up>>
  PROVE  Protocol'
<1>0. sub' = sub /\ port' = port /\ task' = task /\ job' = job /\ up' = up
  OBVIOUS
<1>1. ASSUME NEW w \in Windows PROVE OneRequest(w)' /\ Ends(w)'
  <2>1. OneRequest(w)'
    BY <1>0, Zenon DEF Protocol, OneRequest
  <2>2. Ends(w)
    BY Zenon DEF Protocol
  <2>3. Ends(w)'
    BY <1>0, <2>2, Zenon DEF Ends, Gone, Silent
  <2> QED
    BY <2>1, <2>3
<1>2. FromViewer' /\ Announces(job)'
  <2>1. FromViewer /\ Announces(job)
    BY Zenon DEF Protocol
  <2>2. FromViewer'
    BY <1>0, <2>1, Zenon DEF FromViewer
  <2>3. Announces(job)'
    BY <1>0, <2>1
  <2> QED
    BY <2>2, <2>3
<1>3. LastStep'
  <2>1. /\ StopsBoth' <=> StopsBoth
        /\ BothGone' <=> BothGone
    BY Zenon DEF StopsBoth, BothGone, Gone
  <2>2. /\ DrainsViewer' <=> DrainsViewer
        /\ StopsManager' <=> StopsManager
    BY Zenon DEF DrainsViewer, StopsManager, Gone
  <2>3. DrainsManager' <=> DrainsManager
    BY Zenon DEF DrainsManager, Gone
  <2> QED
    BY <2>1, <2>2, <2>3, Zenon DEF Protocol, LastStep
<1> QED
  BY <1>1, <1>2, <1>3, Zenon DEF Protocol

\* A step that takes nothing from the port.
LEMMA PopsQuietly ==
  ASSUME TypeOK, Protocol, job # << >>, job' = Tail(job), port' = port,
         Head(job).do \notin {"stop", "drain", "lastsave"},
         task' = task, up' = up,
         \A v \in Windows : \/ sub'[v] = sub[v]
                            \/ /\ Head(job) = On("reply", v)
                               /\ sub'[v] \notin {"none", "leaving", "ended"}
  PROVE  KeepsProtocol
<1>1. job' \in Seq(Steps) /\ port \in Seq(Msgs)
  BY HeadStep
<1>2. PICK f : Thinned(f)
  BY <1>1, SamePort
<1>3. Protocol'
  BY <1>2, PopsProtocol
<1> QED
  BY <1>1, <1>3, Zenon DEF KeepsProtocol

LEMMA ReplacesQuietly ==
  ASSUME TypeOK, Protocol, job # << >>, NEW s \in Steps,
         job' = <<s>> \o Tail(job), UNCHANGED <<sub, port, task, up>>,
         \/ \E w \in Windows : Head(job) = On("stop", w) /\ s = On("drain", w)
         \/ Head(job).do = "tell" /\ s.do = "await"
  PROVE  KeepsProtocol
<1>1. job \in Seq(Steps) /\ port \in Seq(Msgs)
  BY HeadStep
<1>2. job' \in Seq(Steps)
  BY <1>1, Replaced
<1>3. Protocol'
  BY ReplacesProtocol
<1> QED
  BY <1>1, <1>2, <1>3, Zenon DEF KeepsProtocol

LEMMA TakenProtocol ==
  ASSUME TypeOK, Protocol, NEW k, Takes(k), port[k] \in Msgs,
         Processreply(port[k], job), UNCHANGED <<sub, up>>,
         job # << >> => /\ Head(job).do \in {"await", "drain"}
                        /\ Head(job).w = port[k].from
  PROVE  /\ KeepsProtocol /\ Reacting(k)
         /\ hotchanged' = (hotchanged \/ (port[k].is = "changed" /\ task[port[k].from]))
<1>1. job \in Seq(Steps) /\ hotchanged \in BOOLEAN
  BY Zenon DEF TypeOK
<1>2. /\ job' = Reaction(port[k]) \o job
      /\ hotchanged' = (hotchanged \/ (port[k].is = "changed" /\ task[port[k].from]))
      /\ task' = IF port[k].is = "close" /\ ~Breaking(port[k].from)
                 THEN [task EXCEPT ![port[k].from] = FALSE] ELSE task
  BY <1>1, ProcessreplyIs
<1>3. Reacting(k)
  BY <1>2, Zenon DEF Reacting
<1>4. Protocol'
  BY <1>3, ReactingProtocol
<1>5. Reaction(port[k]) \in Seq(Steps)
  BY ReactionSteps, Zenon DEF Reacts
<1>6. job' \in Seq(Steps)
  BY <1>1, <1>2, <1>5, InFront
<1>7. port' \in Seq(Msgs)
  BY Zenon DEF Takes
<1> QED
  BY <1>2, <1>3, <1>4, <1>6, <1>7, Zenon DEF KeepsProtocol

LEMMA ProcesstaskTakes ==
  ASSUME TypeOK, Protocol, Processtask
  PROVE  /\ KeepsProtocol /\ Reacting(1) /\ port[1] \in Msgs
         /\ hotchanged' = (hotchanged \/ (port[1].is = "changed" /\ task[port[1].from]))
<1>1. /\ job = << >> /\ port # << >> /\ Processreply(Head(port), << >>)
      /\ port' = Tail(port) /\ UNCHANGED <<sub, up>>
  BY Zenon DEF Processtask
<1>2. port \in Seq(Msgs)
  BY Zenon DEF TypeOK, Msgs
<1>3. Takes(1) /\ port[1] = Head(port) /\ port[1] \in Msgs
  BY <1>1, <1>2, TakesHead
<1>4. Processreply(port[1], job)
  BY <1>1, <1>3
<1> QED
  BY <1>1, <1>3, <1>4, TakenProtocol

\* Waitformsg with the answer it waits for.
Answered == /\ Proceed /\ UNCHANGED <<hotchanged, task>>
            /\ port[FirstFrom(Head(job).w)] =
                 [from |-> Head(job).w, is |-> "answer", id |-> Head(job).id]

LEMMA WaitformsgTakes ==
  ASSUME TypeOK, Protocol, Waitformsg, NEW k, k = FirstFrom(Head(job).w)
  PROVE  /\ KeepsProtocol /\ Takes(k) /\ port[k] \in Msgs
         /\ \/ Answered /\ port[k].is = "answer"
            \/ /\ Reacting(k)
               /\ hotchanged' = (hotchanged \/ (port[k].is = "changed" /\ task[port[k].from]))
<1>1. /\ job # << >> /\ Head(job).do = "await" /\ Take(Head(job).w)
      /\ UNCHANGED <<sub, up>>
      /\ Answered \/ Processreply(port[k], job)
  BY Zenon DEF Waitformsg, Doing, Answered
<1>2. job \in Seq(Steps) /\ port \in Seq(Msgs) /\ Tail(job) \in Seq(Steps)
  BY <1>1, HeadStep
<1>3. Takes(k) /\ port[k] \in Msgs /\ port[k].from = Head(job).w
  BY <1>1, <1>2, TakesFirstFrom
<1>4. CASE Answered
  <2>1. PICK f : Thinned(f)
    BY <1>2, <1>3, TakenFromPort
  <2>2. /\ job' = Tail(job) /\ task' = task
        /\ port[k] = [from |-> Head(job).w, is |-> "answer", id |-> Head(job).id]
    BY <1>4, Zenon DEF Answered, Proceed
  <2>6. port[k].is = "answer"
    BY <2>2, SMT
  <2>3. Head(job).do \notin {"stop", "drain", "lastsave"}
    BY <1>1, Zenon
  <2>4. Protocol'
    BY <1>1, <2>1, <2>2, <2>3, PopsProtocol, Zenon
  <2>5. port' \in Seq(Msgs) /\ job' \in Seq(Steps)
    BY <1>2, <1>3, <2>2, Zenon DEF Takes
  <2> QED
    BY <1>3, <1>4, <2>4, <2>5, <2>6, Zenon DEF KeepsProtocol
<1>5. CASE Processreply(port[k], job)
  <2>1. /\ KeepsProtocol /\ Reacting(k)
        /\ hotchanged' = (hotchanged \/ (port[k].is = "changed" /\ task[port[k].from]))
    BY <1>1, <1>3, <1>5, TakenProtocol, Zenon
  <2> QED
    BY <1>3, <2>1, Zenon
<1> QED
  BY <1>1, <1>4, <1>5

LEMMA PutProtocol ==
  ASSUME TypeOK, Protocol, Put
  PROVE  KeepsProtocol
<1>1. /\ job # << >> /\ Head(job).do = "put" /\ job' = Tail(job)
      /\ UNCHANGED <<port, task, up, sub>>
  BY Zenon DEF Put, Doing, Proceed
<1> QED
  BY <1>1, PopsQuietly, Zenon

LEMMA SectionProtocol ==
  ASSUME TypeOK, Protocol, Add \/ Savehotlist \/ Renew
  PROVE  KeepsProtocol
<1>1. /\ job # << >> /\ Head(job).do \in {"add", "save", "reread", "replace"}
      /\ job' = Tail(job) /\ UNCHANGED <<port, task, up, sub>>
  BY Zenon DEF Add, Savehotlist, Renew, Doing, Proceed
<1> QED
  BY <1>1, PopsQuietly, Zenon

LEMMA TellProtocol ==
  ASSUME TypeOK, Protocol, Tell, Awaited \in Nat
  PROVE  KeepsProtocol
<1>1. /\ job # << >> /\ Head(job).do = "tell" /\ UNCHANGED <<port, task, up, sub>>
      /\ \/ job' = <<[do |-> "await", w |-> Head(job).w, id |-> Awaited]>>
                   \o Tail(job)
         \/ job' = Tail(job)
  BY Zenon DEF Tell, Doing, Proceed
<1> DEFINE s == [do |-> "await", w |-> Head(job).w, id |-> Awaited]
<1>2. s \in Steps /\ s.do = "await"
  <2>1. Head(job) \in Steps
    BY <1>1, HeadStep
  <2>2. Head(job).w \in Windows
    BY <1>1, <2>1, StepFields, Zenon
  <2> QED
    BY <2>2, StepForms, Zenon
<1>3. CASE job' = <<s>> \o Tail(job)
  <2> HIDE DEF s
  <2> QED
    BY <1>1, <1>2, <1>3, ReplacesQuietly, Zenon
<1>4. CASE job' = Tail(job)
  BY <1>1, <1>4, PopsQuietly, Zenon
<1> QED
  BY <1>1, <1>3, <1>4

LEMMA StopsProtocol ==
  ASSUME TypeOK, Protocol, Stop
  PROVE  KeepsProtocol
<1> DEFINE w == Head(job).w
<1>1. /\ job # << >> /\ Head(job).do = "stop" /\ Doing("stop")
      /\ UNCHANGED <<sub, port, task, up>>
      /\ \/ task[w] /\ job' = <<On("drain", w)>> \o Tail(job)
         \/ ~task[w] /\ job' = Tail(job)
  BY Zenon DEF Stop, Doing, Proceed
<1>2. /\ Head(job) \in Steps /\ Tail(job) \in Seq(Steps) /\ port \in Seq(Msgs)
  BY <1>1, HeadStep
<1>3. w \in Windows /\ Head(job) = On("stop", w) /\ On("drain", w) \in Steps
  <2>1. w \in Windows /\ Head(job) = On("stop", w)
    BY <1>1, <1>2, StepFields, Zenon
  <2> QED
    BY <2>1, StepForms, Zenon
<1> HIDE DEF w
<1>4. CASE task[w] /\ job' = <<On("drain", w)>> \o Tail(job)
  BY <1>1, <1>3, <1>4, ReplacesQuietly, Zenon
<1>5. CASE ~task[w] /\ job' = Tail(job)
  <2>1. Protocol'
    BY <1>1, <1>5, StopProtocol, Zenon DEF w
  <2> QED
    BY <1>1, <1>2, <1>5, <2>1, Zenon DEF KeepsProtocol
<1> QED
  BY <1>1, <1>4, <1>5

LEMMA OpensProtocol ==
  ASSUME TypeOK, Protocol, Open
  PROVE  KeepsProtocol
<1> DEFINE w == Head(job).w
<1>1. /\ job # << >> /\ Head(job).do = "open" /\ Doing("open") /\ job' = Tail(job)
      /\ UNCHANGED <<port, up>>
      /\ \/ task[w] /\ UNCHANGED <<task, sub>>
         \/ ~task[w] /\ task' = [task EXCEPT ![w] = TRUE]
                     /\ sub' = [sub EXCEPT ![w] = "build"]
  BY Zenon DEF Open, Doing, Proceed
<1>2. /\ Head(job) \in Steps /\ Tail(job) \in Seq(Steps) /\ port \in Seq(Msgs)
  BY <1>1, HeadStep
<1>3. w \in Windows
  BY <1>1, <1>2, StepFields, Zenon
<1>4. CASE UNCHANGED <<task, sub>>
  BY <1>1, <1>4, PopsQuietly, Zenon
<1> HIDE DEF w
<1>5. CASE ~task[w] /\ task' = [task EXCEPT ![w] = TRUE]
                    /\ sub' = [sub EXCEPT ![w] = "build"]
  <2>1. Protocol'
    BY <1>1, <1>3, <1>5, OpenProtocol, Zenon DEF w
  <2> QED
    BY <1>1, <1>2, <2>1, Zenon DEF KeepsProtocol
<1> QED
  BY <1>1, <1>4, <1>5, Zenon

\* The window waits for this reply.
LEMMA ReplyWaits ==
  ASSUME TypeOK, Protocol, Reply, NEW w, w = Head(job).w
  PROVE  /\ job # << >> /\ Head(job) = On("reply", w) /\ w \in Windows
         /\ sub[w] \in Waits
<1>1. job # << >> /\ Head(job).do = "reply"
  BY Zenon DEF Reply, Doing
<1>2. /\ Head(job) \in Steps /\ Head(job) = job[1] /\ 1 \in 1 .. Len(job)
  BY <1>1, HeadStep
<1>3. w \in Windows /\ Head(job) = On("reply", w)
  BY <1>1, <1>2, StepFields, Zenon
<1> QED
  BY <1>1, <1>2, <1>3, Zenon DEF Protocol, OneRequest

LEMMA ReplyProtocol ==
  ASSUME TypeOK, Protocol, Reply
  PROVE  /\ KeepsProtocol
         /\ \A v \in Windows : sub'[v] =
              IF v # Head(job).w THEN sub[v]
              ELSE IF sub[v] = "asking" THEN "asked"
              ELSE IF sub[v] = "saving" THEN "saved" ELSE "closed"
<1> DEFINE w == Head(job).w
<1>1. job # << >> /\ Head(job) = On("reply", w) /\ w \in Windows /\ sub[w] \in Waits
  BY ReplyWaits
<1>2. /\ job' = Tail(job) /\ UNCHANGED <<port, task, up>>
      /\ sub' = [sub EXCEPT ![w] = CASE @ = "asking" -> "asked"
                                     [] @ = "saving" -> "saved"
                                     [] @ = "closing" -> "closed"]
  BY Zenon DEF Reply, Proceed
<1> HIDE DEF w
<1>3. \/ sub[w] = "asking" /\ sub' = [sub EXCEPT ![w] = "asked"]
      \/ sub[w] = "saving" /\ sub' = [sub EXCEPT ![w] = "saved"]
      \/ sub[w] = "closing" /\ sub' = [sub EXCEPT ![w] = "closed"]
  <2> DEFINE to == CASE sub[w] = "asking" -> "asked"
                     [] sub[w] = "saving" -> "saved"
                     [] sub[w] = "closing" -> "closed"
  <2>1. sub' = [sub EXCEPT ![w] = to]
    BY <1>2
  <2>2. CASE sub[w] = "asking"
    <3>1. to = "asked"
      BY <2>2, SMT
    <3> HIDE DEF to
    <3> QED
      BY <2>1, <2>2, <3>1
  <2>3. CASE sub[w] = "saving"
    <3>1. to = "saved"
      BY <2>3, SMT
    <3> HIDE DEF to
    <3> QED
      BY <2>1, <2>3, <3>1
  <2>4. CASE sub[w] = "closing"
    <3>1. to = "closed"
      BY <2>4, SMT
    <3> HIDE DEF to
    <3> QED
      BY <2>1, <2>4, <3>1
  <2> QED
    BY <1>1, <2>2, <2>3, <2>4, Zenon DEF Waits
<1>4. sub = [v \in Windows |-> sub[v]]
  BY Zenon DEF TypeOK
<1>5. \A v \in Windows : sub'[v] =
        IF v # w THEN sub[v]
        ELSE IF sub[v] = "asking" THEN "asked"
        ELSE IF sub[v] = "saving" THEN "saved" ELSE "closed"
  BY <1>3, <1>4, SMT
<1>6. Head(job).do = "reply"
  BY <1>1, StepDo
<1>7. \A v \in Windows : \/ sub'[v] = sub[v]
                         \/ /\ Head(job) = On("reply", v)
                            /\ sub'[v] \notin {"none", "leaving", "ended"}
  BY <1>1, <1>5, Zenon
<1>8. KeepsProtocol
  BY <1>1, <1>2, <1>6, <1>7, PopsQuietly, Zenon
<1> QED
  BY <1>5, <1>8 DEF w

\* Stoptask: Ctrl-C, the handlers that it runs, the end of the subtask.
LEMMA DrainsProtocol ==
  ASSUME TypeOK, Protocol, Drain, NEW w, w = Head(job).w, NEW k, k = FirstFrom(w)
  PROVE  /\ KeepsProtocol /\ w \in Windows /\ Head(job) = On("drain", w)
         /\ \/ /\ brk' = [brk EXCEPT ![w] = TRUE]
               /\ UNCHANGED <<hotchanged, sub, port, task, job>>
            \/ /\ Takes(k) /\ port[k] \in Msgs /\ Reacting(k)
               /\ UNCHANGED <<brk, sub>>
               /\ hotchanged' = (hotchanged \/ (port[k].is = "changed" /\ task[port[k].from]))
            \/ /\ From(w) = {} /\ sub[w] = "ended" /\ Proceed
               /\ task' = [task EXCEPT ![w] = FALSE]
               /\ sub' = [sub EXCEPT ![w] = "none"]
               /\ UNCHANGED <<hotchanged, brk, port>>
<1>1. job # << >> /\ Head(job).do = "drain" /\ Doing("drain") /\ up' = up
  BY Zenon DEF Drain, Doing
<1>2. /\ Head(job) \in Steps /\ Tail(job) \in Seq(Steps) /\ port \in Seq(Msgs)
      /\ job \in Seq(Steps)
  BY <1>1, HeadStep
<1>3. w \in Windows /\ Head(job) = On("drain", w)
  BY <1>1, <1>2, StepFields, Zenon
<1>4. \/ /\ brk' = [brk EXCEPT ![w] = TRUE]
         /\ UNCHANGED <<hotchanged, sub, port, task, job>>
      \/ /\ Take(w) /\ Processreply(port[k], job)
         /\ UNCHANGED <<brk, sub>>
      \/ /\ From(w) = {} /\ sub[w] = "ended" /\ Proceed
         /\ task' = [task EXCEPT ![w] = FALSE]
         /\ sub' = [sub EXCEPT ![w] = "none"]
         /\ UNCHANGED <<hotchanged, brk, port>>
  BY Zenon DEF Drain
<1>5. CASE /\ brk' = [brk EXCEPT ![w] = TRUE]
           /\ UNCHANGED <<hotchanged, sub, port, task, job>>
  <2>1. Protocol'
    BY <1>1, <1>5, SameProtocol, Zenon
  <2> QED
    BY <1>2, <1>3, <1>5, <2>1, Zenon DEF KeepsProtocol
<1>6. CASE /\ Take(w) /\ Processreply(port[k], job)
           /\ UNCHANGED <<brk, sub>>
  <2>1. Takes(k) /\ port[k] \in Msgs /\ port[k].from = w
    BY <1>2, <1>6, TakesFirstFrom
  <2>2. /\ KeepsProtocol /\ Reacting(k)
        /\ hotchanged' = (hotchanged \/ (port[k].is = "changed" /\ task[port[k].from]))
    BY <1>1, <1>6, <2>1, TakenProtocol, Zenon
  <2> QED
    BY <1>3, <1>6, <2>1, <2>2, Zenon
<1>7. CASE /\ From(w) = {} /\ sub[w] = "ended" /\ Proceed
           /\ task' = [task EXCEPT ![w] = FALSE]
           /\ sub' = [sub EXCEPT ![w] = "none"]
           /\ UNCHANGED <<hotchanged, brk, port>>
  <2>1. job' = Tail(job)
    BY <1>7 DEF Proceed
  <2>2. Protocol'
    BY <1>1, <1>3, <1>7, <2>1, DrainProtocol, Zenon
  <2>3. KeepsProtocol
    BY <1>2, <1>7, <2>1, <2>2, Zenon DEF KeepsProtocol
  <2> QED
    BY <1>3, <1>7, <2>3, Zenon
<1> QED
  BY <1>4, <1>5, <1>6, <1>7

LEMMA LastProtocol ==
  ASSUME TypeOK, Protocol, Lastsave
  PROVE  KeepsProtocol /\ BothGone /\ Tail(job) = << >>
<1>1. /\ Doing("lastsave") /\ job # << >> /\ job' = Tail(job) /\ up' = FALSE
      /\ UNCHANGED <<sub, port, task>>
  BY Zenon DEF Lastsave, Doing, Proceed
<1>2. Tail(job) \in Seq(Steps) /\ port \in Seq(Msgs)
  BY <1>1, HeadStep
<1>3. Protocol'
  BY <1>1, LastsaveProtocol
<1>4. BothGone /\ Tail(job) = << >>
  BY <1>1, LastsaveEnds
<1> QED
  BY <1>1, <1>2, <1>3, <1>4, Zenon DEF KeepsProtocol

-----------------------------------------------------------------------------
(* Types.                                                                  *)

Places == {"none", "build", "loop", "events", "asking", "asked", "saving", "saved",
           "closing", "closed", "leaving", "ended"}
Placed == /\ sub \in [Windows -> Places] /\ hotsema \in Windows \cup {"free"}
          /\ \A w \in Windows : sub[w] \in {"asking", "asked"} <=> hotsema = w
Flags == unsaved \in BOOLEAN /\ hotchanged \in BOOLEAN /\ up \in BOOLEAN
Seen == /\ nodes \in [Windows -> SUBSET {"current", "old"}]
        /\ locked \in [Windows -> BOOLEAN]
Tasks == brk \in [Windows -> BOOLEAN] /\ task \in [Windows -> BOOLEAN]
Inboxes == inbox \in [Windows -> Seq(Orders)]

LEMMA TypeParts ==
  ASSUME TypeOK
  PROVE  Placed /\ Flags /\ Seen /\ Tasks /\ Inboxes
BY Zenon DEF TypeOK, Placed, Places, Flags, Seen, Tasks, Inboxes

LEMMA PartsType ==
  ASSUME KeepsProtocol, Placed', Flags', Seen', Tasks', Inboxes'
  PROVE  TypeOK'
BY Zenon DEF KeepsProtocol, Msgs, TypeOK, Placed, Places, Flags, Seen, Tasks, Inboxes

LEMMA AwaitedType ==
  ASSUME TypeOK
  PROVE  Awaited \in Nat
<1> DEFINE S == {i \in DOMAIN job : job[i].do = "await"}
<1>1. job \in Seq(Steps)
  BY Zenon DEF TypeOK
<1>2. S \subseteq 1 .. Len(job) /\ Len(job) \in Nat
  BY <1>1, SMT
<1>3. IsFiniteSet(1 .. Len(job))
  BY <1>2, FS_Interval, SMT
<1>4. IsFiniteSet(S)
  BY <1>2, <1>3, FS_Subset
<1>5. Cardinality(S) \in Nat
  BY <1>4, FS_CardinalityType
<1> HIDE DEF S
<1>6. Cardinality(S) + 1 \in Nat
  BY <1>5, SMT
<1> QED
  BY <1>6 DEF Awaited, S

\* A subtask goes on, within the semaphore or without it.
LEMMA GoesOn ==
  ASSUME Placed, NEW w \in Windows, NEW s \in Places, sub' = [sub EXCEPT ![w] = s],
         hotsema' = hotsema,
         sub[w] \in {"asking", "asked"} <=> s \in {"asking", "asked"}
  PROVE  Placed'
<1>1. sub' \in [Windows -> Places]
  BY Zenon DEF Placed
<1>2. \A v \in Windows : sub'[v] = IF v = w THEN s ELSE sub[v]
  BY Zenon DEF Placed
<1> QED
  BY <1>1, <1>2, Zenon DEF Placed

LEMMA Stands ==
  ASSUME Placed, UNCHANGED <<sub, hotsema>>
  PROVE  Placed'
BY Zenon DEF Placed

LEMMA OrderForms ==
  ASSUME NEW is \in {"addentry", "dispose", "newlist"}, NEW id \in Nat
  PROVE  /\ [is |-> is, id |-> id] \in Orders
         /\ [is |-> is, id |-> id].is = is
BY SMT DEF Orders

\* A message to a window.
LEMMA Ordered ==
  ASSUME Inboxes, NEW w \in Windows, NEW m \in Orders,
         inbox' = [inbox EXCEPT ![w] = Append(@, m)]
  PROVE  Inboxes'
<1>1. inbox[w] \in Seq(Orders)
  BY Zenon DEF Inboxes
<1>2. Append(inbox[w], m) \in Seq(Orders)
  BY <1>1, SMT
<1> QED
  BY <1>2, Zenon DEF Inboxes

LEMMA PutTypes ==
  ASSUME TypeOK, Protocol, Put \/ Tell
  PROVE  Inboxes'
<1> DEFINE s == Head(job)
<1>1. /\ job # << >> /\ s.do \in {"put", "tell"}
      /\ \/ UNCHANGED inbox
         \/ inbox' = [inbox EXCEPT ![s.w] = Append(@, [is |-> s.is, id |-> 0])]
         \/ inbox' = [inbox EXCEPT ![s.w] = Append(@, [is |-> s.is, id |-> Awaited])]
  BY Zenon DEF Put, Tell, Doing
<1>2. s \in Steps
  BY <1>1, HeadStep
<1>3. s.w \in Windows /\ s.is \in {"addentry", "dispose", "newlist"}
  BY <1>1, <1>2, StepFields, Zenon
<1>4. Inboxes /\ Awaited \in Nat /\ 0 \in Nat
  BY TypeParts, AwaitedType, SMT
<1>5. /\ [is |-> s.is, id |-> 0] \in Orders
      /\ [is |-> s.is, id |-> Awaited] \in Orders
  BY <1>3, <1>4, OrderForms, Zenon
<1> HIDE DEF s
<1>6. CASE UNCHANGED inbox
  BY <1>4, <1>6, Zenon DEF Inboxes
<1>7. CASE inbox' = [inbox EXCEPT ![s.w] = Append(@, [is |-> s.is, id |-> 0])]
  BY <1>3, <1>4, <1>5, <1>7, Ordered
<1>8. CASE inbox' = [inbox EXCEPT ![s.w] = Append(@, [is |-> s.is, id |-> Awaited])]
  BY <1>3, <1>4, <1>5, <1>8, Ordered
<1> QED
  BY <1>1, <1>6, <1>7, <1>8

\* A message is taken: the task of a window that closes is given up.
LEMMA ReactingTasks ==
  ASSUME Tasks, NEW k, Reacting(k), brk' = brk
  PROVE  Tasks'
BY Zenon DEF Tasks, Reacting

LEMMA AgedType ==
  ASSUME Seen, locked' = locked, nodes' = [w \in Windows |-> Aged(nodes[w])]
  PROVE  Seen'
<1>1. \A w \in Windows : Aged(nodes[w]) \in SUBSET {"current", "old"}
  BY Zenon DEF Aged
<1> QED
  BY <1>1, Zenon DEF Seen

LEMMA MainTypes ==
  ASSUME TypeOK, Protocol, MainStep \/ Command
  PROVE  TypeOK' /\ Protocol'
<1>1. Placed /\ Flags /\ Seen /\ Tasks /\ Inboxes
  BY TypeParts
<1>2. CASE Command
  <2>1. KeepsProtocol
    <3>1. Protocol' /\ job' \in Seq(Steps)
      BY <1>2, CommandProtocol
    <3>2. port' = port /\ port \in Seq(Msgs)
      BY <1>2, Zenon DEF Command, TypeOK, Msgs
    <3> QED
      BY <3>1, <3>2, Zenon DEF KeepsProtocol
  <2>2. UNCHANGED <<list, hotsema, window, sub, inbox, task, up>>
    BY <1>2, Zenon DEF Command
  <2>3. Placed' /\ Flags' /\ Seen' /\ Tasks' /\ Inboxes'
    BY <1>1, <2>2, Zenon DEF Placed, Flags, Seen, Tasks, Inboxes, list, window
  <2> QED
    BY <2>1, <2>3, PartsType, Zenon DEF KeepsProtocol
<1>3. CASE Put \/ Tell
  <2>1. KeepsProtocol /\ Inboxes'
    BY <1>3, PutProtocol, TellProtocol, AwaitedType, PutTypes
  <2>2. UNCHANGED <<list, hotsema, window, sub, task, up>>
    BY <1>3, Zenon DEF Put, Tell
  <2>3. Placed' /\ Flags' /\ Seen' /\ Tasks'
    BY <1>1, <2>2, Zenon DEF Placed, Flags, Seen, Tasks, list, window
  <2> QED
    BY <2>1, <2>3, PartsType, Zenon DEF KeepsProtocol
<1>4. CASE Processtask
  <2>1. /\ KeepsProtocol /\ Reacting(1)
        /\ hotchanged' = (hotchanged \/ (port[1].is = "changed" /\ task[port[1].from]))
    BY <1>4, ProcesstaskTakes
  <2>2. UNCHANGED <<unsaved, hotsema, window, sub, inbox, up>>
    BY <1>4, Zenon DEF Processtask
  <2>3. Placed' /\ Seen' /\ Inboxes'
    BY <1>1, <2>2, Zenon DEF Placed, Seen, Inboxes, window
  <2>4. Flags'
    BY <1>1, <2>1, <2>2, Zenon DEF Flags
  <2>5. Tasks'
    <3>1. brk' = brk
      BY <2>2, Zenon DEF window
    <3> QED
      BY <1>1, <2>1, <3>1, ReactingTasks
  <2> QED
    BY <2>1, <2>3, <2>4, <2>5, PartsType, Zenon DEF KeepsProtocol
<1>5. CASE Waitformsg
  <2> DEFINE k == FirstFrom(Head(job).w)
  <2>1. /\ KeepsProtocol
        /\ \/ Answered
           \/ /\ Reacting(k)
              /\ hotchanged' = (hotchanged \/ (port[k].is = "changed" /\ task[port[k].from]))
    BY <1>5, WaitformsgTakes
  <2> HIDE DEF k
  <2>2. UNCHANGED <<unsaved, hotsema, window, sub, inbox, up>>
    BY <1>5, Zenon DEF Waitformsg
  <2>3. Placed' /\ Seen' /\ Inboxes'
    BY <1>1, <2>2, Zenon DEF Placed, Seen, Inboxes, window
  <2>4. Flags'
    BY <1>1, <2>1, <2>2, Zenon DEF Flags, Answered
  <2>5. Tasks'
    <3>1. brk' = brk
      BY <2>2, Zenon DEF window
    <3>2. CASE Answered
      BY <1>1, <3>1, <3>2, Zenon DEF Tasks, Answered
    <3>3. CASE Reacting(k)
      BY <1>1, <3>1, <3>3, ReactingTasks
    <3> QED
      BY <2>1, <3>2, <3>3
  <2> QED
    BY <2>1, <2>3, <2>4, <2>5, PartsType, Zenon DEF KeepsProtocol
<1>6. CASE Stop
  <2>1. KeepsProtocol
    BY <1>6, StopsProtocol
  <2>2. UNCHANGED <<list, hotsema, window, sub, inbox, task, up>>
    BY <1>6, Zenon DEF Stop
  <2>3. Placed' /\ Flags' /\ Seen' /\ Tasks' /\ Inboxes'
    BY <1>1, <2>2, Zenon DEF Placed, Flags, Seen, Tasks, Inboxes, list, window
  <2> QED
    BY <2>1, <2>3, PartsType, Zenon DEF KeepsProtocol
<1>7. CASE Drain
  <2> DEFINE w == Head(job).w
             k == FirstFrom(w)
  <2>1. /\ KeepsProtocol /\ w \in Windows
        /\ \/ /\ brk' = [brk EXCEPT ![w] = TRUE]
              /\ UNCHANGED <<hotchanged, sub, port, task, job>>
           \/ /\ Takes(k) /\ port[k] \in Msgs /\ Reacting(k)
              /\ UNCHANGED <<brk, sub>>
              /\ hotchanged' = (hotchanged \/ (port[k].is = "changed" /\ task[port[k].from]))
           \/ /\ From(w) = {} /\ sub[w] = "ended" /\ Proceed
              /\ task' = [task EXCEPT ![w] = FALSE]
              /\ sub' = [sub EXCEPT ![w] = "none"]
              /\ UNCHANGED <<hotchanged, brk, port>>
    BY <1>7, DrainsProtocol
  <2> HIDE DEF w, k
  <2>2. UNCHANGED <<unsaved, hotsema, nodes, locked, inbox, up>>
    BY <1>7, Zenon DEF Drain
  <2>3. Seen' /\ Inboxes'
    BY <1>1, <2>2, Zenon DEF Seen, Inboxes
  <2>4. Flags'
    BY <1>1, <2>1, <2>2, Zenon DEF Flags
  <2>5. Placed'
    <3>1. CASE UNCHANGED sub
      BY <1>1, <2>2, <3>1, Stands
    <3>2. CASE sub[w] = "ended" /\ sub' = [sub EXCEPT ![w] = "none"]
      <4>1. "none" \in Places /\ "none" \notin {"asking", "asked"}
            /\ sub[w] \notin {"asking", "asked"}
        BY <3>2, Zenon DEF Places
      <4> QED
        BY <1>1, <2>1, <2>2, <3>2, <4>1, GoesOn
    <3> QED
      BY <2>1, <3>1, <3>2, Zenon
  <2>6. Tasks'
    <3>1. CASE Reacting(k) /\ brk' = brk
      BY <1>1, <3>1, ReactingTasks
    <3>2. CASE \/ brk' = [brk EXCEPT ![w] = TRUE] /\ task' = task
               \/ brk' = brk /\ task' = [task EXCEPT ![w] = FALSE]
      BY <1>1, <3>2, Zenon DEF Tasks
    <3> QED
      BY <2>1, <3>1, <3>2, Zenon
  <2> QED
    BY <2>1, <2>3, <2>4, <2>5, <2>6, PartsType, Zenon DEF KeepsProtocol
<1>8. CASE Open
  <2> DEFINE w == Head(job).w
  <2>1. KeepsProtocol
    BY <1>8, OpensProtocol
  <2>2. /\ job # << >> /\ Head(job).do = "open"
        /\ UNCHANGED <<list, hotsema, nodes, locked, inbox, up>>
        /\ \/ UNCHANGED <<task, sub, brk>>
           \/ /\ ~task[w] /\ task' = [task EXCEPT ![w] = TRUE]
              /\ sub' = [sub EXCEPT ![w] = "build"]
              /\ brk' = [brk EXCEPT ![w] = FALSE]
    BY <1>8, Zenon DEF Open, Doing
  <2>3. w \in Windows
    <3>1. Head(job) \in Steps
      BY <2>2, HeadStep
    <3> QED
      BY <2>2, <3>1, StepFields, Zenon
  <2> HIDE DEF w
  <2>4. Flags' /\ Seen' /\ Inboxes'
    BY <1>1, <2>2, Zenon DEF Flags, Seen, Inboxes, list
  <2>5. Tasks'
    BY <1>1, <2>2, <2>3, Zenon DEF Tasks
  <2>6. Placed'
    <3>1. CASE UNCHANGED sub
      BY <1>1, <2>2, <3>1, Stands
    <3>2. CASE ~task[w] /\ sub' = [sub EXCEPT ![w] = "build"]
      <4>1. sub[w] \in {"none", "leaving", "ended"}
        BY <2>3, <3>2, Zenon DEF Protocol, Ends
      <4>2. /\ "build" \in Places /\ "build" \notin {"asking", "asked"}
            /\ sub[w] \notin {"asking", "asked"}
        BY <4>1, Zenon DEF Places
      <4> QED
        BY <1>1, <2>2, <2>3, <3>2, <4>2, GoesOn
    <3> QED
      BY <2>2, <3>1, <3>2, Zenon
  <2> QED
    BY <2>1, <2>4, <2>5, <2>6, PartsType, Zenon DEF KeepsProtocol
<1>9. CASE Reply
  <2> DEFINE w == Head(job).w
             s == IF sub[w] = "asking" THEN "asked"
                  ELSE IF sub[w] = "saving" THEN "saved" ELSE "closed"
  <2>1. /\ KeepsProtocol
        /\ \A v \in Windows : sub'[v] =
              IF v # w THEN sub[v]
              ELSE IF sub[v] = "asking" THEN "asked"
              ELSE IF sub[v] = "saving" THEN "saved" ELSE "closed"
    BY <1>9, ReplyProtocol
  <2>2. w \in Windows /\ sub[w] \in Waits
    BY <1>9, ReplyWaits
  <2>3. UNCHANGED <<list, hotsema, window, inbox, task, up>>
    BY <1>9, Zenon DEF Reply
  <2> HIDE DEF w
  <2>4. s \in Places /\ (sub[w] \in {"asking", "asked"} <=> s \in {"asking", "asked"})
    BY <2>2, Zenon DEF Places, Waits
  <2>5. sub' = [sub EXCEPT ![w] = s]
    <3>1. sub \in [Windows -> Places]
      BY <1>1, Zenon DEF Placed
    <3>2. \E x : sub' = [sub EXCEPT ![w] = x]
      BY <1>9, Zenon DEF Reply, w
    <3>3. sub'[w] = s
      BY <2>1, <2>2, Zenon
    <3> HIDE DEF s
    <3> QED
      BY <2>2, <3>1, <3>2, <3>3, Zenon
  <2> HIDE DEF s
  <2>6. Placed'
    BY <1>1, <2>2, <2>3, <2>4, <2>5, GoesOn
  <2>7. Flags' /\ Seen' /\ Tasks' /\ Inboxes'
    BY <1>1, <2>3, Zenon DEF Flags, Seen, Tasks, Inboxes, list, window
  <2> QED
    BY <2>1, <2>6, <2>7, PartsType, Zenon DEF KeepsProtocol
<1>10. CASE Add \/ Savehotlist \/ Renew
  <2>1. KeepsProtocol
    BY <1>10, SectionProtocol
  <2>2. /\ UNCHANGED <<hotsema, locked, brk, sub, inbox, task, up>>
        /\ nodes' = nodes \/ nodes' = [w \in Windows |-> Aged(nodes[w])]
    BY <1>10, Zenon DEF Add, Savehotlist, Renew, window
  <2>3. Placed' /\ Tasks' /\ Inboxes'
    BY <1>1, <2>2, Zenon DEF Placed, Tasks, Inboxes
  <2>4. Seen'
    <3>1. CASE nodes' = nodes
      BY <1>1, <2>2, <3>1, Zenon DEF Seen
    <3> QED
      BY <1>1, <2>2, <3>1, AgedType
  <2>5. Flags'
    <3>1. unsaved' \in BOOLEAN /\ hotchanged' \in BOOLEAN
      BY <1>10, Zenon DEF Add, Savehotlist, Renew, Doing
    <3> QED
      BY <1>1, <2>2, <3>1, Zenon DEF Flags
  <2> QED
    BY <2>1, <2>3, <2>4, <2>5, PartsType, Zenon DEF KeepsProtocol
<1>11. CASE Lastsave
  <2>1. KeepsProtocol
    BY <1>11, LastProtocol
  <2>2. /\ UNCHANGED <<hotchanged, hotsema, window, sub, inbox, task>>
        /\ unsaved' = (unsaved /\ ~hotchanged) /\ up' = FALSE
    BY <1>11, Zenon DEF Lastsave
  <2>3. Placed' /\ Seen' /\ Tasks' /\ Inboxes'
    BY <1>1, <2>2, Zenon DEF Placed, Seen, Tasks, Inboxes, window
  <2>4. Flags'
    BY <1>1, <2>2, Zenon DEF Flags
  <2> QED
    BY <2>1, <2>3, <2>4, PartsType, Zenon DEF KeepsProtocol
<1> QED
  BY <1>2, <1>3, <1>4, <1>5, <1>6, <1>7, <1>8, <1>9, <1>10, <1>11, Zenon
     DEF MainStep

\* What a subtask does to where it is, its nodes and its port.
LEMMA NodesType ==
  ASSUME Seen, NEW w \in Windows, NEW S \in SUBSET {"current", "old"},
         nodes' = [nodes EXCEPT ![w] = S], locked' = locked
  PROVE  Seen'
BY Zenon DEF Seen

LEMMA HandledType ==
  ASSUME TypeOK, NEW w \in Windows, NEW is \in {"addentry", "dispose", "newlist"}
  PROVE  Handled(w, is) \in SUBSET {"current", "old"}
<1>1. nodes[w] \in SUBSET {"current", "old"}
  BY Zenon DEF TypeOK
<1>2. CASE is = "addentry"
  <2>1. Handled(w, is) = {"current"}
    BY <1>2, SMT DEF Handled
  <2> QED
    BY <2>1, Zenon
<1>3. CASE is = "dispose"
  <2>1. Handled(w, is) = {}
    BY <1>3, SMT DEF Handled
  <2> QED
    BY <2>1, Zenon
<1>4. CASE is = "newlist"
  <2>1. Handled(w, is) = {"current"} \cup (IF w = "viewer" THEN nodes[w] ELSE {})
    BY <1>4, SMT DEF Handled
  <2> QED
    BY <1>1, <2>1, Zenon
<1> QED
  BY <1>2, <1>3, <1>4, Zenon

LEMMA HandletaskmsgTypes ==
  ASSUME TypeOK, NEW w \in Windows, Handletaskmsg(w)
  PROVE  Seen' /\ Inboxes' /\ Head(inbox[w]) \in Orders
<1> DEFINE m == Head(inbox[w])
<1>1. /\ inbox[w] # << >> /\ nodes' = [nodes EXCEPT ![w] = Handled(w, m.is)]
      /\ locked' = [locked EXCEPT ![w] = m.is = "dispose" \/ (@ /\ m.is # "newlist")]
      /\ inbox' = [inbox EXCEPT ![w] = Tail(@)]
  BY Zenon DEF Handletaskmsg
<1>2. Seen /\ Inboxes
  BY TypeParts
<1>3. inbox[w] \in Seq(Orders)
  BY <1>2, Zenon DEF Inboxes
<1>4. m \in Orders /\ Tail(inbox[w]) \in Seq(Orders)
  BY <1>1, <1>3, SMT
<1>5. m.is \in {"addentry", "dispose", "newlist"}
  BY <1>4, SMT DEF Orders
<1>6. Handled(w, m.is) \in SUBSET {"current", "old"}
  BY <1>5, HandledType
<1>7. Inboxes'
  BY <1>1, <1>2, <1>4, Zenon DEF Inboxes
<1> HIDE DEF m
<1>8. Seen'
  BY <1>1, <1>2, <1>6, Zenon DEF Seen
<1> QED
  BY <1>4, <1>7, <1>8 DEF m

LEMMA WindowTypes ==
  ASSUME TypeOK, Protocol, NEW w \in Windows, WindowStep(w)
  PROVE  TypeOK' /\ Protocol'
<1>1. Placed /\ Flags /\ Seen /\ Tasks /\ Inboxes
  BY TypeParts
<1>2. /\ Protocol' /\ port' \in Seq(Msgs)
      /\ UNCHANGED <<list, brk, task, job, up>>
  <2>1. UNCHANGED <<list, brk, task, job, up>>
    BY Zenon DEF WindowStep, Build, BuildFails, Handletaskmsg, Handlewindow,
       Lastevent, Asked, Saved, Close, Closed, Leave, window, main
  <2> QED
    BY <2>1, WindowProtocol
<1>3. KeepsProtocol /\ Flags' /\ Tasks'
  <2>1. job \in Seq(Steps)
    BY Zenon DEF TypeOK
  <2> QED
    BY <1>1, <1>2, <2>1, Zenon DEF KeepsProtocol, Flags, Tasks, list
<1>4. {"loop", "leaving", "events", "closing", "ended", "build", "asked"} \subseteq Places
  BY Zenon DEF Places
<1>5. CASE Handletaskmsg(w)
  <2>1. Seen' /\ Inboxes'
    BY <1>5, HandletaskmsgTypes
  <2>2. UNCHANGED <<sub, hotsema>>
    BY <1>5, Zenon DEF Handletaskmsg
  <2>3. Placed'
    BY <1>1, <2>2, Stands
  <2> QED
    BY <1>3, <2>1, <2>3, PartsType, Zenon DEF KeepsProtocol
<1>6. CASE Asked(w)
  <2>1. /\ UNCHANGED <<nodes, locked, inbox>> /\ sub[w] = "asked"
        /\ hotsema' = "free" /\ sub' = [sub EXCEPT ![w] = "events"]
    BY <1>6, Zenon DEF Asked, window, Goto
  <2>2. Seen' /\ Inboxes'
    BY <1>1, <2>1, Zenon DEF Seen, Inboxes
  <2>3. hotsema = w /\ \A v \in Windows : sub'[v] = IF v = w THEN "events" ELSE sub[v]
    BY <1>1, <2>1, Zenon DEF Placed
  <2>4. \A v \in Windows : sub'[v] \notin {"asking", "asked"} /\ v # "free"
    BY <1>1, <2>3, Zenon DEF Placed, Windows
  <2>5. sub' \in [Windows -> Places]
    BY <1>1, <1>4, <2>1, Zenon DEF Placed
  <2>6. Placed'
    BY <2>1, <2>4, <2>5, Zenon DEF Placed
  <2> QED
    BY <1>3, <2>2, <2>6, PartsType, Zenon DEF KeepsProtocol
<1>7. CASE Leave(w)
  <2>1. /\ UNCHANGED <<nodes, locked, hotsema>> /\ sub[w] = "leaving"
        /\ sub' = [sub EXCEPT ![w] = "ended"]
        /\ inbox' = [inbox EXCEPT ![w] = << >>]
    BY <1>7, Zenon DEF Leave, window, Goto
  <2>2. << >> \in Seq(Orders)
    BY EmptySeq
  <2>3. Seen' /\ Inboxes'
    BY <1>1, <2>1, <2>2, Zenon DEF Seen, Inboxes
  <2>4. Placed'
    BY <1>1, <1>4, <2>1, GoesOn, Zenon
  <2> QED
    BY <1>3, <2>3, <2>4, PartsType, Zenon DEF KeepsProtocol
<1>8. CASE Build(w) \/ Closed(w)
  <2>1. /\ UNCHANGED <<hotsema, inbox>>
        /\ \/ /\ sub[w] = "build" /\ sub' = [sub EXCEPT ![w] = "loop"]
              /\ nodes' = [nodes EXCEPT ![w] = {"current"}]
              /\ locked' = [locked EXCEPT !["viewer"] = @ /\ w # "viewer"]
           \/ /\ sub[w] = "closed" /\ sub' = [sub EXCEPT ![w] = "leaving"]
              /\ nodes' = [nodes EXCEPT ![w] = {}] /\ locked' = locked
    BY <1>8, Zenon DEF Build, Closed, Goto
  <2>2. Inboxes'
    BY <1>1, <2>1, Zenon DEF Inboxes
  <2>3. Placed'
    BY <1>1, <1>4, <2>1, GoesOn, Zenon
  <2>4. nodes' \in [Windows -> SUBSET {"current", "old"}]
    <3>1. {"current"} \in SUBSET {"current", "old"} /\ {} \in SUBSET {"current", "old"}
      BY Zenon
    <3>2. \E S \in SUBSET {"current", "old"} : nodes' = [nodes EXCEPT ![w] = S]
      BY <2>1, <3>1, Zenon
    <3> QED
      BY <1>1, <3>2, Zenon DEF Seen
  <2>5. locked' \in [Windows -> BOOLEAN]
    BY <1>1, <2>1, Zenon DEF Seen
  <2> QED
    BY <1>3, <2>2, <2>3, <2>4, <2>5, PartsType, Zenon DEF KeepsProtocol, Seen
<1>9. CASE \/ BuildFails(w) \/ Handlewindow(w) \/ Lastevent(w) \/ Close(w)
           \/ (w = "manager" /\ Saved)
  <2>1. /\ UNCHANGED <<nodes, locked, hotsema, inbox>>
        /\ \E s \in {"leaving", "events", "loop", "closing"} :
             sub' = [sub EXCEPT ![w] = s]
        /\ sub[w] \in {"build", "loop", "events", "saved"}
    BY <1>9, Zenon DEF BuildFails, Handlewindow, Lastevent, Close, Saved, Event,
       window, Goto
  <2>2. Seen' /\ Inboxes'
    BY <1>1, <2>1, Zenon DEF Seen, Inboxes
  <2>3. PICK s \in {"leaving", "events", "loop", "closing"} :
          sub' = [sub EXCEPT ![w] = s]
    BY <2>1
  <2>4. s \in Places /\ (sub[w] \in {"asking", "asked"} <=> s \in {"asking", "asked"})
    BY <1>4, <2>1, Zenon
  <2>5. Placed'
    BY <1>1, <2>1, <2>3, <2>4, GoesOn
  <2> QED
    BY <1>3, <2>2, <2>5, PartsType, Zenon DEF KeepsProtocol
<1> QED
  BY <1>5, <1>6, <1>7, <1>8, <1>9, Zenon DEF WindowStep

LEMMA UserTypes ==
  ASSUME TypeOK, Protocol, NEW w \in Windows, User(w)
  PROVE  TypeOK' /\ Protocol'
<1>1. Placed /\ Flags /\ Seen /\ Tasks /\ Inboxes
  BY TypeParts
<1>2. /\ Protocol' /\ port' \in Seq(Msgs)
      /\ UNCHANGED <<hotchanged, brk, locked, inbox, task, job, up>>
  <2>1. UNCHANGED <<hotchanged, brk, locked, inbox, task, job, up>>
    BY Zenon DEF User, Ask, Rebuild, Showhide, Edit, Revert, Save, list, window, main
  <2> QED
    BY <2>1, UserProtocol
<1>3. KeepsProtocol /\ Inboxes' /\ Tasks'
  <2>1. job \in Seq(Steps)
    BY Zenon DEF TypeOK
  <2> QED
    BY <1>1, <1>2, <2>1, Zenon DEF KeepsProtocol, Inboxes, Tasks
<1>4. Flags'
  <2>1. unsaved' = unsaved \/ unsaved' = TRUE
    BY Zenon DEF User, Ask, Rebuild, Showhide, Edit, Revert, Save, list
  <2> QED
    BY <1>1, <1>2, <2>1, Zenon DEF Flags
<1>5. Seen'
  <2>1. \/ nodes' = nodes
        \/ nodes' = [nodes EXCEPT ![w] = {"current"}]
        \/ nodes' = [nodes EXCEPT !["viewer"] = Aged(@)]
    BY Zenon DEF User, Ask, Rebuild, Showhide, Edit, Revert, Save, window
  <2>2. CASE nodes' = nodes
    BY <1>1, <1>2, <2>2, Zenon DEF Seen
  <2>3. CASE nodes' = [nodes EXCEPT ![w] = {"current"}]
    BY <1>1, <1>2, <2>3, Zenon DEF Seen
  <2>4. CASE nodes' = [nodes EXCEPT !["viewer"] = Aged(@)]
    BY <1>1, <1>2, <2>4, Zenon DEF Seen, Aged
  <2> QED
    BY <2>1, <2>2, <2>3, <2>4
<1>6. CASE \E is \in {"follow", "manager"} : Ask(w, is)
  <2>1. /\ sub[w] = "events" /\ hotsema = "free" /\ hotsema' = w
        /\ sub' = [sub EXCEPT ![w] = "asking"]
    BY <1>6, Zenon DEF Ask, Event, Goto
  <2>2. "asking" \in Places /\ \A v \in Windows : v # "free"
    BY Zenon DEF Places, Windows
  <2>3. \A v \in Windows : sub'[v] = IF v = w THEN "asking" ELSE sub[v]
    BY <1>1, <2>1, Zenon DEF Placed
  <2>4. \A v \in Windows : sub[v] \notin {"asking", "asked"}
    BY <1>1, <2>1, <2>2, Zenon DEF Placed
  <2>5. \A v \in Windows : sub'[v] \in {"asking", "asked"} <=> hotsema' = v
    BY <2>1, <2>3, <2>4, Zenon
  <2>6. Placed'
    BY <1>1, <2>1, <2>2, <2>5, Zenon DEF Placed
  <2> QED
    BY <1>3, <1>4, <1>5, <2>6, PartsType, Zenon DEF KeepsProtocol
<1>7. CASE w = "manager" /\ Save
  <2>1. /\ sub[w] = "events" /\ hotsema' = hotsema
        /\ sub' = [sub EXCEPT ![w] = "saving"]
    BY <1>7, Zenon DEF Save, Event, Goto
  <2>2. /\ "saving" \in Places
        /\ sub[w] \in {"asking", "asked"} <=> "saving" \in {"asking", "asked"}
    BY <2>1, Zenon DEF Places
  <2>3. Placed'
    BY <1>1, <2>1, <2>2, GoesOn
  <2> QED
    BY <1>3, <1>4, <1>5, <2>3, PartsType, Zenon DEF KeepsProtocol
<1>8. CASE \/ Rebuild(w) \/ (w = "viewer" /\ Showhide)
           \/ (w = "manager" /\ Edit) \/ (w = "manager" /\ Revert)
  <2>1. UNCHANGED <<sub, hotsema>>
    BY <1>8, Zenon DEF Rebuild, Showhide, Edit, Revert
  <2>2. Placed'
    BY <1>1, <2>1, Stands
  <2> QED
    BY <1>3, <1>4, <1>5, <2>2, PartsType, Zenon DEF KeepsProtocol
<1> QED
  BY <1>6, <1>7, <1>8, Zenon DEF User

LEMMA InitTypes ==
  ASSUME Init
  PROVE  TypeOK
<1>1. /\ "none" \in Places /\ "free" \notin Windows
      /\ "none" \notin {"asking", "asked"}
  BY Zenon DEF Places, Windows
<1>2. << >> \in Seq(Orders) /\ << >> \in Seq(Msgs) /\ << >> \in Seq(Steps)
  BY EmptySeq
<1>3. Placed /\ Flags /\ Seen /\ Tasks /\ Inboxes
  BY <1>1, <1>2, Zenon DEF Init, Placed, Flags, Seen, Tasks, Inboxes
<1>4. port \in Seq(Msgs) /\ job \in Seq(Steps)
  BY <1>2, Zenon DEF Init
<1> QED
  BY <1>3, <1>4, Zenon DEF TypeOK, Msgs, Placed, Places, Flags, Seen, Tasks, Inboxes

-----------------------------------------------------------------------------
(* Nothing stays unsaved.                                                  *)

LEMMA InPortIs ==
  ASSUME port \in Seq(Msgs), port' \in Seq(Msgs), NEW w, NEW is
  PROVE  /\ InPort(w, is) <=>
              \E i \in 1 .. Len(port) : port[i].from = w /\ port[i].is = is
         /\ InPort(w, is)' <=>
              \E i \in 1 .. Len(port') : port'[i].from = w /\ port'[i].is = is
<1>1. DOMAIN port = 1 .. Len(port) /\ DOMAIN port' = 1 .. Len(port')
  BY SMT
<1> QED
  BY <1>1, Zenon DEF InPort, From

LEMMA StaysInPort ==
  ASSUME TypeOK, port' \in Seq(Msgs), UNCHANGED port, NEW w, NEW is, InPort(w, is)
  PROVE  InPort(w, is)'
BY Zenon DEF InPort, From

LEMMA GrowsInPort ==
  ASSUME TypeOK, NEW news \in Seq(Msgs), port' = port \o news,
         NEW w, NEW is, InPort(w, is)
  PROVE  InPort(w, is)'
<1>1. port \in Seq(Msgs)
  BY Zenon DEF TypeOK, Msgs
<1>2. /\ port' \in Seq(Msgs)
      /\ \A i \in 1 .. Len(port) : i \in 1 .. Len(port') /\ port'[i] = port[i]
  BY <1>1, Sent
<1>3. port \in Seq(Msgs) /\ port' \in Seq(Msgs)
  BY <1>1, <1>2
<1>4. PICK i \in 1 .. Len(port) : port[i].from = w /\ port[i].is = is
  BY <1>3, InPortIs
<1>5. i \in 1 .. Len(port') /\ port'[i].from = w /\ port'[i].is = is
  BY <1>2, <1>4, Zenon
<1> QED
  BY <1>3, <1>5, InPortIs

LEMMA AppendsInPort ==
  ASSUME TypeOK, NEW m \in Msgs, port' = Append(port, m)
  PROVE  /\ \A w \in Windows : InPort(w, "changed") => InPort(w, "changed")'
         /\ InPort(m.from, m.is)'
<1>1. port \in Seq(Msgs)
  BY Zenon DEF TypeOK, Msgs
<1>2. port' = port \o <<m>> /\ <<m>> \in Seq(Msgs) /\ port' \in Seq(Msgs)
      /\ Len(port') = Len(port) + 1 /\ port'[Len(port) + 1] = m /\ Len(port) \in Nat
  BY <1>1, AppendIsConcat, SMT
<1>3. ASSUME NEW w \in Windows, InPort(w, "changed") PROVE InPort(w, "changed")'
  BY <1>2, <1>3, GrowsInPort
<1>4. Len(port) + 1 \in 1 .. Len(port')
  BY <1>2, SMT
<1>5. InPort(m.from, m.is)'
  BY <1>1, <1>2, <1>4, InPortIs, Zenon
<1> QED
  BY <1>3, <1>5

\* A message that is taken leaves the others in the port.
LEMMA TakesFromPort ==
  ASSUME TypeOK, NEW k, Takes(k), NEW w, NEW is, InPort(w, is)
  PROVE  (port[k].from = w /\ port[k].is = is) \/ InPort(w, is)'
<1>1. port \in Seq(Msgs) /\ port' \in Seq(Msgs)
  BY Zenon DEF TypeOK, Msgs, Takes
<1>2. PICK i \in 1 .. Len(port) : port[i].from = w /\ port[i].is = is
  BY <1>1, InPortIs
<1>3. i # k => \E j \in 1 .. Len(port') : port'[j] = port[i]
  BY <1>1, Stays
<1> QED
  BY <1>1, <1>2, <1>3, InPortIs, Zenon

\* The main task is told of changes by windows that it has not given up.
LEMMA ChangedHasTask ==
  ASSUME TypeOK, Protocol, NEW k \in 1 .. Len(port), port[k] \in Msgs,
         port[k].is = "changed"
  PROVE  task[port[k].from]
<1>1. port[k].from \in Windows
  BY MsgFields
<1> QED
  BY <1>1, Zenon DEF Protocol, Ends, Silent

LEMMA StillKnown ==
  ASSUME NothingUnsaved, UNCHANGED <<unsaved, hotchanged, up>>,
         \A w \in Windows : InPort(w, "changed") => InPort(w, "changed")'
  PROVE  NothingUnsaved'
BY Zenon DEF NothingUnsaved

LEMMA ReactingUnsaved ==
  ASSUME TypeOK, Protocol, NothingUnsaved, NEW k, Reacting(k), port[k] \in Msgs,
         unsaved' = unsaved,
         hotchanged' = (hotchanged \/ (port[k].is = "changed" /\ task[port[k].from]))
  PROVE  NothingUnsaved'
<1>1. Takes(k) /\ up' = up /\ k \in 1 .. Len(port)
  BY Zenon DEF Reacting, Takes
<1>2. port[k].is = "changed" => task[port[k].from]
  BY <1>1, ChangedHasTask
<1>3. ASSUME NEW w \in Windows, InPort(w, "changed")
      PROVE  hotchanged' \/ InPort(w, "changed")'
  <2>1. port[k].is = "changed" \/ InPort(w, "changed")'
    BY <1>1, <1>3, TakesFromPort
  <2> QED
    BY <1>2, <2>1
<1> QED
  BY <1>1, <1>3, Zenon DEF NothingUnsaved

LEMMA MainUnsaved ==
  ASSUME TypeOK, Protocol, NothingUnsaved, MainStep \/ Command
  PROVE  NothingUnsaved'
<1>1. port \in Seq(Msgs)
  BY Zenon DEF TypeOK, Msgs
<1>2. ASSUME UNCHANGED port, UNCHANGED <<unsaved, hotchanged, up>>
      PROVE  NothingUnsaved'
  <2>1. \A w \in Windows : InPort(w, "changed") => InPort(w, "changed")'
    BY <1>1, <1>2, StaysInPort
  <2> QED
    BY <1>2, <2>1, StillKnown
<1>3. job # << >> => up
  BY Zenon DEF Protocol, LastStep
<1>4. CASE Command \/ Put \/ Tell \/ Stop \/ Open \/ Reply
  <2>1. UNCHANGED port /\ UNCHANGED <<unsaved, hotchanged, up>>
    BY <1>4, Zenon DEF Command, Put, Tell, Stop, Open, Reply, list
  <2> QED
    BY <1>2, <2>1
<1>5. CASE Processtask
  <2>1. /\ Reacting(1) /\ port[1] \in Msgs
        /\ hotchanged' = (hotchanged \/ (port[1].is = "changed" /\ task[port[1].from]))
    BY <1>5, ProcesstaskTakes
  <2>2. unsaved' = unsaved
    BY <1>5, Zenon DEF Processtask
  <2> QED
    BY <2>1, <2>2, ReactingUnsaved
<1>6. CASE Waitformsg
  <2> DEFINE k == FirstFrom(Head(job).w)
  <2>1. /\ Takes(k) /\ port[k] \in Msgs
        /\ \/ Answered /\ port[k].is = "answer"
           \/ /\ Reacting(k)
              /\ hotchanged' = (hotchanged \/ (port[k].is = "changed" /\ task[port[k].from]))
    BY <1>6, WaitformsgTakes
  <2> HIDE DEF k
  <2>2. unsaved' = unsaved /\ up' = up
    BY <1>6, Zenon DEF Waitformsg
  <2>3. CASE Answered /\ port[k].is = "answer"
    <3>1. hotchanged' = hotchanged
      BY <2>3, Zenon DEF Answered
    <3>2. ASSUME NEW w \in Windows, InPort(w, "changed") PROVE InPort(w, "changed")'
      <4>1. port[k].is = "changed" \/ InPort(w, "changed")'
        BY <2>1, <3>2, TakesFromPort
      <4> QED
        BY <2>3, <4>1
    <3> QED
      BY <2>2, <3>1, <3>2, StillKnown, Zenon
  <2>4. CASE /\ Reacting(k)
             /\ hotchanged' = (hotchanged \/ (port[k].is = "changed" /\ task[port[k].from]))
    BY <2>1, <2>2, <2>4, ReactingUnsaved, Zenon
  <2> QED
    BY <2>1, <2>3, <2>4, Zenon
<1>7. CASE Drain
  <2> DEFINE w == Head(job).w
             k == FirstFrom(w)
  <2>1. \/ UNCHANGED <<hotchanged, port>>
        \/ /\ port[k] \in Msgs /\ Reacting(k)
           /\ hotchanged' = (hotchanged \/ (port[k].is = "changed" /\ task[port[k].from]))
    BY <1>7, DrainsProtocol
  <2> HIDE DEF w, k
  <2>2. unsaved' = unsaved /\ up' = up
    BY <1>7, Zenon DEF Drain
  <2>3. CASE UNCHANGED <<hotchanged, port>>
    BY <1>2, <2>2, <2>3, Zenon
  <2>4. CASE /\ port[k] \in Msgs /\ Reacting(k)
             /\ hotchanged' = (hotchanged \/ (port[k].is = "changed" /\ task[port[k].from]))
    BY <2>2, <2>4, ReactingUnsaved, Zenon
  <2> QED
    BY <2>1, <2>3, <2>4
<1>8. CASE Add \/ Renew
  <2>1. /\ job # << >> /\ up' = up
        /\ unsaved' => hotchanged'
    BY <1>8, Zenon DEF Add, Renew, Doing
  <2> QED
    BY <1>3, <2>1, Zenon DEF NothingUnsaved
<1>9. CASE Savehotlist
  <2>1. UNCHANGED <<port, up>> /\ unsaved' = (unsaved /\ ~hotchanged)
    BY <1>9, Zenon DEF Savehotlist
  <2>2. \A w \in Windows : InPort(w, "changed") => InPort(w, "changed")'
    BY <1>1, <2>1, StaysInPort
  <2> QED
    BY <2>1, <2>2, Zenon DEF NothingUnsaved
<1>10. CASE Lastsave
  <2>1. BothGone
    BY <1>10, LastProtocol
  <2>2. \A w \in Windows : Gone(w) /\ Ends(w)
    BY <2>1, Zenon DEF BothGone, Windows, Protocol
  <2>3. \A w \in Windows : ~InPort(w, "changed")
    <3>1. DOMAIN port = 1 .. Len(port)
      BY <1>1, SMT
    <3>2. \A w \in Windows, i \in 1 .. Len(port) : port[i].from # w
      BY <2>2, Zenon DEF Ends
    <3> QED
      BY <3>1, <3>2, Zenon DEF InPort, From
  <2>4. unsaved' = (unsaved /\ ~hotchanged)
    BY <1>10, Zenon DEF Lastsave
  <2> QED
    BY <2>3, <2>4, Zenon DEF NothingUnsaved
<1> QED
  BY <1>4, <1>5, <1>6, <1>7, <1>8, <1>9, <1>10, Zenon DEF MainStep

\* What a window sends.
LEMMA WindowSends ==
  ASSUME TypeOK, NEW w \in Windows, WindowStep(w) \/ User(w)
  PROVE  \A v \in Windows : InPort(v, "changed") => InPort(v, "changed")'
<1>1. CASE UNCHANGED port
  BY <1>1, Zenon DEF InPort, From
<1>2. ASSUME NEW is \in Async \cup Synchronous, Update(w, is)
      PROVE  \A v \in Windows : InPort(v, "changed") => InPort(v, "changed")'
  <2>1. [from |-> w, is |-> is] \in Msgs
    BY MsgForms
  <2> QED
    BY <1>2, <2>1, AppendsInPort, Zenon DEF Update
<1>3. CASE \E is \in Async \cup Synchronous : Update(w, is)
  BY <1>2, <1>3
<1>4. CASE Handletaskmsg(w)
  <2> DEFINE m == Head(inbox[w])
             a == [from |-> w, is |-> "answer", id |-> m.id]
  <2>1. port' = IF m.id = 0 THEN port ELSE Append(port, a)
    BY <1>4, Zenon DEF Handletaskmsg
  <2>2. m \in Orders
    BY <1>4, HandletaskmsgTypes
  <2>3. m.id \in Nat
    BY <2>2, SMT DEF Orders
  <2>4. a \in Msgs
    BY <2>3, MsgForms, Zenon
  <2> HIDE DEF a, m
  <2>5. CASE port' = Append(port, a)
    BY <2>4, <2>5, AppendsInPort
  <2> QED
    BY <1>1, <2>1, <2>5
<1>5. CASE Leave(w)
  <2> DEFINE sync == Without(inbox[w], {m \in Orders : m.id = 0})
             news == [i \in DOMAIN sync |->
                        [from |-> w, is |-> "answer", id |-> sync[i].id]]
  <2>1. port' = port \o news
    BY <1>5, Zenon DEF Leave
  <2>2. inbox[w] \in Seq(Orders)
    BY Zenon DEF TypeOK
  <2>3. sync \in Seq(Orders)
    BY <2>2, WithoutSet
  <2> HIDE DEF sync
  <2>4. /\ DOMAIN sync = 1 .. Len(sync) /\ Len(sync) \in Nat
        /\ \A i \in 1 .. Len(sync) : sync[i] \in Orders
    BY <2>3, SMT
  <2>5. \A m \in Orders : m.id \in Nat
    BY SMT DEF Orders
  <2>6. \A i \in 1 .. Len(sync) :
          [from |-> w, is |-> "answer", id |-> sync[i].id] \in Msgs
    BY <2>4, <2>5, MsgForms, Zenon
  <2>7. news \in [1 .. Len(sync) -> Msgs]
    BY <2>4, <2>6, Zenon
  <2>8. news \in Seq(Msgs)
    BY <2>4, <2>7, SMT
  <2> HIDE DEF news
  <2> QED
    BY <2>1, <2>8, GrowsInPort
<1>6. \/ UNCHANGED port \/ Handletaskmsg(w) \/ Leave(w)
      \/ \E is \in Async \cup Synchronous : Update(w, is)
  <2>2. CASE WindowStep(w)
    <3>1. {"close", "dims"} \subseteq Async \cup Synchronous
      BY Zenon DEF Async, Synchronous
    <3> QED
      BY <2>2, <3>1, Zenon DEF WindowStep, Build, BuildFails, Handlewindow,
         Lastevent, Asked, Saved, Close, Closed
  <2>3. CASE User(w)
    <3>1. {"follow", "manager", "changed", "restore", "save"}
            \subseteq Async \cup Synchronous
      BY Zenon DEF Async, Synchronous
    <3> QED
      BY <2>3, <3>1, Zenon DEF User, Ask, Rebuild, Showhide, Edit, Revert, Save
  <2> QED
    BY <2>2, <2>3
<1> QED
  BY <1>1, <1>3, <1>4, <1>5, <1>6

LEMMA WindowUnsaved ==
  ASSUME TypeOK, Protocol, NothingUnsaved, NEW w \in Windows,
         WindowStep(w) \/ User(w)
  PROVE  NothingUnsaved'
<1>1. \A v \in Windows : InPort(v, "changed") => InPort(v, "changed")'
  BY WindowSends
<1>2. CASE UNCHANGED <<unsaved, hotchanged, up>>
  BY <1>1, <1>2, StillKnown
<1>3. CASE (w = "viewer" /\ Showhide) \/ (w = "manager" /\ Edit)
  <2>1. /\ sub[w] = "events" /\ up' = up /\ Update(w, "changed")
    BY <1>3, Zenon DEF Showhide, Edit, Event, main
  <2>2. up
    BY <2>1, Zenon DEF Protocol, LastStep, BothGone, Gone, Windows
  <2>3. [from |-> w, is |-> "changed"] \in Msgs
    BY MsgForms, Zenon DEF Async
  <2>4. InPort(w, "changed")'
    <3> DEFINE m == [from |-> w, is |-> "changed"]
    <3>1. m.from = w /\ m.is = "changed" /\ port' = Append(port, m)
      BY <2>1, Zenon DEF Update
    <3> HIDE DEF m
    <3>2. InPort(m.from, m.is)'
      BY <2>3, <3>1, AppendsInPort DEF m
    <3> QED
      BY <3>1, <3>2, Zenon DEF InPort, From, m
  <2> QED
    BY <2>1, <2>2, <2>4, Zenon DEF NothingUnsaved
<1>4. \/ UNCHANGED <<unsaved, hotchanged, up>>
      \/ (w = "viewer" /\ Showhide) \/ (w = "manager" /\ Edit)
  BY Zenon DEF WindowStep, Build, BuildFails, Handletaskmsg, Handlewindow,
     Lastevent, Asked, Saved, Close, Closed, Leave, User, Ask, Rebuild, Revert, Save,
     list, main
<1> QED
  BY <1>2, <1>3, <1>4

-----------------------------------------------------------------------------
(* The windows catch up.                                                   *)

\* The ways in which a window is told.
InNews(w) == \E i \in DOMAIN inbox[w] : inbox[w][i].is \in {"addentry", "newlist"}
ToPut(w) == \E i \in DOMAIN job : job[i].do = "put" /\ job[i].w = w
ToHandle == \E v \in Windows : InPort(v, "changed")

LEMMA ToldIs ==
  ASSUME NEW w
  PROVE  Told(w) <=> InNews(w) \/ ToPut(w) \/ (w = "viewer" /\ ToHandle)
BY Zenon DEF Told, InNews, ToPut, ToHandle

LEMMA ToldNext ==
  ASSUME NEW w, InNews(w)' \/ ToPut(w)' \/ (w = "viewer" /\ ToHandle')
  PROVE  Told(w)'
BY Zenon DEF Told, InNews, ToPut, ToHandle

\* A window that is told stays told, or shows what is new.
Catches(w) == nodes'[w] = {"old"} /\ Shows(w)' => Told(w)' \/ brk'[w]

LEMMA CatchesAll ==
  ASSUME \A w \in Windows : Catches(w)
  PROVE  WillShow'
BY Zenon DEF WillShow, Catches

LEMMA StaysTold ==
  ASSUME WillShow, NEW w \in Windows, nodes'[w] = nodes[w], Shows(w)' => Shows(w),
         brk[w] => brk'[w] \/ ~Shows(w)',
         InNews(w) => InNews(w)', ToPut(w) => Told(w)',
         w = "viewer" /\ ToHandle => Told(w)'
  PROVE  Catches(w)
<1> SUFFICES ASSUME nodes'[w] = {"old"}, Shows(w)', ~brk'[w]
             PROVE  Told(w)'
  BY DEF Catches
<1>1. Told(w)
  BY Zenon DEF WillShow
<1>2. InNews(w) => Told(w)'
  BY ToldNext
<1> QED
  BY <1>1, <1>2, ToldIs

LEMMA PutsAre ==
  ASSUME job \in Seq(Steps), job' \in Seq(Steps), NEW w
  PROVE  /\ ToPut(w) <=> \E i \in 1 .. Len(job) : job[i].do = "put" /\ job[i].w = w
         /\ ToPut(w)' <=>
              \E i \in 1 .. Len(job') : job'[i].do = "put" /\ job'[i].w = w
<1>1. DOMAIN job = 1 .. Len(job) /\ DOMAIN job' = 1 .. Len(job')
  BY SMT
<1> QED
  BY <1>1, Zenon DEF ToPut

LEMMA PopsPuts ==
  ASSUME TypeOK, job # << >>, job' = Tail(job), NEW w, ToPut(w),
         Head(job).do # "put" \/ Head(job).w # w
  PROVE  ToPut(w)'
<1>1. job \in Seq(Steps) /\ job' \in Seq(Steps) /\ Head(job) = job[1]
  BY HeadStep
<1>2. PICK i \in 1 .. Len(job) : job[i].do = "put" /\ job[i].w = w
  BY <1>1, PutsAre
<1>3. i # 1
  BY <1>1, <1>2
<1>4. Len(job') = Len(job) - 1 /\ \A j \in 1 .. Len(job') : job'[j] = job[j + 1]
  BY <1>1, Popped
<1>5. i - 1 \in 1 .. Len(job') /\ job'[i - 1] = job[i]
  BY <1>1, <1>2, <1>3, <1>4, SMT
<1>6. \E j \in 1 .. Len(job') : job'[j].do = "put" /\ job'[j].w = w
  BY <1>2, <1>5, Zenon
<1> QED
  BY <1>1, <1>6, PutsAre

LEMMA ReplacesPuts ==
  ASSUME TypeOK, job # << >>, NEW s \in Steps, job' = <<s>> \o Tail(job),
         NEW w, ToPut(w), Head(job).do # "put"
  PROVE  ToPut(w)'
<1>1. job \in Seq(Steps) /\ Head(job) = job[1]
  BY HeadStep
<1>2. /\ job' \in Seq(Steps) /\ Len(job') = Len(job)
      /\ \A i \in 1 .. Len(job) : i # 1 => job'[i] = job[i]
  BY <1>1, Replaced
<1>3. PICK i \in 1 .. Len(job) : job[i].do = "put" /\ job[i].w = w
  BY <1>1, <1>2, PutsAre, Zenon
<1>4. \E j \in 1 .. Len(job') : job'[j].do = "put" /\ job'[j].w = w
  BY <1>1, <1>2, <1>3, Zenon
<1> QED
  BY <1>1, <1>2, <1>4, PutsAre, Zenon

LEMMA FrontPuts ==
  ASSUME TypeOK, NEW r \in Seq(Steps), job' = r \o job, NEW w
  PROVE  /\ ToPut(w) => ToPut(w)'
         /\ (\E i \in 1 .. Len(r) : r[i].do = "put" /\ r[i].w = w) => ToPut(w)'
<1>1. job \in Seq(Steps)
  BY Zenon DEF TypeOK
<1>2. /\ job' \in Seq(Steps)
      /\ \A i \in 1 .. Len(r) : i \in 1 .. Len(job') /\ job'[i] = r[i]
      /\ \A i \in 1 .. Len(job) : /\ Len(r) + i \in 1 .. Len(job')
                                  /\ job'[Len(r) + i] = job[i]
  BY <1>1, InFront
<1>3. ASSUME ToPut(w) PROVE ToPut(w)'
  <2>1. PICK i \in 1 .. Len(job) : job[i].do = "put" /\ job[i].w = w
    BY <1>1, <1>2, <1>3, PutsAre, Zenon
  <2>2. \E j \in 1 .. Len(job') : job'[j].do = "put" /\ job'[j].w = w
    BY <1>2, <2>1, Zenon
  <2> QED
    BY <1>1, <1>2, <2>2, PutsAre, Zenon
<1>4. ASSUME NEW i \in 1 .. Len(r), r[i].do = "put", r[i].w = w PROVE ToPut(w)'
  <2>1. \E j \in 1 .. Len(job') : job'[j].do = "put" /\ job'[j].w = w
    BY <1>2, <1>4, Zenon
  <2> QED
    BY <1>1, <1>2, <2>1, PutsAre, Zenon
<1> QED
  BY <1>3, <1>4

\* The handler of "changed" tells the viewer.
LEMMA ReactingCatches ==
  ASSUME TypeOK, Protocol, WillShow, NEW k, Reacting(k), port[k] \in Msgs,
         UNCHANGED <<nodes, brk, inbox>>, NEW w \in Windows
  PROVE  Catches(w)
<1> DEFINE m == port[k]
<1>1. /\ Takes(k) /\ k \in 1 .. Len(port) /\ job' = Reaction(m) \o job
      /\ sub' = sub
  BY Zenon DEF Reacting, Takes
<1>2. Reaction(m) \in Seq(Steps)
  BY ReactionSteps, Zenon DEF Reacts
<1>3. ToPut(w) => ToPut(w)'
  BY <1>1, <1>2, FrontPuts
<1>4. ASSUME w = "viewer", ToHandle PROVE Told(w)'
  <2>1. PICK v \in Windows : InPort(v, "changed")
    BY <1>4 DEF ToHandle
  <2>2. m.is = "changed" \/ InPort(v, "changed")'
    BY <1>1, <2>1, TakesFromPort
  <2>3. CASE InPort(v, "changed")'
    <3>1. ToHandle'
      BY <2>3, Zenon DEF ToHandle
    <3> QED
      BY <1>4, <3>1, ToldNext
  <2>4. CASE m.is = "changed"
    <3>1. task[m.from]
      BY <1>1, <2>4, ChangedHasTask
    <3>2. "changed" \notin Synchronous /\ "changed" # "restore" /\ "changed" # "close"
          /\ "changed" # "manager" /\ "changed" # "save"
      BY Zenon DEF Synchronous
    <3>3. Reaction(m) = <<Send("put", "viewer", "addentry")>>
      BY <2>4, <3>1, <3>2, Reactions, Zenon
    <3>4. Send("put", "viewer", "addentry") \in Steps
      BY <1>4, StepForms, Zenon
    <3>5. /\ Len(Reaction(m)) = 1 /\ Reaction(m)[1] = Send("put", "viewer", "addentry")
      BY <3>3, <3>4, SingleStep
    <3>6. /\ Reaction(m)[1].do = "put" /\ Reaction(m)[1].w = w
          /\ 1 \in 1 .. Len(Reaction(m))
      <4>1. 1 \in 1 .. Len(Reaction(m))
        BY <3>5, SMT
      <4> QED
        BY <1>4, <3>5, <4>1, StepDo
    <3>7. ToPut(w)'
      BY <1>1, <1>2, <3>6, FrontPuts
    <3> QED
      BY <3>7, ToldNext
  <2> QED
    BY <2>2, <2>3, <2>4
<1>5. ToPut(w) => Told(w)'
  BY <1>3, ToldNext
<1>6. /\ nodes'[w] = nodes[w] /\ (Shows(w)' => Shows(w)) /\ (brk[w] => brk'[w])
      /\ (InNews(w) => InNews(w)')
  BY <1>1, Zenon DEF Shows, InNews
<1> QED
  BY <1>4, <1>5, <1>6, StaysTold, Zenon

\* The main task does a step that takes nothing from the port.
LEMMA QuietCatches ==
  ASSUME TypeOK, WillShow, UNCHANGED <<nodes, inbox>>, UNCHANGED port,
         NEW w \in Windows, Shows(w)' => Shows(w), brk[w] => brk'[w] \/ ~Shows(w)',
         ToPut(w) => ToPut(w)'
  PROVE  Catches(w)
<1>1. InNews(w) => InNews(w)'
  BY Zenon DEF InNews
<1>2. ToPut(w) => Told(w)'
  BY ToldNext
<1>3. w = "viewer" /\ ToHandle => Told(w)'
  <2>1. ToHandle => ToHandle'
    BY Zenon DEF ToHandle, InPort, From
  <2> QED
    BY <2>1, ToldNext
<1>4. nodes'[w] = nodes[w]
  OBVIOUS
<1> QED
  BY <1>1, <1>2, <1>3, <1>4, StaysTold, Zenon

\* A message goes to a window.
LEMMA InboxIs ==
  ASSUME inbox \in [Windows -> Seq(Orders)], NEW w \in Windows, NEW m \in Orders,
         inbox' = [inbox EXCEPT ![w] = Append(@, m)], NEW v \in Windows
  PROVE  /\ InNews(v) => InNews(v)'
         /\ m.is \in {"addentry", "newlist"} => InNews(w)'
<1>1. inbox[w] \in Seq(Orders) /\ inbox'[w] = Append(inbox[w], m)
      /\ (v # w => inbox'[v] = inbox[v])
  BY Zenon
<1>2. /\ DOMAIN inbox[w] \subseteq DOMAIN inbox'[w]
      /\ \A i \in DOMAIN inbox[w] : inbox'[w][i] = inbox[w][i]
      /\ Len(inbox[w]) + 1 \in DOMAIN inbox'[w]
      /\ inbox'[w][Len(inbox[w]) + 1] = m
  <2> DEFINE q == inbox[w]
             p == inbox'[w]
  <2>1. q \in Seq(Orders) /\ p = Append(q, m)
    BY <1>1
  <2> HIDE DEF p, q
  <2>2. /\ DOMAIN q \subseteq DOMAIN p /\ \A i \in DOMAIN q : p[i] = q[i]
        /\ Len(q) + 1 \in DOMAIN p /\ p[Len(q) + 1] = m
    BY <2>1, SMT
  <2> QED
    BY <2>2 DEF p, q
<1> QED
  BY <1>1, <1>2, Zenon DEF InNews

\* Asetattrsasync to a window that shows the list reaches it: it has a task.
LEMMA PutCatches ==
  ASSUME TypeOK, Protocol, WillShow, Put, NEW v \in Windows
  PROVE  Catches(v)
<1> DEFINE s == Head(job)
           m == [is |-> s.is, id |-> 0]
<1>1. /\ job # << >> /\ s.do = "put" /\ job' = Tail(job)
      /\ inbox' = IF Accepts(s.w) THEN [inbox EXCEPT ![s.w] = Append(@, m)]
                  ELSE inbox
      /\ UNCHANGED <<nodes, brk, sub, port>>
  BY Zenon DEF Put, Doing, Proceed, window
<1>2. s \in Steps /\ s = job[1] /\ 1 \in 1 .. Len(job)
  BY <1>1, HeadStep
<1>3. s.w \in Windows /\ s.is \in {"addentry", "newlist"}
  <2>1. s.w \in Windows
    BY <1>1, <1>2, StepFields, Zenon
  <2>2. s.is \in News
    BY <1>1, <1>2, Zenon DEF Protocol, Announces
  <2> QED
    BY <2>1, <2>2 DEF News
<1>4. m \in Orders /\ m.is = s.is
  <2>1. s.is \in {"addentry", "dispose", "newlist"} /\ 0 \in Nat
    BY <1>3, SMT
  <2> QED
    BY <2>1, OrderForms, Zenon
<1>5. inbox \in [Windows -> Seq(Orders)]
  BY Zenon DEF TypeOK
<1> HIDE DEF s, m
<1>6. InNews(v) => InNews(v)'
  <2>1. CASE Accepts(s.w)
    <3>1. inbox' = [inbox EXCEPT ![s.w] = Append(@, m)]
      BY <1>1, <2>1
    <3> QED
      BY <1>3, <1>4, <1>5, <3>1, InboxIs
  <2>2. CASE ~Accepts(s.w)
    BY <1>1, <2>2, Zenon DEF InNews
  <2> QED
    BY <2>1, <2>2
<1>7. ASSUME v = s.w, Shows(v) PROVE Told(v)'
  <2>1. task[v]
    BY <1>7, Zenon DEF Protocol, Ends, Shows
  <2>2. Accepts(s.w)
    BY <1>7, <2>1, Zenon DEF Accepts, Shows
  <2>3. inbox' = [inbox EXCEPT ![v] = Append(@, m)]
    BY <1>1, <1>7, <2>2
  <2>4. m.is \in {"addentry", "newlist"} => InNews(v)'
    BY <1>4, <1>5, <2>3, InboxIs
  <2> QED
    BY <1>3, <1>4, <2>4, ToldNext
<1>8. ASSUME v # s.w, ToPut(v) PROVE Told(v)'
  <2>1. ToPut(v)'
    BY <1>1, <1>8, PopsPuts DEF s
  <2> QED
    BY <2>1, ToldNext
<1>9. v = "viewer" /\ ToHandle => Told(v)'
  <2>1. ToHandle => ToHandle'
    BY <1>1, Zenon DEF ToHandle, InPort, From
  <2> QED
    BY <2>1, ToldNext
<1>10. Shows(v)' => Shows(v)
  BY <1>1, Zenon DEF Shows
<1>11. CASE v = s.w
  BY <1>7, <1>10, <1>11, Zenon DEF Catches
<1>12. CASE v # s.w
  BY <1>1, <1>6, <1>8, <1>9, <1>10, <1>12, StaysTold, Zenon
<1> QED
  BY <1>11, <1>12

LEMMA TellCatches ==
  ASSUME TypeOK, Protocol, WillShow, Tell, NEW v \in Windows
  PROVE  Catches(v)
<1> DEFINE s == Head(job)
           m == [is |-> s.is, id |-> Awaited]
           a == [do |-> "await", w |-> s.w, id |-> Awaited]
<1>1. /\ job # << >> /\ s.do = "tell" /\ UNCHANGED <<nodes, brk, sub, port>>
      /\ \/ /\ inbox' = [inbox EXCEPT ![s.w] = Append(@, m)]
            /\ job' = <<a>> \o Tail(job)
         \/ job' = Tail(job) /\ inbox' = inbox
  BY Zenon DEF Tell, Doing, Proceed, window
<1>2. s \in Steps
  BY <1>1, HeadStep
<1>3. s.w \in Windows /\ s.is \in {"addentry", "dispose", "newlist"}
  BY <1>1, <1>2, StepFields, Zenon
<1>4. Awaited \in Nat
  BY AwaitedType
<1>5. m \in Orders /\ a \in Steps
  BY <1>3, <1>4, OrderForms, StepForms, Zenon
<1>6. inbox \in [Windows -> Seq(Orders)]
  BY Zenon DEF TypeOK
<1>7. Shows(v)' => Shows(v)
  BY <1>1, Zenon DEF Shows
<1>8. s.do # "put"
  BY <1>1
<1> HIDE DEF s, m, a
<1>9. CASE job' = Tail(job) /\ inbox' = inbox
  <2>1. ToPut(v) => ToPut(v)'
    BY <1>1, <1>8, <1>9, PopsPuts DEF s
  <2>2. UNCHANGED <<nodes, inbox>> /\ brk'[v] = brk[v] /\ UNCHANGED port
    BY <1>1, <1>9, Zenon
  <2> QED
    BY <1>7, <2>1, <2>2, QuietCatches, Zenon
<1>10. CASE /\ inbox' = [inbox EXCEPT ![s.w] = Append(@, m)]
            /\ job' = <<a>> \o Tail(job)
  <2>1. ToPut(v) => ToPut(v)'
    BY <1>1, <1>5, <1>8, <1>10, ReplacesPuts DEF s
  <2>2. InNews(v) => InNews(v)'
    BY <1>3, <1>5, <1>6, <1>10, InboxIs
  <2>3. v = "viewer" /\ ToHandle => Told(v)'
    <3>1. ToHandle => ToHandle'
      BY <1>1, Zenon DEF ToHandle, InPort, From
    <3> QED
      BY <3>1, ToldNext
  <2>4. ToPut(v) => Told(v)'
    BY <2>1, ToldNext
  <2> QED
    BY <1>1, <1>7, <2>2, <2>3, <2>4, StaysTold, Zenon
<1> QED
  BY <1>1, <1>9, <1>10

\* Waitformsg takes the answer.
LEMMA AnsweredCatches ==
  ASSUME TypeOK, WillShow, Answered, NEW k, Takes(k), port[k].is = "answer",
         job # << >>, Head(job).do = "await", UNCHANGED <<nodes, brk, inbox, sub>>,
         NEW v \in Windows
  PROVE  Catches(v)
<1>1. job' = Tail(job)
  BY Zenon DEF Answered, Proceed
<1>2. ToPut(v) => ToPut(v)'
  BY <1>1, PopsPuts
<1>3. ASSUME v = "viewer", ToHandle PROVE Told(v)'
  <2>1. PICK u \in Windows : InPort(u, "changed")
    BY <1>3 DEF ToHandle
  <2>2. port[k].is = "changed" \/ InPort(u, "changed")'
    BY <2>1, TakesFromPort
  <2>3. InPort(u, "changed")'
    BY <2>2
  <2>4. ToHandle'
    BY <2>3, Zenon DEF ToHandle
  <2> QED
    BY <1>3, <2>4, ToldNext
<1>4. ToPut(v) => Told(v)'
  BY <1>2, ToldNext
<1>5. /\ nodes'[v] = nodes[v] /\ (Shows(v)' => Shows(v)) /\ (brk[v] => brk'[v])
      /\ (InNews(v) => InNews(v)')
  BY Zenon DEF Shows, InNews
<1> QED
  BY <1>3, <1>4, <1>5, StaysTold, Zenon

\* The list changes, and the news for each window is what follows in job.
LEMMA RenewCatches ==
  ASSUME TypeOK, Protocol, Add \/ Renew, NEW v \in Windows
  PROVE  Catches(v)
<1>1. /\ job # << >> /\ Head(job).do \in Changes /\ job' = Tail(job)
  BY Zenon DEF Add, Renew, Doing, Proceed, Changes
<1>2. job \in Seq(Steps) /\ Head(job) = job[1] /\ 1 \in 1 .. Len(job)
  BY <1>1, HeadStep
<1>3. PICK j \in 1 .. Len(job) : 1 < j /\ job[j].do = "put" /\ job[j].w = v
  BY <1>1, <1>2, Zenon DEF Protocol, Announces
<1>4. /\ job' \in Seq(Steps) /\ Len(job') = Len(job) - 1
      /\ \A i \in 1 .. Len(job') : job'[i] = job[i + 1]
  BY <1>1, <1>2, Popped
<1>5. j - 1 \in 1 .. Len(job') /\ job'[j - 1] = job[j]
  BY <1>2, <1>3, <1>4, SMT
<1>6. \E i \in 1 .. Len(job') : job'[i].do = "put" /\ job'[i].w = v
  BY <1>3, <1>5, Zenon
<1>7. ToPut(v)'
  BY <1>2, <1>4, <1>6, PutsAre, Zenon
<1>8. Told(v)'
  BY <1>7, ToldNext
<1> QED
  BY <1>8, Zenon DEF Catches

LEMMA MainCatches ==
  ASSUME TypeOK, Protocol, WillShow, MainStep \/ Command
  PROVE  WillShow'
<1> SUFFICES ASSUME NEW v \in Windows PROVE Catches(v)
  BY CatchesAll
<1>1. CASE Command
  <2>1. /\ job = << >> /\ UNCHANGED <<nodes, brk, inbox, sub, port>>
    BY <1>1, Zenon DEF Command, window
  <2>2. ~ToPut(v)
    <3>1. DOMAIN << >> = {}
      BY SMT
    <3> QED
      BY <2>1, <3>1, Zenon DEF ToPut
  <2>3. Shows(v)' => Shows(v)
    BY <2>1, Zenon DEF Shows
  <2> QED
    BY <2>1, <2>2, <2>3, QuietCatches, Zenon
<1>2. CASE Put
  BY <1>2, PutCatches
<1>3. CASE Tell
  BY <1>3, TellCatches
<1>4. CASE Processtask
  <2>1. Reacting(1) /\ port[1] \in Msgs
    BY <1>4, ProcesstaskTakes
  <2>2. UNCHANGED <<nodes, brk, inbox>>
    BY <1>4, Zenon DEF Processtask, window
  <2> QED
    BY <2>1, <2>2, ReactingCatches
<1>5. CASE Waitformsg
  <2> DEFINE k == FirstFrom(Head(job).w)
  <2>1. /\ Takes(k) /\ port[k] \in Msgs
        /\ (Answered /\ port[k].is = "answer") \/ Reacting(k)
    BY <1>5, WaitformsgTakes
  <2> HIDE DEF k
  <2>2. /\ UNCHANGED <<nodes, brk, inbox, sub>> /\ job # << >>
        /\ Head(job).do = "await"
    BY <1>5, Zenon DEF Waitformsg, Doing, window
  <2>3. CASE Answered /\ port[k].is = "answer"
    BY <2>1, <2>2, <2>3, AnsweredCatches, Zenon
  <2>4. CASE Reacting(k)
    BY <2>1, <2>2, <2>4, ReactingCatches, Zenon
  <2> QED
    BY <2>1, <2>3, <2>4
<1>6. CASE Stop
  <2>1. /\ job # << >> /\ Head(job).do = "stop"
        /\ UNCHANGED <<nodes, brk, inbox, sub, port>>
        /\ \/ job' = <<On("drain", Head(job).w)>> \o Tail(job)
           \/ job' = Tail(job)
    BY <1>6, Zenon DEF Stop, Doing, Proceed, window
  <2>2. On("drain", Head(job).w) \in Steps
    <3>1. Head(job) \in Steps
      BY <2>1, HeadStep
    <3>2. Head(job).w \in Windows
      BY <2>1, <3>1, StepFields, Zenon
    <3> QED
      BY <3>2, StepForms, Zenon
  <2>3. Head(job).do # "put"
    BY <2>1
  <2>4. ToPut(v) => ToPut(v)'
    BY <2>1, <2>2, <2>3, PopsPuts, ReplacesPuts
  <2>5. Shows(v)' => Shows(v)
    BY <2>1, Zenon DEF Shows
  <2> QED
    BY <2>1, <2>4, <2>5, QuietCatches, Zenon
<1>7. CASE Drain
  <2> DEFINE w == Head(job).w
             k == FirstFrom(w)
  <2>1. /\ w \in Windows
        /\ \/ /\ brk' = [brk EXCEPT ![w] = TRUE]
              /\ UNCHANGED <<hotchanged, sub, port, task, job>>
           \/ /\ Takes(k) /\ port[k] \in Msgs /\ Reacting(k)
              /\ UNCHANGED <<brk, sub>>
           \/ /\ From(w) = {} /\ sub[w] = "ended" /\ Proceed
              /\ sub' = [sub EXCEPT ![w] = "none"]
              /\ UNCHANGED <<hotchanged, brk, port>>
    BY <1>7, DrainsProtocol
  <2>2. /\ job # << >> /\ Head(job).do = "drain" /\ UNCHANGED <<nodes, inbox>>
    BY <1>7, Zenon DEF Drain, Doing
  <2> HIDE DEF w, k
  <2>3. CASE /\ brk' = [brk EXCEPT ![w] = TRUE]
             /\ UNCHANGED <<hotchanged, sub, port, task, job>>
    <3>1. brk[v] => brk'[v]
      BY <2>1, <2>3, Zenon DEF TypeOK
    <3>2. /\ Shows(v)' => Shows(v)
          /\ ToPut(v) => ToPut(v)'
      BY <2>3, Zenon DEF Shows, ToPut
    <3> QED
      BY <2>2, <2>3, <3>1, <3>2, QuietCatches, Zenon
  <2>4. CASE /\ Takes(k) /\ port[k] \in Msgs /\ Reacting(k)
             /\ UNCHANGED <<brk, sub>>
    BY <2>2, <2>4, ReactingCatches, Zenon
  <2>5. CASE /\ From(w) = {} /\ sub[w] = "ended" /\ Proceed
             /\ sub' = [sub EXCEPT ![w] = "none"]
             /\ UNCHANGED <<hotchanged, brk, port>>
    <3>1. job' = Tail(job) /\ brk' = brk
      BY <2>5, Zenon DEF Proceed
    <3>2. ToPut(v) => ToPut(v)'
      BY <2>2, <3>1, PopsPuts
    <3>3. Shows(v)' => Shows(v)
      BY <2>1, <2>5, Zenon DEF Shows, TypeOK
    <3> QED
      BY <2>2, <2>5, <3>1, <3>2, <3>3, QuietCatches, Zenon
  <2> QED
    BY <2>1, <2>3, <2>4, <2>5, Zenon
<1>8. CASE Open
  <2> DEFINE w == Head(job).w
  <2>1. /\ job # << >> /\ Head(job).do = "open" /\ job' = Tail(job)
        /\ UNCHANGED <<nodes, inbox, port>>
        /\ \/ UNCHANGED <<sub, brk>>
           \/ /\ sub' = [sub EXCEPT ![w] = "build"]
              /\ brk' = [brk EXCEPT ![w] = FALSE]
    BY <1>8, Zenon DEF Open, Doing, Proceed
  <2> HIDE DEF w
  <2>2. ToPut(v) => ToPut(v)'
    BY <2>1, PopsPuts
  <2>3. /\ Shows(v)' => Shows(v)
        /\ brk[v] => brk'[v] \/ ~Shows(v)'
    <3>1. CASE UNCHANGED <<sub, brk>>
      BY <3>1, Zenon DEF Shows
    <3>2. CASE /\ sub' = [sub EXCEPT ![w] = "build"]
               /\ brk' = [brk EXCEPT ![w] = FALSE]
      <4>1. sub'[v] = IF v = w THEN "build" ELSE sub[v]
        BY <3>2, Zenon DEF TypeOK
      <4>2. brk'[v] = IF v = w THEN FALSE ELSE brk[v]
        BY <3>2, Zenon DEF TypeOK
      <4> QED
        BY <4>1, <4>2, Zenon DEF Shows
    <3> QED
      BY <2>1, <3>1, <3>2
  <2> QED
    BY <2>1, <2>2, <2>3, QuietCatches, Zenon
<1>9. CASE Reply
  <2>1. sub'[v] = IF v # Head(job).w THEN sub[v]
                  ELSE IF sub[v] = "asking" THEN "asked"
                  ELSE IF sub[v] = "saving" THEN "saved" ELSE "closed"
    BY <1>9, ReplyProtocol
  <2>2. /\ job # << >> /\ Head(job).do = "reply" /\ job' = Tail(job)
        /\ UNCHANGED <<nodes, brk, inbox, port>>
    BY <1>9, Zenon DEF Reply, Doing, Proceed, window
  <2>3. Shows(v)' => Shows(v)
    BY <2>1, Zenon DEF Shows
  <2>4. ToPut(v) => ToPut(v)'
    BY <2>2, PopsPuts
  <2> QED
    BY <2>2, <2>3, <2>4, QuietCatches, Zenon
<1>10. CASE Add \/ Renew
  BY <1>10, RenewCatches
<1>11. CASE Savehotlist \/ Lastsave
  <2>1. /\ job # << >> /\ Head(job).do # "put" /\ job' = Tail(job)
        /\ UNCHANGED <<nodes, brk, inbox, sub, port>>
    BY <1>11, Zenon DEF Savehotlist, Lastsave, Doing, Proceed, window
  <2>2. ToPut(v) => ToPut(v)'
    BY <2>1, PopsPuts
  <2>3. Shows(v)' => Shows(v)
    BY <2>1, Zenon DEF Shows
  <2> QED
    BY <2>1, <2>2, <2>3, QuietCatches, Zenon
<1> QED
  BY <1>1, <1>2, <1>3, <1>4, <1>5, <1>6, <1>7, <1>8, <1>9, <1>10, <1>11, Zenon
     DEF MainStep

\* What Handletaskmsg shows is never only old.
LEMMA HandledShows ==
  ASSUME NEW w, NEW is \in {"addentry", "dispose", "newlist"}
  PROVE  Handled(w, is) # {"old"}
<1>1. {"current"} # {"old"} /\ {} # {"old"} /\ "current" \notin {"old"}
  BY Zenon
<1>2. CASE is = "addentry"
  <2>1. Handled(w, is) = {"current"}
    BY <1>2, SMT DEF Handled
  <2> QED
    BY <1>1, <2>1
<1>3. CASE is = "dispose"
  <2>1. Handled(w, is) = {}
    BY <1>3, SMT DEF Handled
  <2> QED
    BY <1>1, <2>1
<1>4. CASE is = "newlist"
  <2>1. Handled(w, is) = {"current"} \cup (IF w = "viewer" THEN nodes[w] ELSE {})
    BY <1>4, SMT DEF Handled
  <2>2. "current" \in Handled(w, is)
    BY <2>1, Zenon
  <2> QED
    BY <1>1, <2>2
<1> QED
  BY <1>2, <1>3, <1>4, Zenon

LEMMA WindowCatches ==
  ASSUME TypeOK, Protocol, WillShow, NEW w \in Windows, WindowStep(w) \/ User(w)
  PROVE  WillShow'
<1> SUFFICES ASSUME NEW v \in Windows PROVE Catches(v)
  BY CatchesAll
<1>1. \A u \in Windows : InPort(u, "changed") => InPort(u, "changed")'
  BY WindowSends
<1>2. v = "viewer" /\ ToHandle => Told(v)'
  <2>1. ToHandle => ToHandle'
    BY <1>1, Zenon DEF ToHandle
  <2> QED
    BY <2>1, ToldNext
<1>3. brk' = brk /\ job' = job
  BY Zenon DEF WindowStep, Build, BuildFails, Handletaskmsg, Handlewindow,
     Lastevent, Asked, Saved, Close, Closed, Leave, User, Ask, Rebuild, Showhide,
     Edit, Revert, Save, window, main
<1>4. ToPut(v) => Told(v)'
  <2>1. ToPut(v) => ToPut(v)'
    BY <1>3, Zenon DEF ToPut
  <2> QED
    BY <2>1, ToldNext
<1>5. ASSUME nodes'[v] = nodes[v], inbox'[v] = inbox[v], Shows(v)' => Shows(v)
      PROVE  Catches(v)
  <2>1. InNews(v) => InNews(v)'
    BY <1>5, Zenon DEF InNews
  <2> QED
    BY <1>2, <1>3, <1>4, <1>5, <2>1, StaysTold, Zenon
<1>6. CASE w # v /\ ~(w = "manager" /\ Edit)
  <2>1. /\ \E S : nodes' = [nodes EXCEPT ![w] = S]
        /\ \E q : inbox' = [inbox EXCEPT ![w] = q]
        /\ \E s : sub' = [sub EXCEPT ![w] = s]
    <3>1. /\ nodes = [nodes EXCEPT ![w] = nodes[w]]
          /\ inbox = [inbox EXCEPT ![w] = inbox[w]]
          /\ sub = [sub EXCEPT ![w] = sub[w]]
      BY Zenon DEF TypeOK
    <3>2. nodes' = nodes \/ \E S : nodes' = [nodes EXCEPT ![w] = S]
      BY <1>6, Zenon DEF WindowStep, Build, BuildFails, Handletaskmsg, Handlewindow,
         Lastevent, Asked, Saved, Close, Closed, Leave, User, Ask, Rebuild, Showhide,
         Revert, Save, window
    <3>3. inbox' = inbox \/ \E q : inbox' = [inbox EXCEPT ![w] = q]
      BY <1>6, Zenon DEF WindowStep, Build, BuildFails, Handletaskmsg, Handlewindow,
         Lastevent, Asked, Saved, Close, Closed, Leave, User, Ask, Rebuild, Showhide,
         Revert, Save
    <3>4. sub' = sub \/ \E s : sub' = [sub EXCEPT ![w] = s]
      BY <1>6, Zenon DEF WindowStep, Build, BuildFails, Handletaskmsg, Handlewindow,
         Lastevent, Asked, Saved, Close, Closed, Leave, User, Ask, Rebuild, Showhide,
         Revert, Save, Goto
    <3> QED
      BY <3>1, <3>2, <3>3, <3>4, Zenon
  <2>2. nodes'[v] = nodes[v] /\ inbox'[v] = inbox[v] /\ sub'[v] = sub[v]
    BY <1>6, <2>1, Zenon DEF TypeOK
  <2>3. Shows(v)' => Shows(v)
    BY <2>2, Zenon DEF Shows
  <2> QED
    BY <1>5, <2>2, <2>3
<1>7. CASE w = v /\ Handletaskmsg(w)
  <2>1. Head(inbox[w]) \in Orders
    BY <1>7, HandletaskmsgTypes
  <2>2. Head(inbox[w]).is \in {"addentry", "dispose", "newlist"}
    BY <2>1, SMT DEF Orders
  <2>3. nodes' = [nodes EXCEPT ![w] = Handled(w, Head(inbox[w]).is)]
    BY <1>7, Zenon DEF Handletaskmsg
  <2>4. nodes'[w] = Handled(w, Head(inbox[w]).is)
    BY <2>3, Zenon DEF TypeOK
  <2>5. nodes'[w] # {"old"}
    BY <2>2, <2>4, HandledShows
  <2> QED
    BY <1>7, <2>5 DEF Catches
<1>8. CASE w = v /\ (Build(w) \/ Rebuild(w))
  <2>1. nodes' = [nodes EXCEPT ![w] = {"current"}]
    BY <1>8, Zenon DEF Build, Rebuild
  <2>2. nodes'[w] = {"current"}
    BY <2>1, Zenon DEF TypeOK
  <2>3. nodes'[w] # {"old"}
    BY <2>2, Zenon
  <2> QED
    BY <1>8, <2>3 DEF Catches
<1>9. CASE w = v /\ (BuildFails(w) \/ Close(w) \/ Closed(w) \/ Leave(w))
  <2>1. \E s \in {"leaving", "closing", "ended"} : sub' = [sub EXCEPT ![w] = s]
    BY <1>9, Zenon DEF BuildFails, Close, Closed, Leave, Goto
  <2>2. sub'[w] \in {"leaving", "closing", "ended"}
    BY <2>1, Zenon DEF TypeOK
  <2>3. ~Shows(w)'
    BY <2>2, Zenon DEF Shows
  <2> QED
    BY <1>9, <2>3 DEF Catches
<1>10. CASE w = v /\ \/ Handlewindow(w) \/ Lastevent(w) \/ Asked(w)
                     \/ (w = "manager" /\ Saved)
                     \/ \E is \in {"follow", "manager"} : Ask(w, is)
                     \/ (w = "viewer" /\ Showhide)
                     \/ (w = "manager" /\ Revert) \/ (w = "manager" /\ Save)
  <2>1. /\ nodes' = nodes /\ inbox' = inbox
        /\ sub[w] \in {"loop", "events", "asked", "saved"}
    BY <1>10, Zenon DEF Handlewindow, Lastevent, Asked, Saved, Ask, Showhide, Revert,
       Save, Event, window
  <2>2. Shows(v)
    BY <1>10, <2>1, Zenon DEF Shows
  <2> QED
    BY <1>5, <2>1, <2>2, Zenon
<1>11. CASE w = "manager" /\ Edit
  <2>1. /\ nodes' = [nodes EXCEPT !["viewer"] = Aged(@)] /\ Update(w, "changed")
        /\ UNCHANGED <<sub, inbox>>
    BY <1>11, Zenon DEF Edit
  <2>2. CASE v = "viewer"
    <3> DEFINE m == [from |-> w, is |-> "changed"]
    <3>1. m \in Msgs /\ m.from = w /\ m.is = "changed" /\ port' = Append(port, m)
      BY <2>1, MsgForms, Zenon DEF Update, Async
    <3> HIDE DEF m
    <3>2. InPort(m.from, m.is)'
      BY <3>1, AppendsInPort
    <3>3. ToHandle'
      <4>1. InPort(w, "changed")'
        BY <3>1, <3>2, Zenon DEF InPort, From, m
      <4> QED
        BY <4>1, Zenon DEF ToHandle
    <3>4. Told(v)'
      BY <2>2, <3>3, ToldNext
    <3> QED
      BY <3>4 DEF Catches
  <2>3. CASE v # "viewer"
    <3>1. nodes'[v] = nodes[v] /\ inbox'[v] = inbox[v]
      BY <2>1, <2>3, Zenon DEF TypeOK
    <3>2. Shows(v)' => Shows(v)
      BY <2>1, Zenon DEF Shows
    <3> QED
      BY <1>5, <3>1, <3>2
  <2> QED
    BY <2>2, <2>3
<1> QED
  BY <1>6, <1>7, <1>8, <1>9, <1>10, <1>11, Zenon DEF WindowStep, User

-----------------------------------------------------------------------------
(* The theorems.                                                           *)

LEMMA InitHolds ==
  ASSUME Init
  PROVE  IInv
<1>1. TypeOK /\ Protocol
  BY InitTypes, InitProtocol
<1>2. NothingUnsaved
  BY Zenon DEF Init, NothingUnsaved
<1>3. WillShow
  <2>1. \A w \in Windows : nodes[w] = {}
    BY Zenon DEF Init
  <2>2. {} # {"old"}
    OBVIOUS
  <2> QED
    BY <2>1, <2>2, Zenon DEF WillShow
<1> QED
  BY <1>1, <1>2, <1>3 DEF IInv

LEMMA NextHolds ==
  ASSUME IInv, Next
  PROVE  IInv'
<1>1. TypeOK /\ Protocol /\ NothingUnsaved /\ WillShow
  BY DEF IInv
<1>2. CASE MainStep \/ Command
  <2>1. TypeOK' /\ Protocol'
    BY <1>1, <1>2, MainTypes
  <2>2. NothingUnsaved'
    BY <1>1, <1>2, MainUnsaved
  <2>3. WillShow'
    BY <1>1, <1>2, MainCatches
  <2> QED
    BY <2>1, <2>2, <2>3 DEF IInv
<1>3. ASSUME NEW w \in Windows, WindowStep(w) \/ User(w) PROVE IInv'
  <2>1. TypeOK' /\ Protocol'
    BY <1>1, <1>3, WindowTypes, UserTypes
  <2>2. NothingUnsaved'
    BY <1>1, <1>3, WindowUnsaved
  <2>3. WillShow'
    BY <1>1, <1>3, WindowCatches
  <2> QED
    BY <2>1, <2>2, <2>3 DEF IInv
<1> QED
  BY <1>2, <1>3, Zenon DEF Next

LEMMA StutterHolds ==
  ASSUME IInv, UNCHANGED vars
  PROVE  IInv'
<1>1. /\ UNCHANGED <<sub, port, task, job, up>>
      /\ UNCHANGED <<unsaved, hotchanged, hotsema, nodes, locked, brk, inbox>>
  BY DEF vars, list, window, main
<1>2. TypeOK /\ Protocol /\ NothingUnsaved /\ WillShow
  BY DEF IInv
<1>3. Protocol'
  BY <1>1, <1>2, SameProtocol
<1>4. TypeOK'
  BY <1>1, <1>2, Zenon DEF TypeOK
<1>5. NothingUnsaved'
  BY <1>1, <1>2, Zenon DEF NothingUnsaved, InPort, From
<1>6. WillShow'
  BY <1>1, <1>2, Zenon DEF WillShow, Shows, Told, InPort, From
<1> QED
  BY <1>3, <1>4, <1>5, <1>6 DEF IInv

THEOREM Inductive == Spec => []IInv
<1>1. Init => IInv
  BY InitHolds
<1>2. IInv /\ [Next]_vars => IInv'
  BY NextHolds, StutterHolds
<1> QED
  BY <1>1, <1>2, PTL DEF Spec

\* The variables have their types, and a window is in a synchronous update
\* under the semaphore exactly while it holds it.
THEOREM HotlistTypes == Spec => []TypeOK
<1>1. IInv => TypeOK
  BY DEF IInv
<1> QED
  BY <1>1, Inductive, PTL

\* "If the hotlist was changed, it will be saved automatically when you leave
\* AWeb" (hotlist.html): an unsaved change is known to the main task, or a
\* window's update about it is in the port; after Deinstallhotwindow there is
\* none.
THEOREM NothingUnsavedHolds == Spec => []NothingUnsaved
<1>1. IInv => NothingUnsaved
  BY DEF IInv
<1> QED
  BY <1>1, Inductive, PTL

\* A window with only old nodes is told of the list as it is now: the message
\* is in its port, the main task is to put it, or the viewer's is the reaction
\* to an update under way; unless the window is about to close.
THEOREM CatchesUpHolds == Spec => []CatchesUp
<1>1. IInv => CatchesUp
  BY Zenon DEF IInv, WillShow, Shows, CatchesUp
<1> QED
  BY <1>1, Inductive, PTL
=============================================================================
