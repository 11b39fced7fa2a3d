----------------------------- MODULE TaskWaits ------------------------------
(***************************************************************************)
(* What the waits of the main task rely on, for any tasks and messages:    *)
(* the signals that wake them, and that what they wait for comes.          *)
(***************************************************************************)
EXTENDS TaskProofs

-----------------------------------------------------------------------------
(* The signals of the two ports.                                           *)

\* What the main task is in that looks at taskport, or sets its signal again,
\* before the event loop waits.
Looks(k) == calls[k].at \notin {"update", "last"}
Asleep(k) == calls[k].at \in {"sleep", "procured"}

\* Only the innermost call is in Wait(); a message that nobody is going to look
\* at has its signal set, and so has one for the call in Wait().
OnlyTopSleeps == \A k \in 1 .. depth - 1 : ~Asleep(k)
PortWatched == taskport # << >> => signal \/ \E k \in 1 .. depth : Looks(k)
SleepWatched == \A t \in Tasks : Sleeping(t) /\ HasMsgOf(t) => signal

AwakeInv == OnlyTopSleeps /\ PortWatched /\ SleepWatched

\* The calls after a step whose new call, if there is one, is f.
CallsFrom(f) ==
  \/ UNCHANGED <<calls, depth>>
  \/ (Grows \/ Adds(f)) /\ (depth > 0 => ~Asleep(depth))
  \/ depth > 0 /\ Pops
  \/ depth > 0 /\ Swaps(f)

\* The levels above those there were.
LEMMA Above ==
  ASSUME NEW d \in Nat, NEW e \in Nat, NEW k \in 1 .. e - 1, k \notin 1 .. d
  PROVE  k \in d + 1 .. e /\ k \in d + 1 .. e - 1
  BY SMT

\* A call is made by one that is not in Wait().
LEMMA TopSleeps ==
  ASSUME TypeOK, OnlyTopSleeps, NEW f, CallsFrom(f)
  PROVE  OnlyTopSleeps'
<1>1. depth \in Nat
  BY Levels DEF TypeOK
<1>2. SUFFICES ASSUME NEW k \in 1 .. depth' - 1
               PROVE  ~(calls'[k].at \in {"sleep", "procured"})
  BY SMT DEF OnlyTopSleeps, Asleep
<1>3. \A j \in 1 .. depth - 1 : ~(calls[j].at \in {"sleep", "procured"})
  BY DEF OnlyTopSleeps, Asleep
<1>4. CASE UNCHANGED <<calls, depth>>
  BY <1>2, <1>3, <1>4
<1>5. CASE (Grows \/ Adds(f)) /\ (depth > 0 => ~Asleep(depth))
  <2>1. CASE k \in 1 .. depth
    <3>1. calls'[k] = calls[k]
      BY <1>5, <2>1 DEF Grows, Adds
    <3>2. k \in 1 .. depth - 1 \/ (k = depth /\ depth > 0)
      BY <1>1, <2>1, SMT
    <3>3. ~(calls[k].at \in {"sleep", "procured"})
      BY <1>3, <1>5, <3>2, Zenon DEF Asleep
    <3> QED
      BY <3>1, <3>3
  <2>2. CASE k \notin 1 .. depth
    <3>1. calls'[k].at = "loop"
      <4>1. CASE Grows
        <5>1. k \in depth + 1 .. depth'
          BY <1>1, <1>2, <2>2, <4>1, Above, Zenon DEF Grows
        <5> QED
          BY <4>1, <5>1, Zenon DEF Grows
      <4>2. CASE Adds(f)
        <5>1. k \in depth + 1 .. depth' - 1
          BY <1>1, <1>2, <2>2, <4>2, Above, Zenon DEF Adds
        <5> QED
          BY <4>2, <5>1, Zenon DEF Adds
      <4> QED
        BY <1>5, <4>1, <4>2
    <3> QED
      BY <3>1, SMT
  <2> QED
    BY <2>1, <2>2
<1>6. CASE depth > 0 /\ Pops
  <2>1. k \in 1 .. depth - 1 /\ calls'[k] = calls[k]
    BY <1>1, <1>2, <1>6, SMT DEF Pops
  <2> QED
    BY <1>3, <2>1
<1>7. CASE depth > 0 /\ Swaps(f)
  <2>1. k \in 1 .. depth - 1 /\ calls'[k] = calls[k]
    BY <1>1, <1>2, <1>7, SMT DEF Swaps
  <2> QED
    BY <1>3, <2>1
<1> QED
  BY <1>4, <1>5, <1>6, <1>7, Zenon DEF CallsFrom

\* A call that looks at the port stays where it is.
LEMMA LooksStays ==
  ASSUME NEW k \in 1 .. depth, k \in 1 .. depth', calls'[k] = calls[k], Looks(k)
  PROVE  \E j \in 1 .. depth' : Looks(j)'
<1>1. Looks(k)'
  BY DEF Looks
<1> QED
  BY <1>1

\* The innermost call after a step.
LEMMA LevelsNext ==
  ASSUME stack' \in Seq(Frames)
  PROVE  /\ depth' \in Nat /\ (stack' = << >> <=> depth' = 0)
         /\ stack' # << >> => /\ depth' > 0 /\ depth' \in 1 .. depth'
                              /\ Top' = calls'[depth']
<1>1. depth' \in Nat /\ (stack' = << >> <=> depth' = 0)
  BY SMT DEF depth
<1>2. stack' # << >> => /\ Len(stack') > 0
                        /\ Head(stack') = Reverse(stack')[Len(stack')]
  BY ReverseTop
<1> QED
  BY <1>1, <1>2, SMT DEF depth, calls, Top

\* What a subtask puts at taskport comes with its signal.
LEMMA SubtasksSignal ==
  ASSUME IInv, NEW t \in Tasks, Process(t)
  PROVE  /\ UNCHANGED stack
         /\ \/ signal' = TRUE
            \/ /\ UNCHANGED <<taskport, signal>>
               /\ \A m \in AllMsgs, u \in Tasks : Of(m, u)' => Of(m, u)
<1> USE DEF IInv
<1>1. CASE UNCHANGED <<stack, msg, ports>>
  BY <1>1, SMT DEF ports, Of, Sender
<1>2. ASSUME NEW m \in AllMsgs, Putmsg(m), UNCHANGED stack
      PROVE  UNCHANGED stack /\ signal' = TRUE
  BY <1>2 DEF Putmsg
<1>3. CASE \E upd \in BOOLEAN : Subtask(t, upd)
  BY <1>3 DEF Subtask, Putmsg
<1>4. CASE SubtaskFails(t)
  BY <1>4 DEF SubtaskFails, Putmsg
<1>5. CASE Updated(t)
  <2>1. /\ UNCHANGED <<stack, taskport, signal>>
        /\ msg' = [msg EXCEPT ![<<t, "update">>] = NoMsg]
    BY <1>5 DEF Updated, ports
  <2>2. ASSUME NEW m \in AllMsgs, NEW u \in Tasks, Of(m, u)' PROVE Of(m, u)
    <3>1. msg'[m] = NoMsg \/ msg'[m] = msg[m]
      BY <2>1 DEF TypeOK
    <3> QED
      BY <2>2, <3>1 DEF Of, Sender
  <2> QED
    BY <2>1, <2>2
<1>6. CASE SubtaskEnds(t)
  <2>1. /\ UNCHANGED <<stack, msg>> /\ taskport' = taskport \o subport[t]
        /\ signal' = (signal \/ subport[t] # << >>)
    BY <1>6 DEF SubtaskEnds, ReplyAll
  <2>2. taskport \in Seq(AllMsgs) /\ signal \in BOOLEAN
    BY DEF TypeOK
  <2>3. CASE subport[t] # << >>
    <3>1. signal' = TRUE
      BY <2>1, <2>2, <2>3
    <3> QED
      BY <2>1, <3>1
  <2>4. CASE subport[t] = << >>
    <3>1. taskport' = taskport /\ signal' = signal
      BY <2>1, <2>2, <2>4, SMT
    <3> QED
      BY <2>1, <3>1 DEF Of, Sender
  <2> QED
    BY <2>3, <2>4
<1>7. CASE ReleaseRunsema(t)
  BY <1>1, <1>7 DEF ReleaseRunsema
<1>8. CASE Gettaskmsg(t)
  BY <1>1, <1>8 DEF Gettaskmsg
<1>9. CASE Replytaskmsg(t)
  BY <1>9 DEF Replytaskmsg, Putmsg
<1>10. CASE UpdateSync(t)
  BY <1>10 DEF UpdateSync, Update, Putmsg
<1>11. CASE \E m \in Msgs : UpdateAsync(m, t)
  BY <1>11 DEF UpdateAsync, Update, Putmsg
<1>12. CASE EntryEnds(t)
  <2>1. CASE updport[t]
    BY <1>12, <2>1 DEF EntryEnds, Putmsg
  <2>2. CASE ~updport[t]
    <3>1. UNCHANGED <<stack, msg, ports>>
      BY <1>12, <2>2, Zenon DEF EntryEnds
    <3> QED
      BY <1>1, <3>1
  <2> QED
    BY <2>1, <2>2
<1> QED
  BY <1>3, <1>4, <1>5, <1>6, <1>7, <1>8, <1>9, <1>10, <1>11, <1>12, Zenon
     DEF Process, Wrapper

\* A subtask leaves the waits of the main task watched.
LEMMA AwakeSubtasks ==
  ASSUME IInv, AwakeInv, NEW t \in Tasks, Process(t)
  PROVE  AwakeInv'
<1> USE DEF IInv
<1>1. /\ UNCHANGED <<stack, calls, depth>>
      /\ \/ signal' = TRUE
         \/ /\ UNCHANGED <<taskport, signal>>
            /\ \A m \in AllMsgs, u \in Tasks : Of(m, u)' => Of(m, u)
  BY SubtasksSignal DEF calls, depth
<1>2. OnlyTopSleeps'
  BY <1>1 DEF AwakeInv, OnlyTopSleeps, Asleep
<1>3. PortWatched'
  BY <1>1, SMT DEF AwakeInv, PortWatched, Looks
<1>4. SleepWatched'
  <2>1. CASE signal' = TRUE
    BY <2>1, SMT DEF SleepWatched
  <2>2. CASE /\ UNCHANGED <<taskport, signal>>
             /\ \A m \in AllMsgs, u \in Tasks : Of(m, u)' => Of(m, u)
    <3>1. taskport \in Seq(AllMsgs) /\ stack \in Seq(Frames)
      BY DEF TypeOK
    <3>2. SUFFICES ASSUME NEW u \in Tasks, Sleeping(u)', HasMsgOf(u)'
                   PROVE  signal
      BY <2>2, SMT DEF SleepWatched
    <3>3. HasMsgOf(u)
      <4>1. PICK i \in DOMAIN taskport : Of(taskport[i], u)'
        BY <2>2, <3>2 DEF HasMsgOf, Of, Sender
      <4>2. taskport[i] \in AllMsgs
        BY <3>1, <4>1
      <4>3. Of(taskport[i], u)
        BY <2>2, <4>1, <4>2 DEF Of, Sender
      <4> QED
        BY <4>1, <4>3, Zenon DEF HasMsgOf
    <3>4. Sleeping(u)
      <4>1. CASE In({"sleep"})' /\ Of(Top.msg, u)'
        <5>1. In({"sleep"}) /\ Top' = Top
          BY <1>1, <4>1 DEF In, Top
        <5>2. Top.msg \in AllMsgs
          <6>1. Top \in Frames /\ Top.at = "sleep"
            BY <3>1, <5>1, SMT DEF In, Top
          <6> QED
            BY <6>1, FrameFields
        <5>3. Of(Top.msg, u)
          BY <2>2, <4>1, <5>1, <5>2 DEF Of, Sender
        <5> QED
          BY <5>1, <5>3 DEF Sleeping
      <4>2. CASE In({"procured"})' /\ Top'.task = u
        BY <1>1, <4>2 DEF In, Top, Sleeping
      <4> QED
        BY <3>2, <4>1, <4>2 DEF Sleeping
    <3> QED
      BY <3>3, <3>4 DEF AwakeInv, SleepWatched
  <2> QED
    BY <1>1, <2>1, <2>2
<1> QED
  BY <1>2, <1>3, <1>4 DEF AwakeInv

\* Nobody is in Wait() after a step that ends with another call innermost.
LEMMA TopAwake ==
  ASSUME TypeOK', depth' > 0 => ~(calls'[depth'].at \in {"sleep", "procured"})
  PROVE  SleepWatched'
<1>1. stack' \in Seq(Frames)
  BY DEF TypeOK
<1>2. /\ depth' \in Nat /\ (stack' = << >> <=> depth' = 0)
      /\ stack' # << >> => depth' > 0 /\ Top' = calls'[depth']
  BY <1>1, LevelsNext
<1>3. ~(stack' # << >> /\ Top'.at \in {"sleep", "procured"})
  BY <1>2
<1>4. \A t \in Tasks : ~Sleeping(t)'
  BY <1>3, SMT DEF Sleeping, In
<1> QED
  BY <1>4 DEF SleepWatched

\* Nor after one that returns to the call before.
LEMMA PopAwake ==
  ASSUME TypeOK, TypeOK', OnlyTopSleeps, depth > 0, Pops
  PROVE  SleepWatched'
<1>1. depth \in Nat
  BY Levels DEF TypeOK
<1>2. depth' > 0 => depth' \in 1 .. depth - 1 /\ calls'[depth'] = calls[depth']
  <2> SUFFICES ASSUME depth' > 0
               PROVE  depth' \in 1 .. depth - 1 /\ calls'[depth'] = calls[depth']
    OBVIOUS
  <2>1. depth' \in 1 .. depth - 1
    BY <1>1, SMT DEF Pops
  <2> QED
    BY <2>1, Zenon DEF Pops
<1>3. \A k \in 1 .. depth - 1 : ~(calls[k].at \in {"sleep", "procured"})
  BY DEF OnlyTopSleeps, Asleep
<1>4. depth' > 0 => ~(calls'[depth'].at \in {"sleep", "procured"})
  BY <1>2, <1>3, Zenon
<1> QED
  BY <1>4, TopAwake

\* A call that goes on in another place than Wait().
LEMMA SwapAwake ==
  ASSUME TypeOK, TypeOK', NEW f, depth > 0, Swaps(f),
         ~(f.at \in {"sleep", "procured"})
  PROVE  SleepWatched'
<1>1. calls'[depth'] = f
  BY Zenon DEF Swaps
<1> QED
  BY <1>1, TopAwake

\* A message is received.
LEMMA ReceivesAwake ==
  ASSUME IInv, AwakeInv, TypeOK', NEW m \in AllMsgs, Receives(m),
         depth > 0 => ~Asleep(depth),
         \/ UNCHANGED signal
         \/ \E k \in 1 .. depth' : Looks(k)'
  PROVE  AwakeInv'
<1> USE DEF IInv
<1>1. depth \in Nat /\ depth' \in Nat
  BY Levels, LevelsNext DEF TypeOK
<1>2. PICK f : /\ Grows \/ Adds(f)
               /\ f.at \in {"update", "first"}
  <2>1. NewHandler(m).at = "update" /\ Stopping(Sender(m)).at = "first"
    BY DEF NewHandler, Stopping
  <2> QED
    BY <2>1, Zenon DEF Receives
<1>3. CallsFrom(f)
  BY <1>2 DEF CallsFrom
<1>4. OnlyTopSleeps'
  BY <1>3, TopSleeps DEF AwakeInv
<1>5. PortWatched'
  <2>1. CASE UNCHANGED signal
    <3>1. SUFFICES ASSUME taskport' # << >> PROVE signal \/ \E k \in 1 .. depth' : Looks(k)'
      BY <2>1 DEF PortWatched
    <3>2. taskport # << >>
      <4>1. m \in ToSet(taskport)
        BY DEF Receives
      <4> QED
        BY <4>1, SMT DEF ToSet
    <3>3. CASE signal
      BY <3>3
    <3>4. CASE \E k \in 1 .. depth : Looks(k)
      <4>1. PICK k \in 1 .. depth : Looks(k)
        BY <3>4
      <4>2. k \in 1 .. depth' /\ calls'[k] = calls[k]
        <5>1. depth' >= depth
          <6>1. depth' >= depth \/ depth' > depth
            BY <1>2, Zenon DEF Grows, Adds
          <6> QED
            BY <1>1, <6>1, SMT
        <5>2. k \in 1 .. depth'
          BY <1>1, <4>1, <5>1, SMT
        <5> QED
          BY <1>2, <4>1, <5>2, Zenon DEF Grows, Adds
      <4> QED
        BY <4>1, <4>2, LooksStays
    <3> QED
      BY <3>2, <3>3, <3>4 DEF AwakeInv, PortWatched
  <2> QED
    BY <2>1 DEF PortWatched
<1>6. SleepWatched'
  <2>1. CASE Adds(f)
    <3>1. calls'[depth'] = f
      BY <2>1 DEF Adds
    <3> QED
      BY <1>2, <3>1, TopAwake
  <2>2. CASE Grows
    <3>1. CASE depth' \in 1 .. depth
      <4>1. depth' = depth /\ depth > 0
        BY <1>1, <2>2, <3>1, SMT DEF Grows
      <4>2. calls'[depth'] = calls[depth]
        BY <2>2, <3>1, <4>1, Zenon DEF Grows
      <4> QED
        BY <4>1, <4>2, TopAwake DEF Asleep
    <3>2. CASE depth' \notin 1 .. depth /\ depth' > 0
      <4>1. depth' \in depth + 1 .. depth'
        BY <1>1, <2>2, <3>2, SMT DEF Grows
      <4>2. calls'[depth'].at = "loop"
        BY <2>2, <4>1, Zenon DEF Grows
      <4> QED
        BY <4>2, TopAwake
    <3>3. CASE ~(depth' > 0)
      BY <3>3, TopAwake
    <3> QED
      BY <3>1, <3>2, <3>3
  <2> QED
    BY <1>2, <2>1, <2>2
<1> QED
  BY <1>4, <1>5, <1>6 DEF AwakeInv

\* A wait that goes on in another place.
LEMMA GoesOnAs ==
  ASSUME TypeOK, stack # << >>,
         NEW a \in {"wait", "sleep"} \cup Stages,
         IF a \in Stages THEN Top.at \in Stages ELSE Top.at \in {"wait", "sleep"},
         stack' = Call([Top EXCEPT !.at = a], Tail(stack))
  PROVE  /\ depth > 0 /\ depth' = depth /\ stack' # << >> /\ Top'.at = a
         /\ Top = calls[depth] /\ Top' = calls'[depth']
         /\ IF a \in Stages THEN Top'.task = Top.task ELSE Top'.msg = Top.msg
         /\ \E f \in Frames : Swaps(f) /\ f = Top'
<1> DEFINE f == [Top EXCEPT !.at = a]
<1>1. /\ stack \in Seq(Frames) /\ depth > 0 /\ Top = calls[depth] /\ Top \in Frames
  <2>1. stack \in Seq(Frames)
    BY DEF TypeOK
  <2> QED
    BY <2>1, Levels
<1>2. f \in Frames /\ f.at = a
      /\ IF a \in Stages THEN f.task = Top.task ELSE f.msg = Top.msg
  <2>1. CASE a \in Stages
    <3>1. f = [at |-> a, task |-> Top.task]
      BY <1>1, <2>1, FrameChanges
    <3>2. Top.task \in Tasks
      BY <1>1, <2>1, FrameFields
    <3> HIDE DEF f
    <3> QED
      BY <2>1, <3>1, <3>2, FrameFields
  <2>2. CASE a \notin Stages
    <3>0. a \in {"wait", "sleep"} /\ Top.at \in {"wait", "sleep"}
      BY <2>2
    <3>1. f = [at |-> a, msg |-> Top.msg]
      BY <1>1, <3>0, FrameChanges
    <3>2. Top.msg \in AllMsgs
      BY <1>1, <3>0, FrameFields
    <3> HIDE DEF f
    <3> QED
      BY <2>2, <3>0, <3>1, <3>2, FrameFields
  <2> QED
    BY <2>1, <2>2
<1>3. stack' = Call(f, Tail(stack))
  OBVIOUS
<1> HIDE DEF f
<1>4. stack' \in Seq(Frames) /\ stack' # << >> /\ Swaps(f)
  BY <1>1, <1>2, <1>3, Swapped
<1>5. Top' = calls'[depth']
  BY <1>4, LevelsNext
<1>6. depth' = depth /\ calls'[depth] = f
  BY <1>4 DEF Swaps
<1>7. Top' = f
  BY <1>5, <1>6
<1> QED
  BY <1>1, <1>2, <1>4, <1>5, <1>6, <1>7, Zenon

\* Nobody goes to Wait() with something to do at taskport and its signal clear.
LEMMA GoesOnAwake ==
  ASSUME IInv, TypeOK', AwakeInv,
         WaitformsgSleep \/ WaitformsgWake \/ Procure \/ StoptaskWake \/ StoptaskAgain
  PROVE  AwakeInv'
<1> USE DEF IInv
<1>1. depth \in Nat /\ stack \in Seq(Frames) /\ taskport \in Seq(AllMsgs)
  BY Levels DEF TypeOK
<1>2. ASSUME NEW a \in {"wait", "sleep"} \cup Stages, stack # << >>,
             IF a \in Stages THEN Top.at \in Stages ELSE Top.at \in {"wait", "sleep"},
             stack' = Call([Top EXCEPT !.at = a], Tail(stack)),
             a # "last" \/ signal' = TRUE,
             a \in {"sleep", "procured"} => SleepWatched'
      PROVE  AwakeInv'
  <2>1. /\ depth > 0 /\ depth' = depth /\ stack' # << >> /\ Top'.at = a
        /\ Top' = calls'[depth'] /\ \E f \in Frames : Swaps(f) /\ f = Top'
    BY <1>2, GoesOnAs
  <2>2. PICK f \in Frames : Swaps(f) /\ f = Top'
    BY <2>1
  <2>3. CallsFrom(f)
    BY <2>1, <2>2 DEF CallsFrom
  <2>4. OnlyTopSleeps'
    BY <2>3, TopSleeps DEF AwakeInv
  <2>5. PortWatched'
    <3>1. CASE a = "last"
      BY <1>2, <3>1 DEF PortWatched
    <3>2. CASE a # "last"
      <4>1. calls'[depth'].at \notin {"update", "last"}
        BY <1>2, <2>1, <3>2 DEF Stages
      <4>2. depth' \in 1 .. depth'
        BY <1>1, <2>1, SMT
      <4> QED
        BY <4>1, <4>2 DEF PortWatched, Looks
    <3> QED
      BY <3>1, <3>2
  <2>6. SleepWatched'
    <3>1. CASE a \in {"sleep", "procured"}
      BY <1>2, <3>1
    <3>2. CASE a \notin {"sleep", "procured"}
      BY <2>1, <3>2, TopAwake
    <3> QED
      BY <3>1, <3>2
  <2> QED
    BY <2>4, <2>5, <2>6 DEF AwakeInv
<1>3. CASE WaitformsgSleep
  <2>1. /\ stack # << >> /\ Top.at = "wait" /\ UNCHANGED <<msg, taskport, signal>>
        /\ Is(Top.msg, Kinds) => ~HasMsgOf(Sender(Top.msg))
        /\ stack' = Call([Top EXCEPT !.at = "sleep"], Tail(stack))
    BY <1>3, SMT DEF WaitformsgSleep, In, ports
  <2>2. "sleep" \in {"wait", "sleep"} \cup Stages /\ "sleep" \notin Stages
    BY DEF Stages
  <2>3. Top'.at = "sleep" /\ Top'.msg = Top.msg /\ Top \in Frames
    BY <1>1, <2>1, <2>2, GoesOnAs, Levels
  <2>4. SleepWatched'
    <3>1. SUFFICES ASSUME NEW t \in Tasks, Sleeping(t)' PROVE ~HasMsgOf(t)'
      BY DEF SleepWatched
    <3>2. Of(Top.msg, t)
      BY <2>1, <2>3, <3>1, SMT DEF Sleeping, In, Of, Sender
    <3>3. Top.msg \in AllMsgs
      BY <2>1, <2>3, FrameFields
    <3>4. Is(Top.msg, Kinds) /\ Sender(Top.msg) = t
      BY <3>2, <3>3, Returning, Zenon DEF Of, InUse, Is
    <3> QED
      BY <2>1, <3>4 DEF HasMsgOf, Of, Sender
  <2> QED
    BY <1>2, <2>1, <2>2, <2>4
<1>4. CASE WaitformsgWake
  <2>1. /\ stack # << >> /\ Top.at = "sleep"
        /\ stack' = Call([Top EXCEPT !.at = "wait"], Tail(stack))
    BY <1>4, SMT DEF WaitformsgWake, In
  <2>2. "wait" \in {"wait", "sleep"} \cup Stages /\ "wait" \notin Stages
    BY DEF Stages
  <2> QED
    BY <1>2, <2>1, <2>2
<1>5. ASSUME stack # << >>, Top.at \in Stages, ~HasMsgOf(Top.task),
             stack' = Call([Top EXCEPT !.at = "procured"], Tail(stack)),
             UNCHANGED <<msg, taskport>>
      PROVE  AwakeInv'
  <2>2. "procured" \in {"wait", "sleep"} \cup Stages /\ "procured" \in Stages
    BY DEF Stages
  <2>3. Top'.at = "procured" /\ Top'.task = Top.task
    BY <1>1, <1>5, <2>2, GoesOnAs
  <2>4. SleepWatched'
    <3>1. SUFFICES ASSUME NEW t \in Tasks, Sleeping(t)' PROVE ~HasMsgOf(t)'
      BY DEF SleepWatched
    <3>2. Top.task = t
      BY <2>3, <3>1, SMT DEF Sleeping, In
    <3> QED
      BY <1>5, <3>2 DEF HasMsgOf, Of, Sender
  <2> QED
    BY <1>2, <1>5, <2>2, <2>4
<1>6. CASE Procure
  <2>1. /\ stack # << >> /\ Top.at = "first" /\ ~HasMsgOf(Top.task)
        /\ stack' = Call([Top EXCEPT !.at = "procured"], Tail(stack))
        /\ UNCHANGED <<msg, taskport>>
    BY <1>6, SMT DEF Procure, Drained, In, ports
  <2> QED
    BY <1>5, <2>1 DEF Stages
<1>7. CASE StoptaskAgain
  <2>1. /\ stack # << >> /\ Top.at = "again" /\ ~HasMsgOf(Top.task)
        /\ stack' = Call([Top EXCEPT !.at = "procured"], Tail(stack))
        /\ UNCHANGED <<msg, taskport>>
    BY <1>7, SMT DEF StoptaskAgain, Drained, In, ports
  <2> QED
    BY <1>5, <2>1 DEF Stages
<1>8. CASE StoptaskWake
  <2> DEFINE ended == SemaToo /\ semaport # << >> /\ Head(semaport) = Top.task
  <2>1. /\ stack # << >> /\ Top.at = "procured" /\ UNCHANGED <<msg, taskport>>
        /\ stack' = Call([Top EXCEPT !.at = IF ended THEN "last"
                          ELSE IF signal THEN "again" ELSE "procured"], Tail(stack))
        /\ IF ended THEN signal' = TRUE ELSE signal' = FALSE
    BY <1>8, SMT DEF StoptaskWake, In, Setportsignal
  <2> HIDE DEF ended
  <2>2. Top.at \in Stages /\ {"last", "again", "procured"} \subseteq Stages
    BY <2>1 DEF Stages
  <2>3. CASE ended
    <3>1. stack' = Call([Top EXCEPT !.at = "last"], Tail(stack)) /\ signal' = TRUE
      BY <2>1, <2>3
    <3> QED
      BY <1>2, <2>1, <2>2, <3>1
  <2>4. CASE ~ended /\ signal
    <3>1. stack' = Call([Top EXCEPT !.at = "again"], Tail(stack))
      BY <2>1, <2>4
    <3>2. "again" # "last" /\ "again" \notin {"sleep", "procured"}
      OBVIOUS
    <3> QED
      BY <1>2, <2>1, <2>2, <3>1, <3>2
  <2>5. CASE ~ended /\ ~signal
    <3>1. stack' = Call([Top EXCEPT !.at = "procured"], Tail(stack))
      BY <2>1, <2>5
    <3>2. Top.task \in Tasks
      BY <1>1, <2>1, <2>2, Levels, FrameFields
    <3>3. Sleeping(Top.task)
      BY <2>1, SMT DEF Sleeping, In
    <3>4. ~HasMsgOf(Top.task)
      BY <2>5, <3>2, <3>3 DEF AwakeInv, SleepWatched
    <3> QED
      BY <1>5, <2>1, <2>2, <3>1, <3>4
  <2> QED
    BY <2>3, <2>4, <2>5
<1> QED
  BY <1>3, <1>4, <1>6, <1>7, <1>8

\* The main task leaves its waits watched.
LEMMA AwakeMain ==
  ASSUME IInv, TypeOK', AwakeInv, Main \/ HandlerReturns
  PROVE  AwakeInv'
<1> USE DEF IInv
<1>1. depth \in Nat /\ depth' \in Nat /\ stack \in Seq(Frames) /\ taskport \in Seq(AllMsgs)
  BY Levels, LevelsNext DEF TypeOK
<1>2. stack # << >> => depth > 0 /\ depth \in 1 .. depth /\ Top = calls[depth]
  BY Levels DEF TypeOK
<1>3. ASSUME NEW f, depth > 0, Pops \/ Swaps(f) PROVE OnlyTopSleeps'
  <2>1. CallsFrom(f)
    BY <1>3 DEF CallsFrom
  <2> QED
    BY <2>1, TopSleeps DEF AwakeInv
<1>4. ASSUME NEW f, depth > 0, Swaps(f), Looks(depth)' PROVE PortWatched'
  <2>1. depth' \in 1 .. depth'
    BY <1>1, <1>4, SMT DEF Swaps
  <2> QED
    BY <1>4, <2>1 DEF PortWatched
<1>5. ASSUME depth > 0, Pops, ~Looks(depth), UNCHANGED <<taskport, signal>>
      PROVE  PortWatched'
  <2>1. SUFFICES ASSUME taskport # << >>, ~signal
                 PROVE  \E k \in 1 .. depth' : Looks(k)'
    BY <1>5 DEF PortWatched
  <2>2. PICK k \in 1 .. depth : Looks(k)
    BY <2>1 DEF AwakeInv, PortWatched
  <2>3. k # depth
    BY <1>5, <2>2
  <2>4. k \in 1 .. depth - 1 /\ k \in 1 .. depth'
    BY <1>1, <1>5, <2>2, <2>3, SMT DEF Pops
  <2>5. calls'[k] = calls[k]
    BY <1>5, <2>4, Zenon DEF Pops
  <2> QED
    BY <2>2, <2>4, <2>5, LooksStays
<1>6. CASE Processtask
  <2>1. CASE taskport = << >>
    <3>1. stack = << >> /\ stack' = << [at |-> "loop"] >> /\ taskport' = taskport
      BY <1>6, <2>1, SMT DEF Processtask
    <3>2. Grows /\ depth' = 1 /\ calls'[1] = [at |-> "loop"] /\ depth = 0
      BY <1>1, <3>1, LoopGrown, Levels
    <3>3. CallsFrom([at |-> "loop"])
      BY <3>2 DEF CallsFrom
    <3>4. OnlyTopSleeps'
      BY <3>3, TopSleeps DEF AwakeInv
    <3>5. SleepWatched'
      BY <3>2, TopAwake
    <3> QED
      BY <2>1, <3>1, <3>4, <3>5 DEF AwakeInv, PortWatched
  <2>2. CASE taskport # << >>
    <3>1. PICK m \in AllMsgs : Receives(m)
      BY <1>6, <2>2, ProcesstaskReceives
    <3>2. depth' > 0 /\ calls'[1] = [at |-> "loop"] /\ stack = << >>
      BY <1>6, <2>2, ProcesstaskReceives DEF Processtask
    <3>3. 1 \in 1 .. depth' /\ Looks(1)' /\ ~(depth > 0)
      BY <1>1, <3>2, Levels, SMT DEF Looks
    <3> QED
      BY <3>1, <3>3, ReceivesAwake
  <2> QED
    BY <2>1, <2>2
<1>7. CASE Resignal
  <2>1. /\ stack # << >> /\ Top.at = "loop" /\ stack' = Tail(stack)
        /\ signal' = (signal \/ taskport # << >>) /\ taskport' = taskport
    BY <1>7 DEF Resignal, In
  <2>2. depth > 0 /\ Pops
    BY <1>1, <1>2, <2>1, Popped
  <2>3. PortWatched'
    <3>1. signal \in BOOLEAN
      BY DEF TypeOK
    <3>2. taskport # << >> => signal' = TRUE
      BY <2>1, <3>1
    <3> QED
      BY <2>1, <3>2, Zenon DEF PortWatched
  <2>4. OnlyTopSleeps' /\ SleepWatched'
    BY <1>3, <2>2, PopAwake DEF AwakeInv
  <2> QED
    BY <2>3, <2>4 DEF AwakeInv
<1>8. CASE WaitformsgOther
  <2>1. PICK m \in AllMsgs : Receives(m)
    BY <1>8, OtherReceives
  <2>2. In({"wait"}) /\ UNCHANGED signal
    BY <1>8, SMT DEF WaitformsgOther, TakeAndProcess
  <2>3. depth > 0 => ~Asleep(depth)
    BY <1>2, <2>2, SMT DEF In, Asleep
  <2> QED
    BY <2>1, <2>2, <2>3, ReceivesAwake
<1>9. CASE WaitformsgDone
  <2>1. PICK m \in AllMsgs : Answered(m)
    BY <1>9, DoneAnswers
  <2>2. signal' = TRUE
    BY <1>9, DoneAnswers
  <2>3. PICK f : depth > 0 /\ (Pops \/ Swaps(f))
    BY <2>1, Zenon DEF Answered
  <2>4. OnlyTopSleeps'
    BY <1>3, <2>3
  <2> QED
    BY <2>2, <2>4, SMT DEF AwakeInv, PortWatched, SleepWatched
<1>10. CASE Processtaskreply
  <2>1. PICK m \in AllMsgs : Receives(m)
    BY <1>10, ReplyReceives
  <2>2. In({"first", "again", "last"}) /\ UNCHANGED signal
    BY <1>10, SMT DEF Processtaskreply, TakeAndProcess
  <2>3. depth > 0 => ~Asleep(depth)
    BY <1>2, <2>2, SMT DEF In, Asleep
  <2> QED
    BY <2>1, <2>2, <2>3, ReceivesAwake
<1>11. CASE HandlerReturns
  <2>1. PICK m \in AllMsgs : Returned(m)
    BY <1>11, HandlerReturned
  <2>2. /\ depth > 0 /\ calls[depth].at = "update"
        /\ UNCHANGED <<taskport, signal>>
    BY <2>1 DEF Returned, Handles, ports
  <2>3. CASE Pops
    <3>1. ~Looks(depth)
      BY <2>2 DEF Looks
    <3>2. OnlyTopSleeps' /\ SleepWatched'
      BY <1>3, <2>2, <2>3, PopAwake DEF AwakeInv
    <3> QED
      BY <1>5, <2>2, <2>3, <3>1, <3>2 DEF AwakeInv
  <2>4. CASE Swaps(Stopping(Sender(m)))
    <3>1. Stopping(Sender(m)).at = "first"
      BY DEF Stopping
    <3>2. Looks(depth)'
      <4>1. depth' = depth /\ calls'[depth] = Stopping(Sender(m))
        BY <2>4 DEF Swaps
      <4>2. calls'[depth'].at = "first"
        BY <3>1, <4>1
      <4> QED
        BY <4>1, <4>2 DEF Looks
    <3>3. SleepWatched'
      BY <2>2, <2>4, <3>1, SwapAwake
    <3> QED
      BY <1>3, <1>4, <2>2, <2>4, <3>2, <3>3 DEF AwakeInv
  <2> QED
    BY <2>1, <2>3, <2>4 DEF Returned
<1>12. CASE Freetask
  <2>1. /\ stack # << >> /\ Top.at = "last" /\ stack' = Tail(stack)
        /\ UNCHANGED <<taskport, signal>>
    BY <1>12, SMT DEF Freetask, Drained, In, ports
  <2>2. depth > 0 /\ Pops /\ ~Looks(depth)
    BY <1>1, <1>2, <2>1, Popped DEF Looks
  <2>3. OnlyTopSleeps' /\ SleepWatched'
    BY <1>3, <2>2, PopAwake DEF AwakeInv
  <2> QED
    BY <1>5, <2>1, <2>2, <2>3 DEF AwakeInv
<1>13. CASE WaitformsgSleep \/ WaitformsgWake \/ Procure \/ StoptaskWake \/ StoptaskAgain
  BY <1>13, GoesOnAwake
<1> QED
  BY <1>6, <1>7, <1>8, <1>9, <1>10, <1>11, <1>12, <1>13, Zenon DEF Main

\* What objects do does: they run in no wait, and call nothing that sleeps.
LEMMA AwakeObject ==
  ASSUME IInv, TypeOK', AwakeInv, NEW t \in Tasks, Object(t)
  PROVE  AwakeInv'
<1> USE DEF IInv
<1>1. depth \in Nat /\ depth' \in Nat
  BY Levels, LevelsNext DEF TypeOK
<1>2. depth > 0 => calls[depth].at = "update" /\ ~Asleep(depth)
  <2>1. depth > 0 => calls[depth].at = "update"
    BY <1>1, Callers, ObjectRuns, SMT DEF Handles
  <2> QED
    BY <2>1 DEF Asleep
<1>3. UNCHANGED <<taskport, signal>>
  BY Zenon DEF Object, Newtask, Starttask, StarttaskFails, StoptaskAsync,
     Disposetask, AsetattrsasyncA, AsetattrssyncA, ports
<1>4. PICK f : /\ UNCHANGED <<calls, depth>> \/ Adds(f)
               /\ f.at \in {"wait", "first"}
  <2>1. /\ StartWait(t).at = "wait" /\ Stopping(t).at = "first"
        /\ \A m : WaitFor(m).at = "wait"
    BY DEF StartWait, WaitFor, Stopping
  <2>2. \/ UNCHANGED <<calls, depth>> \/ Adds(StartWait(t)) \/ Adds(Stopping(t))
        \/ \E m \in Msgs : Adds(WaitFor(m))
    BY ObjectCalls, Zenon
  <2> QED
    BY <2>1, <2>2
<1>5. CallsFrom(f)
  BY <1>2, <1>4 DEF CallsFrom
<1>6. OnlyTopSleeps'
  BY <1>5, TopSleeps DEF AwakeInv
<1>7. PortWatched'
  <2>1. SUFFICES ASSUME NEW k \in 1 .. depth, Looks(k)
                 PROVE  \E j \in 1 .. depth' : Looks(j)'
    BY <1>3, SMT DEF AwakeInv, PortWatched
  <2>2. calls'[k] = calls[k] /\ depth' >= depth
    <3>1. CASE UNCHANGED <<calls, depth>>
      BY <1>1, <3>1, SMT
    <3>2. CASE Adds(f)
      <4>1. calls'[k] = calls[k] /\ depth' > depth
        BY <2>1, <3>2, Zenon DEF Adds
      <4> QED
        BY <1>1, <4>1, SMT
    <3> QED
      BY <1>4, <3>1, <3>2
  <2>3. k \in 1 .. depth'
    BY <1>1, <2>1, <2>2, SMT
  <2> QED
    BY <2>1, <2>2, <2>3, LooksStays
<1>8. SleepWatched'
  <2>1. CASE UNCHANGED <<calls, depth>>
    <3>1. depth' > 0 => ~(calls'[depth'].at \in {"sleep", "procured"})
      BY <1>2, <2>1
    <3> QED
      BY <3>1, TopAwake
  <2>2. CASE Adds(f)
    <3>1. calls'[depth'] = f
      BY <2>2 DEF Adds
    <3> QED
      BY <1>4, <3>1, TopAwake
  <2> QED
    BY <1>4, <2>1, <2>2
<1> QED
  BY <1>6, <1>7, <1>8 DEF AwakeInv

\* No port has a message at first.
LEMMA InitAwake == Init => AwakeInv
<1> SUFFICES ASSUME Init PROVE AwakeInv
  OBVIOUS
<1>1. stack = << >> /\ taskport = << >>
  BY DEF Init
<1>2. depth = 0
  BY <1>1, Levels DEF Init, TypeOK
<1>3. OnlyTopSleeps
  BY <1>2, SMT DEF OnlyTopSleeps
<1>4. PortWatched
  BY <1>1 DEF PortWatched
<1>5. SleepWatched
  BY <1>1, SMT DEF SleepWatched, Sleeping, In
<1> QED
  BY <1>3, <1>4, <1>5 DEF AwakeInv

\* A step of the rest of the program.
LEMMA StutterAwake == AwakeInv /\ UNCHANGED vars => AwakeInv'
<1> SUFFICES ASSUME AwakeInv, UNCHANGED vars PROVE AwakeInv'
  OBVIOUS
<1>1. UNCHANGED <<stack, calls, depth, msg, taskport, signal>>
  BY DEF vars, calls, depth
<1>2. OnlyTopSleeps'
  BY <1>1 DEF AwakeInv, OnlyTopSleeps, Asleep
<1>3. PortWatched'
  BY <1>1, SMT DEF AwakeInv, PortWatched, Looks
<1>4. SleepWatched'
  <2>1. \A t : (Sleeping(t)' <=> Sleeping(t)) /\ (HasMsgOf(t)' <=> HasMsgOf(t))
    BY <1>1, SMT DEF Sleeping, In, Top, HasMsgOf, Of, Sender
  <2> QED
    BY <1>1, <2>1 DEF AwakeInv, SleepWatched
<1> QED
  BY <1>2, <1>3, <1>4 DEF AwakeInv

\* What NoLostWakeup says, by levels.
LEMMA AwakeThen == IInv /\ AwakeInv => NoLostWakeup
<1> SUFFICES ASSUME IInv, AwakeInv PROVE NoLostWakeup
  OBVIOUS
<1>1. stack = << >> => depth = 0
  BY Levels DEF IInv, TypeOK
<1>2. stack = << >> /\ taskport # << >> => signal
  BY <1>1, SMT DEF AwakeInv, PortWatched
<1> QED
  BY <1>2 DEF NoLostWakeup, AwakeInv, SleepWatched

\* The main task never sleeps on a message that it should handle: however its
\* waits are nested, each sets again the signal bit it took from the others.
THEOREM NoWakeupLost == Spec => []NoLostWakeup
<1>1. Init => AwakeInv
  BY InitAwake
<1>2. IInv /\ AwakeInv /\ IInv' /\ [Next]_vars => AwakeInv'
  <2> SUFFICES ASSUME IInv, AwakeInv, IInv', [Next]_vars PROVE AwakeInv'
    OBVIOUS
  <2>1. TypeOK'
    BY DEF IInv
  <2>2. CASE Main \/ HandlerReturns
    BY <2>1, <2>2, AwakeMain
  <2>3. ASSUME NEW t \in Tasks, Object(t) PROVE AwakeInv'
    BY <2>1, <2>3, AwakeObject
  <2>4. ASSUME NEW t \in Tasks, Process(t) PROVE AwakeInv'
    BY <2>4, AwakeSubtasks
  <2>5. CASE UNCHANGED vars
    BY <2>5, StutterAwake
  <2> QED
    BY <2>2, <2>3, <2>4, <2>5 DEF Next
<1>3. IInv /\ AwakeInv => NoLostWakeup
  BY AwakeThen
<1> QED
  BY <1>1, <1>2, <1>3, Invariant, PTL DEF Spec

-----------------------------------------------------------------------------
(* As long as no window that owes the main task an answer says that it is  *)
(* done, or sends what makes a handler wait for answers in its turn.       *)

Owes(k) == Waits(k) /\ calls[k].msg \in Msgs

\* While Waitformsg waits for the reply of a window, there is no last update of
\* that window, and the update of it that is handled is no AOHOT_Restore.
CalmWait(k) ==
  /\ ~InUse(<<Sender(calls[k].msg), "last">>)
  /\ k < depth => (Handles(k + 1) => Quiet(calls[k + 1].msg))
Calm == \A k \in 1 .. depth : Owes(k) => CalmWait(k)

\* Who calls a handler: Processtask, the wait for an answer of its task, or
\* the Stoptask of its task.
HandlersCalled ==
  \A k \in 1 .. depth : Handles(k) =>
    /\ Is(calls[k].msg, Updates) /\ state[Sender(calls[k].msg)] # "FREE"
    /\ k - 1 \in 1 .. depth
    /\ \/ calls[k - 1].at = "loop"
       \/ /\ Waits(k - 1) /\ calls[k - 1].msg \in Msgs
          /\ Sender(calls[k - 1].msg) = Sender(calls[k].msg)
       \/ Stops(k - 1, Sender(calls[k].msg))

\* TSKF_PROCESSING is set in handlers only.
HandlesOf(k, t) == Handles(k) /\ Sender(calls[k].msg) = t
ProcessingHandled ==
  \A t \in Tasks :
    "PROCESSING" \in flags[t] => \E k \in 1 .. depth : HandlesOf(k, t)

\* What a wait is for is in use.  In one for an answer the handlers of that
\* task run, and nothing else.
AwaitedBy(k, m) ==
  \/ k = depth /\ \E u \in Tasks : m = <<u, "startup">>
  \/ /\ m \in Msgs /\ Is(m, {"send"}) /\ Sender(m) \in Hot
     /\ k < depth => QuietHandler(k + 1, Sender(m))
Awaited ==
  \A k \in 1 .. depth : Waits(k) =>
    InUse(calls[k].msg) /\ AwaitedBy(k, calls[k].msg)

\* The disposal of a window is put off by the handler of its last update only.
PutOffLast ==
  \A t \in Hot : "MUSTDISPOSE" \in flags[t] => InUse(<<t, "last">>)

\* Inside a handler of a task that sends synchronous messages the task is not
\* stopped.
LoudInside ==
  \A k, l \in 1 .. depth : k < l =>
    \A t \in Restoring : HandlesOf(k, t) => ~Stops(l, t)

\* There is one Stoptask at a time, and a grant for it sets semaport's signal.
OneStopping ==
  \A k, l \in 1 .. depth :
    calls[k].at \in Stages /\ calls[l].at \in Stages => k = l
GrantSignals == semaport # << >> => semasignal

WInv == /\ HandlersCalled /\ ProcessingHandled /\ Awaited /\ PutOffLast
        /\ LoudInside /\ OneStopping /\ GrantSignals

-----------------------------------------------------------------------------
\* What is awaited is the startup message of a process, or a message that waits
\* for its reply: no update.
LEMMA AwaitedIs ==
  ASSUME IInv, WInv, NEW k \in 1 .. depth, Waits(k), NEW m, m = calls[k].msg
  PROVE  /\ m \in AllMsgs /\ InUse(m) /\ Sender(m) \in Tasks /\ ~Is(m, Updates)
         /\ AwaitedBy(k, m)
         /\ m \in Msgs => \A u \in Tasks : m # <<u, "startup">>
<1> USE DEF IInv
<1>1. InUse(m) /\ AwaitedBy(k, m)
  BY DEF WInv, Awaited
<1>2. m \in AllMsgs
  BY <1>1, OwnFacts DEF AwaitedBy, OwnKinds, AllMsgs
<1>3. Sender(m) \in Tasks
  BY <1>1, <1>2, Returning
<1>4. ~Is(m, Updates)
  <2>1. CASE \E u \in Tasks : m = <<u, "startup">>
    <3>1. PICK u \in Tasks : m = <<u, "startup">>
      BY <2>1
    <3>2. InUse(<<u, "startup">>) /\ "startup" \in OwnKinds
      BY <1>1, <3>1 DEF OwnKinds
    <3>3. msg[m].kind = "startup"
      BY <3>1, <3>2, OwnMessages
    <3> QED
      BY <3>3 DEF Is, Updates
  <2>2. CASE Is(m, {"send"})
    BY <2>2 DEF Is, Updates
  <2> QED
    BY <1>1, <2>1, <2>2, Zenon DEF AwaitedBy
<1>5. m \in Msgs => \A u \in Tasks : m # <<u, "startup">>
  BY OwnFacts DEF OwnKinds
<1> QED
  BY <1>1, <1>2, <1>3, <1>4, <1>5

\* Inside a wait for an answer, the innermost call is a handler, or is not
\* about that task.
LEMMA InsideWait ==
  ASSUME IInv, WInv, NEW k \in 1 .. depth, Waits(k), NEW m, m = calls[k].msg,
         k # depth
  PROVE  /\ m \in Msgs /\ Is(m, {"send"})
         /\ \/ Handles(depth)
            \/ /\ Waits(depth) => \E u \in Tasks : calls[depth].msg = <<u, "startup">>
               /\ ~Stops(depth, Sender(m))
<1>1. depth \in Nat
  BY Levels DEF IInv, TypeOK
<1>2. /\ m \in Msgs /\ Is(m, {"send"}) /\ Sender(m) \in Tasks
      /\ k < depth => QuietHandler(k + 1, Sender(m))
  BY AwaitedIs DEF AwaitedBy
<1>3. k + 1 \in 1 .. depth /\ k < depth
  BY <1>1, SMT
<1>4. Under(k + 1, Sender(m))
  BY <1>2, <1>3 DEF Under
<1>5. CASE k + 1 = depth
  BY <1>2, <1>3, <1>5 DEF QuietHandler
<1>6. CASE k + 1 # depth
  <2>1. Waits(depth) => \E u \in Tasks : calls[depth].msg = <<u, "startup">>
    BY <1>4, WaitsUnder
  <2>2. ~Stops(depth, Sender(m))
    BY <1>4, StopsUnder
  <2> QED
    BY <1>2, <2>1, <2>2
<1> QED
  BY <1>2, <1>5, <1>6

\* A message is freed only when it is given back.
LEMMA GivesOne ==
  ASSUME TypeOK, NEW n, NEW m \in AllMsgs, Gives(n), m # n
  PROVE  msg'[m] = msg[m]
<1>1. msg \in [AllMsgs -> {NoMsg} \cup [kind : Kinds, task : Tasks]]
  BY DEF TypeOK
<1>2. UNCHANGED msg \/ msg' = [msg EXCEPT ![n] = NoMsg]
  BY Zenon DEF Gives
<1> QED
  BY <1>1, <1>2

\* A message that is waited for stays what it is while the wait goes on.
LEMMA AwaitedStays ==
  ASSUME IInv, WInv, Next, NEW k \in 1 .. depth, Waits(k), NEW m, m = calls[k].msg,
         k \in 1 .. depth', calls'[k].at \in {"wait", "sleep"}
  PROVE  msg'[m] = msg[m]
<1> USE DEF IInv
<1>1. /\ m \in AllMsgs /\ InUse(m) /\ ~Is(m, Updates)
  BY AwaitedIs
<1>2. depth \in Nat
  BY Levels DEF TypeOK
<1>3. ASSUME NEW t \in Tasks, Object(t) PROVE msg'[m] = msg[m]
  BY <1>1, <1>3, ObjectMessages
<1>4. ASSUME NEW t \in Tasks, Process(t) PROVE msg'[m] = msg[m]
  <2>1. ASSUME m = <<t, "update">> PROVE FALSE
    <3>1. InUse(<<t, "update">>) /\ "update" \in OwnKinds
      BY <1>1, <2>1 DEF OwnKinds
    <3>2. msg[m].kind = "update"
      BY <2>1, <3>1, OwnMessages
    <3> QED
      BY <1>1, <3>2, SMT DEF Is, Updates
  <2> QED
    BY <1>1, <1>4, <2>1, SubtaskMessages
<1>5. ASSUME Receives(m) PROVE FALSE
  <2>1. k # depth
    BY <1>5, SMT DEF Receives, Waits, Stops, Stages
  <2>2. \/ Handles(depth)
        \/ /\ Waits(depth) => \E u \in Tasks : calls[depth].msg = <<u, "startup">>
           /\ ~Stops(depth, Sender(m))
    BY <2>1, InsideWait
  <2>3. ~Handles(depth)
    BY <1>5, <1>2, SMT DEF Receives, Handles, Waits, Stops, Stages
  <2> QED
    BY <1>2, <1>5, <2>2, <2>3, SMT DEF Receives
<1>6. ASSUME Answered(m) PROVE FALSE
  <2>1. CASE k = depth
    <3>1. Pops \/ Swaps(Stopping(Sender(m)))
      BY <1>6, Zenon DEF Answered
    <3>2. CASE Pops
      BY <1>2, <2>1, <3>2, SMT DEF Pops
    <3>3. CASE Swaps(Stopping(Sender(m)))
      <4>1. calls'[k].at = "first"
        BY <2>1, <3>3 DEF Swaps, Stopping
      <4> QED
        BY <4>1
    <3> QED
      BY <3>1, <3>2, <3>3
  <2>2. CASE k # depth
    <3>1. /\ m \in Msgs
          /\ \/ Handles(depth)
             \/ Waits(depth) => \E u \in Tasks : calls[depth].msg = <<u, "startup">>
      BY <2>2, InsideWait
    <3>2. Waits(depth) /\ calls[depth].msg = m /\ ~Handles(depth)
      BY <1>6, SMT DEF Answered, Waits, Handles
    <3> QED
      BY <3>1, <3>2, AwaitedIs
  <2> QED
    BY <2>1, <2>2
<1>7. ASSUME Returned(m) PROVE FALSE
  <2>1. depth \in 1 .. depth /\ Handles(depth) /\ calls[depth].msg = m
    BY <1>2, <1>7, SMT DEF Returned
  <2> QED
    BY <1>1, <2>1 DEF WInv, HandlersCalled
<1>8. CASE Main \/ HandlerReturns
  <2>1. ASSUME NEW n \in AllMsgs, Receives(n) \/ Answered(n) \/ Returned(n)
        PROVE  msg'[m] = msg[m]
    <3>1. m # n
      BY <1>5, <1>6, <1>7, <2>1
    <3>2. UNCHANGED msg \/ Gives(n)
      BY <2>1, Zenon DEF Receives, Answered, Returned
    <3> QED
      BY <1>1, <3>1, <3>2, GivesOne
  <2>2. ASSUME \/ \E f \in Frames : Waiting(f)
               \/ Looping
               \/ \E t \in Tasks : Freed(t)
        PROVE  msg'[m] = msg[m]
    BY <2>2 DEF Waiting, Looping, Freed
  <2> QED
    BY <1>8, <2>1, <2>2, MainSteps
<1> QED
  BY <1>3, <1>4, <1>8 DEF Next

-----------------------------------------------------------------------------
\* What the innermost call after a step can be, when it was not there before:
\* a wait or a Stoptask that goes on, ...
Continues(f) ==
  /\ depth > 0 /\ depth' = depth
  /\ \/ Waits(depth) /\ f.at \in {"wait", "sleep"} /\ f.msg = calls[depth].msg
     \/ f.at \in Stages /\ Stops(depth, f.task)
\* ... a handler, ...
Handling(f, n) ==
  /\ f = NewHandler(n) /\ n \in ToSet(taskport) /\ Is(n, Updates)
  /\ UNCHANGED <<msg, state>>
  /\ \/ depth = 0 /\ depth' = 2 /\ calls'[1].at = "loop"
     \/ /\ depth > 0 /\ depth' = depth + 1
        /\ \/ /\ Waits(depth) /\ calls[depth].msg \in Msgs
              /\ Sender(calls[depth].msg) = Sender(n)
           \/ Stops(depth, Sender(n))
\* ... a wait for a message that was made, ...
Awaiting(f, m) ==
  /\ f.at = "wait" /\ f.msg = m
  /\ depth' = depth + 1 /\ (depth > 0 => Handles(depth))
  /\ InUse(m)'
  /\ \/ \E u \in Tasks : m = <<u, "startup">>
     \/ m \in Msgs /\ Is(m, {"send"})' /\ Sender(m)' \in Hot
\* ... or a Stoptask: called from the event loop, in place of a handler or a
\* reply that Processtask processes, or by such a handler.
StopCalled(s) ==
  \/ depth = 0 /\ depth' = 1
  \/ depth' = 2 /\ calls'[1].at = "loop"
  \/ /\ s \notin Hot \cup Restoring
     /\ depth' = 3 /\ calls'[1].at = "loop" /\ calls'[2].at = "update"

NewTop(f) ==
  \/ Continues(f)
  \/ \E n \in AllMsgs : Handling(f, n)
  \/ \E m \in AllMsgs : Awaiting(f, m)
  \/ \E s \in Tasks : f = Stopping(s) /\ StopCalled(s)

LevelsAre(f) ==
  /\ depth' \in Nat
  /\ \A k \in 1 .. depth' :
       \/ k \in 1 .. depth /\ calls'[k] = calls[k]
       \/ k = 1 /\ depth = 0 /\ calls'[k].at = "loop"
       \/ k = depth' /\ calls'[k] = f /\ NewTop(f)

\* The level above, when there is more than one.
LEMMA OneAbove ==
  ASSUME NEW d \in Nat, NEW e \in Nat, e > d, e # d + 1
  PROVE  d + 1 \in d + 1 .. e - 1
  BY SMT

\* A call is made on the one before, or on Processtask's.
LEMMA AddsFrom ==
  ASSUME TypeOK, NEW f, Adds(f), f.at # "loop"
  PROVE  /\ depth > 0 => depth' = depth + 1
         /\ depth = 0 /\ calls'[1].at = "loop" => depth' = 2
<1>1. depth \in Nat /\ depth' \in Nat /\ depth' > depth
  BY Levels DEF TypeOK, Adds
<1>2. \A k \in depth + 1 .. depth' - 1 : k = 1
  BY DEF Adds
<1>3. depth > 0 => depth' = depth + 1
  <2> SUFFICES ASSUME depth > 0, depth' # depth + 1 PROVE FALSE
    OBVIOUS
  <2>1. depth + 1 \in depth + 1 .. depth' - 1
    BY <1>1, OneAbove, Zenon
  <2>2. depth + 1 = 1
    BY <1>2, <2>1
  <2> QED
    BY <1>1, <2>2, SMT
<1>4. ASSUME depth = 0, calls'[1].at = "loop" PROVE depth' = 2
  <2>1. depth' # 1
    BY <1>4 DEF Adds
  <2>2. depth' - 1 \in depth + 1 .. depth' - 1
    BY <1>1, <1>4, <2>1, SMT
  <2>3. depth' - 1 = 1
    BY <1>2, <2>2
  <2> QED
    BY <1>1, <2>3, SMT
<1> QED
  BY <1>3, <1>4

\* A call of an object.
LEMMA CalledOne ==
  ASSUME TypeOK, NEW f \in Frames, stack' = Call(f, stack)
  PROVE  depth' = depth + 1 /\ Adds(f)
<1>1. stack \in Seq(Frames)
  BY DEF TypeOK
<1>2. depth' = depth + 1
  BY <1>1, SMT DEF depth, Call
<1> QED
  BY <1>1, <1>2, Added

\* The levels after a step of any of the forms.
LEMMA LevelsAfter ==
  ASSUME TypeOK, NEW f,
         \/ UNCHANGED <<calls, depth>>
         \/ Grows
         \/ Adds(f) /\ NewTop(f)
         \/ depth > 0 /\ Pops
         \/ depth > 0 /\ Swaps(f) /\ NewTop(f)
  PROVE  LevelsAre(f)
<1>1. depth \in Nat
  BY Levels DEF TypeOK
<1>2. CASE UNCHANGED <<calls, depth>>
  BY <1>1, <1>2 DEF LevelsAre
<1>3. CASE Grows
  <2>1. depth' \in Nat
    BY <1>3 DEF Grows
  <2>2. ASSUME NEW k \in 1 .. depth', k \notin 1 .. depth
        PROVE  k = 1 /\ depth = 0 /\ calls'[k].at = "loop"
    <3>1. k \in depth + 1 .. depth'
      BY <1>1, <2>1, <2>2, Above
    <3>2. k = 1 /\ calls'[k].at = "loop"
      BY <1>3, <3>1, Zenon DEF Grows
    <3> QED
      BY <1>1, <2>2, <3>1, <3>2, SMT
  <2> QED
    BY <1>3, <2>1, <2>2 DEF LevelsAre, Grows
<1>4. CASE Adds(f) /\ NewTop(f)
  <2>1. depth' \in Nat
    BY <1>4 DEF Adds
  <2>2. ASSUME NEW k \in 1 .. depth', k \notin 1 .. depth, k # depth'
        PROVE  k = 1 /\ depth = 0 /\ calls'[k].at = "loop"
    <3>1. k \in depth + 1 .. depth' - 1
      BY <1>1, <2>1, <2>2, Between
    <3>2. k = 1 /\ calls'[k].at = "loop"
      BY <1>4, <3>1, Zenon DEF Adds
    <3> QED
      BY <1>1, <2>2, <3>1, <3>2, SMT
  <2> QED
    BY <1>4, <2>1, <2>2 DEF LevelsAre, Adds
<1>5. CASE depth > 0 /\ Pops
  <2>1. depth' \in Nat /\ \A k \in 1 .. depth' : k \in 1 .. depth - 1 /\ k \in 1 .. depth
    BY <1>1, <1>5, SMT DEF Pops
  <2> QED
    BY <1>5, <2>1, Zenon DEF LevelsAre, Pops
<1>6. CASE depth > 0 /\ Swaps(f) /\ NewTop(f)
  <2>1. /\ depth' \in Nat
        /\ \A k \in 1 .. depth' : k = depth' \/ (k \in 1 .. depth - 1 /\ k \in 1 .. depth)
    BY <1>1, <1>6, SMT DEF Swaps
  <2> QED
    BY <1>6, <2>1, Zenon DEF LevelsAre, Swaps
<1> QED
  BY <1>2, <1>3, <1>4, <1>5, <1>6

\* Who sent the message that the main task receives.
LEMMA Receiving ==
  ASSUME IInv, WInv, NEW n \in AllMsgs, Receives(n)
  PROVE  \/ depth = 0 /\ depth' > 0 /\ calls'[1].at = "loop"
         \/ /\ depth > 0 /\ Waits(depth) /\ calls[depth].msg \in Msgs
            /\ Sender(calls[depth].msg) = Sender(n) /\ Sender(n) \in Hot
         \/ depth > 0 /\ Stops(depth, Sender(n))
<1>1. depth \in Nat
  BY Levels DEF IInv, TypeOK
<1>2. CASE /\ depth > 0 /\ Waits(depth)
           /\ calls[depth].msg # n /\ Sender(calls[depth].msg) = Sender(n)
           /\ \A u \in Tasks : calls[depth].msg # <<u, "startup">>
  <2>1. depth \in 1 .. depth
    BY <1>1, <1>2, SMT
  <2>2. AwaitedBy(depth, calls[depth].msg)
    BY <1>2, <2>1, AwaitedIs
  <2> QED
    BY <1>2, <2>2 DEF AwaitedBy
<1> QED
  BY <1>2, SMT DEF Receives

\* The disposal of a task that was put off.
LEMMA StopPutOff ==
  ASSUME IInv, WInv, Calm, NEW s \in Tasks, "MUSTDISPOSE" \in flags[s]
  PROVE  \A k \in 1 .. depth : /\ ~Stops(k, s)
                               /\ Owes(k) => Sender(calls[k].msg) # s
<1>1. \A k \in 1 .. depth : ~Stops(k, s)
  BY DEF IInv, OneStop, OneStopOf
<1>2. ASSUME NEW k \in 1 .. depth, Owes(k), Sender(calls[k].msg) = s PROVE FALSE
  <2>1. ~InUse(<<s, "last">>)
    BY <1>2 DEF Calm, CalmWait
  <2>2. s \in Hot
    <3>1. /\ AwaitedBy(k, calls[k].msg)
          /\ \A u \in Tasks : calls[k].msg # <<u, "startup">>
      BY <1>2, AwaitedIs DEF Owes
    <3> QED
      BY <1>2, <3>1 DEF AwaitedBy
  <2> QED
    BY <2>1, <2>2 DEF WInv, PutOffLast
<1> QED
  BY <1>1, <1>2

\* What the main task receives is handled or, when it was put off, its task is
\* stopped.
LEMMA ReceivedLevels ==
  ASSUME IInv, WInv, Calm, NEW n \in AllMsgs, Receives(n)
  PROVE  \E f : LevelsAre(f)
<1> USE DEF IInv
<1>1. depth \in Nat /\ Sender(n) \in Tasks
  BY Levels, PortInUse, Returning DEF Receives, TypeOK
<1>2. UNCHANGED state
  BY DEF Receives
<1>3. CASE Is(n, Updates) /\ Adds(NewHandler(n)) /\ UNCHANGED msg
  <2>1. NewHandler(n).at # "loop"
    BY DEF NewHandler
  <2>2. /\ depth > 0 => depth' = depth + 1
        /\ depth = 0 /\ calls'[1].at = "loop" => depth' = 2
    BY <1>3, <2>1, AddsFrom
  <2>3. n \in ToSet(taskport)
    BY DEF Receives
  <2>4. Handling(NewHandler(n), n)
    BY <1>2, <1>3, <2>2, <2>3, Receiving, Zenon DEF Handling
  <2> QED
    BY <1>3, <2>4, LevelsAfter DEF NewTop
<1>4. CASE Grows
  BY <1>4, LevelsAfter
<1>5. CASE Adds(Stopping(Sender(n))) /\ "MUSTDISPOSE" \in flags[Sender(n)]
  <2>1. Stopping(Sender(n)).at # "loop"
    BY DEF Stopping
  <2>2. depth = 0 /\ calls'[1].at = "loop" => depth' = 2
    BY <1>5, <2>1, AddsFrom
  <2>3. depth > 0 => depth \in 1 .. depth
    BY <1>1, SMT
  <2>4. StopCalled(Sender(n))
    BY <1>1, <1>5, <2>2, <2>3, Receiving, StopPutOff, Zenon DEF StopCalled, Owes
  <2> QED
    BY <1>1, <1>5, <2>4, LevelsAfter DEF NewTop
<1> QED
  BY <1>3, <1>4, <1>5, Zenon DEF Receives, Disposes

\* A wait that is answered returns.
LEMMA AnsweredLevels ==
  ASSUME IInv, WInv, Calm, NEW n \in AllMsgs, Answered(n)
  PROVE  depth > 0 /\ Waits(depth) /\ Pops
<1> USE DEF IInv
<1>1. depth \in Nat /\ depth > 0 /\ Waits(depth) /\ calls[depth].msg = n
  BY Levels DEF Answered, TypeOK
<1>2. ASSUME "MUSTDISPOSE" \in flags[Sender(n)],
             \A u \in Tasks : n # <<u, "startup">>
      PROVE  FALSE
  <2>1. depth \in 1 .. depth
    BY <1>1, SMT
  <2>2. AwaitedBy(depth, n) /\ Sender(n) \in Tasks
    BY <1>1, <2>1, AwaitedIs
  <2>3. Owes(depth)
    BY <1>1, <1>2, <2>2 DEF AwaitedBy, Owes
  <2> QED
    BY <1>1, <1>2, <2>1, <2>2, <2>3, StopPutOff
<1> QED
  BY <1>1, <1>2, Zenon DEF Answered, Disposes

\* A handler that asked for the disposal of its task was called by Processtask.
LEMMA ReturnedLevels ==
  ASSUME IInv, WInv, Calm, NEW n \in AllMsgs, Returned(n)
  PROVE  \/ depth > 0 /\ Pops
         \/ /\ depth > 0 /\ Swaps(Stopping(Sender(n))) /\ StopCalled(Sender(n))
            /\ Sender(n) \in Tasks
<1> USE DEF IInv
<1>1. depth \in Nat /\ depth > 0 /\ Handles(depth) /\ calls[depth].msg = n
  BY Levels DEF Returned, TypeOK
<1>2. depth \in 1 .. depth
  BY <1>1, SMT
<1>3. CASE Swaps(Stopping(Sender(n))) /\ "MUSTDISPOSE" \in flags[Sender(n)]
  <2>1. Sender(n) \in Tasks
    BY <1>1, <1>2, HandlerInUse, Returning
  <2>2. /\ depth - 1 \in 1 .. depth
        /\ \/ calls[depth - 1].at = "loop"
           \/ /\ Waits(depth - 1) /\ calls[depth - 1].msg \in Msgs
              /\ Sender(calls[depth - 1].msg) = Sender(n)
           \/ Stops(depth - 1, Sender(n))
    BY <1>1, <1>2 DEF WInv, HandlersCalled
  <2>3. ~Stops(depth - 1, Sender(n))
    BY <1>3, <2>1, <2>2, StopPutOff
  <2>4. ~(Waits(depth - 1) /\ calls[depth - 1].msg \in Msgs
          /\ Sender(calls[depth - 1].msg) = Sender(n))
    BY <1>3, <2>1, <2>2, StopPutOff DEF Owes
  <2>5. calls[depth - 1].at = "loop" /\ depth - 1 = 1
    BY <2>2, <2>3, <2>4 DEF OneStop
  <2>6. depth' = depth /\ depth = 2 /\ 1 \in 1 .. depth - 1
    BY <1>1, <1>3, <2>5, SMT DEF Swaps
  <2>7. calls'[1] = calls[1] /\ calls[1].at = "loop"
    BY <1>3, <2>5, <2>6, Zenon DEF Swaps
  <2>8. StopCalled(Sender(n))
    BY <2>6, <2>7 DEF StopCalled
  <2> QED
    BY <1>1, <1>3, <2>1, <2>8
<1> QED
  BY <1>1, <1>3, Zenon DEF Returned, Disposes

\* A call of an object.
LEMMA ObjectLevels ==
  ASSUME IInv, WInv, NEW t \in Tasks, Object(t)
  PROVE  \E f : LevelsAre(f)
<1> USE DEF IInv
<1>1. depth \in Nat /\ MainRuns /\ (depth > 0 => depth \in 1 .. depth /\ Handles(depth))
  BY Levels, ObjectRuns, Callers, SMT DEF TypeOK
<1>2. CASE UNCHANGED <<calls, depth>>
  BY <1>2, LevelsAfter
<1>3. CASE Starttask(t) /\ Adds(StartWait(t))
  <2>1. /\ <<t, "startup">> \in AllMsgs /\ StartWait(t) \in Frames
        /\ StartWait(t).at = "wait" /\ StartWait(t).msg = <<t, "startup">>
    BY OwnFacts, FrameFields DEF OwnKinds, StartWait
  <2>2. stack' = Call(StartWait(t), stack)
    BY <1>3 DEF Starttask, StartWait
  <2>3. depth' = depth + 1
    BY <2>1, <2>2, CalledOne
  <2>4. InUse(<<t, "startup">>)'
    <3>1. msg'[<<t, "startup">>] = [kind |-> "startup", task |-> t]
      BY <1>3, <2>1 DEF Starttask, TypeOK
    <3> QED
      BY <3>1, SMT DEF InUse, NoMsg
  <2>5. Awaiting(StartWait(t), <<t, "startup">>)
    BY <1>1, <2>1, <2>3, <2>4 DEF Awaiting
  <2>6. NewTop(StartWait(t))
    BY <2>1, <2>5 DEF NewTop
  <2> QED
    BY <1>3, <2>6, LevelsAfter
<1>4. ASSUME NEW m \in Msgs, AsetattrssyncA(m, t), Adds(WaitFor(m))
      PROVE  \E f : LevelsAre(f)
  <2>1. /\ m \in AllMsgs /\ WaitFor(m) \in Frames
        /\ WaitFor(m).at = "wait" /\ WaitFor(m).msg = m
    BY FrameFields DEF AllMsgs, WaitFor
  <2>2. /\ t \in Hot /\ stack' = Call(WaitFor(m), stack)
        /\ msg'[m] = [kind |-> "send", task |-> t]
    BY <1>4, <2>1 DEF AsetattrssyncA, Post, WaitFor, TypeOK
  <2>3. depth' = depth + 1
    BY <2>1, <2>2, CalledOne
  <2>4. InUse(m)' /\ Is(m, {"send"})' /\ Sender(m)' = t
    BY <2>2, SMT DEF InUse, NoMsg, Is, Sender
  <2>5. Awaiting(WaitFor(m), m)
    BY <1>1, <2>1, <2>2, <2>3, <2>4 DEF Awaiting
  <2>6. NewTop(WaitFor(m))
    BY <2>1, <2>5 DEF NewTop
  <2> QED
    BY <1>4, <2>6, LevelsAfter
<1>5. CASE Disposetask(t) /\ ~Busy(t) /\ Adds(Stopping(t))
  <2>1. stack' = Call(Stopping(t), stack) /\ Stopping(t) \in Frames
    BY <1>5, FrameFields DEF Disposetask, Stopping, Stages
  <2>2. depth' = depth + 1
    BY <2>1, CalledOne
  <2>3. CASE stack = << >>
    <3>1. depth = 0 /\ depth' = 1
      BY <2>2, <2>3, Callers, SMT
    <3> QED
      BY <1>5, <3>1, LevelsAfter DEF NewTop, StopCalled
  <2>4. CASE InHandler /\ Is(Top.msg, {"last"}) /\ Sender(Top.msg) = t
    <3>1. Handles(depth) /\ Top = calls[depth] /\ depth \in 1 .. depth
      BY <2>4, Callers
    <3>2. Quiet(calls[depth].msg)
      BY <2>4, <3>1 DEF Quiet, Is
    <3>3. Under(depth, t)
      BY <2>4, <3>1, <3>2 DEF Under, QuietHandler
    <3> QED
      BY <1>5, <3>3, UnderQuiet DEF Busy
  <2>5. CASE InHandler /\ stack[2].at = "loop" /\ t \notin Hot \cup Restoring
    <3>1. Handles(depth) /\ depth \in 1 .. depth /\ stack # << >>
      BY <2>5, Callers DEF InHandler, In
    <3>2. depth - 1 \in 1 .. depth
      BY <3>1 DEF WInv, HandlersCalled
    <3>3. depth > 1
      BY <1>1, <3>2, SMT
    <3>4. calls[depth - 1].at = "loop"
      BY <2>5, <3>1, <3>3, Levels DEF TypeOK
    <3>5. depth - 1 = 1
      BY <3>2, <3>4 DEF OneStop
    <3>6. depth = 2 /\ depth' = 3 /\ 1 \in 1 .. depth /\ 2 \in 1 .. depth
      BY <1>1, <2>2, <3>5, SMT
    <3>7. calls'[1] = calls[1] /\ calls'[2] = calls[2]
      BY <1>5, <3>6, Zenon DEF Adds
    <3>8. calls'[1].at = "loop" /\ calls'[2].at = "update"
      BY <3>1, <3>4, <3>5, <3>6, <3>7 DEF Handles
    <3> QED
      BY <1>5, <2>5, <3>6, <3>8, LevelsAfter DEF NewTop, StopCalled
  <2> QED
    BY <1>5, <2>3, <2>4, <2>5 DEF Disposetask, MayDispose
<1> QED
  BY <1>2, <1>3, <1>4, <1>5, ObjectCalls, Zenon

\* The levels after any step.
LEMMA CallsNext ==
  ASSUME IInv, WInv, Calm, Next
  PROVE  \E f : LevelsAre(f)
<1> USE DEF IInv
<1>1. ASSUME NEW t \in Tasks, Process(t) PROVE \E f : LevelsAre(f)
  BY <1>1, SubtasksKeep, LevelsAfter
<1>2. ASSUME NEW n \in AllMsgs, Returned(n) PROVE \E f : LevelsAre(f)
  <2>1. CASE depth > 0 /\ Pops
    BY <2>1, LevelsAfter
  <2>2. CASE /\ depth > 0 /\ Swaps(Stopping(Sender(n))) /\ StopCalled(Sender(n))
             /\ Sender(n) \in Tasks
    BY <2>2, LevelsAfter DEF NewTop
  <2> QED
    BY <1>2, <2>1, <2>2, ReturnedLevels
<1>3. ASSUME NEW f \in Frames, Waiting(f) PROVE LevelsAre(f)
  <2>1. depth > 0 /\ Swaps(f) /\ depth' = depth
    BY <1>3 DEF Waiting, Swaps
  <2>2. Continues(f)
    BY <1>3, <2>1 DEF Waiting, Continues
  <2> QED
    BY <2>1, <2>2, LevelsAfter DEF NewTop
<1>4. CASE Looping
  BY <1>4, LevelsAfter DEF Looping
<1>5. ASSUME NEW t \in Tasks, Freed(t) PROVE \E f : LevelsAre(f)
  BY <1>5, LevelsAfter DEF Freed
<1>6. CASE Main \/ HandlerReturns
  <2>1. ASSUME NEW n \in AllMsgs, Receives(n) \/ Answered(n) \/ Returned(n)
        PROVE  \E f : LevelsAre(f)
    <3>1. CASE Answered(n)
      BY <3>1, AnsweredLevels, LevelsAfter
    <3> QED
      BY <1>2, <2>1, <3>1, ReceivedLevels
  <2> QED
    BY <1>3, <1>4, <1>5, <1>6, <2>1, MainSteps
<1> QED
  BY <1>1, <1>6, ObjectLevels DEF Next

-----------------------------------------------------------------------------
(* Every step keeps them.                                                  *)

\* The levels under one that stays, and under a call that is made.
LEMMA OldLevels ==
  ASSUME TypeOK, NEW f, LevelsAre(f)
  PROVE  /\ depth \in Nat /\ depth' \in Nat
         /\ \A k \in 1 .. depth', j \in 1 .. depth' : j < k =>
              \/ j \in 1 .. depth /\ calls'[j] = calls[j]
              \/ j = 1 /\ depth = 0 /\ calls'[j].at = "loop"
         /\ \A k \in 1 .. depth : k \in 1 .. depth' =>
              \A j \in 1 .. depth : j < k =>
                j \in 1 .. depth' /\ calls'[j] = calls[j]
         /\ \A k \in 1 .. depth : k < depth' => k \in 1 .. depth' /\ calls'[k] = calls[k]
<1>1. depth \in Nat /\ depth' \in Nat
  BY Levels DEF TypeOK, LevelsAre
<1>2. ASSUME NEW j \in 1 .. depth', j # depth'
      PROVE  \/ j \in 1 .. depth /\ calls'[j] = calls[j]
             \/ j = 1 /\ depth = 0 /\ calls'[j].at = "loop"
  BY <1>2, Zenon DEF LevelsAre
<1>3. ASSUME NEW k \in 1 .. depth, k < depth'
      PROVE  k \in 1 .. depth' /\ calls'[k] = calls[k]
  <2>1. k \in 1 .. depth' /\ k # depth' /\ depth # 0
    BY <1>1, <1>3, SMT
  <2> QED
    BY <1>2, <2>1
<1>4. ASSUME NEW k \in 1 .. depth', NEW j \in 1 .. depth', j < k PROVE j # depth'
  BY <1>1, <1>4, SMT
<1>5. ASSUME NEW k \in 1 .. depth, k \in 1 .. depth', NEW j \in 1 .. depth, j < k
      PROVE  j < depth'
  BY <1>1, <1>5, SMT
<1> QED
  BY <1>1, <1>2, <1>3, <1>4, <1>5, Zenon

\* A task ceases to be only when it is freed.
LEMMA OnlyFreed ==
  ASSUME IInv, Next, NEW u \in Tasks, state[u] # "FREE", state'[u] = "FREE"
  PROVE  Freed(u)
<1>1. state \in [Tasks -> States]
  BY DEF IInv, TypeOK
<1>2. ASSUME NEW t \in Tasks, Process(t) PROVE FALSE
  BY <1>2, SubtaskStates
<1>3. ASSUME NEW t \in Tasks, Object(t) PROVE FALSE
  BY <1>3, ObjectCalls
<1>4. CASE Main \/ HandlerReturns
  <2>1. PICK t \in Tasks : Freed(t)
    BY <1>4, MainStates
  <2>2. t = u
    BY <1>1, <2>1 DEF Freed
  <2> QED
    BY <2>1, <2>2
<1> QED
  BY <1>2, <1>3, <1>4 DEF Next

\* A task is not stopped inside a handler of its own.
LEMMA StopsOutside ==
  ASSUME IInv, NEW k \in 1 .. depth, NEW l \in 1 .. depth, k < l,
         NEW t \in Tasks, HandlesOf(k, t), Stops(l, t), t \in Restoring => LoudInside
  PROVE  FALSE
<1>1. CASE Quiet(calls[k].msg)
  <2>1. QuietHandler(k, t)
    BY <1>1 DEF QuietHandler, HandlesOf
  <2>2. Plain(l, t)
    BY <2>1 DEF IInv, QuietInside
  <2> QED
    BY <2>2, SMT DEF Plain, Stops, Handles, Waits, Stages
<1>2. CASE ~Quiet(calls[k].msg)
  <2>1. t \in Restoring
    BY <1>2 DEF Quiet, HandlesOf
  <2> QED
    BY <2>1 DEF LoudInside
<1> QED
  BY <1>1, <1>2

LEMMA HandlersCalledKept ==
  ASSUME IInv, WInv, Calm, OneAt', Next
  PROVE  HandlersCalled'
<1> USE DEF IInv
<1>1. PICK f : LevelsAre(f)
  BY CallsNext
<1>2. depth \in Nat /\ depth' \in Nat
  BY <1>1, OldLevels
<1>3. SUFFICES ASSUME NEW k \in 1 .. depth', calls'[k].at = "update"
               PROVE  /\ msg'[calls'[k].msg].kind \in Updates
                      /\ state'[msg'[calls'[k].msg].task] # "FREE"
                      /\ k - 1 \in 1 .. depth'
                      /\ \/ calls'[k - 1].at = "loop"
                         \/ /\ calls'[k - 1].at \in {"wait", "sleep"}
                            /\ calls'[k - 1].msg \in Msgs
                            /\ msg'[calls'[k - 1].msg].task = msg'[calls'[k].msg].task
                         \/ /\ calls'[k - 1].at \in Stages
                            /\ calls'[k - 1].task = msg'[calls'[k].msg].task
  BY DEF HandlersCalled, Handles, Waits, Stops, Is, Sender
<1>4. CASE k \in 1 .. depth /\ calls'[k] = calls[k]
  <2> DEFINE m == calls[k].msg
  <2>1. Handles(k)
    BY <1>3, <1>4 DEF Handles
  <2>2. m \in AllMsgs /\ msg'[m] = msg[m] /\ Sender(m) \in Tasks
    BY <1>3, <1>4, <2>1, HandlerMessage
  <2>3. /\ Is(m, Updates) /\ state[Sender(m)] # "FREE" /\ k - 1 \in 1 .. depth
        /\ \/ calls[k - 1].at = "loop"
           \/ /\ Waits(k - 1) /\ calls[k - 1].msg \in Msgs
              /\ Sender(calls[k - 1].msg) = Sender(m)
           \/ Stops(k - 1, Sender(m))
    BY <1>4, <2>1 DEF WInv, HandlersCalled
  <2>4. k - 1 \in 1 .. depth' /\ calls'[k - 1] = calls[k - 1]
    <3>1. k - 1 < k
      BY <1>2, <1>3, SMT
    <3> QED
      BY <1>1, <1>3, <1>4, <2>3, <3>1, OldLevels
  <2>5. state'[Sender(m)] # "FREE"
    <3>1. SUFFICES ASSUME state'[Sender(m)] = "FREE" PROVE FALSE
      OBVIOUS
    <3>2. Freed(Sender(m))
      BY <2>2, <2>3, <3>1, OnlyFreed
    <3>3. depth \in 1 .. depth /\ k < depth /\ Stops(depth, Sender(m))
      BY <1>2, <1>3, <3>2, SMT DEF Freed, Pops
    <3>4. HandlesOf(k, Sender(m))
      BY <2>1 DEF HandlesOf
    <3> QED
      BY <1>4, <2>2, <3>3, <3>4, StopsOutside DEF WInv
  <2>6. Waits(k - 1) => msg'[calls[k - 1].msg] = msg[calls[k - 1].msg]
    BY <2>3, <2>4, AwaitedStays DEF Waits
  <2> HIDE DEF m
  <2>7. calls'[k].msg = m
    BY <1>4 DEF m
  <2> QED
    BY <2>2, <2>3, <2>4, <2>5, <2>6, <2>7, SMT DEF Is, Sender, Waits, Stops
<1>5. CASE k = depth' /\ calls'[k] = f /\ NewTop(f)
  <2>1. PICK n \in AllMsgs : Handling(f, n)
    <3>1. f.at = "update"
      BY <1>3, <1>5
    <3>2. ~Continues(f)
      BY <3>1 DEF Continues, Stages
    <3>3. \A m \in AllMsgs : ~Awaiting(f, m)
      BY <3>1 DEF Awaiting
    <3>4. \A s \in Tasks : f # Stopping(s)
      BY <3>1 DEF Stopping
    <3> QED
      BY <1>5, <3>2, <3>3, <3>4 DEF NewTop
  <2>2. /\ f.msg = n /\ n \in ToSet(taskport) /\ Is(n, Updates)
        /\ UNCHANGED <<msg, state>>
    BY <2>1 DEF Handling, NewHandler
  <2>3. state[Sender(n)] # "FREE"
    <3>1. Sender(n) \in Tasks /\ Of(n, Sender(n))
      BY <2>2, PortInUse, Returning DEF Of, InUse
    <3> QED
      BY <2>2, <3>1 DEF OwnAgree
  <2>4. CASE depth = 0 /\ depth' = 2 /\ calls'[1].at = "loop"
    <3>1. k - 1 = 1 /\ k - 1 \in 1 .. depth'
      BY <1>5, <2>4, SMT
    <3> QED
      BY <1>5, <2>2, <2>3, <2>4, <3>1 DEF Is, Sender
  <2>5. CASE /\ depth > 0 /\ depth' = depth + 1
             /\ \/ /\ Waits(depth) /\ calls[depth].msg \in Msgs
                   /\ Sender(calls[depth].msg) = Sender(n)
                \/ Stops(depth, Sender(n))
    <3>1. k - 1 = depth /\ depth \in 1 .. depth /\ depth < depth'
      BY <1>2, <1>5, <2>5, SMT
    <3>2. k - 1 \in 1 .. depth' /\ calls'[k - 1] = calls[k - 1]
      BY <1>1, <3>1, OldLevels
    <3> QED
      BY <1>5, <2>2, <2>3, <2>5, <3>1, <3>2 DEF Is, Sender, Waits, Stops
  <2> QED
    BY <2>1, <2>4, <2>5, Zenon DEF Handling
<1> QED
  BY <1>1, <1>3, <1>4, <1>5, Zenon DEF LevelsAre

\* A level stays when calls are made, and when the one above returns or goes on.
LEMMA LevelStays ==
  ASSUME TypeOK, NEW k \in 1 .. depth, NEW f,
         \/ UNCHANGED <<calls, depth>> \/ Grows \/ Adds(f)
         \/ k # depth /\ (Pops \/ Swaps(f))
  PROVE  k \in 1 .. depth' /\ calls'[k] = calls[k]
<1>1. depth \in Nat
  BY Levels DEF TypeOK
<1>2. CASE UNCHANGED <<calls, depth>>
  BY <1>2
<1>3. CASE Grows
  <2>1. calls'[k] = calls[k] /\ depth' \in Nat /\ depth' >= depth
    BY <1>3, Zenon DEF Grows
  <2> QED
    BY <1>1, <2>1, SMT
<1>4. CASE Adds(f)
  <2>1. calls'[k] = calls[k] /\ depth' \in Nat /\ depth' > depth
    BY <1>4, Zenon DEF Adds
  <2> QED
    BY <1>1, <2>1, SMT
<1>5. CASE k # depth /\ Pops
  <2>1. k \in 1 .. depth - 1 /\ k \in 1 .. depth'
    BY <1>1, <1>5, SMT DEF Pops
  <2> QED
    BY <1>5, <2>1, Zenon DEF Pops
<1>6. CASE k # depth /\ Swaps(f)
  <2>1. k \in 1 .. depth - 1 /\ k \in 1 .. depth'
    BY <1>1, <1>6, SMT DEF Swaps
  <2> QED
    BY <1>6, <2>1, Zenon DEF Swaps
<1> QED
  BY <1>2, <1>3, <1>4, <1>5, <1>6

\* A handler stays about the task it was called for.
LEMMA StillHandles ==
  ASSUME IInv, OneAt', Next, NEW t, NEW k \in 1 .. depth, HandlesOf(k, t),
         k \in 1 .. depth', calls'[k] = calls[k]
  PROVE  HandlesOf(k, t)'
<1>1. msg'[calls[k].msg] = msg[calls[k].msg]
  BY HandlerMessage DEF HandlesOf
<1> QED
  BY <1>1 DEF HandlesOf, Handles, Sender

\* TSKF_PROCESSING after a message was given back.
LEMMA FlagsGiven ==
  ASSUME TypeOK, NEW t \in Tasks, NEW fl, Settles(t, fl) \/ Disposes(t, fl)
  PROVE  /\ "PROCESSING" \in flags'[t] <=> "PROCESSING" \in fl
         /\ \A u \in Tasks \ {t} : flags'[u] = flags[u]
<1>1. flags \in [Tasks -> SUBSET Flags]
  BY DEF TypeOK
<1>2. CASE Settles(t, fl)
  BY <1>1, <1>2 DEF Settles
<1>3. CASE Disposes(t, fl)
  <2>1. flags' = [flags EXCEPT ![t] = fl \ {"MUSTDISPOSE"}]
    BY <1>3 DEF Disposes
  <2> QED
    BY <1>1, <2>1
<1> QED
  BY <1>2, <1>3

LEMMA ProcessingKept ==
  ASSUME IInv, WInv, OneAt', Next
  PROVE  ProcessingHandled'
<1> USE DEF IInv
<1>0. depth \in Nat /\ flags \in [Tasks -> SUBSET Flags]
  BY Levels DEF TypeOK
<1>1. SUFFICES ASSUME NEW t \in Tasks, "PROCESSING" \in flags'[t]
               PROVE  \E k \in 1 .. depth' : HandlesOf(k, t)'
  BY DEF ProcessingHandled
<1>2. ASSUME NEW k \in 1 .. depth, HandlesOf(k, t), NEW f,
             \/ UNCHANGED <<calls, depth>> \/ Grows \/ Adds(f)
             \/ k # depth /\ (Pops \/ Swaps(f))
      PROVE  \E j \in 1 .. depth' : HandlesOf(j, t)'
  <2>1. k \in 1 .. depth' /\ calls'[k] = calls[k]
    BY <1>2, LevelStays
  <2>2. HandlesOf(k, t)'
    BY <1>2, <2>1, StillHandles
  <2> QED
    BY <2>1, <2>2
<1>3. ASSUME "PROCESSING" \in flags[t]
      PROVE  \E k \in 1 .. depth : HandlesOf(k, t)
  BY <1>3 DEF WInv, ProcessingHandled
<1>4. ASSUME NEW p \in Tasks, Process(p)
      PROVE  \E k \in 1 .. depth' : HandlesOf(k, t)'
  <2>1. flags' = flags /\ UNCHANGED <<calls, depth>>
    BY <1>4, SubtasksKeep
  <2> QED
    BY <1>1, <1>2, <1>3, <2>1
<1>5. ASSUME NEW p \in Tasks, Object(p)
      PROVE  \E k \in 1 .. depth' : HandlesOf(k, t)'
  <2>1. /\ \/ flags' = flags \/ flags' = [flags EXCEPT ![p] = @ \cup {"DISPOSING"}]
           \/ flags' = [flags EXCEPT ![p] = @ \cup {"DISPOSING", "MUSTDISPOSE"}]
        /\ \E f : UNCHANGED <<calls, depth>> \/ Adds(f)
    BY <1>5, ObjectCalls, Zenon
  <2>2. "PROCESSING" \in flags[t]
    BY <1>0, <1>1, <2>1
  <2> QED
    BY <1>2, <1>3, <2>1, <2>2
<1>6. ASSUME NEW m \in AllMsgs, Receives(m)
      PROVE  \E k \in 1 .. depth' : HandlesOf(k, t)'
  <2>1. Sender(m) \in Tasks
    BY <1>6, PortInUse, Returning DEF Receives
  <2>2. CASE Adds(NewHandler(m)) /\ UNCHANGED msg
             /\ flags' = [flags EXCEPT ![Sender(m)] = @ \cup {"PROCESSING"}]
    <3>1. CASE t = Sender(m)
      <4>1. depth' \in Nat /\ depth' > 0 /\ calls'[depth'] = NewHandler(m)
        BY <1>0, <2>2, SMT DEF Adds
      <4>2. depth' \in 1 .. depth'
        BY <4>1, SMT
      <4>3. calls'[depth'].at = "update" /\ msg'[calls'[depth'].msg].task = t
        BY <2>2, <3>1, <4>1 DEF NewHandler, Sender
      <4> QED
        BY <4>2, <4>3 DEF HandlesOf, Handles, Sender
    <3>2. CASE t # Sender(m)
      <4>1. "PROCESSING" \in flags[t]
        BY <1>0, <1>1, <2>2, <3>2
      <4> QED
        BY <1>2, <1>3, <2>2, <4>1
    <3> QED
      BY <3>1, <3>2
  <2>3. CASE /\ Grows \/ Adds(Stopping(Sender(m)))
             /\ \/ Settles(Sender(m), flags[Sender(m)])
                \/ Disposes(Sender(m), flags[Sender(m)])
    <3>1. "PROCESSING" \in flags[t]
      BY <1>1, <2>1, <2>3, FlagsGiven
    <3> QED
      BY <1>2, <1>3, <2>3, <3>1
  <2> QED
    BY <1>6, <2>2, <2>3, Zenon DEF Receives
<1>7. ASSUME NEW f, depth > 0, ~Handles(depth), Pops \/ Swaps(f),
             "PROCESSING" \in flags[t]
      PROVE  \E k \in 1 .. depth' : HandlesOf(k, t)'
  <2>1. PICK k \in 1 .. depth : HandlesOf(k, t)
    BY <1>3, <1>7
  <2>2. k # depth
    BY <1>7, <2>1 DEF HandlesOf
  <2> QED
    BY <1>2, <1>7, <2>1, <2>2
<1>8. ASSUME NEW m \in AllMsgs, Answered(m)
      PROVE  \E k \in 1 .. depth' : HandlesOf(k, t)'
  <2>1. Sender(m) \in Tasks
    BY <1>8, PortInUse, Returning DEF Answered
  <2>2. depth > 0 /\ ~Handles(depth) /\ (Pops \/ Swaps(Stopping(Sender(m))))
    BY <1>8, SMT DEF Answered, Waits, Handles
  <2>3. "PROCESSING" \in flags[t]
    <3>1. CASE flags' = [flags EXCEPT ![Sender(m)] = @ \cup {"STARTED"}]
      BY <1>0, <1>1, <3>1
    <3>2. CASE \/ Settles(Sender(m), flags[Sender(m)])
               \/ Disposes(Sender(m), flags[Sender(m)])
      BY <1>1, <2>1, <3>2, FlagsGiven
    <3> QED
      BY <1>8, <3>1, <3>2, Zenon DEF Answered
  <2> QED
    BY <1>7, <2>2, <2>3
<1>9. ASSUME NEW m \in AllMsgs, Returned(m)
      PROVE  \E k \in 1 .. depth' : HandlesOf(k, t)'
  <2>1. /\ depth > 0 /\ Handles(depth) /\ calls[depth].msg = m
        /\ depth \in 1 .. depth /\ Sender(m) \in Tasks
    <3>1. /\ depth > 0 /\ Handles(depth) /\ calls[depth].msg = m
          /\ depth \in 1 .. depth
      BY <1>0, <1>9, SMT DEF Returned
    <3> QED
      BY <3>1, HandlerInUse, Returning
  <2>2. /\ Pops \/ Swaps(Stopping(Sender(m)))
        /\ \/ Settles(Sender(m), flags[Sender(m)] \ {"PROCESSING"})
           \/ Disposes(Sender(m), flags[Sender(m)] \ {"PROCESSING"})
    BY <1>9, Zenon DEF Returned
  <2>3. t # Sender(m) /\ "PROCESSING" \in flags[t]
    BY <1>1, <2>1, <2>2, FlagsGiven
  <2>4. PICK k \in 1 .. depth : HandlesOf(k, t)
    BY <1>3, <2>3
  <2>5. k # depth
    BY <2>1, <2>3, <2>4 DEF HandlesOf
  <2> QED
    BY <1>2, <2>2, <2>4, <2>5
<1>10. ASSUME NEW f \in Frames, Waiting(f)
       PROVE  \E k \in 1 .. depth' : HandlesOf(k, t)'
  <2>1. depth > 0 /\ ~Handles(depth) /\ Swaps(f)
    BY <1>10, SMT DEF Waiting, Waits, Stops, Stages, Handles
  <2>2. "PROCESSING" \in flags[t]
    BY <1>1, <1>10 DEF Waiting, object
  <2> QED
    BY <1>7, <2>1, <2>2
<1>11. CASE Looping
  <2>1. "PROCESSING" \in flags[t]
    BY <1>1, <1>11 DEF Looping, object
  <2>2. CASE Grows
    BY <1>2, <1>3, <2>1, <2>2
  <2>3. CASE depth > 0 /\ calls[depth].at = "loop" /\ Pops
    BY <1>7, <2>1, <2>3 DEF Handles
  <2> QED
    BY <1>11, <2>2, <2>3 DEF Looping
<1>12. ASSUME NEW s \in Tasks, Freed(s)
       PROVE  \E k \in 1 .. depth' : HandlesOf(k, t)'
  <2>1. depth > 0 /\ ~Handles(depth) /\ Pops
    BY <1>12, SMT DEF Freed, Handles
  <2>2. "PROCESSING" \in flags[t]
    BY <1>0, <1>1, <1>12, SMT DEF Freed
  <2> QED
    BY <1>7, <2>1, <2>2
<1> QED
  BY <1>4, <1>5, <1>6, <1>8, <1>9, <1>10, <1>11, <1>12, MainSteps DEF Next

\* What comes above a wait is a handler.
LEMMA AboveWait ==
  ASSUME IInv, WInv, NEW f, LevelsAre(f), NEW k \in 1 .. depth, k < depth',
         Waits(k), calls'[k] = calls[k]
  PROVE  /\ k + 1 \in 1 .. depth'
         /\ \/ k + 1 \in 1 .. depth /\ calls'[k + 1] = calls[k + 1]
            \/ /\ k = depth /\ k + 1 = depth' /\ calls'[k + 1] = f
               /\ \E n \in AllMsgs : Handling(f, n)
<1> USE DEF IInv
<1>1. /\ depth \in Nat /\ depth' \in Nat /\ depth > 0 /\ k + 1 \in 1 .. depth'
      /\ k + 1 # 1 /\ depth \in 1 .. depth
  <2>1. depth \in Nat /\ depth' \in Nat
    BY Levels DEF TypeOK, LevelsAre
  <2> QED
    BY <2>1, SMT
<1>2. SUFFICES ASSUME k + 1 = depth', calls'[k + 1] = f, NewTop(f)
               PROVE  k = depth /\ \E n \in AllMsgs : Handling(f, n)
  BY <1>1, Zenon DEF LevelsAre
<1>3. k # depth => Handles(depth) \/ k + 1 # depth
  <2>1. SUFFICES ASSUME k # depth, k + 1 = depth PROVE Handles(depth)
    OBVIOUS
  <2>2. AwaitedBy(k, calls[k].msg) /\ k < depth
    BY <1>1, <2>1, AwaitedIs, SMT
  <2> QED
    BY <2>1, <2>2 DEF AwaitedBy, QuietHandler
<1>4. ASSUME Continues(f) PROVE FALSE
  <2>1. k # depth /\ k + 1 = depth
    BY <1>1, <1>2, <1>4, SMT DEF Continues
  <2> QED
    BY <1>3, <1>4, <2>1, SMT DEF Continues, Handles, Waits, Stops, Stages
<1>5. ASSUME NEW n \in AllMsgs, Handling(f, n) PROVE k = depth
  BY <1>1, <1>2, <1>5, SMT DEF Handling
<1>6. ASSUME NEW m \in AllMsgs, Awaiting(f, m) PROVE FALSE
  <2>1. k = depth
    BY <1>1, <1>2, <1>6, SMT DEF Awaiting
  <2> QED
    BY <1>1, <1>6, <2>1 DEF Awaiting, Handles, Waits
<1>7. ASSUME NEW s \in Tasks, StopCalled(s) PROVE FALSE
  <2>1. (depth' = 2 => k = 1) /\ (depth' = 3 => k = 2)
    BY <1>1, <1>2, SMT
  <2> QED
    BY <1>1, <1>7, <2>1 DEF StopCalled, Waits
<1> QED
  BY <1>2, <1>4, <1>5, <1>6, <1>7 DEF NewTop

LEMMA AwaitedKept ==
  ASSUME IInv, WInv, Calm, Calm', OneAt', Next
  PROVE  Awaited'
<1> USE DEF IInv
<1>1. PICK f : LevelsAre(f)
  BY CallsNext
<1>2. depth \in Nat /\ depth' \in Nat
  BY <1>1, OldLevels
<1>3. SUFFICES ASSUME NEW k \in 1 .. depth', calls'[k].at \in {"wait", "sleep"}
               PROVE  InUse(calls[k].msg)' /\ AwaitedBy(k, calls[k].msg)'
  BY DEF Awaited, Waits
<1>4. CASE k \in 1 .. depth /\ calls'[k] = calls[k]
  <2>0. PICK m : m = calls[k].msg
    OBVIOUS
  <2>1. /\ Waits(k) /\ m \in AllMsgs /\ InUse(m) /\ Sender(m) \in Tasks
        /\ AwaitedBy(k, m)
    BY <1>3, <1>4, <2>0, AwaitedIs DEF Waits
  <2>2. msg'[m] = msg[m]
    BY <1>3, <1>4, <2>0, <2>1, AwaitedStays
  <2>3. CASE k < depth' /\ k + 1 \in 1 .. depth /\ calls'[k + 1] = calls[k + 1]
    <3>1. k < depth /\ k + 1 \in 1 .. depth'
      BY <1>2, <2>3, SMT
    <3>2. m \in Msgs /\ Is(m, {"send"}) /\ Sender(m) \in Hot /\ QuietHandler(k + 1, Sender(m))
      BY <2>1, <3>1, SMT DEF AwaitedBy
    <3>3. msg'[calls[k + 1].msg] = msg[calls[k + 1].msg]
      BY <2>3, <3>1, <3>2, HandlerMessage DEF QuietHandler
    <3>4. QuietHandler(k + 1, Sender(m))'
      BY <1>4, <2>2, <2>3, <3>2, <3>3 DEF QuietHandler, Handles, Quiet, Is, Sender
    <3>5. calls'[k].msg = m
      BY <1>4, <2>0
    <3>6. /\ msg'[m] # NoMsg /\ msg'[m].kind \in {"send"} /\ msg'[m].task \in Hot
      BY <2>1, <2>2, <3>2 DEF InUse, Is, Sender
    <3> QED
      BY <3>2, <3>4, <3>5, <3>6 DEF InUse, AwaitedBy, Is, Sender
  <2>4. CASE /\ k < depth' /\ k = depth /\ k + 1 = depth' /\ calls'[k + 1] = f
             /\ \E n \in AllMsgs : Handling(f, n)
    <3>1. PICK n \in AllMsgs : Handling(f, n)
      BY <2>4
    <3>2. /\ Waits(depth) /\ m = calls[depth].msg /\ depth > 0
          /\ ~(\E t \in Tasks : Stops(depth, t))
      BY <1>2, <2>0, <2>1, <2>4, SMT DEF Waits, Stops, Stages
    <3>3. m \in Msgs /\ Sender(m) = Sender(n) /\ UNCHANGED msg /\ Is(n, Updates)
          /\ f.at = "update" /\ f.msg = n
      <4>1. Sender(n) \in Tasks
        BY <3>1, PortInUse, Returning DEF Handling
      <4> QED
        BY <3>1, <3>2, <4>1, SMT DEF Handling, NewHandler
    <3>4. Is(m, {"send"}) /\ Sender(m) \in Hot
      BY <2>0, <2>1, <3>3, AwaitedIs DEF AwaitedBy
    <3>5. /\ calls'[k].msg = m /\ calls'[k + 1].at = "update"
          /\ calls'[k + 1].msg = n /\ msg'[n].task = msg'[m].task
      BY <1>4, <2>0, <2>4, <3>3 DEF Sender
    <3>6. msg'[m] # NoMsg /\ msg'[m].kind \in {"send"} /\ msg'[m].task \in Hot
      BY <2>1, <3>3, <3>4 DEF InUse, Is, Sender
    <3>7. QuietHandler(k + 1, Sender(m))'
      <4>1. Owes(k)' /\ Handles(k + 1)'
        BY <1>3, <3>3, <3>5 DEF Owes, Waits, Handles
      <4>2. Quiet(calls[k + 1].msg)'
        BY <2>4, <4>1 DEF Calm, CalmWait
      <4> QED
        BY <3>5, <4>1, <4>2 DEF QuietHandler, Sender
    <3> QED
      BY <3>3, <3>5, <3>6, <3>7 DEF InUse, AwaitedBy, Is, Sender
  <2>5. CASE ~(k < depth')
    <3>1. k = depth'
      BY <1>2, <2>5, SMT
    <3>2. \/ \E u \in Tasks : m = <<u, "startup">>
          \/ m \in Msgs /\ Is(m, {"send"}) /\ Sender(m) \in Hot
      BY <2>1 DEF AwaitedBy
    <3>3. calls'[k].msg = m
      BY <1>4, <2>0
    <3>4. /\ msg'[m] # NoMsg
          /\ \/ \E u \in Tasks : m = <<u, "startup">>
             \/ m \in Msgs /\ msg'[m].kind \in {"send"} /\ msg'[m].task \in Hot
      BY <2>1, <2>2, <3>2 DEF InUse, Is, Sender
    <3> QED
      BY <2>5, <3>1, <3>3, <3>4 DEF InUse, AwaitedBy, Is, Sender
  <2> QED
    BY <1>1, <1>4, <2>0, <2>1, <2>3, <2>4, <2>5, AboveWait
<1>5. CASE k = depth' /\ calls'[k] = f /\ NewTop(f)
  <2>0. ~(k < depth')
    BY <1>2, <1>5, SMT
  <2>1. CASE Continues(f)
    <3>1. /\ Waits(depth) /\ f.msg = calls[depth].msg /\ k = depth /\ depth \in 1 .. depth
      <4>1. Stops(depth, f.task) => f.at \notin Stages
        BY <1>3, <1>5, SMT DEF Stages
      <4> QED
        BY <1>2, <1>5, <2>1, <4>1, SMT DEF Continues
    <3>2. msg'[f.msg] = msg[f.msg]
      BY <1>3, <3>1, AwaitedStays
    <3>3. /\ InUse(f.msg)
          /\ \/ \E u \in Tasks : f.msg = <<u, "startup">>
             \/ f.msg \in Msgs /\ Is(f.msg, {"send"}) /\ Sender(f.msg) \in Hot
      BY <3>1, AwaitedIs DEF AwaitedBy
    <3>4. /\ msg'[f.msg] # NoMsg
          /\ \/ \E u \in Tasks : f.msg = <<u, "startup">>
             \/ f.msg \in Msgs /\ msg'[f.msg].kind \in {"send"} /\ msg'[f.msg].task \in Hot
      BY <3>2, <3>3 DEF InUse, Is, Sender
    <3> QED
      BY <1>5, <2>0, <3>4 DEF InUse, AwaitedBy, Is, Sender
  <2>2. ASSUME NEW m \in AllMsgs, Awaiting(f, m)
        PROVE  InUse(calls[k].msg)' /\ AwaitedBy(k, calls[k].msg)'
    <3>1. calls'[k].msg = m /\ msg'[m] # NoMsg
      BY <1>5, <2>2 DEF Awaiting, InUse
    <3>2. \/ \E u \in Tasks : m = <<u, "startup">>
          \/ m \in Msgs /\ msg'[m].kind \in {"send"} /\ msg'[m].task \in Hot
      BY <2>2 DEF Awaiting, Is, Sender
    <3> QED
      BY <1>5, <2>0, <3>1, <3>2 DEF InUse, AwaitedBy, Is, Sender
  <2>3. \A n \in AllMsgs : ~Handling(f, n)
    BY <1>3, <1>5, SMT DEF Handling, NewHandler
  <2>4. \A s \in Tasks : f # Stopping(s)
    BY <1>3, <1>5, SMT DEF Stopping
  <2> QED
    BY <1>5, <2>1, <2>2, <2>3, <2>4 DEF NewTop
<1>6. CASE k = 1 /\ depth = 0 /\ calls'[k].at = "loop"
  BY <1>3, <1>6
<1> QED
  BY <1>1, <1>4, <1>5, <1>6, Zenon DEF LevelsAre

\* TSKF_MUSTDISPOSE after a message of the task was given back, or of another.
LEMMA GivenFlags ==
  ASSUME TypeOK, NEW s \in Tasks, NEW t \in Tasks, NEW fl,
         Settles(s, fl) \/ Disposes(s, fl), fl \subseteq flags[s],
         "MUSTDISPOSE" \in flags'[t]
  PROVE  s # t /\ "MUSTDISPOSE" \in flags[t]
<1>1. flags \in [Tasks -> SUBSET Flags]
  BY DEF TypeOK
<1>2. CASE Settles(s, fl)
  BY <1>1, <1>2 DEF Settles
<1>3. CASE Disposes(s, fl)
  <2>1. flags' = [flags EXCEPT ![s] = fl \ {"MUSTDISPOSE"}]
    BY <1>3 DEF Disposes
  <2> QED
    BY <1>1, <2>1
<1> QED
  BY <1>2, <1>3

\* Only the handler of a window's last update puts its disposal off.
LEMMA PutOffBy ==
  ASSUME IInv, WInv, NEW t \in Hot, Disposetask(t), Busy(t)
  PROVE  InUse(<<t, "last">>)
<1> USE DEF IInv
<1>1. t \in Tasks /\ depth \in Nat
  BY TasksAssumption, Levels DEF TypeOK
<1>2. depth # 0
  <2>1. PICK k \in 1 .. depth : HandlesOf(k, t)
    BY <1>1 DEF WInv, ProcessingHandled, Busy
  <2> QED
    BY <2>1, SMT
<1>3. InHandler /\ Is(Top.msg, {"last"}) /\ Sender(Top.msg) = t
  <2>1. MayDispose(t)
    BY <1>1, SMT DEF Disposetask
  <2>2. stack # << >>
    BY <1>2, Callers
  <2> QED
    BY <2>1, <2>2 DEF MayDispose
<1>4. Handles(depth) /\ Top = calls[depth] /\ depth \in 1 .. depth
  BY <1>3, Callers
<1>5. Top.msg \in AllMsgs /\ InUse(Top.msg)
  BY <1>4, HandlerInUse
<1>6. "last" \in OwnKinds
  BY DEF OwnKinds
<1>7. Top.msg = <<t, "last">>
  BY <1>3, <1>5, <1>6, MessageKinds
<1> QED
  BY <1>5, <1>7

\* A last update stays when another message is given back.
LEMMA LastStays ==
  ASSUME IInv, NEW t \in Tasks, NEW n \in AllMsgs, Gives(n),
         InUse(<<t, "last">>), <<t, "last">> # n
  PROVE  InUse(<<t, "last">>)'
<1>1. "last" \in OwnKinds /\ <<t, "last">> \in AllMsgs
  BY OwnFacts DEF OwnKinds
<1>2. msg'[<<t, "last">>] = msg[<<t, "last">>]
  BY <1>1, GivesOne DEF IInv
<1> QED
  BY <1>2 DEF InUse

LEMMA PutOffKept ==
  ASSUME IInv, WInv, Next
  PROVE  PutOffLast'
<1> USE DEF IInv
<1>1. SUFFICES ASSUME NEW t \in Hot, "MUSTDISPOSE" \in flags'[t]
               PROVE  InUse(<<t, "last">>)'
  BY DEF PutOffLast
<1>2. /\ t \in Tasks /\ flags \in [Tasks -> SUBSET Flags]
      /\ "last" \in OwnKinds /\ <<t, "last">> \in AllMsgs
      /\ "MUSTDISPOSE" \in flags[t] => InUse(<<t, "last">>)
  BY TasksAssumption, OwnFacts DEF WInv, PutOffLast, TypeOK, OwnKinds
<1>3. ASSUME NEW p \in Tasks, Process(p) PROVE InUse(<<t, "last">>)'
  <2>1. InUse(<<t, "last">>)
    BY <1>1, <1>2, <1>3, SubtasksKeep
  <2>2. msg'[<<t, "last">>] = msg[<<t, "last">>]
    <3>1. <<t, "last">> # <<p, "update">>
      OBVIOUS
    <3> QED
      BY <1>2, <1>3, <2>1, <3>1, SubtaskMessages
  <2> QED
    BY <2>1, <2>2 DEF InUse
<1>4. ASSUME NEW p \in Tasks, Object(p) PROVE InUse(<<t, "last">>)'
  <2>1. InUse(<<t, "last">>)
    <3>1. \/ flags' = flags \/ flags' = [flags EXCEPT ![p] = @ \cup {"DISPOSING"}]
          \/ /\ Disposetask(p) /\ Busy(p)
             /\ flags' = [flags EXCEPT ![p] = @ \cup {"DISPOSING", "MUSTDISPOSE"}]
      BY <1>4, ObjectCalls, Zenon
    <3>2. ASSUME "MUSTDISPOSE" \notin flags[t] PROVE Disposetask(t) /\ Busy(t)
      BY <1>1, <1>2, <3>1, <3>2
    <3> QED
      BY <1>2, <3>2, PutOffBy
  <2>2. <<t, "last">> # <<p, "startup">>
    OBVIOUS
  <2>3. msg'[<<t, "last">>] = msg[<<t, "last">>]
    BY <1>2, <1>4, <2>1, <2>2, ObjectMessages
  <2> QED
    BY <2>1, <2>3 DEF InUse
<1>5. CASE Main \/ HandlerReturns
  <2>1. ASSUME NEW m \in AllMsgs, InUse(m), NEW fl \in SUBSET flags[Sender(m)],
               Settles(Sender(m), fl) \/ Disposes(Sender(m), fl),
               Gives(m)
        PROVE  InUse(<<t, "last">>)'
    <3>1. Sender(m) \in Tasks
      BY <2>1, Returning
    <3>2. Sender(m) # t /\ "MUSTDISPOSE" \in flags[t]
      BY <1>1, <1>2, <2>1, <3>1, GivenFlags
    <3>3. InUse(<<t, "last">>)
      BY <1>2, <3>2
    <3>4. <<t, "last">> # m
      <4>1. Sender(<<t, "last">>) = t
        BY <1>2, <3>3, OwnMessages
      <4> QED
        BY <3>2, <4>1
    <3> QED
      BY <1>2, <2>1, <3>3, <3>4, LastStays
  <2>2. ASSUME UNCHANGED msg, "MUSTDISPOSE" \in flags[t] PROVE InUse(<<t, "last">>)'
    BY <1>2, <2>2 DEF InUse
  <2>3. ASSUME NEW m \in AllMsgs, Receives(m) PROVE InUse(<<t, "last">>)'
    <3>1. InUse(m)
      BY <2>3, PortInUse DEF Receives
    <3>2. CASE /\ flags' = [flags EXCEPT ![Sender(m)] = @ \cup {"PROCESSING"}]
               /\ UNCHANGED msg
      <4>1. "MUSTDISPOSE" \in flags[t]
        BY <1>1, <1>2, <3>2
      <4> QED
        BY <2>2, <3>2, <4>1
    <3> QED
      BY <2>1, <2>3, <3>1, <3>2, Zenon DEF Receives
  <2>4. ASSUME NEW m \in AllMsgs, Answered(m) PROVE InUse(<<t, "last">>)'
    <3>1. InUse(m)
      BY <2>4, PortInUse DEF Answered
    <3>2. Gives(m)
      BY <2>4 DEF Answered
    <3>3. CASE /\ m = <<Sender(m), "startup">>
               /\ flags' = [flags EXCEPT ![Sender(m)] = @ \cup {"STARTED"}]
      <4>1. "MUSTDISPOSE" \in flags[t]
        BY <1>1, <1>2, <3>3
      <4>2. <<t, "last">> # m
        BY <3>3
      <4> QED
        BY <1>2, <3>2, <4>1, <4>2, LastStays
    <3>4. CASE \/ Settles(Sender(m), flags[Sender(m)])
               \/ Disposes(Sender(m), flags[Sender(m)])
      BY <2>1, <3>1, <3>2, <3>4
    <3> QED
      BY <2>4, <3>3, <3>4, Zenon DEF Answered
  <2>5. ASSUME NEW m \in AllMsgs, Returned(m) PROVE InUse(<<t, "last">>)'
    <3>1. InUse(m)
      <4>1. depth \in 1 .. depth /\ Handles(depth) /\ calls[depth].msg = m
        BY <2>5, Levels, SMT DEF Returned, TypeOK
      <4> QED
        BY <4>1, HandlerInUse
    <3>2. flags[Sender(m)] \ {"PROCESSING"} \in SUBSET flags[Sender(m)]
      OBVIOUS
    <3> QED
      BY <2>1, <2>5, <3>1, <3>2, Zenon DEF Returned
  <2>6. CASE Looping \/ \E f \in Frames : Waiting(f)
    BY <1>1, <2>2, <2>6 DEF Looping, Waiting, object, process
  <2>7. ASSUME NEW s \in Tasks, Freed(s) PROVE InUse(<<t, "last">>)'
    <3>1. flags' = [flags EXCEPT ![s] = {}] /\ UNCHANGED msg
      BY <2>7 DEF Freed
    <3>2. "MUSTDISPOSE" \in flags[t]
      BY <1>1, <1>2, <3>1
    <3> QED
      BY <2>2, <3>1, <3>2
  <2> QED
    BY <1>5, <2>3, <2>4, <2>5, <2>6, <2>7, MainSteps
<1> QED
  BY <1>3, <1>4, <1>5 DEF Next

LEMMA LoudKept ==
  ASSUME IInv, WInv, Calm, OneAt', Next
  PROVE  LoudInside'
<1> USE DEF IInv
<1>1. PICK f : LevelsAre(f)
  BY CallsNext
<1>2. depth \in Nat /\ depth' \in Nat
  BY <1>1, OldLevels
<1>3. SUFFICES ASSUME NEW k \in 1 .. depth', NEW l \in 1 .. depth', k < l,
                      NEW t \in Restoring, HandlesOf(k, t)', Stops(l, t)'
               PROVE  FALSE
  BY DEF LoudInside
<1>5. calls'[k].at = "update" /\ calls'[l].at \in Stages /\ calls'[l].task = t
  BY <1>3 DEF HandlesOf, Handles, Stops
<1>6. k \in 1 .. depth /\ calls'[k] = calls[k] /\ HandlesOf(k, t)
  <2>1. k \in 1 .. depth /\ calls'[k] = calls[k]
    BY <1>1, <1>3, <1>5, OldLevels, Zenon
  <2>2. msg'[calls[k].msg] = msg[calls[k].msg]
    BY <1>3, <1>5, <2>1, HandlerMessage DEF Handles
  <2> QED
    BY <1>3, <2>1, <2>2 DEF HandlesOf, Handles, Sender
<1>7. \A j \in 1 .. depth : k < j => ~Stops(j, t)
  BY <1>6 DEF WInv, LoudInside
<1>8. CASE l \in 1 .. depth /\ calls'[l] = calls[l]
  BY <1>3, <1>5, <1>7, <1>8 DEF Stops
<1>9. CASE l = depth' /\ calls'[l] = f /\ NewTop(f)
  <2>1. depth \in 1 .. depth
    BY <1>2, <1>6, SMT
  <2>2. ~Continues(f)
    <3> SUFFICES ASSUME Continues(f) PROVE FALSE
      OBVIOUS
    <3>1. l = depth /\ Stops(depth, t)
      BY <1>5, <1>9, SMT DEF Continues, Stages
    <3> QED
      BY <1>3, <1>7, <2>1, <3>1
  <2>3. \A n \in AllMsgs : ~Handling(f, n) /\ ~Awaiting(f, n)
    BY <1>5, <1>9, SMT DEF Handling, NewHandler, Awaiting, Stages
  <2>4. ASSUME NEW s \in Tasks, f = Stopping(s), StopCalled(s) PROVE FALSE
    <3>1. s = t
      BY <1>5, <1>9, <2>4 DEF Stopping
    <3>2. depth' = 2 /\ calls'[1].at = "loop"
      BY <1>2, <1>3, <1>6, <2>4, <3>1, SMT DEF StopCalled
    <3>3. k = 1
      BY <1>2, <1>3, <3>2, SMT
    <3> QED
      BY <1>5, <3>2, <3>3
  <2> QED
    BY <1>9, <2>2, <2>3, <2>4 DEF NewTop
<1>10. CASE l = 1 /\ depth = 0
  BY <1>6, <1>10, SMT
<1> QED
  BY <1>1, <1>3, <1>8, <1>9, <1>10, Zenon DEF LevelsAre

LEMMA OneStoppingKept ==
  ASSUME IInv, WInv, Calm, Next
  PROVE  OneStopping'
<1> USE DEF IInv
<1>1. PICK f : LevelsAre(f)
  BY CallsNext
<1>2. depth \in Nat /\ depth' \in Nat
  BY <1>1, OldLevels
<1>3. ASSUME NEW k \in 1 .. depth', NEW l \in 1 .. depth', k < l,
             calls'[k].at \in Stages, calls'[l].at \in Stages
      PROVE  FALSE
  <2>1. k \in 1 .. depth /\ calls[k].at \in Stages
    <3>1. calls'[k].at # "loop"
      BY <1>3, SMT DEF Stages
    <3> QED
      BY <1>1, <1>3, <3>1, OldLevels, Zenon
  <2>2. \A j \in 1 .. depth : calls[j].at \in Stages => j = k
    BY <2>1 DEF WInv, OneStopping
  <2>3. l # k
    BY <1>2, <1>3, SMT
  <2>4. CASE l \in 1 .. depth /\ calls'[l] = calls[l]
    BY <1>3, <2>2, <2>3, <2>4
  <2>5. CASE l = depth' /\ calls'[l] = f /\ NewTop(f)
    <3>1. depth \in 1 .. depth
      BY <1>2, <2>1, SMT
    <3>2. ASSUME Continues(f) PROVE FALSE
      <4>1. l = depth /\ calls[depth].at \in Stages
        BY <1>3, <2>5, <3>2, SMT DEF Continues, Stops, Stages
      <4> QED
        BY <2>2, <2>3, <3>1, <4>1
    <3>3. \A m \in AllMsgs : ~Handling(f, m) /\ ~Awaiting(f, m)
      BY <1>3, <2>5, SMT DEF Handling, NewHandler, Awaiting, Stages
    <3>4. ASSUME NEW s \in Tasks, StopCalled(s) PROVE FALSE
      <4>1. (depth' = 2 => k = 1) /\ (depth' = 3 => k = 1 \/ k = 2) /\ depth' # 1
        BY <1>2, <1>3, <2>5, SMT
      <4> QED
        BY <1>3, <3>4, <4>1, SMT DEF StopCalled, Stages
    <3> QED
      BY <2>5, <3>2, <3>3, <3>4 DEF NewTop
  <2>6. CASE calls'[l].at = "loop"
    BY <1>3, <2>6, SMT DEF Stages
  <2> QED
    BY <1>1, <2>4, <2>5, <2>6, Zenon DEF LevelsAre
<1>4. SUFFICES ASSUME NEW k \in 1 .. depth', NEW l \in 1 .. depth',
                      calls'[k].at \in Stages, calls'[l].at \in Stages, k # l
               PROVE  FALSE
  BY DEF OneStopping
<1>5. k < l \/ l < k
  BY <1>2, <1>4, SMT
<1> QED
  BY <1>3, <1>4, <1>5

\* The grants are those of the one Stoptask that waits.
LEMMA OneGrant ==
  ASSUME IInv, WInv, In({"procured"}), semaport # << >>
  PROVE  Tail(semaport) = << >>
<1> USE DEF IInv
<1>1. /\ depth > 0 /\ depth \in 1 .. depth /\ Top = calls[depth]
      /\ calls[depth].at \in Stages
  <2>1. stack # << >> /\ Top.at = "procured"
    BY DEF In
  <2> QED
    BY <2>1, Levels DEF TypeOK, Stages
<1>2. semaport \in Seq(Tasks) /\ IsInjective(semaport)
  BY DEF TypeOK, GrantsAwaited
<1>3. \A t \in ToSet(semaport) : t = calls[depth].task
  <2> SUFFICES ASSUME NEW t \in ToSet(semaport) PROVE t = calls[depth].task
    OBVIOUS
  <2>1. PICK k \in 1 .. depth : Stops(k, t)
    BY DEF GrantsAwaited
  <2>2. k = depth
    BY <1>1, <2>1 DEF WInv, OneStopping, Stops
  <2> QED
    BY <2>1, <2>2 DEF Stops
<1>4. \A i \in 1 .. Len(semaport) : semaport[i] = calls[depth].task
  <2> SUFFICES ASSUME NEW i \in 1 .. Len(semaport)
               PROVE  semaport[i] = calls[depth].task
    OBVIOUS
  <2>1. i \in DOMAIN semaport
    BY <1>2, SMT
  <2>2. semaport[i] \in ToSet(semaport)
    BY <2>1, Zenon DEF ToSet
  <2> QED
    BY <1>3, <2>2
<1>5. \A i, j \in 1 .. Len(semaport) : i = j
  BY <1>2, <1>4, SMT DEF IsInjective
<1>6. Len(semaport) = 1
  <2>1. Len(semaport) \in Nat /\ Len(semaport) > 0
    BY <1>2, SMT
  <2>2. CASE Len(semaport) > 1
    <3>1. 1 \in 1 .. Len(semaport) /\ 2 \in 1 .. Len(semaport)
      BY <2>1, <2>2, SMT
    <3> QED
      BY <1>5, <3>1
  <2> QED
    BY <2>1, <2>2, SMT
<1>7. Tail(semaport) \in Seq(Tasks) /\ Len(Tail(semaport)) = 0
  BY <1>2, <1>6, SMT
<1>8. \A q \in Seq(Tasks) : Len(q) = 0 => q = << >>
  BY SMT
<1> QED
  BY <1>7, <1>8, Zenon

LEMMA GrantSignalsKept ==
  ASSUME IInv, WInv, Next
  PROVE  GrantSignals'
<1> USE DEF IInv
<1>1. CASE UNCHANGED semas
  BY <1>1, SMT DEF semas, WInv, GrantSignals
<1>2. CASE Procure
  <2>1. CASE semasignal' = TRUE
    BY <2>1 DEF GrantSignals
  <2> QED
    BY <1>1, <1>2, <2>1, Zenon DEF Procure
<1>3. CASE StoptaskWake
  <2>1. In({"procured"})
    BY <1>3 DEF StoptaskWake
  <2>2. CASE semaport = << >>
    <3>1. semaport' = semaport
      BY <1>3, <2>2, Zenon DEF StoptaskWake
    <3> QED
      BY <2>2, <3>1 DEF GrantSignals
  <2>3. CASE semaport # << >>
    <3>1. SemaToo
      BY <2>3 DEF WInv, GrantSignals, SemaToo
    <3>2. semaport' = Tail(semaport)
      BY <1>3, <2>3, <3>1, Zenon DEF StoptaskWake
    <3>3. semaport' = << >>
      BY <2>1, <2>3, <3>2, OneGrant
    <3> QED
      BY <3>3 DEF GrantSignals
  <2> QED
    BY <2>2, <2>3
<1>4. ASSUME NEW t \in Tasks, ReleaseRunsema(t) PROVE GrantSignals'
  <2>1. CASE semasignal' = TRUE
    BY <2>1 DEF GrantSignals
  <2> QED
    BY <1>1, <1>4, <2>1, Zenon DEF ReleaseRunsema
<1>5. ASSUME NEW t \in Tasks, Object(t) PROVE UNCHANGED semas
  BY <1>5, Zenon DEF Object, Newtask, Starttask, StarttaskFails, StoptaskAsync,
     Disposetask, AsetattrsasyncA, AsetattrssyncA
<1>6. ASSUME NEW t \in Tasks, Process(t), ~ReleaseRunsema(t) PROVE UNCHANGED semas
  BY <1>6, Zenon DEF Process, Wrapper, Subtask, SubtaskFails, Updated, SubtaskEnds,
     Gettaskmsg, Replytaskmsg, UpdateSync, UpdateAsync, Update, EntryEnds
<1>7. ASSUME Main \/ HandlerReturns, ~Procure, ~StoptaskWake PROVE UNCHANGED semas
  BY <1>7, Zenon DEF Main, Processtask, Resignal, WaitformsgOther, WaitformsgDone,
     WaitformsgSleep, WaitformsgWake, Processtaskreply, StoptaskAgain, Freetask,
     TakeAndProcess, HandlerReturns
<1> QED
  BY <1>1, <1>2, <1>3, <1>4, <1>5, <1>6, <1>7, Zenon DEF Next

-----------------------------------------------------------------------------
\* Before anything is started.
LEMMA InitWInv == Init => WInv
<1> SUFFICES ASSUME Init PROVE WInv
  OBVIOUS
<1> USE DEF Init
<1>1. IInv
  BY InitIInv
<1>2. depth = 0
  BY <1>1, Levels DEF IInv, TypeOK
<1>3. \A k \in 1 .. depth : FALSE
  BY <1>2, SMT
<1>4. \A t \in Tasks : /\ flags[t] = {} /\ ~ctrlc[t] /\ sub[t] = "none"
                       /\ ~InUse(<<t, "last">>)
  <2>1. \A t \in Tasks : <<t, "last">> \in AllMsgs
    BY OwnFacts DEF OwnKinds
  <2> QED
    BY <2>1 DEF InUse
<1>5. HandlersCalled /\ ProcessingHandled /\ Awaited /\ LoudInside /\ OneStopping
  BY <1>3, <1>4, Zenon DEF HandlersCalled, ProcessingHandled, Awaited, LoudInside,
     OneStopping
<1>6. PutOffLast
  <2>1. \A t \in Hot : t \in Tasks
    BY TasksAssumption
  <2> QED
    BY <1>4, <2>1 DEF PutOffLast
<1>7. GrantSignals
  BY DEF GrantSignals
<1> QED
  BY <1>5, <1>6, <1>7 DEF WInv

\* Every step keeps what the waits rely on.
LEMMA NextWInv == IInv /\ WInv /\ Calm /\ Calm' /\ Next => WInv'
<1> SUFFICES ASSUME IInv, WInv, Calm, Calm', Next PROVE WInv'
  OBVIOUS
<1>1. TypeOK' /\ OneAt'
  BY NextIInv DEF IInv
<1>2. HandlersCalled' /\ ProcessingHandled' /\ Awaited' /\ PutOffLast' /\ LoudInside'
  BY <1>1, HandlersCalledKept, ProcessingKept, AwaitedKept, PutOffKept, LoudKept
<1>3. OneStopping' /\ GrantSignals'
  BY OneStoppingKept, GrantSignalsKept
<1> QED
  BY <1>2, <1>3 DEF WInv

LEMMA StutterWInv == WInv /\ UNCHANGED vars => WInv'
<1> SUFFICES ASSUME WInv, UNCHANGED vars PROVE WInv'
  OBVIOUS
<1>1. /\ UNCHANGED <<calls, depth, state, flags, ctrlc, sub, msg, semaport, semasignal>>
  BY SMT DEF vars, object, process, ports, semas, calls, depth
<1>2. HandlersCalled' /\ ProcessingHandled'
  BY <1>1 DEF WInv, HandlersCalled, ProcessingHandled, Handles, HandlesOf, Waits,
              Stops, Is, Sender
<1>3. Awaited'
  BY <1>1 DEF WInv, Awaited, AwaitedBy, Handles, Waits, Is, Sender, InUse,
              Quiet, QuietHandler
<1>4. PutOffLast'
  BY <1>1 DEF WInv, PutOffLast, InUse
<1>5. LoudInside' /\ OneStopping' /\ GrantSignals'
  BY <1>1 DEF WInv, LoudInside, OneStopping, GrantSignals, HandlesOf, Handles,
              Stops, Sender
<1> QED
  BY <1>2, <1>3, <1>4, <1>5 DEF WInv

-----------------------------------------------------------------------------
(* What this says of the properties.                                       *)

\* A call on the stack that is about a task is a Stoptask.
LEMMA StackStops ==
  ASSUME TypeOK, NEW i \in DOMAIN stack
  PROVE  /\ depth \in Nat /\ i \in 1 .. depth
         /\ depth + 1 - i \in 1 .. depth /\ calls[depth + 1 - i] = stack[i]
         /\ "task" \in DOMAIN stack[i]
              => Stops(depth + 1 - i, stack[i].task) /\ stack[i].task \in Tasks
<1>1. /\ stack \in Seq(Frames) /\ depth \in Nat
      /\ depth + 1 - i \in 1 .. depth /\ calls[depth + 1 - i] = stack[i]
  BY StackLevel, Levels DEF TypeOK
<1>2. i \in 1 .. depth /\ stack[i] \in Frames
  BY <1>1, SMT DEF depth
<1>3. \A f \in Frames : "task" \in DOMAIN f => f.at \in Stages /\ f.task \in Tasks
  BY SMT DEF Frames, Stages
<1> QED
  BY <1>1, <1>2, <1>3 DEF Stops

\* What refers to a task that is freed could only be a handler of its updates.
LEMMA ForgottenIf ==
  ASSUME IInv, NEW t \in Tasks,
         \A k \in 1 .. depth : HandlesOf(k, t) => state[t] # "FREE"
  PROVE  Forgotten(t)
<1> USE DEF IInv
<1>1. SUFFICES ASSUME state[t] = "FREE"
               PROVE  /\ sub[t] = "none"
                      /\ \A m \in AllMsgs : ~Of(m, t)
                      /\ \A i \in DOMAIN stack :
                           "task" \in DOMAIN stack[i] => stack[i].task # t
  BY DEF Forgotten
<1>2. sub[t] = "none" /\ flags[t] = {} /\ hold[t] = Nobody /\ subport[t] = << >>
  BY <1>1 DEF StatesAgree
<1>3. ASSUME NEW m \in AllMsgs, Of(m, t) PROVE FALSE
  <2>1. InUse(m) /\ Sender(m) = t
    BY <1>3 DEF Of, InUse
  <2>2. PICK c \in PlaceKinds, x \in Spots : At(m, c, x)
    BY <2>1 DEF OneAt
  <2>3. c # "port"
    BY <1>1, <1>3, <2>2, AtPort DEF OwnAgree
  <2>4. c # "handler"
    BY <1>1, <2>1, <2>2, AtHandler DEF HandlesOf
  <2>5. c # "held"
    <3> SUFFICES ASSUME c = "held" PROVE FALSE
      OBVIOUS
    <3>1. x \in Tasks /\ hold[x] = m /\ m # Nobody
      BY <2>2, AtHeld, OwnFacts
    <3>2. x = t
      BY <2>1, <3>1 DEF KindsAgree
    <3> QED
      BY <1>2, <3>1, <3>2
  <2>6. c # "posted"
    <3> SUFFICES ASSUME c = "posted" PROVE FALSE
      OBVIOUS
    <3>1. x \in Tasks /\ m \in ToSet(subport[x])
      BY <2>2, AtPosted
    <3>2. x = t
      BY <2>1, <3>1 DEF KindsAgree
    <3>3. ToSet(<< >>) = {}
      BY SMT DEF ToSet
    <3> QED
      BY <1>2, <3>1, <3>2, <3>3
  <2>7. c # "back"
    <3> SUFFICES ASSUME c = "back" PROVE FALSE
      OBVIOUS
    <3>1. x \in Tasks /\ m = <<x, "update">> /\ "update" \in OwnKinds
      BY <2>2, AtBack DEF OwnKinds
    <3>2. x = t
      BY <2>1, <3>1, OwnMessages
    <3> QED
      BY <1>2, <2>1, <3>1, <3>2 DEF OwnAgree
  <2>8. c # "created"
    <3> SUFFICES ASSUME c = "created" PROVE FALSE
      OBVIOUS
    <3>1. x \in Tasks /\ m = <<x, "startup">> /\ sub[x] = "created" /\ "startup" \in OwnKinds
      BY <2>2, AtCreated DEF OwnKinds
    <3>2. x = t
      BY <2>1, <3>1, OwnMessages
    <3> QED
      BY <1>2, <3>1, <3>2
  <2> QED
    BY <2>2, <2>3, <2>4, <2>5, <2>6, <2>7, <2>8, PlaceFacts
<1>4. ASSUME NEW i \in DOMAIN stack, "task" \in DOMAIN stack[i], stack[i].task = t
      PROVE  FALSE
  <2>1. depth + 1 - i \in 1 .. depth /\ Stops(depth + 1 - i, t)
    BY <1>4, StackStops
  <2> QED
    BY <1>2, <2>1 DEF OneStop, OneStopOf
<1> QED
  BY <1>2, <1>3, <1>4

LEMMA StoppedOutsideIf ==
  ASSUME IInv, NEW t \in Tasks, t \in Restoring => LoudInside
  PROVE  StoppedOutside(t)
<1> USE DEF IInv
<1>1. SUFFICES ASSUME NEW i \in DOMAIN stack, NEW j \in DOMAIN stack, i < j,
                      "task" \in DOMAIN stack[i], stack[i].task = t,
                      stack[j].at = "update", Of(stack[j].msg, t)
               PROVE  FALSE
  BY DEF StoppedOutside
<1> DEFINE k == depth + 1 - j
           l == depth + 1 - i
<1>2. /\ k \in 1 .. depth /\ calls[k] = stack[j]
      /\ l \in 1 .. depth /\ Stops(l, t)
  BY <1>1, StackStops
<1>3. k < l
  <2>1. depth \in Nat /\ i \in 1 .. depth /\ j \in 1 .. depth
    BY StackStops
  <2> QED
    BY <1>1, <2>1, SMT
<1>4. HandlesOf(k, t)
  BY <1>1, <1>2 DEF HandlesOf, Handles, Of
<1> HIDE DEF k, l
<1> QED
  BY <1>2, <1>3, <1>4, StopsOutside

LEMMA AwaitedThen == IInv /\ WInv => AwaitedWillCome
<1> SUFFICES ASSUME IInv, WInv, NEW i \in DOMAIN stack,
                    stack[i].at \in {"wait", "sleep"}
             PROVE  msg[stack[i].msg] # NoMsg
  BY DEF AwaitedWillCome
<1>1. depth + 1 - i \in 1 .. depth /\ calls[depth + 1 - i] = stack[i]
  BY StackStops DEF IInv
<1>2. Waits(depth + 1 - i)
  BY <1>1 DEF Waits
<1>3. InUse(calls[depth + 1 - i].msg)
  BY <1>1, <1>2 DEF WInv, Awaited
<1> QED
  BY <1>1, <1>3 DEF InUse

LEMMA GrantThen == IInv /\ WInv => NoLostGrant
  BY DEF NoLostGrant, WInv, GrantSignals

LEMMA ForgottenThen == IInv /\ WInv => FreedIsForgotten
<1> SUFFICES ASSUME IInv, WInv, NEW t \in Tasks PROVE Forgotten(t)
  BY DEF FreedIsForgotten
<1>1. \A k \in 1 .. depth : HandlesOf(k, t) => state[t] # "FREE"
  BY DEF WInv, HandlersCalled, HandlesOf
<1> QED
  BY <1>1, ForgottenIf

LEMMA QuietForgotten ==
  ASSUME IInv, NEW t \in Tasks \ Restoring
  PROVE  Forgotten(t)
<1>1. ASSUME NEW k \in 1 .. depth, HandlesOf(k, t) PROVE state[t] # "FREE"
  <2>1. QuietHandler(k, t)
    BY <1>1 DEF QuietHandler, HandlesOf, Quiet
  <2> QED
    BY <2>1 DEF IInv, QuietInside
<1> QED
  BY <1>1, ForgottenIf

-----------------------------------------------------------------------------
\* When a task object that sends no synchronous messages is freed, its process
\* is gone, and no message and no call of the main task refers to it.
THEOREM FreedForgotten ==
  Spec => [](\A t \in Tasks \ Restoring : Forgotten(t))
<1>1. IInv => \A t \in Tasks \ Restoring : Forgotten(t)
  BY QuietForgotten
<1> QED
  BY <1>1, Invariant, PTL

\* Stoptask never waits for such a task from inside one of its own handlers.
THEOREM StoppedFromOutside ==
  Spec => [](\A t \in Tasks \ Restoring : StoppedOutside(t))
<1>1. IInv => \A t \in Tasks \ Restoring : StoppedOutside(t)
  BY StoppedOutsideIf
<1> QED
  BY <1>1, Invariant, PTL

\* What the waits rely on stays so until a window that owes an answer says that
\* it is done, or an AOHOT_Restore of it is handled.
THEOREM WaitsInvariant == Spec /\ []Calm => []WInv
<1>1. Init => WInv
  BY InitWInv
<1>2. IInv /\ WInv /\ Calm /\ Calm' /\ [Next]_vars => WInv'
  BY NextWInv, StutterWInv
<1> QED
  BY <1>1, <1>2, Invariant, PTL DEF Spec

\* Until then, Waitformsg waits for a message that will come.
THEOREM AwaitedComes == Spec /\ []Calm => []AwaitedWillCome
  BY AwaitedThen, Invariant, WaitsInvariant, PTL

\* Until then, when Stoptask waits and a runsema is granted, it is awake.
THEOREM NoGrantLost == Spec /\ []Calm => []NoLostGrant
  BY GrantThen, Invariant, WaitsInvariant, PTL

\* Until then, no task object is freed while a message or a call refers to it.
THEOREM AllFreedForgotten == Spec /\ []Calm => []FreedIsForgotten
  BY ForgottenThen, Invariant, WaitsInvariant, PTL

\* Until then, no task is stopped from inside one of its own handlers.
THEOREM NeverStoppedInHandler == Spec /\ []Calm => []NotStoppedInHandler
<1>1. IInv /\ WInv => NotStoppedInHandler
  BY StoppedOutsideIf DEF NotStoppedInHandler, WInv
<1> QED
  BY <1>1, Invariant, WaitsInvariant, PTL
=============================================================================
