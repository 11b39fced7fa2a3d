----------------------------- MODULE TaskProofs -----------------------------
(***************************************************************************)
(* Proofs about Task, for any tasks and messages.                          *)
(*                                                                         *)
(* The stack is read from its outermost call, so that a call keeps its     *)
(* level while others are made and return (calls, depth).  Every step of   *)
(* the main task is first put into one of a few forms (MainSteps): it      *)
(* receives a message, a wait is answered, a handler returns, a wait goes  *)
(* on, Processtask begins or ends, a task is freed.  Each part of IInv is  *)
(* then shown to be kept by these forms, by what objects do and by what    *)
(* subtasks do.                                                            *)
(***************************************************************************)
EXTENDS Task, QueueLemmas

\* The calls the main task is in, outermost first: a call keeps its place
\* while others are made and return.
calls == Reverse(stack)
depth == Len(stack)
Handles(k) == calls[k].at = "update"
Waits(k) == calls[k].at \in {"wait", "sleep"}
Stages == {"first", "procured", "again", "last"}
Stops(k, t) == calls[k].at \in Stages /\ calls[k].task = t

-----------------------------------------------------------------------------
\* Where a message is.
InUse(m) == msg[m] # NoMsg
PlaceKinds == {"port", "handler", "held", "posted", "back", "created"}
Spots == Nat \cup Tasks

At(m, c, x) ==
  \/ c = "port" /\ x = 0 /\ m \in ToSet(taskport)
  \/ c = "handler" /\ x \in 1 .. depth /\ Handles(x) /\ calls[x].msg = m
  \/ c = "held" /\ x \in Tasks /\ hold[x] = m
  \/ c = "posted" /\ x \in Tasks /\ m \in ToSet(subport[x])
  \/ c = "back" /\ x \in Tasks /\ m = <<x, "update">> /\ replied[x]
  \/ c = "created" /\ x \in Tasks /\ m = <<x, "startup">> /\ sub[x] = "created"

OneAt ==
  /\ IsInjective(taskport)
  /\ \A t \in Tasks : IsInjective(subport[t])
  /\ \A m \in AllMsgs, c, d \in PlaceKinds, x, y \in Spots :
       At(m, c, x) /\ At(m, d, y) => c = d /\ x = y
  /\ \A m \in AllMsgs :
       InUse(m) <=> \E c \in PlaceKinds, x \in Spots : At(m, c, x)

\* What a message is, by the structure and by the place.
KindsAgree ==
  /\ \A m \in Msgs : InUse(m) => msg[m].kind \in {"async", "send", "set"}
  /\ \A t \in Tasks, k \in OwnKinds :
       InUse(<<t, k>>) => msg[<<t, k>>] = [kind |-> k, task |-> t]
  /\ \A t \in Tasks : hold[t] # Nobody => Sender(hold[t]) = t
  /\ \A t \in Tasks : \A m \in ToSet(subport[t]) : Sender(m) = t

\* The object and its process.
StatesAgree ==
  \A t \in Tasks :
    /\ state[t] = "FREE" => sub[t] = "none" /\ flags[t] = {}
    /\ state[t] = "NEW" => sub[t] \in {"none", "created"}
    /\ state[t] = "RUN" => sub[t] \in {"run", "update", "last"}
    /\ state[t] = "DEAD" => sub[t] \in {"none", "ending", "failed"}
    /\ hold[t] # Nobody => sub[t] \in {"run", "update"}
    /\ subport[t] # << >> => state[t] = "RUN"

\* The process and the messages of its own.
OwnAgree ==
  \A t \in Tasks :
    /\ InUse(<<t, "update">>) <=> sub[t] = "update"
    /\ InUse(<<t, "last">>) => sub[t] \in {"last", "ending", "none"}
    /\ state[t] \in {"FREE", "NEW"}
         => ~InUse(<<t, "last">>) /\ \A m \in ToSet(taskport) : ~Of(m, t)

\* While a process starts, the main task waits for it and for nothing else.
FirstAtPort(t) ==
  \E i \in 1 .. Len(taskport) :
    taskport[i] = <<t, "startup">> /\ \A j \in 1 .. i - 1 : ~Of(taskport[j], t)

StartupFirst ==
  \A t \in Tasks : InUse(<<t, "startup">>) =>
    /\ depth > 0 /\ Waits(depth) /\ calls[depth].msg = <<t, "startup">>
    /\ sub[t] = "created" \/ FirstAtPort(t)

\* One Stoptask for a task; what follows it runs when the process is gone.
OneStopOf(t) ==
  /\ "MUSTDISPOSE" \in flags[t] => "DISPOSING" \in flags[t]
  /\ \A k \in 1 .. depth : Stops(k, t) =>
       /\ "DISPOSING" \in flags[t] /\ "MUSTDISPOSE" \notin flags[t]
       /\ calls[k].at = "last" => sub[t] = "none"
       /\ \A l \in 1 .. depth : Stops(l, t) => k = l

OneStop ==
  /\ \A t \in Tasks : OneStopOf(t)
  /\ \A k \in 1 .. depth : calls[k].at = "loop" => k = 1

\* A grant of a runsema belongs to a Stoptask that waits.
GrantsAwaited ==
  /\ IsInjective(semaport)
  /\ \A t \in ToSet(semaport) :
       /\ sub[t] = "none"
       /\ \E k \in 1 .. depth : /\ Stops(k, t)
                                /\ calls[k].at \in {"procured", "again"}

\* What can be called inside a handler, but for those that send synchronous
\* messages: the start of another task, and the disposal of one.
Quiet(m) == Is(m, {"async"}) => Sender(m) \notin Restoring
Plain(l, t) ==
  \/ Waits(l) /\ \E u \in Tasks \ {t} : calls[l].msg = <<u, "startup">>
  \/ \E u \in Tasks \ (Hot \cup Restoring \cup {t}) :
       Stops(l, u) \/ (Handles(l) /\ Sender(calls[l].msg) = u)

QuietHandler(k, t) ==
  Handles(k) /\ Quiet(calls[k].msg) /\ Sender(calls[k].msg) = t

QuietInside ==
  \A k \in 1 .. depth, t \in Tasks : QuietHandler(k, t) =>
    /\ "PROCESSING" \in flags[t] /\ state[t] \in {"RUN", "DEAD"}
    /\ \A l \in 1 .. depth : l > k => Plain(l, t)

IInv == /\ TypeOK /\ KindsAgree /\ OneAt /\ StatesAgree /\ OwnAgree
        /\ StartupFirst /\ OneStop /\ GrantsAwaited /\ QuietInside

-----------------------------------------------------------------------------
(* The stack, from the outermost call.                                     *)

\* A sequence read from its end.
LEMMA ReverseElements ==
  ASSUME NEW S, NEW s \in Seq(S)
  PROVE  /\ Len(Reverse(s)) = Len(s)
         /\ Reverse(s) \in Seq(S)
         /\ \A k \in 1 .. Len(s) : Reverse(s)[k] = s[Len(s) + 1 - k]
  BY SMT DEF Reverse

\* The innermost call is the last one.
LEMMA ReverseTop ==
  ASSUME NEW S, NEW s \in Seq(S), s # << >>
  PROVE  /\ Len(s) \in Nat /\ Len(s) > 0
         /\ Head(s) = Reverse(s)[Len(s)] /\ Head(s) \in S
         /\ Len(s) > 1 => s[2] = Reverse(s)[Len(s) - 1]
<1>1. Len(s) \in Nat /\ Len(s) > 0 /\ Head(s) = s[1] /\ s[1] \in S
  BY SMT
<1>2. Len(s) \in 1 .. Len(s) /\ Len(s) + 1 - Len(s) = 1
  BY <1>1, SMT
<1>3. Len(s) > 1 => Len(s) - 1 \in 1 .. Len(s) /\ Len(s) + 1 - (Len(s) - 1) = 2
  BY <1>1, SMT
<1> QED
  BY <1>1, <1>2, <1>3, ReverseElements

\* A call leaves the outer ones where they are.
LEMMA ReverseCall ==
  ASSUME NEW S, NEW s \in Seq(S), NEW f \in S
  PROVE  /\ Call(f, s) \in Seq(S) /\ Call(f, s) # << >>
         /\ Len(Call(f, s)) = Len(s) + 1 /\ Head(Call(f, s)) = f
         /\ Reverse(Call(f, s))[Len(s) + 1] = f
         /\ \A k \in 1 .. Len(s) : Reverse(Call(f, s))[k] = Reverse(s)[k]
<1> DEFINE r == Call(f, s)
<1>1. /\ r \in Seq(S) /\ Len(r) = Len(s) + 1 /\ r[1] = f /\ r # << >>
      /\ Len(s) \in Nat
      /\ \A i \in 1 .. Len(s) : r[i + 1] = s[i]
  BY SMT DEF Call
<1> HIDE DEF r
<1>2. \A k \in 1 .. Len(r) : Reverse(r)[k] = r[Len(r) + 1 - k]
  BY <1>1, ReverseElements
<1>3. \A k \in 1 .. Len(s) : Reverse(s)[k] = s[Len(s) + 1 - k]
  BY ReverseElements
<1>4. ASSUME NEW k \in 1 .. Len(s) PROVE Reverse(r)[k] = Reverse(s)[k]
  <2>1. k \in 1 .. Len(r) /\ Len(s) + 1 - k \in 1 .. Len(s)
        /\ Len(r) + 1 - k = (Len(s) + 1 - k) + 1
    BY <1>1, SMT
  <2>2. r[(Len(s) + 1 - k) + 1] = s[Len(s) + 1 - k]
    BY <1>1, <2>1
  <2> QED
    BY <1>2, <1>3, <2>1, <2>2
<1>5. Reverse(r)[Len(s) + 1] = f
  <2>1. Len(s) + 1 \in 1 .. Len(r) /\ Len(r) + 1 - (Len(s) + 1) = 1
    BY <1>1, SMT
  <2> QED
    BY <1>1, <1>2, <2>1
<1>6. Head(r) = f
  BY <1>1, SMT
<1> QED
  BY <1>1, <1>4, <1>5, <1>6 DEF r

\* And so does a return.
LEMMA ReverseTail ==
  ASSUME NEW S, NEW s \in Seq(S), s # << >>
  PROVE  /\ Tail(s) \in Seq(S)
         /\ Len(Tail(s)) = Len(s) - 1
         /\ \A k \in 1 .. Len(s) - 1 : Reverse(Tail(s))[k] = Reverse(s)[k]
<1> DEFINE r == Tail(s)
<1>1. /\ r \in Seq(S) /\ Len(r) = Len(s) - 1 /\ Len(s) \in Nat
      /\ \A i \in 1 .. Len(s) - 1 : r[i] = s[i + 1]
  BY SMT
<1> HIDE DEF r
<1>2. \A k \in 1 .. Len(r) : Reverse(r)[k] = r[Len(r) + 1 - k]
  BY <1>1, ReverseElements
<1>3. \A k \in 1 .. Len(s) : Reverse(s)[k] = s[Len(s) + 1 - k]
  BY ReverseElements
<1>4. ASSUME NEW k \in 1 .. Len(s) - 1 PROVE Reverse(r)[k] = Reverse(s)[k]
  <2>1. k \in 1 .. Len(r) /\ k \in 1 .. Len(s) /\ Len(s) - k \in 1 .. Len(s) - 1
        /\ Len(r) + 1 - k = Len(s) - k /\ Len(s) + 1 - k = (Len(s) - k) + 1
    BY <1>1, SMT
  <2>2. r[Len(s) - k] = s[(Len(s) - k) + 1]
    BY <1>1, <2>1
  <2> QED
    BY <1>2, <1>3, <2>1, <2>2
<1> QED
  BY <1>1, <1>4 DEF r

\* The innermost call replaced by another: the outer ones keep their levels.
LEMMA ReverseSwap ==
  ASSUME NEW S, NEW s \in Seq(S), s # << >>, NEW f \in S
  PROVE  /\ Call(f, Tail(s)) \in Seq(S) /\ Call(f, Tail(s)) # << >>
         /\ Len(Call(f, Tail(s))) = Len(s)
         /\ Reverse(Call(f, Tail(s)))[Len(s)] = f
         /\ \A k \in 1 .. Len(s) - 1 :
              Reverse(Call(f, Tail(s)))[k] = Reverse(s)[k]
<1> DEFINE r == Tail(s)
<1>1. /\ r \in Seq(S) /\ Len(r) = Len(s) - 1 /\ Len(s) \in Nat
      /\ (Len(s) - 1) + 1 = Len(s)
      /\ \A k \in 1 .. Len(s) - 1 : Reverse(r)[k] = Reverse(s)[k]
  BY ReverseTop, ReverseTail, SMT
<1> HIDE DEF r
<1>2. /\ Call(f, r) \in Seq(S) /\ Call(f, r) # << >>
      /\ Len(Call(f, r)) = Len(r) + 1
      /\ Reverse(Call(f, r))[Len(r) + 1] = f
      /\ \A k \in 1 .. Len(r) : Reverse(Call(f, r))[k] = Reverse(r)[k]
  <2>1. \A q \in Seq(S) :
          /\ Call(f, q) \in Seq(S) /\ Call(f, q) # << >>
          /\ Len(Call(f, q)) = Len(q) + 1
          /\ Reverse(Call(f, q))[Len(q) + 1] = f
          /\ \A k \in 1 .. Len(q) : Reverse(Call(f, q))[k] = Reverse(q)[k]
    BY ReverseCall, SMT
  <2> QED
    BY <1>1, <2>1, Zenon
<1> QED
  BY <1>1, <1>2 DEF r

\* A call returns, or is replaced by another.
Pops == /\ depth' = depth - 1
        /\ \A k \in 1 .. depth - 1 : calls'[k] = calls[k]
Pushes(f) == /\ depth' = depth + 1 /\ calls'[depth + 1] = f
             /\ \A k \in 1 .. depth : calls'[k] = calls[k]
Swaps(f) == /\ depth' = depth /\ calls'[depth] = f
            /\ \A k \in 1 .. depth - 1 : calls'[k] = calls[k]

\* A call made leaves the others at their levels.
LEMMA Pushed ==
  ASSUME stack \in Seq(Frames), NEW f \in Frames, stack' = Call(f, stack)
  PROVE  /\ stack' \in Seq(Frames) /\ stack' # << >>
         /\ Pushes(f)
<1>1. /\ Call(f, stack) \in Seq(Frames) /\ Call(f, stack) # << >>
      /\ Len(Call(f, stack)) = Len(stack) + 1
      /\ Reverse(Call(f, stack))[Len(stack) + 1] = f
      /\ \A k \in 1 .. Len(stack) :
           Reverse(Call(f, stack))[k] = Reverse(stack)[k]
  <2>1. \A q \in Seq(Frames) :
          /\ Call(f, q) \in Seq(Frames) /\ Call(f, q) # << >>
          /\ Len(Call(f, q)) = Len(q) + 1
          /\ Reverse(Call(f, q))[Len(q) + 1] = f
          /\ \A k \in 1 .. Len(q) : Reverse(Call(f, q))[k] = Reverse(q)[k]
    BY ReverseCall, SMT
  <2> QED
    BY <2>1, Zenon
<1> QED
  BY <1>1, Zenon DEF depth, calls, Pushes

\* A call that returns leaves the others at their levels.
LEMMA Popped ==
  ASSUME stack \in Seq(Frames), stack # << >>, stack' = Tail(stack)
  PROVE  stack' \in Seq(Frames) /\ Pops
  BY ReverseTop, ReverseTail DEF depth, calls, Pops

\* A call that goes on leaves the others at their levels.
LEMMA Swapped ==
  ASSUME stack \in Seq(Frames), stack # << >>, NEW f \in Frames,
         stack' = Call(f, Tail(stack))
  PROVE  /\ stack' \in Seq(Frames) /\ stack' # << >>
         /\ Swaps(f)
<1> DEFINE s == Call(f, Tail(stack))
<1>1. /\ s \in Seq(Frames) /\ s # << >> /\ Len(s) = Len(stack)
      /\ Reverse(s)[Len(stack)] = f
      /\ \A k \in 1 .. Len(stack) - 1 : Reverse(s)[k] = Reverse(stack)[k]
  <2>1. ASSUME NEW q \in Seq(Frames), q # << >>
        PROVE  /\ Call(f, Tail(q)) \in Seq(Frames) /\ Call(f, Tail(q)) # << >>
               /\ Len(Call(f, Tail(q))) = Len(q)
               /\ Reverse(Call(f, Tail(q)))[Len(q)] = f
               /\ \A k \in 1 .. Len(q) - 1 :
                    Reverse(Call(f, Tail(q)))[k] = Reverse(q)[k]
    BY <2>1, ReverseSwap, SMT
  <2> QED
    BY <2>1, Zenon
<1>2. stack' = s
  OBVIOUS
<1> HIDE DEF s
<1> QED
  BY <1>1, <1>2, Zenon DEF depth, calls, Swaps

\* The levels of the stack; Top is the innermost.
LEMMA Levels ==
  ASSUME stack \in Seq(Frames)
  PROVE  /\ depth \in Nat /\ (stack = << >> <=> depth = 0)
         /\ \A k \in 1 .. depth : calls[k] \in Frames
         /\ stack # << >> => /\ depth > 0 /\ depth \in 1 .. depth
                             /\ Top = calls[depth]
         /\ stack # << >> /\ depth > 1 => stack[2] = calls[depth - 1]
<1>1. depth \in Nat /\ (stack = << >> <=> depth = 0)
  BY SMT DEF depth
<1>2. \A k \in 1 .. depth : calls[k] \in Frames
  <2>1. Reverse(stack) \in Seq(Frames) /\ Len(Reverse(stack)) = Len(stack)
    BY ReverseElements
  <2> QED
    BY <2>1, SMT DEF depth, calls
<1> QED
  BY <1>1, <1>2, ReverseTop, SMT DEF depth, calls, Top

-----------------------------------------------------------------------------
(* Queues, messages and frames.                                            *)

\* REMOVE of the i-th message.
LEMMA RemoveAtSet ==
  ASSUME NEW S, NEW q \in Seq(S), NEW i \in 1 .. Len(q), IsInjective(q)
  PROVE  /\ RemoveAt(q, i) \in Seq(S)
         /\ ToSet(RemoveAt(q, i)) = ToSet(q) \ {q[i]}
         /\ IsInjective(RemoveAt(q, i))
         /\ Len(RemoveAt(q, i)) = Len(q) - 1
         /\ \A j \in 1 .. Len(q) - 1 :
              RemoveAt(q, i)[j] = IF j < i THEN q[j] ELSE q[j + 1]
<1> DEFINE r == RemoveAt(q, i)
<1>1. /\ r \in Seq(S) /\ Len(r) = Len(q) - 1 /\ Len(q) \in Nat
      /\ \A j \in 1 .. Len(q) - 1 : r[j] = IF j < i THEN q[j] ELSE q[j + 1]
  <2>1. Len(q) \in Nat
    BY SMT
  <2> QED
    BY <2>1, RemoveAtElements
<1> HIDE DEF r
<1>2. \A j, k \in 1 .. Len(q) : q[j] = q[k] => j = k
  BY InToSet
<1>3. ASSUME NEW x \in ToSet(r) PROVE x \in ToSet(q) \ {q[i]}
  <2>1. PICK j \in 1 .. Len(q) - 1 : r[j] = x
    BY <1>1, InToSet
  <2>2. PICK k \in 1 .. Len(q) : k # i /\ x = q[k]
    <3>1. j \in 1 .. Len(q) /\ j + 1 \in 1 .. Len(q)
      BY <1>1, SMT
    <3>2. CASE j < i
      BY <1>1, <2>1, <3>1, <3>2, SMT
    <3>3. CASE ~(j < i)
      <4>1. j + 1 # i
        BY <3>3, SMT
      <4> QED
        BY <1>1, <2>1, <3>1, <3>3, <4>1
    <3> QED
      BY <3>2, <3>3
  <2> QED
    BY <1>2, <2>2, InToSet
<1>4. ASSUME NEW x \in ToSet(q) \ {q[i]} PROVE x \in ToSet(r)
  <2>1. PICK k \in 1 .. Len(q) : x = q[k]
    BY <1>4, InToSet
  <2>2. k # i
    BY <1>4, <2>1
  <2>3. CASE k < i
    <3>1. k \in 1 .. Len(q) - 1
      BY <2>3, SMT
    <3> QED
      BY <1>1, <2>1, <2>3, <3>1, InToSet
  <2>4. CASE ~(k < i)
    <3>1. k - 1 \in 1 .. Len(q) - 1 /\ ~(k - 1 < i) /\ (k - 1) + 1 = k
      BY <2>2, <2>4, SMT
    <3>2. r[k - 1] = q[(k - 1) + 1]
      BY <1>1, <3>1
    <3> QED
      BY <1>1, <2>1, <3>1, <3>2, InToSet
  <2> QED
    BY <2>3, <2>4
<1>5. IsInjective(r)
  <2> SUFFICES ASSUME NEW j \in 1 .. Len(q) - 1, NEW k \in 1 .. Len(q) - 1,
                      r[j] = r[k]
               PROVE  j = k
    BY <1>1, InToSet
  <2> DEFINE shift(n) == IF n < i THEN n ELSE n + 1
  <2>1. shift(j) \in 1 .. Len(q) /\ shift(k) \in 1 .. Len(q)
    BY <1>1, SMT
  <2>2. q[shift(j)] = q[shift(k)]
    BY <1>1
  <2>3. shift(j) = shift(k)
    BY <1>2, <2>1, <2>2
  <2> QED
    BY <2>3, SMT
<1> QED
  BY <1>1, <1>3, <1>4, <1>5 DEF r

\* One queue after another that has none of its messages.
LEMMA ConcatSet ==
  ASSUME NEW S, NEW q \in Seq(S), NEW r \in Seq(S)
  PROVE  /\ q \o r \in Seq(S)
         /\ ToSet(q \o r) = ToSet(q) \cup ToSet(r)
         /\ Len(q \o r) >= Len(q)
         /\ \A i \in 1 .. Len(q) : (q \o r)[i] = q[i]
         /\ IsInjective(q) /\ IsInjective(r) /\ ToSet(q) \cap ToSet(r) = {}
              => IsInjective(q \o r)
<1> DEFINE s == q \o r
<1>1. /\ s \in Seq(S) /\ Len(s) = Len(q) + Len(r)
      /\ Len(q) \in Nat /\ Len(r) \in Nat
      /\ \A i \in 1 .. Len(s) :
           s[i] = IF i <= Len(q) THEN q[i] ELSE r[i - Len(q)]
  BY ConcatProperties, SMT
<1> HIDE DEF s
<1>2. \A i \in 1 .. Len(q) : i \in 1 .. Len(s) /\ s[i] = q[i]
  BY <1>1, SMT
<1>3. \A i \in 1 .. Len(r) : i + Len(q) \in 1 .. Len(s)
                             /\ s[i + Len(q)] = r[i]
  <2> TAKE i \in 1 .. Len(r)
  <2>1. /\ i + Len(q) \in 1 .. Len(s) /\ ~(i + Len(q) <= Len(q))
        /\ (i + Len(q)) - Len(q) = i
    BY <1>1, SMT
  <2> QED
    BY <1>1, <2>1
<1>4. \A i \in 1 .. Len(s) : \/ i \in 1 .. Len(q)
                             \/ i - Len(q) \in 1 .. Len(r)
                                /\ s[i] = r[i - Len(q)]
  BY <1>1, SMT
<1>5. ToSet(s) = ToSet(q) \cup ToSet(r)
  <2>1. ASSUME NEW x \in ToSet(s) PROVE x \in ToSet(q) \cup ToSet(r)
    <3>1. PICK i \in 1 .. Len(s) : s[i] = x
      BY <1>1, InToSet
    <3>2. CASE i \in 1 .. Len(q)
      BY <1>2, <3>1, <3>2, InToSet
    <3>3. CASE i - Len(q) \in 1 .. Len(r) /\ s[i] = r[i - Len(q)]
      BY <3>1, <3>3, InToSet
    <3> QED
      BY <1>4, <3>2, <3>3
  <2>2. ASSUME NEW x \in ToSet(q) PROVE x \in ToSet(s)
    BY <1>1, <1>2, InToSet
  <2>3. ASSUME NEW x \in ToSet(r) PROVE x \in ToSet(s)
    <3>1. PICK i \in 1 .. Len(r) : r[i] = x
      BY <2>3, InToSet
    <3>2. i + Len(q) \in 1 .. Len(s) /\ s[i + Len(q)] = x
      BY <1>3, <3>1
    <3> QED
      BY <1>1, <3>2, InToSet
  <2> QED
    BY <2>1, <2>2, <2>3
<1>6. ASSUME IsInjective(q), IsInjective(r), ToSet(q) \cap ToSet(r) = {}
      PROVE  IsInjective(s)
  <2> SUFFICES ASSUME NEW i \in 1 .. Len(s), NEW j \in 1 .. Len(s), s[i] = s[j]
               PROVE  i = j
    BY <1>1, InToSet
  <2>1. /\ \A m, n \in 1 .. Len(q) : q[m] = q[n] => m = n
        /\ \A m, n \in 1 .. Len(r) : r[m] = r[n] => m = n
        /\ \A m \in 1 .. Len(q), n \in 1 .. Len(r) : q[m] # r[n]
    BY <1>6, InToSet
  <2>2. i - Len(q) = j - Len(q) => i = j
    BY <1>1, SMT
  <2>3. CASE i \in 1 .. Len(q) /\ j \in 1 .. Len(q)
    BY <1>2, <2>1, <2>3, Zenon
  <2>4. CASE i \in 1 .. Len(q) /\ j \notin 1 .. Len(q)
    <3>1. s[i] = q[i] /\ j - Len(q) \in 1 .. Len(r) /\ s[j] = r[j - Len(q)]
      BY <1>2, <1>4, <2>4, Zenon
    <3> QED
      BY <2>1, <2>4, <3>1, Zenon
  <2>5. CASE i \notin 1 .. Len(q) /\ j \in 1 .. Len(q)
    <3>1. s[j] = q[j] /\ i - Len(q) \in 1 .. Len(r) /\ s[i] = r[i - Len(q)]
      BY <1>2, <1>4, <2>5, Zenon
    <3> QED
      BY <2>1, <2>5, <3>1, Zenon
  <2>6. CASE i \notin 1 .. Len(q) /\ j \notin 1 .. Len(q)
    <3>1. /\ i - Len(q) \in 1 .. Len(r) /\ s[i] = r[i - Len(q)]
          /\ j - Len(q) \in 1 .. Len(r) /\ s[j] = r[j - Len(q)]
      BY <1>4, <2>6, Zenon
    <3> QED
      BY <2>1, <2>2, <3>1, Zenon
  <2> QED
    BY <2>3, <2>4, <2>5, <2>6, Zenon
<1> QED
  BY <1>1, <1>2, <1>5, <1>6, SMT DEF s

\* A task's own messages are structures of their own.
LEMMA OwnFacts ==
  /\ Nobody \notin AllMsgs
  /\ \A t \in Tasks, k \in OwnKinds :
       <<t, k>> \in AllMsgs /\ <<t, k>> \notin Msgs /\ <<t, k>> # Nobody
  /\ \A m \in AllMsgs : \/ m \in Msgs
                        \/ \E t \in Tasks, k \in OwnKinds : m = <<t, k>>
  BY OwnAssumption, NobodyAssumption, SMT DEF AllMsgs, Own, OwnKinds

\* What a frame of each kind names.
LEMMA FrameFields ==
  /\ \A f \in Frames :
       /\ f.at \in {"update", "wait", "sleep"} => f.msg \in AllMsgs
       /\ f.at \in Stages => f.task \in Tasks
       /\ f.at \in {"loop", "update", "wait", "sleep"} \cup Stages
  /\ [at |-> "loop"] \in Frames
  /\ \A m \in AllMsgs, a \in {"update", "wait", "sleep"} :
       [at |-> a, msg |-> m] \in Frames
  /\ \A t \in Tasks, a \in Stages : [at |-> a, task |-> t] \in Frames
  BY SMT DEF Frames, Stages

\* A wait that goes on is about the same message or task.
LEMMA FrameChanges ==
  ASSUME NEW f \in Frames
  PROVE  /\ \A a \in {"wait", "sleep"} : f.at \in {"wait", "sleep"}
              => [f EXCEPT !.at = a] = [at |-> a, msg |-> f.msg]
         /\ \A a \in Stages : f.at \in Stages
              => [f EXCEPT !.at = a] = [at |-> a, task |-> f.task]
  BY SMT DEF Frames, Stages

\* The first message of a task at the port.
LEMMA FirstOfTask ==
  ASSUME NEW t, taskport \in Seq(AllMsgs), HasMsgOf(t)
  PROVE  /\ FirstOf(t) \in 1 .. Len(taskport)
         /\ Of(taskport[FirstOf(t)], t)
         /\ \A j \in 1 .. Len(taskport) : Of(taskport[j], t) => FirstOf(t) <= j
<1> DEFINE I == {i \in 1 .. Len(taskport) : Of(taskport[i], t)}
<1>1. I # {} /\ I \in SUBSET Nat
  BY SMT DEF HasMsgOf
<1>2. FirstOf(t) = Min(I)
  BY <1>1 DEF FirstOf, SelectInSeq
<1> QED
  BY <1>1, <1>2, MinOfNaturals

\* HasMsgOf looks at the elements of the port only.
LEMMA HasMsgOfTask ==
  ASSUME NEW t, taskport \in Seq(AllMsgs)
  PROVE  HasMsgOf(t) <=> \E m \in ToSet(taskport) : Of(m, t)
  BY SMT DEF HasMsgOf, ToSet

-----------------------------------------------------------------------------
(* Types.                                                                  *)

\* Subtasks do not touch the stack of the main task or the flags.
LEMMA SubtasksKeep ==
  ASSUME NEW t \in Tasks, Process(t)
  PROVE  UNCHANGED <<stack, flags, target, calls, depth>>
  BY Zenon DEF Process, Wrapper, Subtask, SubtaskFails, Updated, SubtaskEnds,
     ReleaseRunsema, Gettaskmsg, Replytaskmsg, UpdateSync, UpdateAsync, Update,
     EntryEnds, object, calls, depth

\* A subtask keeps the types.
LEMMA TypeSubtasks ==
  ASSUME TypeOK, NEW t \in Tasks, Process(t)
  PROVE  TypeOK'
<1>1. UNCHANGED <<stack, flags, target>>
  BY SubtasksKeep
<1>2. <<t, "startup">> \in AllMsgs /\ <<t, "update">> \in AllMsgs
      /\ <<t, "last">> \in AllMsgs /\ Msgs \subseteq AllMsgs
  BY OwnFacts, SMT DEF OwnKinds, AllMsgs
<1>3. /\ NoMsg \in {NoMsg} \cup [kind : Kinds, task : Tasks]
      /\ \A k \in Kinds : [kind |-> k, task |-> t] \in [kind : Kinds, task : Tasks]
  BY SMT
<1> USE DEF TypeOK, object, process, ports, semas
<1>4. CASE \E upd \in BOOLEAN : Subtask(t, upd)
  BY <1>1, <1>2, <1>4, SMT DEF Subtask, Putmsg, States, Places
<1>5. CASE SubtaskFails(t)
  BY <1>1, <1>2, <1>5, SMT DEF SubtaskFails, Putmsg, States, Places
<1>6. CASE Updated(t)
  BY <1>1, <1>2, <1>3, <1>6, SMT DEF Updated, Places
<1>7. CASE SubtaskEnds(t)
  <2>1. subport[t] \in Seq(AllMsgs)
    BY <1>2, SMT
  <2>2. taskport \o subport[t] \in Seq(AllMsgs)
    BY <2>1, ConcatProperties
  <2> QED
    BY <1>1, <1>7, <2>2, SMT DEF SubtaskEnds, ReplyAll, States, Places
<1>8. CASE ReleaseRunsema(t)
  <2>1. semaport' \in Seq(Tasks) /\ semasignal' \in BOOLEAN
    <3>1. CASE Procured(t)
      <4>1. semaport' = Append(semaport, t) /\ semasignal' = TRUE
        BY <1>8, <3>1, Zenon DEF ReleaseRunsema
      <4> QED
        BY <4>1, SMT
    <3>2. CASE ~Procured(t)
      BY <1>8, <3>2, SMT DEF ReleaseRunsema
    <3> QED
      BY <3>1, <3>2
  <2> QED
    BY <1>1, <1>8, <2>1, SMT DEF ReleaseRunsema, Places
<1>9. CASE Gettaskmsg(t)
  <2>1. Head(subport[t]) \in Msgs /\ Tail(subport[t]) \in Seq(Msgs)
    BY <1>9, SMT DEF Gettaskmsg
  <2> QED
    BY <1>1, <1>9, <2>1, SMT DEF Gettaskmsg
<1>10. CASE Replytaskmsg(t)
  BY <1>1, <1>2, <1>10, SMT DEF Replytaskmsg, Putmsg, Holds
<1>11. CASE UpdateSync(t)
  <2>1. "update" \in Kinds
    BY DEF Kinds
  <2> QED
    BY <1>1, <1>2, <1>3, <1>11, <2>1, SMT
    DEF UpdateSync, Update, Putmsg, Places
<1>12. CASE \E m \in Msgs : UpdateAsync(m, t)
  <2>1. "async" \in Kinds
    BY DEF Kinds
  <2> QED
    BY <1>1, <1>2, <1>3, <1>12, <2>1, SMT DEF UpdateAsync, Update, Putmsg
<1>13. CASE EntryEnds(t)
  <2>1. "last" \in Kinds
    BY DEF Kinds
  <2>2. /\ msg' \in [AllMsgs -> {NoMsg} \cup [kind : Kinds, task : Tasks]]
        /\ taskport' \in Seq(AllMsgs) /\ signal' \in BOOLEAN
    <3>1. CASE updport[t]
      <4>1. /\ msg' = [msg EXCEPT ![<<t, "last">>] = [kind |-> "last", task |-> t]]
            /\ Putmsg(<<t, "last">>)
        BY <1>13, <3>1, Zenon DEF EntryEnds
      <4> QED
        BY <1>2, <1>3, <2>1, <4>1, SMT DEF Putmsg
    <3>2. CASE ~updport[t]
      BY <1>13, <3>2, SMT DEF EntryEnds
    <3> QED
      BY <3>1, <3>2
  <2> QED
    BY <1>1, <1>13, <2>2, SMT DEF EntryEnds, Places
<1> QED
  BY <1>4, <1>5, <1>6, <1>7, <1>8, <1>9, <1>10, <1>11, <1>12, <1>13, Zenon
  DEF Process, Wrapper

-----------------------------------------------------------------------------
(* The steps of the main task, by what they do to messages and calls.      *)

\* A call is made, from the event loop maybe after Processtask's own.
Adds(f) ==
  /\ depth' \in Nat /\ depth' > depth /\ calls'[depth'] = f
  /\ \A k \in 1 .. depth : calls'[k] = calls[k]
  /\ \A k \in depth + 1 .. depth' - 1 : k = 1 /\ calls'[k].at = "loop"
\* At most that of Processtask.
Grows ==
  /\ depth' \in Nat /\ depth' >= depth
  /\ \A k \in 1 .. depth : calls'[k] = calls[k]
  /\ \A k \in depth + 1 .. depth' : k = 1 /\ calls'[k].at = "loop"

Taken(m) == /\ taskport' \in Seq(AllMsgs)
            /\ ToSet(taskport') = ToSet(taskport) \ {m}
            /\ IsInjective(taskport')

\* Giveback and the end of Processreply.
Gives(m) ==
  \/ m = <<Sender(m), "update">> /\ UNCHANGED msg
     /\ replied' = [replied EXCEPT ![Sender(m)] = TRUE]
  \/ ~Is(m, {"update"}) /\ UNCHANGED replied
     /\ msg' = [msg EXCEPT ![m] = NoMsg]
Settles(t, fl) ==
  /\ "MUSTDISPOSE" \notin fl
  /\ flags' = [flags EXCEPT ![t] = fl]
  /\ UNCHANGED ctrlc
Disposes(t, fl) ==
  /\ "MUSTDISPOSE" \in fl
  /\ flags' = [flags EXCEPT ![t] = fl \ {"MUSTDISPOSE"}]
  /\ ctrlc' = Signalled(t)

NewHandler(m) == [at |-> "update", msg |-> m]

\* Processtask and the passes of the loops of Waitformsg and Stoptask.
Receives(m) ==
  /\ m \in ToSet(taskport) /\ Taken(m)
  /\ \/ depth = 0 /\ depth' > 0 /\ calls'[1] = [at |-> "loop"]
     \/ /\ depth > 0 /\ Waits(depth) /\ InUse(calls[depth].msg)
        /\ calls[depth].msg # m /\ Sender(calls[depth].msg) = Sender(m)
        /\ \A u \in Tasks : calls[depth].msg # <<u, "startup">>
     \/ depth > 0 /\ Stops(depth, Sender(m))
  /\ \/ /\ Is(m, Updates) /\ Adds(NewHandler(m))
        /\ flags' = [flags EXCEPT ![Sender(m)] = @ \cup {"PROCESSING"}]
        /\ UNCHANGED <<ctrlc, replied, msg>>
     \/ Gives(m) /\ Grows /\ Settles(Sender(m), flags[Sender(m)])
     \/ /\ Gives(m) /\ Adds(Stopping(Sender(m)))
        /\ Disposes(Sender(m), flags[Sender(m)])
  /\ UNCHANGED <<state, target, updport, sub, subport, hold, semas>>

\* Waitformsg gets its message.
Answered(m) ==
  /\ m \in ToSet(taskport) /\ Taken(m)
  /\ depth > 0 /\ Waits(depth) /\ calls[depth].msg = m
  /\ Gives(m)
  /\ \/ /\ m = <<Sender(m), "startup">> /\ Pops
        /\ flags' = [flags EXCEPT ![Sender(m)] = @ \cup {"STARTED"}]
        /\ UNCHANGED ctrlc
     \/ /\ \A u \in Tasks : m # <<u, "startup">>
        /\ \/ Pops /\ Settles(Sender(m), flags[Sender(m)])
           \/ /\ Swaps(Stopping(Sender(m)))
              /\ Disposes(Sender(m), flags[Sender(m)])
  /\ UNCHANGED <<state, target, updport, sub, subport, hold, semas>>

\* A handler returns.
Returned(m) ==
  /\ depth > 0 /\ Handles(depth) /\ calls[depth].msg = m
  /\ Gives(m)
  /\ \/ Pops /\ Settles(Sender(m), flags[Sender(m)] \ {"PROCESSING"})
     \/ /\ Swaps(Stopping(Sender(m)))
        /\ Disposes(Sender(m), flags[Sender(m)] \ {"PROCESSING"})
  /\ UNCHANGED <<state, target, updport, sub, subport, hold, ports, semas>>

\* A wait goes on in another place.
Waiting(f) ==
  /\ depth > 0 /\ Swaps(f)
  /\ \/ /\ Waits(depth) /\ f.at \in {"wait", "sleep"}
        /\ f.msg = calls[depth].msg /\ UNCHANGED semas
     \/ /\ Stops(depth, f.task) /\ f.at \in Stages /\ calls[depth].at # "last"
        /\ \/ calls[depth].at = "first" /\ f.at = "procured"
              /\ ~HasRunsema(f.task) /\ semaport' = Append(semaport, f.task)
           \/ calls[depth].at = "first" /\ f.at = "procured"
              /\ UNCHANGED semaport
           \/ calls[depth].at \in {"procured", "again"} /\ UNCHANGED semaport
              /\ f.at \in {"procured", "again"}
           \/ calls[depth].at = "procured" /\ semaport # << >>
              /\ semaport' = Tail(semaport)
              /\ IF Head(semaport) = f.task THEN f.at = "last"
                 ELSE f.at \in {"procured", "again"}
        /\ semasignal' \in BOOLEAN
  /\ UNCHANGED <<object, process, msg, taskport>>

-----------------------------------------------------------------------------
\* A message in use has a sender, and is given back to it.
LEMMA Returning ==
  ASSUME TypeOK, KindsAgree, NEW m \in AllMsgs, InUse(m)
  PROVE  /\ Sender(m) \in Tasks /\ msg[m].kind \in Kinds
         /\ Giveback(m) => Gives(m)
         /\ \A t \in Tasks : Of(m, t) => t = Sender(m)
<1>1. msg[m] \in [kind : Kinds, task : Tasks]
  BY SMT DEF TypeOK, InUse
<1>2. Sender(m) \in Tasks /\ msg[m].kind \in Kinds
  BY <1>1, SMT DEF Sender
<1>3. ASSUME Giveback(m), Is(m, {"update"}) PROVE Gives(m)
  <2>1. /\ replied' = [replied EXCEPT ![Sender(m)] = TRUE]
        /\ UNCHANGED msg
    BY <1>3, Zenon DEF Giveback
  <2>2. m \notin Msgs
    BY <1>3, SMT DEF KindsAgree, Is
  <2>3. PICK t \in Tasks, k \in OwnKinds : m = <<t, k>>
    BY <2>2, OwnFacts, Zenon
  <2>4. msg[m] = [kind |-> k, task |-> t]
    BY <2>3, Zenon DEF KindsAgree
  <2>5. k = "update" /\ Sender(m) = t
    BY <1>3, <2>4, SMT DEF Is, Sender
  <2> QED
    BY <2>1, <2>3, <2>5, Zenon DEF Gives
<1>4. ASSUME Giveback(m), ~Is(m, {"update"}) PROVE Gives(m)
  BY <1>4, Zenon DEF Giveback, Gives
<1> QED
  BY <1>2, <1>3, <1>4, Zenon DEF Of

\* The end of Processreply: the flags only, or the disposal put off.
LEMMA SettledAs ==
  ASSUME TypeOK, NEW t \in Tasks, NEW fl, NEW st, Replydone(t, fl, st)
  PROVE  \/ Settles(t, fl) /\ stack' = st
         \/ Disposes(t, fl) /\ stack' = Call(Stopping(t), st)
<1>1. CASE "MUSTDISPOSE" \in fl
  <2>1. /\ flags' = [flags EXCEPT ![t] = fl \ {"MUSTDISPOSE"}]
        /\ ctrlc' = Signalled(t)
        /\ stack' = Call(Stopping(t), st)
    BY <1>1, Zenon DEF Replydone
  <2> QED
    BY <1>1, <2>1, Zenon DEF Disposes
<1>2. CASE "MUSTDISPOSE" \notin fl
  BY <1>2, Zenon DEF Replydone, Settles
<1> QED
  BY <1>1, <1>2

\* Processreply: a handler is called, or the message is given back.
LEMMA ProcessedAs ==
  ASSUME TypeOK, KindsAgree, NEW m \in AllMsgs, InUse(m), NEW st,
         Processreply(m, st)
  PROVE  \/ /\ Is(m, Updates) /\ stack' = Call(NewHandler(m), st)
            /\ flags' = [flags EXCEPT ![Sender(m)] = @ \cup {"PROCESSING"}]
            /\ UNCHANGED <<ctrlc, replied, msg>>
         \/ /\ Gives(m) /\ stack' = st
            /\ Settles(Sender(m), flags[Sender(m)])
         \/ /\ Gives(m) /\ stack' = Call(Stopping(Sender(m)), st)
            /\ Disposes(Sender(m), flags[Sender(m)])
<1>1. CASE Is(m, Updates) /\ target[Sender(m)]
  BY <1>1, Zenon DEF Processreply, NewHandler
<1>2. CASE ~(Is(m, Updates) /\ target[Sender(m)])
  <2>1. Giveback(m) /\ Replydone(Sender(m), flags[Sender(m)], st)
    BY <1>2, Zenon DEF Processreply
  <2> QED
    BY <2>1, Returning, SettledAs, Zenon
<1> QED
  BY <1>1, <1>2

\* A call made on the stack there is.
LEMMA Added ==
  ASSUME stack \in Seq(Frames), NEW f \in Frames, stack' = Call(f, stack)
  PROVE  stack' \in Seq(Frames) /\ Adds(f)
<1>1. stack' \in Seq(Frames) /\ Pushes(f)
  BY Pushed
<1>2. depth \in Nat
  BY Levels
<1> QED
  BY <1>1, <1>2, SMT DEF Pushes, Adds

\* A call made by Processtask, with its own under it.
LEMMA LoopAdded ==
  ASSUME stack = << >>, NEW f \in Frames,
         stack' = Call(f, << [at |-> "loop"] >>)
  PROVE  /\ stack' \in Seq(Frames) /\ Adds(f)
         /\ depth' = 2 /\ calls'[1] = [at |-> "loop"]
<1> DEFINE s == << [at |-> "loop"] >>
<1>1. s \in Seq(Frames) /\ Len(s) = 1 /\ s[1] = [at |-> "loop"]
  BY FrameFields, SMT
<1> HIDE DEF s
<1>2. Reverse(s)[1] = [at |-> "loop"]
  <2>1. 1 \in 1 .. Len(s) /\ Len(s) + 1 - 1 = 1
    BY <1>1, SMT
  <2> QED
    BY <1>1, <2>1, ReverseElements
<1>3. /\ stack' \in Seq(Frames) /\ Len(stack') = 1 + 1
      /\ Reverse(stack')[1 + 1] = f
      /\ \A k \in 1 .. 1 : Reverse(stack')[k] = Reverse(s)[k]
  <2>1. stack' = Call(f, s)
    BY DEF s
  <2>2. /\ Call(f, s) \in Seq(Frames) /\ Len(Call(f, s)) = Len(s) + 1
        /\ Reverse(Call(f, s))[Len(s) + 1] = f
        /\ \A k \in 1 .. Len(s) : Reverse(Call(f, s))[k] = Reverse(s)[k]
    <3>1. s \in Seq(Frames) /\ f \in Frames
      BY <1>1
    <3> QED
      BY <3>1, ReverseCall
  <2> DEFINE r == Call(f, s)
  <2> HIDE DEF r
  <2>3. r \in Seq(Frames) /\ Len(r) = 1 + 1 /\ Reverse(r)[1 + 1] = f
        /\ \A k \in 1 .. 1 : Reverse(r)[k] = Reverse(s)[k]
    BY <1>1, <2>2 DEF r
  <2>4. stack' = r
    BY <2>1 DEF r
  <2> QED
    BY <2>3, <2>4
<1>4. depth = 0 /\ depth' = 2 /\ calls'[2] = f /\ calls'[1] = [at |-> "loop"]
  BY <1>2, <1>3, SMT DEF depth, calls
<1>5. Adds(f)
  BY <1>4, SMT DEF Adds
<1> QED
  BY <1>3, <1>4, <1>5

\* Processtask's own call.
LEMMA LoopGrown ==
  ASSUME stack = << >>, stack' = << [at |-> "loop"] >>
  PROVE  /\ stack' \in Seq(Frames) /\ Grows
         /\ depth' = 1 /\ calls'[1] = [at |-> "loop"]
<1> DEFINE s == << [at |-> "loop"] >>
<1>1. s \in Seq(Frames) /\ Len(s) = 1 /\ s[1] = [at |-> "loop"]
  BY FrameFields, SMT
<1> HIDE DEF s
<1>2. Reverse(s)[1] = [at |-> "loop"]
  <2>1. 1 \in 1 .. Len(s) /\ Len(s) + 1 - 1 = 1
    BY <1>1, SMT
  <2> QED
    BY <1>1, <2>1, ReverseElements
<1>3. depth = 0 /\ depth' = 1 /\ calls'[1] = [at |-> "loop"]
  <2>1. stack' = s
    BY DEF s
  <2> QED
    BY <1>1, <1>2, <2>1, SMT DEF depth, calls
<1>4. stack' \in Seq(Frames)
  BY <1>1 DEF s
<1>5. Grows
  BY <1>3, SMT DEF Grows
<1> QED
  BY <1>3, <1>4, <1>5

\* FirstOf takes one message of the task from the port and no other.
LEMMA TakenFirst ==
  ASSUME TypeOK, OneAt, NEW t, HasMsgOf(t),
         taskport' = RemoveAt(taskport, FirstOf(t))
  PROVE  /\ taskport[FirstOf(t)] \in ToSet(taskport)
         /\ taskport[FirstOf(t)] \in AllMsgs
         /\ Taken(taskport[FirstOf(t)])
         /\ InUse(taskport[FirstOf(t)]) /\ Sender(taskport[FirstOf(t)]) = t
<1>1. taskport \in Seq(AllMsgs) /\ IsInjective(taskport)
  BY DEF TypeOK, OneAt
<1>2. FirstOf(t) \in 1 .. Len(taskport) /\ Of(taskport[FirstOf(t)], t)
  BY <1>1, FirstOfTask
<1>3. taskport[FirstOf(t)] \in AllMsgs
  BY <1>1, <1>2, SMT
<1>4. taskport[FirstOf(t)] \in ToSet(taskport)
  BY <1>1, <1>2, InToSet
<1>5. Taken(taskport[FirstOf(t)])
  BY <1>1, <1>2, RemoveAtSet DEF Taken
<1> QED
  BY <1>2, <1>3, <1>4, <1>5 DEF Of, InUse

\* What is at the port is in use.
LEMMA PortInUse ==
  ASSUME TypeOK, OneAt, NEW m \in ToSet(taskport)
  PROVE  m \in AllMsgs /\ InUse(m)
<1>1. m \in AllMsgs
  BY SMT DEF TypeOK, ToSet
<1>2. "port" \in PlaceKinds /\ 0 \in Spots /\ At(m, "port", 0)
  BY SMT DEF PlaceKinds, Spots, At
<1> QED
  BY <1>1, <1>2, Zenon DEF OneAt

\* And so is what a handler handles.
LEMMA HandlerInUse ==
  ASSUME TypeOK, OneAt, NEW k \in 1 .. depth, Handles(k)
  PROVE  calls[k].msg \in AllMsgs /\ InUse(calls[k].msg)
<1>1. calls[k] \in Frames
  BY Levels DEF TypeOK
<1>2. calls[k].msg \in AllMsgs
  BY <1>1, FrameFields, SMT DEF Handles
<1>3. k \in Spots
  BY Levels, SMT DEF TypeOK, Spots
<1>4. "handler" \in PlaceKinds /\ At(calls[k].msg, "handler", k)
  BY Zenon DEF PlaceKinds, At
<1> QED
  BY <1>2, <1>3, <1>4, Zenon DEF OneAt

\* A wait's pass over a message of its task.
LEMMA TakesAndProcesses ==
  ASSUME TypeOK, OneAt, KindsAgree, NEW t, HasMsgOf(t),
         TakeAndProcess(t, stack),
         \/ /\ depth > 0 /\ Waits(depth) /\ InUse(calls[depth].msg)
            /\ ~IsAwaited(taskport[FirstOf(t)]) /\ Top = calls[depth]
            /\ Sender(calls[depth].msg) = t
            /\ \A u \in Tasks : calls[depth].msg # <<u, "startup">>
         \/ depth > 0 /\ Stops(depth, t)
  PROVE  stack' \in Seq(Frames) /\ \E m \in AllMsgs : Receives(m) /\ Sender(m) = t
<1> DEFINE m == taskport[FirstOf(t)]
<1>1. /\ taskport' = RemoveAt(taskport, FirstOf(t))
      /\ Processreply(m, stack)
      /\ UNCHANGED <<state, target, updport, sub, subport, hold, semas>>
  BY Zenon DEF TakeAndProcess, semas
<1>2. /\ m \in ToSet(taskport) /\ m \in AllMsgs /\ Taken(m) /\ InUse(m)
      /\ Sender(m) = t
  BY <1>1, TakenFirst, Zenon
<1>8. \/ /\ depth > 0 /\ Waits(depth) /\ InUse(calls[depth].msg)
         /\ calls[depth].msg # m /\ Sender(calls[depth].msg) = Sender(m)
         /\ \A u \in Tasks : calls[depth].msg # <<u, "startup">>
      \/ depth > 0 /\ Stops(depth, Sender(m))
  BY <1>2 DEF IsAwaited
<1> HIDE DEF m
<1>3. /\ stack \in Seq(Frames) /\ Sender(m) \in Tasks
      /\ NewHandler(m) \in Frames /\ Stopping(Sender(m)) \in Frames
  <2>1. stack \in Seq(Frames)
    BY DEF TypeOK
  <2>2. Sender(m) \in Tasks
    BY <1>2, Returning
  <2> QED
    BY <1>2, <2>1, <2>2, FrameFields DEF NewHandler, Stopping, Stages
<1>4. stack' = stack => Grows
  BY <1>3, Levels, SMT DEF Grows, calls, depth
<1>5. CASE /\ Is(m, Updates) /\ stack' = Call(NewHandler(m), stack)
            /\ flags' = [flags EXCEPT ![Sender(m)] = @ \cup {"PROCESSING"}]
            /\ UNCHANGED <<ctrlc, replied, msg>>
  <2>1. Adds(NewHandler(m)) /\ stack' \in Seq(Frames)
    BY <1>3, <1>5, Added
  <2> QED
    BY <1>8, <1>1, <1>2, <1>5, <2>1, Zenon DEF Receives
<1>6. CASE /\ Gives(m) /\ stack' = stack
            /\ Settles(Sender(m), flags[Sender(m)])
  BY <1>8, <1>1, <1>2, <1>3, <1>4, <1>6, Zenon DEF Receives
<1>7. CASE /\ Gives(m) /\ stack' = Call(Stopping(Sender(m)), stack)
            /\ Disposes(Sender(m), flags[Sender(m)])
  <2>1. Adds(Stopping(Sender(m))) /\ stack' \in Seq(Frames)
    BY <1>3, <1>7, Added
  <2> QED
    BY <1>8, <1>1, <1>2, <1>7, <2>1, Zenon DEF Receives
<1> QED
  BY <1>1, <1>2, <1>5, <1>6, <1>7, ProcessedAs

\* What a task's own messages are.
LEMMA OwnMessages ==
  ASSUME KindsAgree, NEW t \in Tasks, NEW k \in OwnKinds, InUse(<<t, k>>)
  PROVE  Sender(<<t, k>>) = t /\ msg[<<t, k>>].kind = k /\ Of(<<t, k>>, t)
<1>1. msg[<<t, k>>] = [kind |-> k, task |-> t]
  BY Zenon DEF KindsAgree
<1> QED
  BY <1>1, SMT DEF Sender, Of, InUse

\* What a message is tells which structure it is.
LEMMA MessageKinds ==
  ASSUME TypeOK, KindsAgree, NEW m \in AllMsgs, InUse(m)
  PROVE  /\ Is(m, {"async", "send", "set"}) => m \in Msgs
         /\ m \in Msgs => Is(m, {"async", "send", "set"})
         /\ \A k \in OwnKinds : Is(m, {k}) <=> m = <<Sender(m), k>>
<1>1. CASE m \in Msgs
  <2>1. Is(m, {"async", "send", "set"})
    BY <1>1, Zenon DEF KindsAgree, Is
  <2>2. ASSUME NEW k \in OwnKinds PROVE ~Is(m, {k})
    BY <2>1, SMT DEF Is, OwnKinds
  <2>3. ASSUME NEW k \in OwnKinds, m = <<Sender(m), k>> PROVE FALSE
    BY <1>1, <2>3, OwnFacts, Returning
  <2> QED
    BY <1>1, <2>1, <2>2, <2>3
<1>2. CASE m \notin Msgs
  <2>1. PICK t \in Tasks, j \in OwnKinds : m = <<t, j>>
    BY <1>2, OwnFacts, Zenon
  <2>2. Sender(m) = t /\ msg[m].kind = j
    BY <2>1, OwnMessages
  <2> QED
    BY <1>2, <2>1, <2>2, SMT DEF Is, OwnKinds
<1> QED
  BY <1>1, <1>2

\* The state of the object by where the process is.
LEMMA StateBySub ==
  ASSUME TypeOK, StatesAgree, NEW t \in Tasks
  PROVE  /\ sub[t] = "created" => state[t] = "NEW"
         /\ sub[t] \in {"run", "update", "last"} => state[t] = "RUN"
         /\ sub[t] \in {"ending", "failed"} => state[t] = "DEAD"
         /\ state[t] \in States /\ sub[t] \in Places
<1>1. state[t] \in States /\ sub[t] \in Places
  BY SMT DEF TypeOK
<1>2. /\ state[t] = "FREE" => sub[t] = "none"
      /\ state[t] = "NEW" => sub[t] \in {"none", "created"}
      /\ state[t] = "RUN" => sub[t] \in {"run", "update", "last"}
      /\ state[t] = "DEAD" => sub[t] \in {"none", "ending", "failed"}
  BY Zenon DEF StatesAgree
<1> QED
  BY <1>1, <1>2, SMT DEF States

\* Processtask receives the first message of the port.
LEMMA ProcesstaskReceives ==
  ASSUME IInv, Processtask, taskport # << >>
  PROVE  /\ stack' \in Seq(Frames) /\ \E m \in AllMsgs : Receives(m)
         /\ depth' > 0 /\ calls'[1] = [at |-> "loop"]
<1> DEFINE m == Head(taskport)
<1> USE DEF IInv
<1>1. stack = << >> /\ taskport' = Tail(taskport)
      /\ Processreply(m, << [at |-> "loop"] >>)
      /\ UNCHANGED <<state, target, updport, sub, subport, hold, semas>>
  BY Zenon DEF Processtask, semas
<1>2. m \in ToSet(taskport) /\ Taken(m)
  <2>1. taskport \in Seq(AllMsgs) /\ IsInjective(taskport)
    BY DEF TypeOK, OneAt
  <2> QED
    BY <1>1, <2>1, TailSet DEF Taken
<1>3. m \in AllMsgs /\ InUse(m)
  BY <1>2, PortInUse
<1> HIDE DEF m
<1>4. depth = 0
  BY <1>1, Levels DEF TypeOK
<1>5. /\ NewHandler(m) \in Frames /\ Stopping(Sender(m)) \in Frames
  <2>1. Sender(m) \in Tasks
    BY <1>3, Returning
  <2> QED
    BY <1>3, <2>1, FrameFields DEF NewHandler, Stopping, Stages
<1> DEFINE st == << [at |-> "loop"] >>
<1> HIDE DEF st
<1>6. \/ /\ Is(m, Updates) /\ stack' = Call(NewHandler(m), st)
         /\ flags' = [flags EXCEPT ![Sender(m)] = @ \cup {"PROCESSING"}]
         /\ UNCHANGED <<ctrlc, replied, msg>>
      \/ /\ Gives(m) /\ stack' = st
         /\ Settles(Sender(m), flags[Sender(m)])
      \/ /\ Gives(m) /\ stack' = Call(Stopping(Sender(m)), st)
         /\ Disposes(Sender(m), flags[Sender(m)])
  BY <1>1, <1>3, ProcessedAs DEF st
<1>7. CASE /\ Is(m, Updates) /\ stack' = Call(NewHandler(m), st)
            /\ flags' = [flags EXCEPT ![Sender(m)] = @ \cup {"PROCESSING"}]
            /\ UNCHANGED <<ctrlc, replied, msg>>
  <2>1. /\ Adds(NewHandler(m)) /\ stack' \in Seq(Frames)
        /\ depth' = 2 /\ calls'[1] = [at |-> "loop"]
    BY <1>1, <1>5, <1>7, LoopAdded DEF st
  <2>2. depth' > 0
    BY <2>1, SMT
  <2> QED
    BY <1>1, <1>2, <1>3, <1>4, <1>7, <2>1, <2>2, Zenon DEF Receives
<1>8. CASE /\ Gives(m) /\ stack' = st
            /\ Settles(Sender(m), flags[Sender(m)])
  <2>1. /\ Grows /\ stack' \in Seq(Frames)
        /\ depth' = 1 /\ calls'[1] = [at |-> "loop"]
    BY <1>1, <1>8, LoopGrown DEF st
  <2>2. depth' > 0
    BY <2>1, SMT
  <2> QED
    BY <1>1, <1>2, <1>3, <1>4, <1>8, <2>1, <2>2, Zenon DEF Receives
<1>9. CASE /\ Gives(m) /\ stack' = Call(Stopping(Sender(m)), st)
            /\ Disposes(Sender(m), flags[Sender(m)])
  <2>1. /\ Adds(Stopping(Sender(m))) /\ stack' \in Seq(Frames)
        /\ depth' = 2 /\ calls'[1] = [at |-> "loop"]
    BY <1>1, <1>5, <1>9, LoopAdded DEF st
  <2>2. depth' > 0
    BY <2>1, SMT
  <2> QED
    BY <1>1, <1>2, <1>3, <1>4, <1>9, <2>1, <2>2, Zenon DEF Receives
<1> QED
  BY <1>6, <1>7, <1>8, <1>9

\* While a subtask starts, the first message of its that comes is the startup
\* message.
LEMMA StartupAwaited ==
  ASSUME IInv, NEW u \in Tasks, InUse(<<u, "startup">>), HasMsgOf(u)
  PROVE  /\ taskport[FirstOf(u)] = <<u, "startup">>
         /\ depth > 0 /\ calls[depth].msg = <<u, "startup">>
<1> USE DEF IInv
<1>1. taskport \in Seq(AllMsgs)
  BY DEF TypeOK
<1>2. sub[u] # "created"
  <2> SUFFICES ASSUME sub[u] = "created" PROVE FALSE
    OBVIOUS
  <2>1. state[u] = "NEW"
    BY StateBySub
  <2>2. \A m \in ToSet(taskport) : ~Of(m, u)
    BY <2>1, Zenon DEF OwnAgree
  <2> QED
    BY <1>1, <2>2, HasMsgOfTask
<1>3. PICK i \in 1 .. Len(taskport) :
         /\ taskport[i] = <<u, "startup">>
         /\ \A j \in 1 .. i - 1 : ~Of(taskport[j], u)
  BY <1>2, Zenon DEF StartupFirst, FirstAtPort
<1>4. Of(<<u, "startup">>, u)
  BY OwnMessages DEF OwnKinds
<1>5. /\ FirstOf(u) \in 1 .. Len(taskport) /\ FirstOf(u) <= i
      /\ Of(taskport[FirstOf(u)], u)
  BY <1>1, <1>3, <1>4, FirstOfTask
<1>6. FirstOf(u) = i
  BY <1>3, <1>5, SMT
<1> QED
  BY <1>3, <1>6, Zenon DEF StartupFirst

\* Waitformsg receives another message of its task.
LEMMA OtherReceives ==
  ASSUME IInv, WaitformsgOther
  PROVE  stack' \in Seq(Frames) /\ \E m \in AllMsgs : Receives(m)
<1> USE DEF IInv
<1> DEFINE t == Sender(Top.msg)
<1>1. /\ stack # << >> /\ Top.at = "wait" /\ msg[Top.msg].kind \in Kinds
      /\ HasMsgOf(t) /\ ~IsAwaited(taskport[FirstOf(t)])
      /\ TakeAndProcess(t, stack)
  BY Zenon DEF WaitformsgOther, In, Is
<1>2. depth > 0 /\ Top = calls[depth] /\ depth \in 1 .. depth
  BY <1>1, Levels DEF TypeOK
<1>3. Waits(depth) /\ InUse(calls[depth].msg)
  BY <1>1, <1>2, SMT DEF Waits, InUse, NoMsg, Kinds
<1>4. ASSUME NEW u \in Tasks, calls[depth].msg = <<u, "startup">> PROVE FALSE
  <2>1. InUse(<<u, "startup">>)
    BY <1>3, <1>4
  <2>2. t = u
    BY <1>2, <1>4, <2>1, OwnMessages DEF OwnKinds
  <2> QED
    BY <1>1, <1>2, <1>4, <2>1, <2>2, StartupAwaited, Zenon DEF IsAwaited
<1>5. Sender(calls[depth].msg) = t
  BY <1>2
<1> HIDE DEF t
<1> QED
  BY <1>1, <1>2, <1>3, <1>4, <1>5, TakesAndProcesses

\* Processtaskreply receives a message of the task that is stopped.
LEMMA ReplyReceives ==
  ASSUME IInv, Processtaskreply
  PROVE  stack' \in Seq(Frames) /\ \E m \in AllMsgs : Receives(m)
<1> USE DEF IInv
<1>1. /\ stack # << >> /\ Top.at \in {"first", "again", "last"}
      /\ HasMsgOf(Top.task) /\ TakeAndProcess(Top.task, stack)
  BY Zenon DEF Processtaskreply, In
<1>2. depth > 0 /\ Top = calls[depth]
  BY <1>1, Levels DEF TypeOK
<1>3. Stops(depth, Top.task)
  BY <1>1, <1>2, SMT DEF Stops, Stages
<1> QED
  BY <1>1, <1>2, <1>3, TakesAndProcesses

\* Waitformsg is answered.
LEMMA DoneAnswers ==
  ASSUME IInv, WaitformsgDone
  PROVE  /\ stack' \in Seq(Frames) /\ signal' = TRUE
         /\ \E m \in AllMsgs : Answered(m)
<1> USE DEF IInv
<1> DEFINE m == Top.msg
           t == Sender(m)
           fl == flags[t] \cup (IF Is(m, {"startup"}) THEN {"STARTED"} ELSE {})
<1>1. /\ stack # << >> /\ Top.at = "wait"
      /\ HasMsgOf(t) /\ taskport[FirstOf(t)] = m
      /\ taskport' = RemoveAt(taskport, FirstOf(t))
      /\ Giveback(m)
      /\ IF Is(m, {"startup"})
           THEN /\ flags' = [flags EXCEPT ![t] = fl]
                /\ stack' = Tail(stack)
                /\ UNCHANGED ctrlc
           ELSE Replydone(t, fl, Tail(stack))
      /\ signal' = TRUE
      /\ UNCHANGED <<state, target, updport, sub, subport, hold, semas>>
  BY Zenon DEF WaitformsgDone, In, IsAwaited, Setportsignal
<1>2. /\ m \in ToSet(taskport) /\ m \in AllMsgs /\ Taken(m) /\ InUse(m)
  BY <1>1, TakenFirst, Zenon
<1>3. depth > 0 /\ Top = calls[depth] /\ stack \in Seq(Frames)
  BY <1>1, Levels DEF TypeOK
<1>4. Waits(depth) /\ calls[depth].msg = m
  BY <1>1, <1>3, SMT DEF Waits
<1>5. t \in Tasks /\ Gives(m) /\ msg[m].kind \in Kinds
  BY <1>1, <1>2, Returning
<1>6. Stopping(t) \in Frames
  BY <1>5, FrameFields DEF Stopping, Stages
<1> HIDE DEF m, t
<1>7. CASE Is(m, {"startup"})
  <2>1. /\ flags' = [flags EXCEPT ![t] = flags[t] \cup {"STARTED"}]
        /\ stack' = Tail(stack) /\ UNCHANGED ctrlc
    BY <1>1, <1>7, Zenon
  <2>2. stack' \in Seq(Frames) /\ Pops
    BY <1>1, <1>3, <2>1, Popped
  <2>3. m = <<t, "startup">>
    <3>1. m \notin Msgs
      BY <1>2, <1>7, SMT DEF KindsAgree, Is
    <3>2. PICK u \in Tasks, k \in OwnKinds : m = <<u, k>>
      BY <1>2, <3>1, OwnFacts, Zenon
    <3>3. msg[m] = [kind |-> k, task |-> u]
      BY <1>2, <3>2, Zenon DEF KindsAgree
    <3> QED
      BY <1>7, <3>2, <3>3, SMT DEF Is, Sender, t
  <2>4. Answered(m)
    BY <1>1, <1>2, <1>3, <1>4, <1>5, <2>1, <2>2, <2>3, Zenon DEF Answered, t
  <2> QED
    BY <1>1, <1>2, <2>2, <2>4, Zenon
<1>8. CASE ~Is(m, {"startup"})
  <2>1. Replydone(t, flags[t], Tail(stack))
    <3>1. Replydone(t, flags[t] \cup {}, Tail(stack))
      BY <1>1, <1>8, Zenon
    <3>2. flags[t] \cup {} = flags[t]
      BY SMT
    <3> QED
      BY <3>1, <3>2, Zenon
  <2>2. ASSUME NEW u \in Tasks, m = <<u, "startup">> PROVE FALSE
    BY <1>2, <1>8, <2>2, OwnMessages DEF Is, OwnKinds
  <2>3. CASE Settles(t, flags[t]) /\ stack' = Tail(stack)
    <3>1. stack' \in Seq(Frames) /\ Pops
      BY <1>1, <1>3, <2>3, Popped
    <3>2. Answered(m)
      BY <1>1, <1>2, <1>3, <1>4, <1>5, <2>2, <2>3, <3>1, Zenon DEF Answered, t
    <3> QED
      BY <1>1, <1>2, <3>1, <3>2, Zenon
  <2>4. CASE Disposes(t, flags[t]) /\ stack' = Call(Stopping(t), Tail(stack))
    <3>1. stack' \in Seq(Frames) /\ Swaps(Stopping(t))
      BY <1>1, <1>3, <1>6, <2>4, Swapped
    <3>2. Answered(m)
      BY <1>1, <1>2, <1>3, <1>4, <1>5, <2>2, <2>4, <3>1, Zenon DEF Answered, t
    <3> QED
      BY <1>1, <1>2, <3>1, <3>2, Zenon
  <2> QED
    BY <1>5, <2>1, <2>3, <2>4, SettledAs
<1> QED
  BY <1>7, <1>8

\* A handler returns and its message is given back.
LEMMA HandlerReturned ==
  ASSUME IInv, HandlerReturns
  PROVE  stack' \in Seq(Frames) /\ \E m \in AllMsgs : Returned(m)
<1> USE DEF IInv
<1> DEFINE m == Top.msg
           t == Sender(m)
           fl == flags[t] \ {"PROCESSING"}
<1>1. /\ stack # << >> /\ Top.at = "update"
      /\ Giveback(m) /\ Replydone(t, fl, Tail(stack))
      /\ UNCHANGED <<state, target, updport, sub, subport, hold, ports, semas>>
  BY SMT DEF HandlerReturns, InHandler, In
<1>2. depth > 0 /\ Top = calls[depth] /\ stack \in Seq(Frames)
      /\ depth \in 1 .. depth
  BY <1>1, Levels DEF TypeOK
<1>3. Handles(depth) /\ calls[depth].msg = m
  BY <1>1, <1>2 DEF Handles
<1>4. m \in AllMsgs /\ InUse(m)
  BY <1>2, <1>3, HandlerInUse
<1>5. t \in Tasks /\ Gives(m)
  BY <1>1, <1>4, Returning
<1>6. Stopping(t) \in Frames
  BY <1>5, FrameFields DEF Stopping, Stages
<1> HIDE DEF m, t
<1>7. CASE Settles(t, fl) /\ stack' = Tail(stack)
  <2>1. stack' \in Seq(Frames) /\ Pops
    BY <1>1, <1>2, <1>7, Popped
  <2> QED
    BY <1>1, <1>2, <1>3, <1>4, <1>5, <1>7, <2>1, Zenon DEF Returned, t
<1>8. CASE Disposes(t, fl) /\ stack' = Call(Stopping(t), Tail(stack))
  <2>1. stack' \in Seq(Frames) /\ Swaps(Stopping(t))
    BY <1>1, <1>2, <1>6, <1>8, Swapped
  <2> QED
    BY <1>1, <1>2, <1>3, <1>4, <1>5, <1>8, <2>1, Zenon DEF Returned, t
<1> QED
  BY <1>1, <1>5, <1>7, <1>8, SettledAs

\* The places a wait goes through.
LEMMA GoesOn ==
  ASSUME TypeOK,
         WaitformsgSleep \/ WaitformsgWake \/ Procure \/ StoptaskWake \/ StoptaskAgain
  PROVE  stack' \in Seq(Frames) /\ \E f \in Frames : Waiting(f)
<1>1. /\ stack # << >> /\ depth > 0 /\ Top = calls[depth] /\ Top \in Frames
      /\ stack \in Seq(Frames)
  <2>1. stack # << >>
    BY Zenon DEF WaitformsgSleep, WaitformsgWake, Procure, StoptaskWake,
                 StoptaskAgain, In, Drained
  <2>2. stack \in Seq(Frames)
    BY DEF TypeOK
  <2> QED
    BY <2>1, <2>2, Levels
<1>2. ASSUME NEW a \in {"wait", "sleep"}, Waits(depth),
             stack' = Call([Top EXCEPT !.at = a], Tail(stack)),
             UNCHANGED <<object, process, msg, taskport, semas>>
      PROVE  stack' \in Seq(Frames) /\ \E f \in Frames : Waiting(f)
  <2> DEFINE f == [at |-> a, msg |-> Top.msg]
  <2>1. f \in Frames /\ [Top EXCEPT !.at = a] = f
    BY <1>1, <1>2, FrameFields, FrameChanges DEF Waits
  <2>2. f.at = a /\ f.msg = calls[depth].msg
    BY <1>1
  <2> HIDE DEF f
  <2>3. stack' \in Seq(Frames) /\ Swaps(f)
    BY <1>1, <1>2, <2>1, Swapped
  <2> QED
    BY <1>1, <1>2, <2>1, <2>2, <2>3, Zenon DEF Waiting
<1>3. ASSUME NEW a \in Stages, Top.at \in Stages,
             stack' = Call([Top EXCEPT !.at = a], Tail(stack))
      PROVE  /\ stack' \in Seq(Frames)
             /\ \E f \in Frames : /\ f.at = a /\ f.task = Top.task
                                  /\ Stops(depth, f.task) /\ Swaps(f)
  <2> DEFINE f == [at |-> a, task |-> Top.task]
  <2>1. f \in Frames /\ [Top EXCEPT !.at = a] = f
    BY <1>1, <1>3, FrameFields, FrameChanges
  <2>2. f.at = a /\ f.task = Top.task
    BY <1>1
  <2> HIDE DEF f
  <2>3. stack' \in Seq(Frames) /\ Swaps(f)
    BY <1>1, <1>3, <2>1, Swapped
  <2> QED
    BY <1>1, <1>3, <2>1, <2>2, <2>3 DEF Stops
<1>4. CASE WaitformsgSleep
  <2>1. /\ Top.at = "wait" /\ stack' = Call([Top EXCEPT !.at = "sleep"], Tail(stack))
        /\ UNCHANGED <<object, process, msg, taskport, semas>>
    BY <1>4, SMT DEF WaitformsgSleep, In, ports
  <2>2. Waits(depth)
    BY <1>1, <2>1 DEF Waits
  <2> QED
    BY <1>2, <2>1, <2>2
<1>5. CASE WaitformsgWake
  <2>1. /\ Top.at = "sleep" /\ stack' = Call([Top EXCEPT !.at = "wait"], Tail(stack))
        /\ UNCHANGED <<object, process, msg, taskport, semas>>
    BY <1>5, SMT DEF WaitformsgWake, In
  <2>2. Waits(depth)
    BY <1>1, <2>1 DEF Waits
  <2> QED
    BY <1>2, <2>1, <2>2
<1>6. CASE Procure
  <2>1. /\ Top.at = "first" /\ UNCHANGED <<object, process, msg, taskport>>
        /\ stack' = Call([Top EXCEPT !.at = "procured"], Tail(stack))
    BY <1>6, SMT DEF Procure, Drained, In, ports
  <2>2. PICK f \in Frames : /\ f.at = "procured" /\ f.task = Top.task
                            /\ Stops(depth, f.task) /\ Swaps(f)
    BY <1>3, <2>1 DEF Stages
  <2>3. \/ ~HasRunsema(f.task) /\ semaport' = Append(semaport, f.task)
           /\ semasignal' \in BOOLEAN
        \/ UNCHANGED semaport /\ semasignal' \in BOOLEAN
    <3>1. CASE HasRunsema(Top.task)
      BY <1>6, <3>1, Zenon DEF Procure, semas, TypeOK
    <3>2. CASE ~HasRunsema(Top.task)
      BY <1>6, <2>2, <3>2, Zenon DEF Procure
    <3> QED
      BY <3>1, <3>2
  <2> QED
    BY <1>1, <1>3, <2>1, <2>2, <2>3 DEF Waiting, Stages
<1>7. CASE StoptaskAgain
  <2>1. /\ Top.at = "again" /\ UNCHANGED <<object, process, msg, taskport, semas>>
        /\ stack' = Call([Top EXCEPT !.at = "procured"], Tail(stack))
    BY <1>7, SMT DEF StoptaskAgain, Drained, In, ports
  <2>2. PICK f \in Frames : /\ f.at = "procured" /\ f.task = Top.task
                            /\ Stops(depth, f.task) /\ Swaps(f)
    BY <1>3, <2>1 DEF Stages
  <2> QED
    BY <1>1, <1>3, <2>1, <2>2 DEF Waiting, Stages, semas, TypeOK
<1>8. CASE StoptaskWake
  <2> DEFINE ended == semasignal /\ semaport # << >> /\ Head(semaport) = Top.task
             a == IF ended THEN "last" ELSE IF signal THEN "again" ELSE "procured"
  <2>1. /\ Top.at = "procured" /\ UNCHANGED <<object, process, msg, taskport>>
        /\ stack' = Call([Top EXCEPT !.at = a], Tail(stack))
        /\ semaport' = IF semasignal /\ semaport # << >>
                       THEN Tail(semaport) ELSE semaport
        /\ semasignal' = FALSE
    BY <1>8, SMT DEF StoptaskWake, SemaToo, In
  <2>2. a \in Stages
    BY DEF Stages
  <2>3. PICK f \in Frames : /\ f.at = a /\ f.task = Top.task
                            /\ Stops(depth, f.task) /\ Swaps(f)
    BY <1>3, <2>1, <2>2 DEF Stages
  <2>4. stack' \in Seq(Frames)
    BY <1>3, <2>1, <2>2 DEF Stages
  <2>5. CASE semasignal /\ semaport # << >>
    <3>1. semaport' = Tail(semaport)
      BY <2>1, <2>5, Zenon
    <3>2. IF Head(semaport) = f.task THEN f.at = "last"
          ELSE f.at \in {"procured", "again"}
      BY <2>3, <2>5
    <3> QED
      BY <1>1, <2>1, <2>3, <2>4, <2>5, <3>1, <3>2 DEF Waiting, Stages
  <2>6. CASE ~(semasignal /\ semaport # << >>)
    <3>1. semaport' = semaport
      BY <2>1, <2>6, Zenon
    <3>2. f.at \in {"procured", "again"}
      BY <2>3, <2>6
    <3> QED
      BY <1>1, <2>1, <2>3, <2>4, <3>1, <3>2 DEF Waiting, Stages
  <2> QED
    BY <2>5, <2>6
<1> QED
  BY <1>4, <1>5, <1>6, <1>7, <1>8

\* The other two: the event loop's own call, and the end of a disposal.
Looping == /\ \/ depth = 0 /\ Grows
              \/ depth > 0 /\ calls[depth].at = "loop" /\ Pops
           /\ UNCHANGED <<object, process, msg, taskport, semas>>
Freed(t) ==
  /\ depth > 0 /\ Stops(depth, t) /\ calls[depth].at = "last" /\ ~HasMsgOf(t)
  /\ state' = [state EXCEPT ![t] = "FREE"]
  /\ flags' = [flags EXCEPT ![t] = {}]
  /\ target' \in [Tasks -> BOOLEAN]
  /\ ctrlc' = [ctrlc EXCEPT ![t] = FALSE]
  /\ updport' \in [Tasks -> BOOLEAN]
  /\ Pops
  /\ UNCHANGED <<sub, subport, hold, replied, msg, taskport, semas>>

\* Every step of the main task is of one of these forms.
LEMMA MainSteps ==
  ASSUME IInv, Main \/ HandlerReturns
  PROVE  /\ stack' \in Seq(Frames)
         /\ \/ \E m \in AllMsgs : Receives(m) \/ Answered(m) \/ Returned(m)
            \/ \E f \in Frames : Waiting(f)
            \/ Looping
            \/ \E t \in Tasks : Freed(t)
<1> USE DEF IInv
<1>1. CASE Processtask
  <2>1. CASE taskport = << >>
    <3>1. /\ stack = << >> /\ stack' = << [at |-> "loop"] >>
          /\ UNCHANGED <<object, process, msg, taskport, semas>>
      BY <1>1, <2>1, SMT DEF Processtask, object, process
    <3>2. depth = 0
      BY <3>1, Levels DEF TypeOK
    <3> QED
      BY <3>1, <3>2, LoopGrown DEF Looping
  <2>2. CASE taskport # << >>
    BY <1>1, <2>2, ProcesstaskReceives
  <2> QED
    BY <2>1, <2>2
<1>2. CASE Resignal
  <2>1. /\ stack # << >> /\ Top.at = "loop" /\ stack' = Tail(stack)
        /\ UNCHANGED <<object, process, msg, taskport, semas>>
    BY <1>2 DEF Resignal, In
  <2>2. depth > 0 /\ Top = calls[depth] /\ stack \in Seq(Frames)
    BY <2>1, Levels DEF TypeOK
  <2> QED
    BY <2>1, <2>2, Popped DEF Looping
<1>3. CASE Freetask
  <2>1. /\ stack # << >> /\ Top.at = "last" /\ ~HasMsgOf(Top.task)
        /\ stack' = Tail(stack)
    BY <1>3 DEF Freetask, Drained, In
  <2>2. depth > 0 /\ Top = calls[depth] /\ stack \in Seq(Frames) /\ Top \in Frames
    BY <2>1, Levels DEF TypeOK
  <2>3. Stops(depth, Top.task) /\ calls[depth].at = "last" /\ Top.task \in Tasks
    BY <2>1, <2>2, FrameFields DEF Stops, Stages
  <2>4. /\ state' = [state EXCEPT ![Top.task] = "FREE"]
        /\ flags' = [flags EXCEPT ![Top.task] = {}]
        /\ target' \in [Tasks -> BOOLEAN]
        /\ ctrlc' = [ctrlc EXCEPT ![Top.task] = FALSE]
        /\ updport' \in [Tasks -> BOOLEAN]
        /\ UNCHANGED <<sub, subport, hold, replied, msg, taskport, semas>>
    <3> DEFINE t == Top.task
    <3>1. /\ state' = [state EXCEPT ![t] = "FREE"]
          /\ flags' = [flags EXCEPT ![t] = {}]
          /\ target' = [target EXCEPT ![t] = FALSE]
          /\ ctrlc' = [ctrlc EXCEPT ![t] = FALSE]
          /\ updport' = [updport EXCEPT ![t] = FALSE]
          /\ UNCHANGED <<sub, subport, hold, replied, msg, taskport, semas>>
      BY <1>3, SMT DEF Freetask, ports
    <3>3. t \in Tasks
      BY <2>3
    <3> HIDE DEF t
    <3>2. /\ target' \in [Tasks -> BOOLEAN]
          /\ updport' \in [Tasks -> BOOLEAN]
      BY <3>1, <3>3, SMT DEF TypeOK
    <3> QED
      BY <3>1, <3>2 DEF t
  <2>5. stack' \in Seq(Frames) /\ Pops
    BY <2>1, <2>2, Popped
  <2> QED
    BY <2>1, <2>2, <2>3, <2>4, <2>5, Zenon DEF Freed
<1> QED
  BY <1>1, <1>2, <1>3, OtherReceives, DoneAnswers, ReplyReceives,
     HandlerReturned, GoesOn, Zenon DEF Main

\* The signal of taskport stays a bit.
LEMMA SignalIsBit ==
  ASSUME TypeOK, Main \/ HandlerReturns
  PROVE  signal' \in BOOLEAN
<1>1. signal \in BOOLEAN
  BY DEF TypeOK
<1>2. CASE Processtask \/ WaitformsgWake
  BY <1>2, Zenon DEF Processtask, WaitformsgWake
<1>3. CASE Resignal
  BY <1>3, Zenon DEF Resignal
<1>4. CASE WaitformsgOther \/ Processtaskreply
  BY <1>1, <1>4, Zenon DEF WaitformsgOther, Processtaskreply, TakeAndProcess
<1>5. CASE WaitformsgDone
  BY <1>5, Zenon DEF WaitformsgDone, Setportsignal
<1>6. CASE WaitformsgSleep \/ Procure \/ StoptaskAgain \/ Freetask
  BY <1>1, <1>6, SMT DEF WaitformsgSleep, Procure, StoptaskAgain, Freetask, ports
<1>7. CASE HandlerReturns
  BY <1>1, <1>7, SMT DEF HandlerReturns, ports
<1>8. CASE StoptaskWake
  <2>1. signal' = TRUE \/ signal' = FALSE
    BY <1>8, Zenon DEF StoptaskWake, Setportsignal
  <2> QED
    BY <2>1
<1> QED
  BY <1>2, <1>3, <1>4, <1>5, <1>6, <1>7, <1>8, Zenon DEF Main

\* The signals of the subtasks after Stoptask's first half.
LEMMA SignalledTyped ==
  ASSUME TypeOK, NEW t \in Tasks
  PROVE  Signalled(t) \in [Tasks -> BOOLEAN]
  BY SMT DEF TypeOK, Signalled

\* The rest of the state after a message was processed.
LEMMA TypeProcessed ==
  ASSUME TypeOK, KindsAgree, NEW m \in AllMsgs, InUse(m)
  PROVE  /\ Gives(m) => /\ msg' \in [AllMsgs -> {NoMsg} \cup [kind : Kinds, task : Tasks]]
                        /\ replied' \in [Tasks -> BOOLEAN]
         /\ \A fl \in SUBSET Flags :
              Settles(Sender(m), fl) \/ Disposes(Sender(m), fl)
                => /\ flags' \in [Tasks -> SUBSET Flags]
                   /\ ctrlc' \in [Tasks -> BOOLEAN]
         /\ flags[Sender(m)] \in SUBSET Flags
<1>1. Sender(m) \in Tasks
  BY Returning
<1>2. /\ msg \in [AllMsgs -> {NoMsg} \cup [kind : Kinds, task : Tasks]]
      /\ replied \in [Tasks -> BOOLEAN] /\ flags \in [Tasks -> SUBSET Flags]
      /\ ctrlc \in [Tasks -> BOOLEAN]
  BY DEF TypeOK
<1>3. ASSUME Gives(m)
      PROVE  /\ msg' \in [AllMsgs -> {NoMsg} \cup [kind : Kinds, task : Tasks]]
             /\ replied' \in [Tasks -> BOOLEAN]
  <2>1. CASE /\ UNCHANGED msg
             /\ replied' = [replied EXCEPT ![Sender(m)] = TRUE]
    BY <1>1, <1>2, <2>1, SMT
  <2>2. CASE UNCHANGED replied /\ msg' = [msg EXCEPT ![m] = NoMsg]
    BY <1>1, <1>2, <2>2, SMT
  <2> QED
    BY <1>3, <2>1, <2>2, Zenon DEF Gives
<1>4. ASSUME NEW fl \in SUBSET Flags,
             Settles(Sender(m), fl) \/ Disposes(Sender(m), fl)
      PROVE  flags' \in [Tasks -> SUBSET Flags] /\ ctrlc' \in [Tasks -> BOOLEAN]
  <2>1. Signalled(Sender(m)) \in [Tasks -> BOOLEAN]
    BY <1>1, SignalledTyped
  <2>2. \A fs : flags' = [flags EXCEPT ![Sender(m)] = fs] /\ fs \in SUBSET Flags
                => flags' \in [Tasks -> SUBSET Flags]
    BY <1>1, <1>2, Zenon
  <2> QED
    BY <1>2, <1>4, <2>1, <2>2, Zenon DEF Settles, Disposes
<1> QED
  BY <1>1, <1>2, <1>3, <1>4

\* The main task keeps the types.
LEMMA TypeMain ==
  ASSUME IInv, Main \/ HandlerReturns
  PROVE  TypeOK'
<1> USE DEF IInv
<1>1. /\ TypeOK /\ KindsAgree /\ OneAt
      /\ signal' \in BOOLEAN /\ stack' \in Seq(Frames)
  BY SignalIsBit, MainSteps
<1>2. ASSUME NEW m \in AllMsgs, InUse(m), Gives(m),
             NEW fl \in SUBSET Flags,
             Settles(Sender(m), fl) \/ Disposes(Sender(m), fl),
             taskport' \in Seq(AllMsgs),
             UNCHANGED <<state, target, updport, sub, subport, hold, semas>>
      PROVE  TypeOK'
  BY <1>1, <1>2, TypeProcessed, SMT DEF TypeOK, semas
<1>3. ASSUME NEW m \in AllMsgs, Receives(m) PROVE TypeOK'
  <2>1. InUse(m) /\ Taken(m)
    BY <1>1, <1>3, PortInUse DEF Receives
  <2>2. UNCHANGED <<state, target, updport, sub, subport, hold, semas>>
    BY <1>3 DEF Receives
  <2>3. flags[Sender(m)] \in SUBSET Flags
    BY <1>1, <2>1, TypeProcessed
  <2>4. CASE /\ Is(m, Updates) /\ Adds(NewHandler(m))
             /\ flags' = [flags EXCEPT ![Sender(m)] = @ \cup {"PROCESSING"}]
             /\ UNCHANGED <<ctrlc, replied, msg>>
    <3>1. flags' \in [Tasks -> SUBSET Flags]
      <4>1. flags[Sender(m)] \cup {"PROCESSING"} \in SUBSET Flags
        BY <2>3 DEF Flags
      <4>2. flags \in [Tasks -> SUBSET Flags]
        BY DEF TypeOK
      <4> QED
        BY <2>4, <4>1, <4>2
    <3> QED
      BY <1>1, <2>1, <2>2, <2>3, <2>4, <3>1, SMT DEF TypeOK, semas, Taken
  <2> QED
    BY <1>2, <1>3, <2>1, <2>2, <2>3, <2>4, Zenon DEF Receives, Taken
<1>4. ASSUME NEW m \in AllMsgs, Answered(m) PROVE TypeOK'
  <2>1. InUse(m) /\ Taken(m) /\ Gives(m)
    BY <1>1, <1>4, PortInUse DEF Answered
  <2>2. UNCHANGED <<state, target, updport, sub, subport, hold, semas>>
    BY <1>4 DEF Answered
  <2>3. flags[Sender(m)] \in SUBSET Flags
        /\ msg' \in [AllMsgs -> {NoMsg} \cup [kind : Kinds, task : Tasks]]
        /\ replied' \in [Tasks -> BOOLEAN]
    BY <1>1, <2>1, TypeProcessed
  <2>4. CASE /\ flags' = [flags EXCEPT ![Sender(m)] = @ \cup {"STARTED"}]
             /\ UNCHANGED ctrlc
    <3>1. flags' \in [Tasks -> SUBSET Flags]
      <4>1. flags[Sender(m)] \cup {"STARTED"} \in SUBSET Flags
        BY <2>3 DEF Flags
      <4>2. flags \in [Tasks -> SUBSET Flags]
        BY DEF TypeOK
      <4> QED
        BY <2>4, <4>1, <4>2
    <3> QED
      BY <1>1, <2>1, <2>2, <2>3, <2>4, <3>1, SMT DEF TypeOK, semas, Taken
  <2> QED
    BY <1>2, <1>4, <2>1, <2>2, <2>3, <2>4, Zenon DEF Answered, Taken
<1>5. ASSUME NEW m \in AllMsgs, Returned(m) PROVE TypeOK'
  <2>1. InUse(m) /\ Gives(m)
    <3>1. depth \in 1 .. depth
      BY <1>5, Levels, SMT DEF Returned, TypeOK
    <3> QED
      BY <1>1, <1>5, <3>1, HandlerInUse DEF Returned
  <2>2. UNCHANGED <<state, target, updport, sub, subport, hold, semas, taskport>>
    BY <1>5 DEF Returned, ports
  <2>3. flags[Sender(m)] \in SUBSET Flags /\ taskport' \in Seq(AllMsgs)
    BY <1>1, <2>1, <2>2, TypeProcessed DEF TypeOK
  <2>4. flags[Sender(m)] \ {"PROCESSING"} \in SUBSET Flags
    BY <2>3
  <2> QED
    BY <1>2, <1>5, <2>1, <2>2, <2>3, <2>4, Zenon DEF Returned
<1>6. ASSUME NEW f \in Frames, Waiting(f) PROVE TypeOK'
  <2>1. semaport' \in Seq(Tasks) /\ semasignal' \in BOOLEAN
    <3>1. semaport \in Seq(Tasks) /\ semasignal \in BOOLEAN /\ stack \in Seq(Frames)
      BY DEF TypeOK
    <3>2. calls[depth] \in Frames
      BY <1>6, <3>1, Levels, SMT DEF Waiting
    <3>3. CASE UNCHANGED semas
      BY <3>1, <3>3 DEF semas
    <3>4. CASE Stops(depth, f.task) /\ semasignal' \in BOOLEAN
      <4>1. f.task \in Tasks
        BY <3>2, <3>4, FrameFields DEF Stops
      <4>2. \/ semaport' = semaport \/ semaport' = Append(semaport, f.task)
            \/ semaport # << >> /\ semaport' = Tail(semaport)
        BY <1>6, SMTT(20) DEF Waiting, semas
      <4>3. CASE semaport' = semaport
        BY <3>1, <3>4, <4>3
      <4>4. CASE semaport' = Append(semaport, f.task)
        BY <3>1, <3>4, <4>1, <4>4, SMT
      <4>5. CASE semaport # << >> /\ semaport' = Tail(semaport)
        BY <3>1, <3>4, <4>5, SMT
      <4> QED
        BY <4>2, <4>3, <4>4, <4>5
    <3> QED
      BY <1>6, <3>3, <3>4, Zenon DEF Waiting
  <2>2. UNCHANGED <<object, process, msg, taskport>>
    BY <1>6 DEF Waiting
  <2> QED
    BY <1>1, <2>1, <2>2, SMT DEF TypeOK, object, process
<1>7. CASE Looping
  BY <1>1, <1>7, SMT DEF Looping, TypeOK, object, process, semas
<1>8. ASSUME NEW t \in Tasks, Freed(t) PROVE TypeOK'
  BY <1>1, <1>8, SMT DEF Freed, TypeOK, semas, States
<1> QED
  BY <1>3, <1>4, <1>5, <1>6, <1>7, <1>8, MainSteps, Zenon

-----------------------------------------------------------------------------
(* Every message is in one place.                                          *)

Stays(m) == /\ InUse(m)' <=> InUse(m)
            /\ \A c \in PlaceKinds, x \in Spots : At(m, c, x)' <=> At(m, c, x)
GoesTo(m, d, y) ==
  /\ InUse(m)'
  /\ \A c \in PlaceKinds, x \in Spots : At(m, c, x)' <=> c = d /\ x = y
Goes(m) == ~InUse(m)' /\ \A c \in PlaceKinds, x \in Spots : ~At(m, c, x)'

\* When every message stays, goes, or is put in one place, all are in one.
LEMMA OneAtKept ==
  ASSUME OneAt, IsInjective(taskport)', \A t \in Tasks : IsInjective(subport'[t]),
         \A m \in AllMsgs : \/ Stays(m) \/ Goes(m)
                            \/ \E d \in PlaceKinds, y \in Spots : GoesTo(m, d, y)
  PROVE  OneAt'
<1>1. ASSUME NEW m \in AllMsgs, NEW c \in PlaceKinds, NEW d \in PlaceKinds,
             NEW x \in Spots, NEW y \in Spots, At(m, c, x)', At(m, d, y)'
      PROVE  c = d /\ x = y
  <2>1. CASE Stays(m)
    BY <1>1, <2>1, Zenon DEF Stays, OneAt
  <2>2. CASE Goes(m)
    BY <1>1, <2>2, Zenon DEF Goes
  <2>3. ASSUME NEW e \in PlaceKinds, NEW z \in Spots, GoesTo(m, e, z)
        PROVE  c = d /\ x = y
    <3>1. c = e /\ x = z
      BY <1>1, <2>3, Zenon DEF GoesTo
    <3>2. d = e /\ y = z
      BY <1>1, <2>3, Zenon DEF GoesTo
    <3> QED
      BY <3>1, <3>2
  <2> QED
    BY <2>1, <2>2, <2>3
<1>2. ASSUME NEW m \in AllMsgs
      PROVE  InUse(m)' <=> \E c \in PlaceKinds, x \in Spots : At(m, c, x)'
  <2>1. CASE Stays(m)
    BY <2>1, Zenon DEF Stays, OneAt
  <2>2. CASE Goes(m)
    BY <2>2, Zenon DEF Goes
  <2>3. ASSUME NEW e \in PlaceKinds, NEW z \in Spots, GoesTo(m, e, z)
        PROVE  InUse(m)' <=> \E c \in PlaceKinds, x \in Spots : At(m, c, x)'
    BY <2>3, Zenon DEF GoesTo
  <2> QED
    BY <2>1, <2>2, <2>3
<1> QED
  BY <1>1, <1>2, Zenon DEF OneAt

\* What a step does to a place.
Kept(c) == \A m \in AllMsgs, x \in Spots : At(m, c, x)' <=> At(m, c, x)
Leave(M, c) ==
  \A m \in AllMsgs, x \in Spots : At(m, c, x)' <=> At(m, c, x) /\ m \notin M
Enter(M, c, y) ==
  \A m \in AllMsgs, x \in Spots :
    At(m, c, x)' <=> At(m, c, x) \/ (m \in M /\ x = y)
KeptBut(C) == \A c \in PlaceKinds : c \notin C => Kept(c)
AllAt(M, c, x) == \A m \in M : At(m, c, x)
SameInUse == \A m \in AllMsgs : InUse(m)' <=> InUse(m)
Distinct == /\ IsInjective(taskport')
            /\ \A t \in Tasks : IsInjective(subport'[t])

\* What being at a place means, before and after a step.
LEMMA AtPort ==
  ASSUME NEW m, NEW x
  PROVE  /\ At(m, "port", x) <=> x = 0 /\ m \in ToSet(taskport)
         /\ At(m, "port", x)' <=> x = 0 /\ m \in ToSet(taskport')
  BY SMT DEF At, Handles

\* Where a handled message is, before and after a step.
LEMMA AtHandler ==
  ASSUME NEW m, NEW x
  PROVE  /\ At(m, "handler", x) <=> x \in 1 .. depth /\ Handles(x) /\ calls[x].msg = m
         /\ At(m, "handler", x)' <=> x \in 1 .. depth' /\ calls'[x].at = "update"
                               /\ calls'[x].msg = m
  BY SMT DEF At, Handles

\* Where a message that the subtask holds is.
LEMMA AtHeld ==
  ASSUME NEW m, NEW x
  PROVE  /\ At(m, "held", x) <=> x \in Tasks /\ hold[x] = m
         /\ At(m, "held", x)' <=> x \in Tasks /\ hold'[x] = m
  BY SMT DEF At, Handles

\* Where a message at a subtask's port is.
LEMMA AtPosted ==
  ASSUME NEW m, NEW x
  PROVE  /\ At(m, "posted", x) <=> x \in Tasks /\ m \in ToSet(subport[x])
         /\ At(m, "posted", x)' <=> x \in Tasks /\ m \in ToSet(subport'[x])
  BY SMT DEF At, Handles

\* Where an update that has come back is.
LEMMA AtBack ==
  ASSUME NEW m, NEW x
  PROVE  /\ At(m, "back", x) <=> x \in Tasks /\ m = <<x, "update">> /\ replied[x]
         /\ At(m, "back", x)' <=> x \in Tasks /\ m = <<x, "update">> /\ replied'[x]
  BY SMT DEF At, Handles

\* Where the startup message of a process not yet scheduled is.
LEMMA AtCreated ==
  ASSUME NEW m, NEW x
  PROVE  /\ At(m, "created", x) <=> x \in Tasks /\ m = <<x, "startup">> /\ sub[x] = "created"
         /\ At(m, "created", x)' <=> x \in Tasks /\ m = <<x, "startup">> /\ sub'[x] = "created"
  BY SMT DEF At, Handles

\* The places that a step leaves alone.
LEMMA PlacesKept ==
  /\ UNCHANGED taskport => Kept("port")
  /\ UNCHANGED <<calls, depth>> => Kept("handler")
  /\ UNCHANGED hold => Kept("held")
  /\ UNCHANGED subport => Kept("posted")
  /\ UNCHANGED replied => Kept("back")
  /\ (\A u \in Tasks : sub'[u] = "created" <=> sub[u] = "created")
       => Kept("created")
<1>1. UNCHANGED taskport => Kept("port")
  BY AtPort DEF Kept
<1>2. UNCHANGED <<calls, depth>> => Kept("handler")
  BY AtHandler DEF Kept, Handles
<1>3. UNCHANGED hold => Kept("held")
  BY AtHeld DEF Kept
<1>4. UNCHANGED subport => Kept("posted")
  BY AtPosted DEF Kept
<1>5. UNCHANGED replied => Kept("back")
  BY AtBack DEF Kept
<1>6. (\A u \in Tasks : sub'[u] = "created" <=> sub[u] = "created")
        => Kept("created")
  BY AtCreated DEF Kept
<1> QED
  BY <1>1, <1>2, <1>3, <1>4, <1>5, <1>6

\* The places by name.
LEMMA PlaceFacts ==
  /\ 0 \in Spots /\ Tasks \subseteq Spots
  /\ "port" \in PlaceKinds /\ "handler" \in PlaceKinds /\ "held" \in PlaceKinds
  /\ "posted" \in PlaceKinds /\ "back" \in PlaceKinds /\ "created" \in PlaceKinds
  /\ \A c \in PlaceKinds : c \in {"port", "handler", "held", "posted", "back", "created"}
<1>1. 0 \in Spots /\ Tasks \subseteq Spots
  BY SMT DEF Spots
<1> QED
  BY <1>1, Zenon DEF PlaceKinds

\* A message in use is at its place only; one that is not is nowhere.
LEMMA OnlyThere ==
  ASSUME OneAt, NEW m \in AllMsgs
  PROVE  /\ \A c, d \in PlaceKinds, x, y \in Spots :
              At(m, c, x) /\ At(m, d, y) => c = d /\ x = y
         /\ ~InUse(m) => \A c \in PlaceKinds, x \in Spots : ~At(m, c, x)
         /\ \A c \in PlaceKinds, x \in Spots : At(m, c, x) => InUse(m)
  BY Zenon DEF OneAt

\* Messages go from one place to another.
LEMMA Transfer ==
  ASSUME OneAt, Distinct,
         NEW M \in SUBSET AllMsgs, NEW b \in PlaceKinds, NEW d \in PlaceKinds,
         NEW w \in Spots, NEW y \in Spots, b # d,
         AllAt(M, b, w), SameInUse,
         Leave(M, b), Enter(M, d, y), KeptBut({b, d})
  PROVE  OneAt'
<1>1. ASSUME NEW m \in AllMsgs, m \notin M PROVE Stays(m)
  <2>1. ASSUME NEW c \in PlaceKinds, NEW x \in Spots
        PROVE  At(m, c, x)' <=> At(m, c, x)
    <3>1. CASE c = b
      BY <1>1, <3>1, Zenon DEF Leave
    <3>2. CASE c = d
      BY <1>1, <3>2, Zenon DEF Enter
    <3>3. CASE c # b /\ c # d
      BY <3>3, Zenon DEF Kept, KeptBut
    <3> QED
      BY <3>1, <3>2, <3>3
  <2> QED
    BY <2>1, Zenon DEF Stays, SameInUse
<1>2. ASSUME NEW m \in M PROVE GoesTo(m, d, y)
  <2>1. \A c \in PlaceKinds, x \in Spots : At(m, c, x) => c = b /\ x = w
    BY Zenon DEF OneAt, AllAt
  <2>2. InUse(m)'
    BY Zenon DEF OneAt, AllAt, SameInUse
  <2>3. ASSUME NEW c \in PlaceKinds, NEW x \in Spots
        PROVE  At(m, c, x)' <=> c = d /\ x = y
    <3>1. CASE c = b
      BY <3>1, Zenon DEF Leave
    <3>2. CASE c = d
      BY <2>1, <3>2, Zenon DEF Enter
    <3>3. CASE c # b /\ c # d
      BY <2>1, <3>3, Zenon DEF Kept, KeptBut
    <3> QED
      BY <3>1, <3>2, <3>3
  <2> QED
    BY <2>2, <2>3, Zenon DEF GoesTo
<1>3. \A m \in AllMsgs : \/ Stays(m) \/ Goes(m)
                         \/ \E e \in PlaceKinds, z \in Spots : GoesTo(m, e, z)
  BY <1>1, <1>2, Zenon
<1> QED
  BY <1>3, OneAtKept, Zenon DEF Distinct

\* A message is made.
LEMMA Appearance ==
  ASSUME OneAt, Distinct,
         NEW n \in AllMsgs, NEW d \in PlaceKinds, NEW y \in Spots, ~InUse(n),
         \A m \in AllMsgs : InUse(m)' <=> InUse(m) \/ m = n,
         Enter({n}, d, y),
         KeptBut({d})
  PROVE  OneAt'
<1>1. ASSUME NEW m \in AllMsgs, m # n PROVE Stays(m)
  <2>1. ASSUME NEW c \in PlaceKinds, NEW x \in Spots
        PROVE  At(m, c, x)' <=> At(m, c, x)
    <3>1. CASE c = d
      BY <1>1, <3>1, Zenon DEF Enter
    <3>2. CASE c # d
      BY <3>2, Zenon DEF Kept, KeptBut
    <3> QED
      BY <3>1, <3>2
  <2> QED
    BY <1>1, <2>1, Zenon DEF Stays
<1>2. GoesTo(n, d, y)
  <2>1. \A c \in PlaceKinds, x \in Spots : ~At(n, c, x)
    BY Zenon DEF OneAt
  <2>2. ASSUME NEW c \in PlaceKinds, NEW x \in Spots
        PROVE  At(n, c, x)' <=> c = d /\ x = y
    <3>1. CASE c = d
      BY <2>1, <3>1, Zenon DEF Enter
    <3>2. CASE c # d
      BY <2>1, <3>2, Zenon DEF Kept, KeptBut
    <3> QED
      BY <3>1, <3>2
  <2> QED
    BY <2>2, Zenon DEF GoesTo
<1>3. \A m \in AllMsgs : \/ Stays(m) \/ Goes(m)
                         \/ \E e \in PlaceKinds, z \in Spots : GoesTo(m, e, z)
  BY <1>1, <1>2, Zenon
<1> QED
  BY <1>3, OneAtKept, Zenon DEF Distinct

\* A message is given back.
LEMMA Disappearance ==
  ASSUME OneAt, Distinct,
         NEW n \in AllMsgs, NEW b \in PlaceKinds, NEW w \in Spots, At(n, b, w),
         \A m \in AllMsgs : InUse(m)' <=> InUse(m) /\ m # n,
         Leave({n}, b),
         KeptBut({b})
  PROVE  OneAt'
<1>1. ASSUME NEW m \in AllMsgs, m # n PROVE Stays(m)
  <2>1. ASSUME NEW c \in PlaceKinds, NEW x \in Spots
        PROVE  At(m, c, x)' <=> At(m, c, x)
    <3>1. CASE c = b
      BY <1>1, <3>1, Zenon DEF Leave
    <3>2. CASE c # b
      BY <3>2, Zenon DEF Kept, KeptBut
    <3> QED
      BY <3>1, <3>2
  <2> QED
    BY <1>1, <2>1, Zenon DEF Stays
<1>2. Goes(n)
  <2>1. \A c \in PlaceKinds, x \in Spots : At(n, c, x) => c = b /\ x = w
    BY Zenon DEF OneAt
  <2>2. ASSUME NEW c \in PlaceKinds, NEW x \in Spots
        PROVE  ~At(n, c, x)'
    <3>1. CASE c = b
      BY <3>1, Zenon DEF Leave
    <3>2. CASE c # b
      BY <2>1, <3>2, Zenon DEF Kept, KeptBut
    <3> QED
      BY <3>1, <3>2
  <2> QED
    BY <2>2, Zenon DEF Goes
<1>3. \A m \in AllMsgs : \/ Stays(m) \/ Goes(m)
                         \/ \E e \in PlaceKinds, z \in Spots : GoesTo(m, e, z)
  BY <1>1, <1>2, Zenon
<1> QED
  BY <1>3, OneAtKept, Zenon DEF Distinct

\* The places of nothing change.
LEMMA NoTransfer ==
  ASSUME OneAt, Distinct,
         SameInUse, KeptBut({})
  PROVE  OneAt'
<1>1. \A m \in AllMsgs : Stays(m)
  BY Zenon DEF Stays, Kept, KeptBut, SameInUse
<1>2. \A m \in AllMsgs : \/ Stays(m) \/ Goes(m)
                         \/ \E e \in PlaceKinds, z \in Spots : GoesTo(m, e, z)
  BY <1>1, Zenon
<1> QED
  BY <1>2, OneAtKept, Zenon DEF Distinct

\* The conditionals of the last update and of Release, as alternatives.
LEMMA EndsAs ==
  ASSUME NEW t, EntryEnds(t)
  PROVE  \/ /\ msg' = [msg EXCEPT ![<<t, "last">>] = [kind |-> "last", task |-> t]]
            /\ Putmsg(<<t, "last">>)
         \/ UNCHANGED <<msg, taskport, signal>>
  BY Zenon DEF EntryEnds, ports

\* The end of a process: a grant for the Stoptask that waits, or nothing.
LEMMA ReleasesAs ==
  ASSUME NEW t, ReleaseRunsema(t)
  PROVE  \/ Procured(t) /\ semaport' = Append(semaport, t)
         \/ UNCHANGED semaport
  BY Zenon DEF ReleaseRunsema, semas

\* A message in its new place at the port.
LEMMA PutAtPort ==
  ASSUME TypeOK, OneAt, NEW m \in AllMsgs, Putmsg(m)
  PROVE  /\ ToSet(taskport') = ToSet(taskport) \cup {m}
         /\ taskport' = Append(taskport, m)
         /\ m \notin ToSet(taskport) => IsInjective(taskport')
         /\ Enter({m}, "port", 0)
<1>1. taskport \in Seq(AllMsgs) /\ IsInjective(taskport)
      /\ taskport' = Append(taskport, m)
  BY DEF TypeOK, OneAt, Putmsg
<1>2. /\ ToSet(taskport') = ToSet(taskport) \cup {m}
      /\ m \notin ToSet(taskport) => IsInjective(taskport')
  BY <1>1, AppendSet
<1>3. ASSUME NEW n, NEW x
      PROVE  At(n, "port", x)' <=> At(n, "port", x) \/ (n = m /\ x = 0)
  BY <1>2, AtPort
<1> QED
  BY <1>1, <1>2, <1>3 DEF Enter

\* One that is somewhere else is not there yet.
LEMMA NotAtPort ==
  ASSUME OneAt, NEW m \in AllMsgs, NEW c \in PlaceKinds, NEW x \in Spots,
         At(m, c, x), c # "port"
  PROVE  m \notin ToSet(taskport)
<1>1. ~At(m, "port", 0)
  BY PlaceFacts, Zenon DEF OneAt
<1> QED
  BY <1>1, AtPort

\* A subtask keeps every message in one place.
LEMMA OneAtSubtasks ==
  ASSUME IInv, NEW t \in Tasks, Process(t)
  PROVE  OneAt'
<1> USE DEF IInv
<1>1. TypeOK /\ OneAt /\ UNCHANGED <<calls, depth>> /\ Kept("handler")
  BY SubtasksKeep, PlacesKept
<1>2. /\ <<t, "startup">> \in AllMsgs /\ <<t, "update">> \in AllMsgs
      /\ <<t, "last">> \in AllMsgs /\ Msgs \subseteq AllMsgs
      /\ t \in Spots /\ 0 \in Spots
  BY OwnFacts, PlaceFacts DEF OwnKinds, AllMsgs
<1>3. /\ taskport \in Seq(AllMsgs) /\ subport \in [Tasks -> Seq(Msgs)]
      /\ hold \in [Tasks -> Msgs \cup {Nobody}] /\ Nobody \notin AllMsgs
      /\ IsInjective(taskport) /\ \A u \in Tasks : IsInjective(subport[u])
      /\ sub \in [Tasks -> Places] /\ replied \in [Tasks -> BOOLEAN]
      /\ msg \in [AllMsgs -> {NoMsg} \cup [kind : Kinds, task : Tasks]]
  BY OwnFacts, Zenon DEF TypeOK, OneAt
\* The startup message is replied.
<1>4. ASSUME sub[t] = "created", sub' = [sub EXCEPT ![t] = "run"]
                                 \/ sub' = [sub EXCEPT ![t] = "failed"],
             Putmsg(<<t, "startup">>), UNCHANGED <<subport, hold, replied, msg>>
      PROVE  OneAt'
  <2> DEFINE n == <<t, "startup">>
  <2>1. At(n, "created", t)
    BY <1>4, AtCreated
  <2>2. n \notin ToSet(taskport)
    BY <1>1, <1>2, <2>1, NotAtPort, PlaceFacts
  <2>3. Leave({n}, "created")
    <3>1. ASSUME NEW u \in Tasks
          PROVE sub'[u] = "created" <=> sub[u] = "created" /\ u # t
      BY <1>3, <1>4, SMT
    <3>2. ASSUME NEW m \in AllMsgs, NEW x \in Spots
          PROVE  At(m, "created", x)' <=> At(m, "created", x) /\ m \notin {n}
      BY <3>1, AtCreated
    <3> QED
      BY <3>2, Zenon DEF Leave
  <2>4. IsInjective(taskport') /\ Enter({n}, "port", 0)
    BY <1>1, <1>2, <1>4, <2>2, PutAtPort
  <2>5. Kept("held") /\ Kept("posted") /\ Kept("back")
    BY <1>4, PlacesKept
  <2>6. SameInUse
    BY <1>4 DEF InUse, SameInUse
  <2>7. Distinct
    BY <1>3, <1>4, <2>4 DEF Distinct
  <2>8. {n} \in SUBSET AllMsgs /\ AllAt({n}, "created", t)
    BY <1>2, <2>1 DEF AllAt
  <2>9. KeptBut({"created", "port"})
    BY <1>1, <2>5, PlaceFacts DEF KeptBut
  <2> HIDE DEF n
  <2>10. "created" # "port" /\ "created" \in PlaceKinds /\ "port" \in PlaceKinds
    BY PlaceFacts
  <2> QED
    BY <1>1, <1>2, <2>3, <2>4, <2>6, <2>7, <2>8, <2>9, <2>10, Transfer, Zenon
\* A subtask makes a message.
<1>5. ASSUME NEW n \in AllMsgs, NEW k, ~InUse(n), Putmsg(n),
             msg' = [msg EXCEPT ![n] = [kind |-> k, task |-> t]],
             \A u \in Tasks : sub'[u] = "created" <=> sub[u] = "created",
             UNCHANGED <<subport, hold, replied>>
      PROVE  OneAt'
  <2>1. n \notin ToSet(taskport)
    BY <1>1, <1>5, PortInUse
  <2>2. IsInjective(taskport') /\ Enter({n}, "port", 0)
    BY <1>1, <1>5, <2>1, PutAtPort
  <2>3. Kept("held") /\ Kept("posted") /\ Kept("back") /\ Kept("created")
    BY <1>5, PlacesKept
  <2>4. \A m \in AllMsgs : InUse(m)' <=> InUse(m) \/ m = n
    <3>1. [kind |-> k, task |-> t] # NoMsg
      BY SMT DEF NoMsg
    <3> QED
      BY <1>3, <1>5, <3>1, SMT DEF InUse
  <2>5. Distinct
    BY <1>3, <1>5, <2>2 DEF Distinct
  <2>6. KeptBut({"port"})
    BY <1>1, <2>3, PlaceFacts DEF KeptBut
  <2> QED
    BY <1>1, <1>2, <1>5, <2>2, <2>4, <2>5, <2>6, Appearance, PlaceFacts, Zenon
\* Nothing moves.
<1>6. ASSUME UNCHANGED <<taskport, subport, hold, replied, msg>>,
             \A u \in Tasks : sub'[u] = "created" <=> sub[u] = "created"
      PROVE  OneAt'
  <2>1. /\ Kept("port") /\ Kept("held") /\ Kept("posted") /\ Kept("back")
        /\ Kept("created")
    BY <1>6, PlacesKept
  <2>2. KeptBut({})
    BY <1>1, <2>1, PlaceFacts DEF KeptBut
  <2>3. SameInUse
    BY <1>6 DEF SameInUse, InUse
  <2>4. Distinct
    BY <1>3, <1>6 DEF Distinct
  <2> QED
    BY <1>1, <2>2, <2>3, <2>4, NoTransfer
<1>7. CASE \E upd \in BOOLEAN : Subtask(t, upd)
  BY <1>4, <1>7, Zenon DEF Subtask
<1>8. CASE SubtaskFails(t)
  BY <1>4, <1>8, Zenon DEF SubtaskFails
<1>9. CASE Updated(t)
  <2> DEFINE n == <<t, "update">>
  <2>1. /\ sub[t] = "update" /\ replied[t]
        /\ sub' = [sub EXCEPT ![t] = "run"]
        /\ msg' = [msg EXCEPT ![n] = NoMsg]
        /\ replied' = [replied EXCEPT ![t] = FALSE]
        /\ UNCHANGED <<taskport, subport, hold>>
    BY <1>9 DEF Updated, ports
  <2>2. At(n, "back", t)
    BY <2>1, AtBack
  <2>3. Leave({n}, "back")
    <3>1. ASSUME NEW u \in Tasks PROVE replied'[u] <=> replied[u] /\ u # t
      BY <1>3, <2>1
    <3>2. ASSUME NEW m \in AllMsgs, NEW x \in Spots
          PROVE  At(m, "back", x)' <=> At(m, "back", x) /\ m \notin {n}
      BY <3>1, AtBack
    <3> QED
      BY <3>2, Zenon DEF Leave
  <2>4. Kept("port") /\ Kept("held") /\ Kept("posted") /\ Kept("created")
    <3>1. ASSUME NEW u \in Tasks PROVE sub'[u] = "created" <=> sub[u] = "created"
      BY <1>3, <2>1, SMT
    <3> QED
      BY <2>1, <3>1, PlacesKept
  <2>5. KeptBut({"back"})
    BY <1>1, <2>4, PlaceFacts DEF KeptBut
  <2>6. \A m \in AllMsgs : InUse(m)' <=> InUse(m) /\ m # n
    BY <1>2, <1>3, <2>1 DEF InUse
  <2>7. Distinct
    BY <1>3, <2>1 DEF Distinct
  <2>8. n \in AllMsgs /\ "back" \in PlaceKinds
    BY <1>2, PlaceFacts
  <2> HIDE DEF n
  <2> QED
    BY <1>1, <1>2, <2>2, <2>3, <2>5, <2>6, <2>7, <2>8, Disappearance, Zenon
<1>10. CASE SubtaskEnds(t)
  <2> DEFINE M == ToSet(subport[t])
  <2>1. /\ sub[t] = "last" /\ taskport' = taskport \o subport[t]
        /\ subport' = [subport EXCEPT ![t] = << >>]
        /\ sub' = [sub EXCEPT ![t] = "ending"]
        /\ UNCHANGED <<hold, replied, msg>>
    BY <1>10 DEF SubtaskEnds, ReplyAll
  <2>2. subport[t] \in Seq(Msgs) /\ subport[t] \in Seq(AllMsgs)
    BY <1>2, <1>3, SMT
  <2>3. M \in SUBSET AllMsgs
    BY <2>2, SMT DEF ToSet
  <2>4. AllAt(M, "posted", t)
    BY AtPosted DEF AllAt
  <2>5. ToSet(taskport) \cap M = {}
    BY <1>1, <1>2, <2>3, <2>4, NotAtPort, PlaceFacts DEF AllAt
  <2>6. ToSet(taskport') = ToSet(taskport) \cup M /\ IsInjective(taskport')
    BY <1>3, <2>1, <2>2, <2>5, ConcatSet
  <2>7. Enter(M, "port", 0)
    <3>1. ASSUME NEW m \in AllMsgs, NEW x \in Spots
          PROVE  At(m, "port", x)' <=> At(m, "port", x) \/ (m \in M /\ x = 0)
      BY <2>6, AtPort
    <3> QED
      BY <3>1, Zenon DEF Enter
  <2>8. /\ subport'[t] = << >> /\ ToSet(subport'[t]) = {} /\ IsInjective(subport'[t])
        /\ \A u \in Tasks : u # t => subport'[u] = subport[u]
    <3>1. subport'[t] = << >> /\ \A u \in Tasks : u # t => subport'[u] = subport[u]
      BY <1>3, <2>1
    <3>2. ToSet(<< >>) = {} /\ IsInjective(<< >>)
      <4>1. << >> \in Seq(Msgs) /\ Len(<< >>) = 0
        BY SMT
      <4> DEFINE e == << >>
      <4> HIDE DEF e
      <4>2. e \in Seq(Msgs) /\ 1 .. Len(e) = {}
        BY <4>1, SMT DEF e
      <4>3. ToSet(e) = {} /\ IsInjective(e)
        BY <4>2, InToSet
      <4> QED
        BY <4>3 DEF e
    <3> QED
      BY <3>1, <3>2
  <2>9. Leave(M, "posted")
    <3>1. ASSUME NEW m \in AllMsgs, NEW u \in Tasks, u # t, m \in ToSet(subport[u])
          PROVE  m \notin M
      <4>1. At(m, "posted", u)
        BY <3>1, AtPosted
      <4>2. ~At(m, "posted", t)
        BY <3>1, <4>1, PlaceFacts, Zenon DEF OneAt
      <4> QED
        BY <4>2, AtPosted
    <3>2. ASSUME NEW m \in AllMsgs, NEW x \in Spots
          PROVE  At(m, "posted", x)' <=> At(m, "posted", x) /\ m \notin M
      BY <2>8, <3>1, AtPosted
    <3> QED
      BY <3>2, Zenon DEF Leave
  <2>10. KeptBut({"posted", "port"})
    <3>1. ASSUME NEW u \in Tasks PROVE sub'[u] = "created" <=> sub[u] = "created"
      BY <1>3, <2>1, SMT
    <3>2. Kept("held") /\ Kept("back") /\ Kept("created")
      BY <2>1, <3>1, PlacesKept
    <3> QED
      BY <1>1, <3>2, PlaceFacts DEF KeptBut
  <2>11. SameInUse
    BY <2>1 DEF SameInUse, InUse
  <2>12. Distinct
    BY <1>3, <2>6, <2>8 DEF Distinct
  <2>13. "posted" # "port" /\ "posted" \in PlaceKinds /\ "port" \in PlaceKinds
    BY PlaceFacts
  <2> HIDE DEF M
  <2> QED
    BY <1>1, <1>2, <2>3, <2>4, <2>7, <2>9, <2>10, <2>11, <2>12, <2>13, Transfer,
       Zenon
<1>11. CASE ReleaseRunsema(t)
  <2>1. ASSUME NEW u \in Tasks PROVE sub'[u] = "created" <=> sub[u] = "created"
    BY <1>3, <1>11, SMT DEF ReleaseRunsema
  <2>2. UNCHANGED <<taskport, subport, hold, replied, msg>>
    BY <1>11 DEF ReleaseRunsema, ports
  <2> QED
    BY <1>6, <2>1, <2>2
<1>12. CASE Gettaskmsg(t)
  <2> DEFINE n == Head(subport[t])
  <2>1. /\ hold[t] = Nobody /\ subport[t] # << >>
        /\ hold' = [hold EXCEPT ![t] = n]
        /\ subport' = [subport EXCEPT ![t] = Tail(@)]
        /\ UNCHANGED <<sub, replied, msg, taskport>>
    BY <1>12 DEF Gettaskmsg, ports
  <2>2. subport[t] \in Seq(Msgs) /\ IsInjective(subport[t])
    BY <1>3
  <2>3. /\ n \in Msgs /\ n \in ToSet(subport[t]) /\ Tail(subport[t]) \in Seq(Msgs)
        /\ ToSet(Tail(subport[t])) = ToSet(subport[t]) \ {n}
        /\ IsInjective(Tail(subport[t]))
    BY <2>1, <2>2, TailSet
  <2>4. AllAt({n}, "posted", t)
    BY <2>3, AtPosted DEF AllAt
  <2>5. subport'[t] = Tail(subport[t]) /\ hold'[t] = n
        /\ \A u \in Tasks : u # t => subport'[u] = subport[u] /\ hold'[u] = hold[u]
    BY <1>3, <2>1
  <2>6. n \in AllMsgs /\ n # Nobody
    BY <1>2, <1>3, <2>3
  <2> HIDE DEF n
  <2>7. Leave({n}, "posted")
    <3>1. ASSUME NEW u \in Tasks, u # t PROVE n \notin ToSet(subport[u])
      <4>1. At(n, "posted", t)
        BY <2>3, AtPosted
      <4>2. ~At(n, "posted", u)
        BY <2>6, <3>1, <4>1, PlaceFacts, Zenon DEF OneAt
      <4> QED
        BY <4>2, AtPosted
    <3>2. ASSUME NEW m \in AllMsgs, NEW x \in Spots
          PROVE  At(m, "posted", x)' <=> At(m, "posted", x) /\ m \notin {n}
      BY <2>3, <2>5, <3>1, AtPosted
    <3> QED
      BY <3>2, Zenon DEF Leave
  <2>8. Enter({n}, "held", t)
    <3>1. ASSUME NEW m \in AllMsgs, NEW x \in Spots
          PROVE  At(m, "held", x)' <=> At(m, "held", x) \/ (m \in {n} /\ x = t)
      BY <1>3, <2>1, <2>5, AtHeld
    <3> QED
      BY <3>1, Zenon DEF Enter
  <2>9. KeptBut({"posted", "held"})
    <3>1. Kept("port") /\ Kept("back") /\ Kept("created")
      BY <2>1, PlacesKept
    <3> QED
      BY <1>1, <3>1, PlaceFacts DEF KeptBut
  <2>10. SameInUse
    BY <2>1 DEF SameInUse, InUse
  <2>11. Distinct
    BY <1>3, <2>1, <2>3, <2>5 DEF Distinct
  <2>12. /\ "posted" # "held" /\ "posted" \in PlaceKinds /\ "held" \in PlaceKinds
         /\ {n} \in SUBSET AllMsgs
    BY <2>6, PlaceFacts
  <2> QED
    BY <1>1, <1>2, <2>4, <2>7, <2>8, <2>9, <2>10, <2>11, <2>12, Transfer, Zenon
<1>13. CASE Replytaskmsg(t)
  <2> DEFINE n == hold[t]
  <2>1. /\ hold[t] # Nobody /\ Putmsg(n)
        /\ hold' = [hold EXCEPT ![t] = Nobody]
        /\ UNCHANGED <<sub, subport, replied, msg>>
    BY <1>13 DEF Replytaskmsg, Holds
  <2>2. n \in AllMsgs
    BY <1>2, <1>3, <2>1
  <2>3. At(n, "held", t)
    BY AtHeld
  <2>4. hold'[t] = Nobody /\ \A u \in Tasks : u # t => hold'[u] = hold[u]
    BY <1>3, <2>1
  <2>5. ASSUME NEW u \in Tasks, u # t PROVE hold[u] # n
    <3>1. ~At(n, "held", u)
      BY <2>2, <2>3, <2>5, PlaceFacts, Zenon DEF OneAt
    <3> QED
      BY <3>1, AtHeld
  <2>6. Leave({n}, "held")
    <3>1. ASSUME NEW m \in AllMsgs, NEW x \in Spots
          PROVE  At(m, "held", x)' <=> At(m, "held", x) /\ m \notin {n}
      <4>1. ASSUME NEW u \in Tasks
            PROVE  hold'[u] = m <=> hold[u] = m /\ m # n
        BY <1>3, <2>4, <2>5, SMT
      <4> QED
        BY <4>1, AtHeld, Zenon
    <3> QED
      BY <3>1, Zenon DEF Leave
  <2> HIDE DEF n
  <2>7. IsInjective(taskport') /\ Enter({n}, "port", 0)
    <3>1. n \notin ToSet(taskport)
      BY <1>1, <1>2, <2>2, <2>3, NotAtPort, PlaceFacts
    <3> QED
      BY <1>1, <2>1, <2>2, <3>1, PutAtPort
  <2>8. KeptBut({"held", "port"})
    <3>1. Kept("posted") /\ Kept("back") /\ Kept("created")
      BY <2>1, PlacesKept
    <3> QED
      BY <1>1, <3>1, PlaceFacts DEF KeptBut
  <2>9. SameInUse
    BY <2>1 DEF SameInUse, InUse
  <2>10. Distinct
    BY <1>3, <2>1, <2>7 DEF Distinct
  <2>11. /\ "held" # "port" /\ "held" \in PlaceKinds /\ "port" \in PlaceKinds
         /\ {n} \in SUBSET AllMsgs /\ AllAt({n}, "held", t)
    BY <2>2, <2>3, PlaceFacts DEF AllAt
  <2> QED
    BY <1>1, <1>2, <2>6, <2>7, <2>8, <2>9, <2>10, <2>11, Transfer, Zenon
<1>14. ASSUME NEW n \in AllMsgs, NEW k, Update(n, t, k),
              sub' = [sub EXCEPT ![t] = "update"] \/ UNCHANGED sub
       PROVE  OneAt'
  <2>1. /\ sub[t] = "run" /\ ~InUse(n) /\ Putmsg(n)
        /\ msg' = [msg EXCEPT ![n] = [kind |-> k, task |-> t]]
        /\ UNCHANGED <<subport, hold, replied>>
    BY <1>14 DEF Update, InUse
  <2>2. \A u \in Tasks : sub'[u] = "created" <=> sub[u] = "created"
    BY <1>3, <1>14, <2>1, SMT
  <2> QED
    BY <1>5, <2>1, <2>2
<1>15. CASE UpdateSync(t)
  BY <1>2, <1>14, <1>15, Zenon DEF UpdateSync
<1>16. CASE \E m \in Msgs : UpdateAsync(m, t)
  BY <1>2, <1>14, <1>16 DEF UpdateAsync
<1>17. CASE EntryEnds(t)
  <2>1. sub[t] = "run" /\ sub' = [sub EXCEPT ![t] = "last"]
        /\ UNCHANGED <<subport, hold, replied>>
    BY <1>17 DEF EntryEnds
  <2>2. \A u \in Tasks : sub'[u] = "created" <=> sub[u] = "created"
    BY <1>3, <2>1, SMT
  <2>3. ~InUse(<<t, "last">>)
    BY <2>1 DEF OwnAgree
  <2> QED
    BY <1>2, <1>5, <1>6, <1>17, <2>1, <2>2, <2>3, EndsAs
<1> QED
  BY <1>7, <1>8, <1>9, <1>10, <1>11, <1>12, <1>13, <1>15, <1>16, <1>17, Zenon
  DEF Process, Wrapper
\* The handlers, by what happens to the calls.
LEMMA HandlersKept ==
  ASSUME TypeOK
  PROVE  /\ Grows => Kept("handler")
         /\ \A f : f.at # "update" /\ Adds(f) => Kept("handler")
         /\ depth > 0 /\ ~Handles(depth) /\ Pops => Kept("handler")
         /\ \A f : depth > 0 /\ ~Handles(depth) /\ f.at # "update" /\ Swaps(f)
              => Kept("handler")
<1>1. depth \in Nat
  BY Levels DEF TypeOK
<1>2. ASSUME Grows PROVE Kept("handler")
  <2>1. ASSUME NEW m \in AllMsgs, NEW x \in Spots
        PROVE  At(m, "handler", x)' <=> At(m, "handler", x)
    <3>1. x \in 1 .. depth' /\ calls'[x].at = "update" /\ calls'[x].msg = m
            <=> x \in 1 .. depth /\ Handles(x) /\ calls[x].msg = m
      BY <1>1, <1>2, SMT DEF Grows, Handles
    <3> QED
      BY <3>1, AtHandler
  <2> QED
    BY <2>1, Zenon DEF Kept
<1>3. ASSUME NEW f, f.at # "update", Adds(f) PROVE Kept("handler")
  <2>1. ASSUME NEW m \in AllMsgs, NEW x \in Spots
        PROVE  At(m, "handler", x)' <=> At(m, "handler", x)
    <3>1. x \in 1 .. depth' /\ calls'[x].at = "update" /\ calls'[x].msg = m
            <=> x \in 1 .. depth /\ Handles(x) /\ calls[x].msg = m
      <4>1. depth' \in Nat /\ depth' > depth
        BY <1>3 DEF Adds
      <4>2. CASE x \in 1 .. depth
        BY <1>1, <1>3, <4>1, <4>2, SMT DEF Adds, Handles
      <4>3. CASE x \in depth + 1 .. depth' - 1
        <5>1. calls'[x].at = "loop"
          BY <1>3, <4>3, Zenon DEF Adds
        <5> QED
          BY <1>1, <4>1, <4>3, <5>1, SMT
      <4>4. CASE x = depth'
        <5>1. calls'[x].at # "update"
          BY <1>3, <4>4, Zenon DEF Adds
        <5> QED
          BY <1>1, <4>1, <4>4, <5>1, SMT
      <4>5. CASE x \notin 1 .. depth'
        BY <1>1, <4>1, <4>5, SMT
      <4> QED
        BY <1>1, <4>1, <4>2, <4>3, <4>4, <4>5, SMT
    <3> QED
      BY <3>1, AtHandler
  <2> QED
    BY <2>1, Zenon DEF Kept
<1>4. ASSUME depth > 0, ~Handles(depth), Pops PROVE Kept("handler")
  <2>1. ASSUME NEW m \in AllMsgs, NEW x \in Spots
        PROVE  At(m, "handler", x)' <=> At(m, "handler", x)
    <3>1. x \in 1 .. depth' /\ calls'[x].at = "update" /\ calls'[x].msg = m
            <=> x \in 1 .. depth /\ Handles(x) /\ calls[x].msg = m
      BY <1>1, <1>4, SMT DEF Pops, Handles
    <3> QED
      BY <3>1, AtHandler
  <2> QED
    BY <2>1, Zenon DEF Kept
<1>5. ASSUME NEW f, depth > 0, ~Handles(depth), f.at # "update", Swaps(f)
      PROVE  Kept("handler")
  <2>1. ASSUME NEW m \in AllMsgs, NEW x \in Spots
        PROVE  At(m, "handler", x)' <=> At(m, "handler", x)
    <3>1. x \in 1 .. depth' /\ calls'[x].at = "update" /\ calls'[x].msg = m
            <=> x \in 1 .. depth /\ Handles(x) /\ calls[x].msg = m
      BY <1>1, <1>5, SMT DEF Swaps, Handles
    <3> QED
      BY <3>1, AtHandler
  <2> QED
    BY <2>1, Zenon DEF Kept
<1> QED
  BY <1>2, <1>3, <1>4, <1>5

\* A handler that is called is the place of its message.
LEMMA HandlerCalled ==
  ASSUME TypeOK, NEW n, Adds(NewHandler(n))
  PROVE  Enter({n}, "handler", depth') /\ depth' \in Spots
<1>1. depth \in Nat /\ depth' \in Nat /\ depth' > depth
  BY Levels DEF TypeOK, Adds
<1>2. calls'[depth'].at = "update" /\ calls'[depth'].msg = n
  BY DEF Adds, NewHandler
<1>3. ASSUME NEW m \in AllMsgs, NEW x \in Spots
      PROVE  At(m, "handler", x)'
               <=> At(m, "handler", x) \/ (m \in {n} /\ x = depth')
  <2>1. x \in 1 .. depth' /\ calls'[x].at = "update" /\ calls'[x].msg = m
          <=> \/ x \in 1 .. depth /\ Handles(x) /\ calls[x].msg = m
              \/ m = n /\ x = depth'
    BY <1>1, <1>2, SMT DEF Adds, Handles
  <2> QED
    BY <2>1, AtHandler
<1> QED
  BY <1>1, <1>3, Zenon DEF Enter, Spots

\* A handler that returns is no message's place any more.
LEMMA HandlerLeft ==
  ASSUME TypeOK, OneAt, depth > 0, Handles(depth),
         Pops \/ \E f : f.at # "update" /\ Swaps(f)
  PROVE  /\ Leave({calls[depth].msg}, "handler")
         /\ AllAt({calls[depth].msg}, "handler", depth)
         /\ calls[depth].msg \in AllMsgs /\ depth \in Spots
<1>1. depth \in Nat /\ depth \in 1 .. depth /\ depth \in Spots
  BY Levels, SMT DEF TypeOK, Spots
<1>2. calls[depth].msg \in AllMsgs
  BY <1>1, HandlerInUse
<1>3. At(calls[depth].msg, "handler", depth)
  BY <1>1, AtHandler
<1>4. ASSUME NEW m \in AllMsgs, NEW x \in Spots
      PROVE  At(m, "handler", x)'
               <=> At(m, "handler", x) /\ m \notin {calls[depth].msg}
  <2>1. x \in 1 .. depth' /\ calls'[x].at = "update" /\ calls'[x].msg = m
          <=> /\ x \in 1 .. depth /\ Handles(x) /\ calls[x].msg = m
              /\ x # depth
    BY <1>1, SMT DEF Pops, Swaps, Handles
  <2>2. At(m, "handler", x) => (x = depth <=> m = calls[depth].msg)
    <3>1. ASSUME At(m, "handler", x), m = calls[depth].msg PROVE x = depth
      <4>1. At(m, "handler", depth)
        BY <1>3, <3>1
      <4> QED
        BY <1>1, <3>1, <4>1, PlaceFacts, OnlyThere
    <3> QED
      BY <3>1, AtHandler
  <2> QED
    BY <2>1, <2>2, AtHandler
<1> QED
  BY <1>1, <1>2, <1>3, <1>4, Zenon DEF Leave, AllAt

\* A message that was processed is freed, or back at its subtask.
LEMMA GivenBack ==
  ASSUME TypeOK, KindsAgree, OneAt, Distinct, NEW m \in AllMsgs, InUse(m),
         NEW b \in PlaceKinds, NEW w \in Spots, b # "back",
         AllAt({m}, b, w), Leave({m}, b), KeptBut({b, "back"}), Gives(m)
  PROVE  OneAt'
<1>1. Sender(m) \in Tasks /\ Sender(m) \in Spots /\ "back" \in PlaceKinds
  BY Returning, PlaceFacts
<1>2. CASE /\ m = <<Sender(m), "update">> /\ UNCHANGED msg
           /\ replied' = [replied EXCEPT ![Sender(m)] = TRUE]
  <2>1. Enter({m}, "back", Sender(m))
    <3> DEFINE t == Sender(m)
    <3>1. replied'[t] /\ \A u \in Tasks : u # t => (replied'[u] <=> replied[u])
      BY <1>1, <1>2, SMT DEF TypeOK
    <3> HIDE DEF t
    <3>2. ASSUME NEW n \in AllMsgs, NEW x \in Spots
          PROVE  At(n, "back", x)' <=> At(n, "back", x) \/ (n \in {m} /\ x = t)
      <4>1. CASE x \in Tasks
        <5>1. CASE x = t
          BY <1>1, <1>2, <3>1, <5>1, AtBack DEF t
        <5>2. CASE x # t
          BY <3>1, <4>1, <5>2, AtBack
        <5> QED
          BY <5>1, <5>2
      <4>2. CASE x \notin Tasks
        BY <1>1, <4>2, AtBack DEF t
      <4> QED
        BY <4>1, <4>2
    <3> QED
      BY <3>2, Zenon DEF Enter, t
  <2>2. SameInUse
    BY <1>2 DEF SameInUse, InUse
  <2>3. {m} \in SUBSET AllMsgs
    OBVIOUS
  <2> QED
    BY <1>1, <2>1, <2>2, <2>3, Transfer, Zenon
<1>3. CASE UNCHANGED replied /\ msg' = [msg EXCEPT ![m] = NoMsg]
  <2>1. Kept("back")
    BY <1>3, PlacesKept
  <2>2. KeptBut({b})
    BY <2>1 DEF KeptBut
  <2>3. \A n \in AllMsgs : InUse(n)' <=> InUse(n) /\ n # m
    <3>1. msg \in [AllMsgs -> {NoMsg} \cup [kind : Kinds, task : Tasks]]
      BY DEF TypeOK
    <3> QED
      BY <1>3, <3>1 DEF InUse
  <2>4. At(m, b, w)
    BY Zenon DEF AllAt
  <2> QED
    BY <2>2, <2>3, <2>4, Disappearance, Zenon
<1> QED
  BY <1>2, <1>3, Zenon DEF Gives

\* A message that was taken.
LEMMA LeftPort ==
  ASSUME TypeOK, OneAt, NEW m \in ToSet(taskport), Taken(m), UNCHANGED subport
  PROVE  /\ Leave({m}, "port") /\ AllAt({m}, "port", 0) /\ Distinct
         /\ m \in AllMsgs /\ InUse(m)
<1>1. Leave({m}, "port")
  <2>1. ASSUME NEW n \in AllMsgs, NEW x \in Spots
        PROVE  At(n, "port", x)' <=> At(n, "port", x) /\ n \notin {m}
    BY AtPort DEF Taken
  <2> QED
    BY <2>1, Zenon DEF Leave
<1>2. AllAt({m}, "port", 0)
  BY AtPort DEF AllAt
<1>3. Distinct
  <2>1. \A u \in Tasks : IsInjective(subport[u])
    BY Zenon DEF OneAt
  <2> QED
    BY <2>1 DEF Distinct, Taken
<1> QED
  BY <1>1, <1>2, <1>3, PortInUse

\* The main task keeps every message in one place.
LEMMA OneAtMain ==
  ASSUME IInv, Main \/ HandlerReturns
  PROVE  OneAt'
<1> USE DEF IInv
<1>1. TypeOK /\ KindsAgree /\ OneAt
  OBVIOUS
<1>2. ASSUME NEW m \in AllMsgs, Receives(m) PROVE OneAt'
  <2>1. /\ Leave({m}, "port") /\ AllAt({m}, "port", 0) /\ Distinct
        /\ m \in AllMsgs /\ InUse(m)
    BY <1>1, <1>2, LeftPort, Zenon DEF Receives
  <2>2. Kept("held") /\ Kept("posted") /\ Kept("created")
    BY <1>2, PlacesKept DEF Receives
  <2>3. CASE /\ Adds(NewHandler(m)) /\ UNCHANGED <<ctrlc, replied, msg>>
    <3>1. Enter({m}, "handler", depth') /\ depth' \in Spots
      BY <1>1, <2>3, HandlerCalled
    <3>2. Kept("back") /\ SameInUse
      BY <2>3, PlacesKept DEF SameInUse, InUse
    <3>3. KeptBut({"port", "handler"})
      BY <2>2, <3>2, PlaceFacts DEF KeptBut
    <3>4. {m} \in SUBSET AllMsgs /\ "port" # "handler"
      OBVIOUS
    <3> DEFINE d == depth'
    <3>5. Enter({m}, "handler", d) /\ d \in Spots
      BY <3>1
    <3> HIDE DEF d
    <3> QED
      BY <1>1, <2>1, <3>2, <3>3, <3>4, <3>5, PlaceFacts, Transfer, Zenon
  <2>4. CASE /\ Gives(m)
             /\ Grows \/ Adds(Stopping(Sender(m)))
    <3>1. Kept("handler")
      <4>1. Stopping(Sender(m)).at # "update"
        BY DEF Stopping
      <4> QED
        BY <1>1, <2>4, <4>1, HandlersKept
    <3>2. KeptBut({"port", "back"})
      BY <2>2, <3>1, PlaceFacts DEF KeptBut
    <3> QED
      BY <1>1, <2>1, <2>4, <3>2, PlaceFacts, GivenBack
  <2> QED
    BY <1>2, <2>3, <2>4, Zenon DEF Receives
<1>3. ASSUME NEW m \in AllMsgs, Answered(m) PROVE OneAt'
  <2>1. /\ Leave({m}, "port") /\ AllAt({m}, "port", 0) /\ Distinct
        /\ m \in AllMsgs /\ InUse(m)
    BY <1>1, <1>3, LeftPort, Zenon DEF Answered
  <2>2. Kept("held") /\ Kept("posted") /\ Kept("created")
    BY <1>3, PlacesKept DEF Answered
  <2>3. Kept("handler")
    <3>1. Stopping(Sender(m)).at # "update"
      BY DEF Stopping
    <3>2. depth > 0 /\ ~Handles(depth)
      BY <1>3 DEF Answered, Waits, Handles
    <3>3. Pops \/ Swaps(Stopping(Sender(m)))
      BY <1>3, Zenon DEF Answered
    <3> QED
      BY <1>1, <3>1, <3>2, <3>3, HandlersKept
  <2>4. KeptBut({"port", "back"})
    BY <2>2, <2>3, PlaceFacts DEF KeptBut
  <2> QED
    BY <1>1, <1>3, <2>1, <2>4, PlaceFacts, GivenBack DEF Answered
<1>4. ASSUME NEW m \in AllMsgs, Returned(m) PROVE OneAt'
  <2>1. depth > 0 /\ Handles(depth) /\ calls[depth].msg = m /\ Gives(m)
    BY <1>4 DEF Returned
  <2>2. Pops \/ \E f : f.at # "update" /\ Swaps(f)
    <3>1. Stopping(Sender(m)).at # "update"
      BY DEF Stopping
    <3>2. Pops \/ Swaps(Stopping(Sender(m)))
      BY <1>4, Zenon DEF Returned
    <3> QED
      BY <3>1, <3>2
  <2>3. /\ Leave({m}, "handler") /\ AllAt({m}, "handler", depth)
        /\ depth \in Spots
    BY <1>1, <2>1, <2>2, HandlerLeft
  <2>4. InUse(m)
    BY <1>1, <2>1, <2>3, PlaceFacts, Zenon DEF OneAt, AllAt
  <2>5. Kept("port") /\ Kept("held") /\ Kept("posted") /\ Kept("created")
    BY <1>4, PlacesKept DEF Returned, ports
  <2>6. KeptBut({"handler", "back"})
    BY <2>5, PlaceFacts DEF KeptBut
  <2>7. Distinct
    <3>1. IsInjective(taskport) /\ \A u \in Tasks : IsInjective(subport[u])
      BY Zenon DEF OneAt
    <3> QED
      BY <1>4, <3>1 DEF Distinct, Returned, ports
  <2> QED
    BY <1>1, <2>1, <2>3, <2>4, <2>6, <2>7, PlaceFacts, GivenBack
<1>5. ASSUME UNCHANGED <<taskport, subport, hold, replied, msg, sub>>,
             Kept("handler")
      PROVE  OneAt'
  <2>1. /\ Kept("port") /\ Kept("held") /\ Kept("posted") /\ Kept("back")
        /\ Kept("created")
    BY <1>5, PlacesKept
  <2>2. KeptBut({})
    BY <1>5, <2>1, PlaceFacts DEF KeptBut
  <2>3. SameInUse
    BY <1>5 DEF SameInUse, InUse
  <2>4. Distinct
    <3>1. IsInjective(taskport) /\ \A u \in Tasks : IsInjective(subport[u])
      BY Zenon DEF OneAt
    <3> QED
      BY <1>5, <3>1 DEF Distinct
  <2> QED
    BY <1>1, <2>2, <2>3, <2>4, NoTransfer
<1>6. ASSUME NEW f \in Frames, Waiting(f) PROVE OneAt'
  <2>1. Kept("handler")
    <3>1. depth > 0 /\ ~Handles(depth) /\ f.at # "update" /\ Swaps(f)
      BY <1>6, SMT DEF Waiting, Waits, Stops, Stages, Handles
    <3> QED
      BY <1>1, <3>1, HandlersKept
  <2> QED
    BY <1>5, <1>6, <2>1 DEF Waiting, process
<1>7. CASE Looping
  <2>1. Kept("handler")
    <3>1. Grows \/ (depth > 0 /\ ~Handles(depth) /\ Pops)
      BY <1>7, SMT DEF Looping, Handles
    <3> QED
      BY <1>1, <3>1, HandlersKept
  <2> QED
    BY <1>5, <1>7, <2>1 DEF Looping, process
<1>8. ASSUME NEW t \in Tasks, Freed(t) PROVE OneAt'
  <2>1. Kept("handler")
    <3>1. depth > 0 /\ ~Handles(depth) /\ Pops
      BY <1>8, SMT DEF Freed, Handles
    <3> QED
      BY <1>1, <3>1, HandlersKept
  <2> QED
    BY <1>5, <1>8, <2>1 DEF Freed
<1> QED
  BY <1>2, <1>3, <1>4, <1>6, <1>7, <1>8, MainSteps

-----------------------------------------------------------------------------
(* The steps of objects.                                                   *)

\* Who calls: the event loop, or a handler.
LEMMA Callers ==
  ASSUME TypeOK
  PROVE  /\ MainRuns => \/ depth = 0
                        \/ depth > 0 /\ depth \in 1 .. depth /\ Handles(depth)
         /\ stack = << >> <=> depth = 0
         /\ InHandler => depth > 0 /\ depth \in 1 .. depth /\ Handles(depth)
                         /\ Top = calls[depth]
<1>1. stack \in Seq(Frames)
  BY DEF TypeOK
<1> QED
  BY <1>1, Levels DEF MainRuns, InHandler, In, Handles

\* Disposetask's two cases.
LEMMA DisposesAs ==
  ASSUME TypeOK, NEW t \in Tasks, Disposetask(t)
  PROVE  /\ stack' \in Seq(Frames)
         /\ \/ /\ Busy(t) /\ UNCHANGED <<ctrlc, stack, calls, depth>>
               /\ flags' = [flags EXCEPT ![t] = @ \cup {"DISPOSING", "MUSTDISPOSE"}]
               /\ target' \in [Tasks -> BOOLEAN]
            \/ /\ ~Busy(t) /\ Adds(Stopping(t))
               /\ flags' = [flags EXCEPT ![t] = @ \cup {"DISPOSING"}]
               /\ ctrlc' \in [Tasks -> BOOLEAN] /\ UNCHANGED target
<1>1. stack \in Seq(Frames) /\ ctrlc \in [Tasks -> BOOLEAN]
      /\ target \in [Tasks -> BOOLEAN]
  BY DEF TypeOK
<1>2. CASE Busy(t)
  <2>1. /\ flags' = [flags EXCEPT ![t] = @ \cup {"DISPOSING", "MUSTDISPOSE"}]
        /\ target' = [target EXCEPT ![t] = FALSE]
        /\ UNCHANGED <<ctrlc, stack>>
    BY <1>2, Zenon DEF Disposetask
  <2>2. target' \in [Tasks -> BOOLEAN]
    BY <1>1, <2>1, SMT
  <2>3. UNCHANGED <<calls, depth>>
    BY <2>1 DEF calls, depth
  <2> QED
    BY <1>1, <1>2, <2>1, <2>2, <2>3
<1>3. CASE ~Busy(t)
  <2>1. /\ flags' = [flags EXCEPT ![t] = @ \cup {"DISPOSING"}]
        /\ ctrlc' = Signalled(t)
        /\ stack' = Call(Stopping(t), stack)
        /\ UNCHANGED target
    BY <1>3, Zenon DEF Disposetask
  <2>2. Signalled(t) \in [Tasks -> BOOLEAN]
    BY <1>1, SMT DEF Signalled
  <2>3. Stopping(t) \in Frames
    BY FrameFields DEF Stopping, Stages
  <2>4. stack' \in Seq(Frames) /\ Adds(Stopping(t))
    BY <1>1, <2>1, <2>3, Added
  <2> QED
    BY <1>3, <2>1, <2>2, <2>4, Zenon
<1> QED
  BY <1>2, <1>3

StartWait(t) == [at |-> "wait", msg |-> <<t, "startup">>]
WaitFor(m) == [at |-> "wait", msg |-> m]

\* A wait that is called.
LEMMA WaitCalled ==
  ASSUME TypeOK, NEW m \in AllMsgs, stack' = Call([at |-> "wait", msg |-> m], stack)
  PROVE  stack' \in Seq(Frames) /\ Adds(WaitFor(m))
<1>1. stack \in Seq(Frames)
  BY DEF TypeOK
<1>2. WaitFor(m) \in Frames
  BY FrameFields DEF WaitFor
<1> QED
  BY <1>1, <1>2, Added DEF WaitFor

\* What objects do keeps the types.
LEMMA TypeObject ==
  ASSUME TypeOK, NEW t \in Tasks, Object(t)
  PROVE  TypeOK'
<1>1. <<t, "startup">> \in AllMsgs /\ Msgs \subseteq AllMsgs
  BY OwnFacts DEF OwnKinds, AllMsgs
<1>2. /\ NoMsg \in {NoMsg} \cup [kind : Kinds, task : Tasks]
      /\ \A k \in Kinds : [kind |-> k, task |-> t] \in [kind : Kinds, task : Tasks]
  BY SMT
<1>3. CASE Newtask(t)
  BY <1>3, SMT DEF Newtask, TypeOK, States, process, ports, semas
<1>4. CASE Starttask(t)
  <2>1. stack' \in Seq(Frames)
    BY <1>1, <1>4, WaitCalled DEF Starttask
  <2>2. msg' \in [AllMsgs -> {NoMsg} \cup [kind : Kinds, task : Tasks]]
    <3>1. msg' = [msg EXCEPT ![<<t, "startup">>] = [kind |-> "startup", task |-> t]]
      BY <1>4 DEF Starttask
    <3>2. [kind |-> "startup", task |-> t] \in [kind : Kinds, task : Tasks]
      BY <1>2 DEF Kinds
    <3> QED
      BY <1>1, <3>1, <3>2 DEF TypeOK
  <2> QED
    BY <1>4, <2>1, <2>2, SMT DEF Starttask, TypeOK, Places, object, ports, semas
<1>5. CASE StarttaskFails(t)
  BY <1>5, SMT DEF StarttaskFails, TypeOK, States, process, ports, semas
<1>6. CASE StoptaskAsync(t)
  BY <1>6, SMT DEF StoptaskAsync, TypeOK, object, ports, semas
<1>7. CASE Disposetask(t)
  <2>1. /\ stack' \in Seq(Frames)
        /\ ctrlc' \in [Tasks -> BOOLEAN] /\ target' \in [Tasks -> BOOLEAN]
    BY <1>7, DisposesAs DEF TypeOK
  <2>2. flags' \in [Tasks -> SUBSET Flags]
    <3>1. /\ flags[t] \cup {"DISPOSING", "MUSTDISPOSE"} \in SUBSET Flags
          /\ flags[t] \cup {"DISPOSING"} \in SUBSET Flags
          /\ flags \in [Tasks -> SUBSET Flags]
      BY DEF TypeOK, Flags
    <3>2. CASE flags' = [flags EXCEPT ![t] = @ \cup {"DISPOSING", "MUSTDISPOSE"}]
      BY <3>1, <3>2
    <3>3. CASE flags' = [flags EXCEPT ![t] = @ \cup {"DISPOSING"}]
      BY <3>1, <3>3
    <3> QED
      BY <1>7, <3>2, <3>3, DisposesAs
  <2>3. UNCHANGED <<state, updport, sub, subport, hold, replied, msg, ports, semas>>
    BY <1>7 DEF Disposetask
  <2> QED
    BY <2>1, <2>2, <2>3, SMT DEF TypeOK, ports, semas
<1>8. ASSUME NEW m \in Msgs, NEW k \in Kinds, Post(m, k, t)
      PROVE  /\ msg' \in [AllMsgs -> {NoMsg} \cup [kind : Kinds, task : Tasks]]
             /\ subport' \in [Tasks -> Seq(Msgs)]
  <2>1. msg' = [msg EXCEPT ![m] = [kind |-> k, task |-> t]]
        /\ subport' = [subport EXCEPT ![t] = Append(@, m)]
    BY <1>8 DEF Post
  <2>2. msg \in [AllMsgs -> {NoMsg} \cup [kind : Kinds, task : Tasks]]
        /\ subport \in [Tasks -> Seq(Msgs)]
    BY DEF TypeOK
  <2>3. Append(subport[t], m) \in Seq(Msgs)
    BY <2>2, SMT
  <2> QED
    BY <1>1, <1>2, <2>1, <2>2, <2>3
<1>9. ASSUME NEW m \in Msgs, AsetattrsasyncA(m, t) PROVE TypeOK'
  <2>1. /\ msg' \in [AllMsgs -> {NoMsg} \cup [kind : Kinds, task : Tasks]]
        /\ subport' \in [Tasks -> Seq(Msgs)]
    BY <1>8, <1>9 DEF AsetattrsasyncA, Kinds
  <2>2. UNCHANGED <<object, updport, sub, ctrlc, hold, replied, ports, semas, stack>>
    BY <1>9 DEF AsetattrsasyncA
  <2> QED
    BY <2>1, <2>2, SMT DEF TypeOK, object, ports, semas
<1>10. ASSUME NEW m \in Msgs, AsetattrssyncA(m, t) PROVE TypeOK'
  <2>1. /\ msg' \in [AllMsgs -> {NoMsg} \cup [kind : Kinds, task : Tasks]]
        /\ subport' \in [Tasks -> Seq(Msgs)]
    BY <1>8, <1>10 DEF AsetattrssyncA, Kinds
  <2>2. stack' \in Seq(Frames)
    BY <1>1, <1>10, WaitCalled DEF AsetattrssyncA
  <2>3. UNCHANGED <<object, updport, sub, ctrlc, hold, replied, ports, semas>>
    BY <1>10 DEF AsetattrssyncA
  <2> QED
    BY <2>1, <2>2, <2>3, SMT DEF TypeOK, object, ports, semas
<1> QED
  BY <1>3, <1>4, <1>5, <1>6, <1>7, <1>9, <1>10 DEF Object

\* A message is put at the port of a subtask.
LEMMA Posted ==
  ASSUME TypeOK, OneAt, NEW t \in Tasks, NEW m \in Msgs, NEW k, Post(m, k, t),
         UNCHANGED <<sub, hold, replied, taskport>>, Kept("handler")
  PROVE  OneAt'
<1>1. /\ m \in AllMsgs /\ ~InUse(m) /\ t \in Spots /\ "posted" \in PlaceKinds
      /\ msg' = [msg EXCEPT ![m] = [kind |-> k, task |-> t]]
      /\ subport' = [subport EXCEPT ![t] = Append(@, m)]
  BY PlaceFacts DEF Post, Unused, InUse, AllMsgs
<1>2. subport \in [Tasks -> Seq(Msgs)] /\ subport[t] \in Seq(Msgs)
      /\ msg \in [AllMsgs -> {NoMsg} \cup [kind : Kinds, task : Tasks]]
  BY DEF TypeOK
<1>3. \A u \in Tasks : IsInjective(subport[u])
  BY Zenon DEF OneAt
<1>4. m \notin ToSet(subport[t])
  <2>1. ~At(m, "posted", t)
    BY <1>1, OnlyThere
  <2> QED
    BY <2>1, AtPosted
<1>5. /\ subport'[t] = Append(subport[t], m)
      /\ ToSet(subport'[t]) = ToSet(subport[t]) \cup {m}
      /\ IsInjective(subport'[t])
      /\ \A u \in Tasks : u # t => subport'[u] = subport[u]
  <2>1. /\ subport'[t] = Append(subport[t], m)
        /\ \A u \in Tasks : u # t => subport'[u] = subport[u]
    BY <1>1, <1>2
  <2>2. /\ ToSet(Append(subport[t], m)) = ToSet(subport[t]) \cup {m}
        /\ IsInjective(Append(subport[t], m))
    BY <1>2, <1>3, <1>4, AppendSet
  <2> QED
    BY <2>1, <2>2
<1>6. Enter({m}, "posted", t)
  <2>1. ASSUME NEW n \in AllMsgs, NEW x \in Spots
        PROVE  At(n, "posted", x)' <=> At(n, "posted", x) \/ (n \in {m} /\ x = t)
    <3>1. ASSUME NEW u \in Tasks
          PROVE  n \in ToSet(subport'[u]) <=> n \in ToSet(subport[u]) \/ (n = m /\ u = t)
      BY <1>5, Zenon
    <3> QED
      BY <3>1, AtPosted
  <2> QED
    BY <2>1, Zenon DEF Enter
<1>7. KeptBut({"posted"})
  <2>1. Kept("port") /\ Kept("held") /\ Kept("back") /\ Kept("created")
    BY PlacesKept
  <2> QED
    BY <2>1, PlaceFacts DEF KeptBut
<1>8. Distinct
  <2>1. IsInjective(taskport)
    BY Zenon DEF OneAt
  <2> QED
    BY <1>3, <1>5, <2>1 DEF Distinct
<1>9. \A n \in AllMsgs : InUse(n)' <=> InUse(n) \/ n = m
  <2>1. [kind |-> k, task |-> t] # NoMsg
    BY SMT DEF NoMsg
  <2> QED
    BY <1>1, <1>2, <2>1, SMT DEF InUse
<1> QED
  BY <1>1, <1>6, <1>7, <1>8, <1>9, Appearance, Zenon

\* What objects do keeps every message in one place.
LEMMA OneAtObject ==
  ASSUME IInv, NEW t \in Tasks, Object(t)
  PROVE  OneAt'
<1> USE DEF IInv
<1>1. TypeOK /\ OneAt /\ t \in Spots /\ "created" \in PlaceKinds
      /\ IsInjective(taskport) /\ \A u \in Tasks : IsInjective(subport[u])
  BY PlaceFacts, Zenon DEF OneAt
<1>2. ASSUME UNCHANGED <<taskport, subport, hold, replied, msg, sub>>,
             Kept("handler")
      PROVE  OneAt'
  <2>1. /\ Kept("port") /\ Kept("held") /\ Kept("posted") /\ Kept("back")
        /\ Kept("created")
    BY <1>2, PlacesKept
  <2>2. KeptBut({})
    BY <1>2, <2>1, PlaceFacts DEF KeptBut
  <2>3. SameInUse
    BY <1>2 DEF SameInUse, InUse
  <2>4. Distinct
    BY <1>1, <1>2 DEF Distinct
  <2> QED
    BY <1>1, <2>2, <2>3, <2>4, NoTransfer
<1>3. ASSUME UNCHANGED stack PROVE Kept("handler")
  BY <1>3, PlacesKept DEF calls, depth
<1>4. ASSUME NEW m \in AllMsgs, stack' = Call([at |-> "wait", msg |-> m], stack)
      PROVE  Kept("handler")
  <2>1. Adds(WaitFor(m)) /\ WaitFor(m).at # "update"
    BY <1>1, <1>4, WaitCalled DEF WaitFor
  <2> QED
    BY <1>1, <2>1, HandlersKept
<1>5. CASE Newtask(t)
  BY <1>2, <1>3, <1>5 DEF Newtask, process, ports
<1>6. CASE StarttaskFails(t)
  BY <1>2, <1>3, <1>6 DEF StarttaskFails, process, ports
<1>7. CASE StoptaskAsync(t)
  BY <1>2, <1>3, <1>7 DEF StoptaskAsync, ports
<1>8. CASE Disposetask(t)
  <2>1. Kept("handler")
    <3>1. Stopping(t).at # "update"
      BY DEF Stopping
    <3> QED
      BY <1>1, <1>3, <1>8, <3>1, DisposesAs, HandlersKept
  <2> QED
    BY <1>2, <1>8, <2>1 DEF Disposetask, ports
<1>9. CASE Starttask(t)
  <2> DEFINE n == <<t, "startup">>
  <2>1. /\ state[t] = "NEW" /\ sub' = [sub EXCEPT ![t] = "created"]
        /\ msg' = [msg EXCEPT ![n] = [kind |-> "startup", task |-> t]]
        /\ stack' = Call([at |-> "wait", msg |-> n], stack)
        /\ UNCHANGED <<taskport, subport, hold, replied>>
    BY <1>9 DEF Starttask, CanStart, ports
  <2>2. n \in AllMsgs
    BY OwnFacts DEF OwnKinds
  <2>3. ~InUse(n)
    <3>1. MainRuns
      BY <1>9 DEF Starttask, CanStart
    <3>2. ~(depth > 0 /\ Waits(depth))
      BY <1>1, <3>1, Callers, SMT DEF Handles, Waits
    <3> QED
      BY <3>2, Zenon DEF StartupFirst
  <2>4. Kept("handler")
    BY <1>4, <2>1, <2>2
  <2>5. Enter({n}, "created", t)
    <3>1. ASSUME NEW u \in Tasks
          PROVE  sub'[u] = "created" <=> sub[u] = "created" \/ u = t
      BY <2>1 DEF TypeOK
    <3>2. ASSUME NEW m \in AllMsgs, NEW x \in Spots
          PROVE  At(m, "created", x)' <=> At(m, "created", x) \/ (m \in {n} /\ x = t)
      BY <3>1, AtCreated
    <3> QED
      BY <3>2, Zenon DEF Enter
  <2>6. KeptBut({"created"})
    <3>1. Kept("port") /\ Kept("held") /\ Kept("posted") /\ Kept("back")
      BY <2>1, PlacesKept
    <3> QED
      BY <2>4, <3>1, PlaceFacts DEF KeptBut
  <2>7. Distinct
    BY <1>1, <2>1 DEF Distinct
  <2>8. \A m \in AllMsgs : InUse(m)' <=> InUse(m) \/ m = n
    <3>1. [kind |-> "startup", task |-> t] # NoMsg
      BY SMT DEF NoMsg
    <3> QED
      BY <2>1, <3>1, SMT DEF InUse, TypeOK
  <2> HIDE DEF n
  <2> QED
    BY <1>1, <2>2, <2>3, <2>5, <2>6, <2>7, <2>8, Appearance, Zenon
<1>10. ASSUME NEW m \in Msgs, AsetattrsasyncA(m, t) PROVE OneAt'
  <2>1. Kept("handler")
    BY <1>3, <1>10 DEF AsetattrsasyncA
  <2> QED
    BY <1>1, <1>10, <2>1, Posted DEF AsetattrsasyncA, ports
<1>11. ASSUME NEW m \in Msgs, AsetattrssyncA(m, t) PROVE OneAt'
  <2>1. Kept("handler")
    BY <1>4, <1>11 DEF AsetattrssyncA, AllMsgs
  <2> QED
    BY <1>1, <1>11, <2>1, Posted DEF AsetattrssyncA, ports
<1> QED
  BY <1>5, <1>6, <1>7, <1>8, <1>9, <1>10, <1>11 DEF Object

-----------------------------------------------------------------------------
(* What subtasks do to the messages.                                       *)

\* A message that subtask t made.
Made(m, t) ==
  \/ m \in Msgs /\ msg'[m] = [kind |-> "async", task |-> t]
  \/ \E k \in {"update", "last"} :
       m = <<t, k>> /\ msg'[m] = [kind |-> k, task |-> t]

\* What a subtask does to a message structure.
LEMMA SubtaskMessages ==
  ASSUME IInv, NEW t \in Tasks, Process(t), NEW m \in AllMsgs
  PROVE  \/ msg'[m] = msg[m]
         \/ /\ m = <<t, "update">> /\ ~InUse(m)'
            /\ sub[t] = "update" /\ replied[t] /\ sub'[t] = "run"
         \/ /\ ~InUse(m) /\ Made(m, t)
            /\ m = <<t, "update">> => sub'[t] = "update"
            /\ m = <<t, "last">> => sub'[t] = "last"
<1> USE DEF IInv
<1>1. /\ msg \in [AllMsgs -> {NoMsg} \cup [kind : Kinds, task : Tasks]]
      /\ sub \in [Tasks -> Places]
  BY DEF TypeOK
<1>2. <<t, "update">> # <<t, "last">> /\ <<t, "update">> \notin Msgs
      /\ <<t, "last">> \notin Msgs
  BY OwnFacts DEF OwnKinds
<1>3. CASE UNCHANGED msg
  BY <1>3
<1>4. CASE Updated(t)
  <2>1. /\ msg' = [msg EXCEPT ![<<t, "update">>] = NoMsg]
        /\ sub[t] = "update" /\ replied[t] /\ sub' = [sub EXCEPT ![t] = "run"]
    BY <1>4 DEF Updated
  <2> QED
    BY <1>1, <2>1 DEF InUse
<1>5. CASE UpdateSync(t)
  <2>1. /\ msg' = [msg EXCEPT ![<<t, "update">>] = [kind |-> "update", task |-> t]]
        /\ ~InUse(<<t, "update">>) /\ sub' = [sub EXCEPT ![t] = "update"]
    BY <1>5 DEF UpdateSync, Update, InUse
  <2> QED
    BY <1>1, <1>2, <2>1 DEF Made
<1>6. ASSUME NEW n \in Msgs, UpdateAsync(n, t)
      PROVE  msg'[m] = msg[m] \/ (~InUse(m) /\ Made(m, t) /\ m \in Msgs)
  <2>1. /\ msg' = [msg EXCEPT ![n] = [kind |-> "async", task |-> t]]
        /\ ~InUse(n)
    BY <1>6 DEF UpdateAsync, Update, InUse
  <2> QED
    BY <1>1, <2>1 DEF Made
<1>7. CASE EntryEnds(t)
  <2>1. sub[t] = "run" /\ sub' = [sub EXCEPT ![t] = "last"]
    BY <1>7 DEF EntryEnds
  <2>2. ~InUse(<<t, "last">>)
    BY <2>1 DEF OwnAgree
  <2>3. CASE msg' = [msg EXCEPT ![<<t, "last">>] = [kind |-> "last", task |-> t]]
    BY <1>1, <1>2, <2>1, <2>2, <2>3 DEF Made
  <2> QED
    BY <1>3, <1>7, <2>3, EndsAs
<1>8. CASE \/ \E upd \in BOOLEAN : Subtask(t, upd)
           \/ SubtaskFails(t) \/ SubtaskEnds(t) \/ ReleaseRunsema(t)
           \/ Gettaskmsg(t) \/ Replytaskmsg(t)
  BY <1>3, <1>8 DEF Subtask, SubtaskFails, SubtaskEnds, ReleaseRunsema, Gettaskmsg,
                    Replytaskmsg
<1> QED
  BY <1>2, <1>4, <1>5, <1>6, <1>7, <1>8 DEF Process, Wrapper

\* The state of the object and of the process.
LEMMA SubtaskStates ==
  ASSUME IInv, NEW t \in Tasks, Process(t)
  PROVE  /\ \A u \in Tasks \ {t} :
              /\ state'[u] = state[u] /\ sub'[u] = sub[u]
              /\ hold'[u] = hold[u] /\ subport'[u] = subport[u]
         /\ state'[t] \in {"RUN", "DEAD"} /\ sub[t] # "none"
         /\ state'[t] = "RUN" => sub'[t] \in {"run", "update", "last"}
         /\ state'[t] = "DEAD" => sub'[t] \in {"none", "ending", "failed"}
         /\ hold'[t] # Nobody => sub'[t] \in {"run", "update"}
         /\ subport'[t] # << >> => state'[t] = "RUN"
         /\ hold'[t] \in {hold[t], Nobody} \cup ToSet(subport[t])
         /\ ToSet(subport'[t]) \subseteq ToSet(subport[t])
<1> USE DEF IInv
<1>1. /\ state \in [Tasks -> States] /\ sub \in [Tasks -> Places]
      /\ hold \in [Tasks -> Msgs \cup {Nobody}]
      /\ subport \in [Tasks -> Seq(Msgs)]
  BY DEF TypeOK
<1>2. /\ state[t] = "FREE" => sub[t] = "none"
      /\ state[t] = "NEW" => sub[t] \in {"none", "created"}
      /\ state[t] = "RUN" => sub[t] \in {"run", "update", "last"}
      /\ state[t] = "DEAD" => sub[t] \in {"none", "ending", "failed"}
      /\ hold[t] # Nobody => sub[t] \in {"run", "update"}
      /\ subport[t] # << >> => state[t] = "RUN"
      /\ state[t] \in States
  BY <1>1 DEF StatesAgree
<1>3. CASE Subtask(t, TRUE) \/ Subtask(t, FALSE)
  BY <1>1, <1>2, <1>3, SMT DEF Subtask
<1>4. CASE SubtaskFails(t)
  BY <1>1, <1>2, <1>4, SMT DEF SubtaskFails
<1>5. CASE Updated(t)
  BY <1>1, <1>2, <1>5, SMT DEF Updated, object, States
<1>6. CASE SubtaskEnds(t)
  <2>1. ToSet(<< >>) = {}
    BY SMT DEF ToSet
  <2> QED
    BY <1>1, <1>2, <1>6, <2>1, SMT DEF SubtaskEnds
<1>7. CASE ReleaseRunsema(t)
  BY <1>1, <1>2, <1>7, SMT DEF ReleaseRunsema, object, States
<1>8. CASE Gettaskmsg(t)
  <2>1. IsInjective(subport[t]) /\ subport[t] \in Seq(Msgs)
    BY <1>1 DEF OneAt
  <2>2. Head(subport[t]) \in ToSet(subport[t])
        /\ ToSet(Tail(subport[t])) \subseteq ToSet(subport[t])
    BY <1>8, <2>1, TailSet DEF Gettaskmsg
  <2> QED
    BY <1>1, <1>2, <1>8, <2>2, SMT DEF Gettaskmsg, object, States
<1>9. CASE Replytaskmsg(t)
  BY <1>1, <1>2, <1>9, SMT DEF Replytaskmsg, Holds, object, States
<1>10. CASE UpdateSync(t)
  BY <1>1, <1>2, <1>10, SMT DEF UpdateSync, Update, object, States
<1>11. CASE \E n \in Msgs : UpdateAsync(n, t)
  BY <1>1, <1>2, <1>11, SMT DEF UpdateAsync, Update, object, States
<1>12. CASE EntryEnds(t)
  <2>1. /\ sub[t] = "run" /\ hold[t] = Nobody
        /\ sub' = [sub EXCEPT ![t] = "last"]
        /\ UNCHANGED <<object, subport, hold>>
    BY <1>12 DEF EntryEnds
  <2> QED
    BY <1>1, <1>2, <2>1, SMT DEF object, States
<1> QED
  BY <1>3, <1>4, <1>5, <1>6, <1>7, <1>8, <1>9, <1>10, <1>11, <1>12
  DEF Process, Wrapper

\* Messages are added at the end of the port, and are the subtask's.
LEMMA SubtaskPort ==
  ASSUME IInv, NEW t \in Tasks, Process(t)
  PROVE  /\ Len(taskport') >= Len(taskport)
         /\ \A i \in 1 .. Len(taskport) : taskport'[i] = taskport[i]
         /\ \A m \in ToSet(taskport') : m \in ToSet(taskport) \/ Sender(m)' = t
         /\ sub[t] = "created"
              => /\ Len(taskport') = Len(taskport) + 1
                 /\ taskport'[Len(taskport) + 1] = <<t, "startup">>
<1> USE DEF IInv
<1>1. taskport \in Seq(AllMsgs) /\ Len(taskport) \in Nat
      /\ msg \in [AllMsgs -> {NoMsg} \cup [kind : Kinds, task : Tasks]]
  BY DEF TypeOK
<1>2. /\ <<t, "startup">> \in AllMsgs /\ <<t, "update">> \in AllMsgs
      /\ <<t, "last">> \in AllMsgs /\ Msgs \subseteq AllMsgs
  BY OwnFacts DEF OwnKinds, AllMsgs
<1>3. ASSUME NEW n \in AllMsgs, Putmsg(n)
      PROVE  /\ Len(taskport') = Len(taskport) + 1
             /\ \A i \in 1 .. Len(taskport) : taskport'[i] = taskport[i]
             /\ taskport'[Len(taskport) + 1] = n
             /\ \A m \in ToSet(taskport') : m \in ToSet(taskport) \/ m = n
  <2>1. taskport' = Append(taskport, n)
    BY <1>3 DEF Putmsg
  <2>2. ToSet(taskport') = ToSet(taskport) \cup {n}
    BY <1>1, <2>1, AppendSet
  <2> QED
    BY <1>1, <2>1, <2>2, SMT
<1>4. ASSUME NEW n \in AllMsgs, NEW k, Putmsg(n),
             msg' = [msg EXCEPT ![n] = [kind |-> k, task |-> t]]
      PROVE  /\ Len(taskport') >= Len(taskport)
             /\ \A i \in 1 .. Len(taskport) : taskport'[i] = taskport[i]
             /\ \A m \in ToSet(taskport') : m \in ToSet(taskport) \/ Sender(m)' = t
  <2>1. Sender(n)' = t
    BY <1>1, <1>4 DEF Sender
  <2>2. \A m \in ToSet(taskport') : m \in ToSet(taskport) \/ Sender(m)' = t
    BY <1>3, <1>4, <2>1
  <2> QED
    BY <1>1, <1>3, <1>4, <2>2, SMT
<1>5. CASE UNCHANGED taskport /\ sub[t] # "created"
  BY <1>1, <1>5, SMT
<1>6. CASE (\E upd \in BOOLEAN : Subtask(t, upd)) \/ SubtaskFails(t)
  <2>1. /\ sub[t] = "created" /\ Putmsg(<<t, "startup">>) /\ UNCHANGED msg
    BY <1>6 DEF Subtask, SubtaskFails
  <2>2. Sender(<<t, "startup">>)' = t
    <3>1. At(<<t, "startup">>, "created", t)
      BY <2>1, AtCreated
    <3>2. InUse(<<t, "startup">>)
      BY <1>2, <3>1, PlaceFacts, Zenon DEF OneAt
    <3>3. Sender(<<t, "startup">>) = t
      BY <3>2, OwnMessages DEF OwnKinds
    <3> QED
      BY <2>1, <3>3 DEF Sender
  <2>3. \A m \in ToSet(taskport') : m \in ToSet(taskport) \/ Sender(m)' = t
    BY <1>2, <1>3, <2>1, <2>2
  <2> QED
    BY <1>1, <1>2, <1>3, <2>1, <2>3, SMT
<1>7. CASE Updated(t) \/ ReleaseRunsema(t) \/ Gettaskmsg(t)
  BY <1>5, <1>7, SMT DEF Updated, ReleaseRunsema, Gettaskmsg, ports
<1>8. CASE SubtaskEnds(t)
  <2>1. /\ sub[t] = "last" /\ taskport' = taskport \o subport[t] /\ UNCHANGED msg
    BY <1>8 DEF SubtaskEnds, ReplyAll
  <2>2. subport[t] \in Seq(AllMsgs)
    <3>1. subport[t] \in Seq(Msgs)
      BY DEF TypeOK
    <3> QED
      BY <1>2, <3>1, SMT
  <2>3. /\ Len(taskport') >= Len(taskport)
        /\ \A i \in 1 .. Len(taskport) : taskport'[i] = taskport[i]
        /\ ToSet(taskport') = ToSet(taskport) \cup ToSet(subport[t])
    BY <1>1, <2>1, <2>2, ConcatSet
  <2>4. \A m \in ToSet(subport[t]) : Sender(m)' = t
    BY <2>1 DEF KindsAgree, Sender
  <2> QED
    BY <2>1, <2>3, <2>4
<1>9. CASE Replytaskmsg(t)
  <2>1. PICK n : n = hold[t]
    OBVIOUS
  <2>2. /\ sub[t] = "run" /\ n # Nobody /\ Putmsg(n) /\ UNCHANGED msg
    BY <1>9, <2>1 DEF Replytaskmsg, Holds
  <2>3. n \in AllMsgs
    BY <1>2, <2>1, <2>2 DEF TypeOK
  <2>4. Sender(n)' = t
    BY <2>1, <2>2 DEF KindsAgree, Sender
  <2>5. \A m \in ToSet(taskport') : m \in ToSet(taskport) \/ Sender(m)' = t
    BY <1>3, <2>2, <2>3, <2>4
  <2> QED
    BY <1>1, <1>3, <2>2, <2>3, <2>5, SMT
<1>10. CASE UpdateSync(t)
  <2>1. /\ sub[t] = "run" /\ Putmsg(<<t, "update">>)
        /\ msg' = [msg EXCEPT ![<<t, "update">>] = [kind |-> "update", task |-> t]]
    BY <1>10 DEF UpdateSync, Update
  <2> QED
    BY <1>2, <1>4, <2>1
<1>11. ASSUME NEW n \in Msgs, UpdateAsync(n, t)
       PROVE  /\ sub[t] = "run" /\ Len(taskport') >= Len(taskport)
              /\ \A i \in 1 .. Len(taskport) : taskport'[i] = taskport[i]
              /\ \A m \in ToSet(taskport') : m \in ToSet(taskport) \/ Sender(m)' = t
  <2>1. /\ sub[t] = "run" /\ Putmsg(n)
        /\ msg' = [msg EXCEPT ![n] = [kind |-> "async", task |-> t]]
    BY <1>11 DEF UpdateAsync, Update
  <2> QED
    BY <1>2, <1>4, <2>1
<1>12. CASE EntryEnds(t)
  <2>1. sub[t] = "run"
    BY <1>12 DEF EntryEnds
  <2> QED
    BY <1>2, <1>4, <1>5, <1>12, <2>1, EndsAs
<1> QED
  BY <1>6, <1>7, <1>8, <1>9, <1>10, <1>11, <1>12 DEF Process, Wrapper

-----------------------------------------------------------------------------
(* What a message is.                                                      *)

\* The main task only frees messages.
LEMMA MainMessages ==
  ASSUME IInv, Main \/ HandlerReturns
  PROVE  /\ ToSet(taskport') \subseteq ToSet(taskport)
         /\ \A m \in AllMsgs : \/ msg'[m] = msg[m]
                               \/ ~InUse(m)' /\ ~Is(m, {"update"})
         /\ UNCHANGED <<sub, subport, hold>>
<1> USE DEF IInv
<1>1. msg \in [AllMsgs -> {NoMsg} \cup [kind : Kinds, task : Tasks]]
  BY DEF TypeOK
<1>2. ASSUME NEW m \in AllMsgs, Gives(m), NEW n \in AllMsgs
      PROVE  \/ msg'[n] = msg[n]
             \/ ~InUse(n)' /\ ~Is(n, {"update"})
  <2>1. CASE UNCHANGED msg
    BY <2>1
  <2>2. CASE msg' = [msg EXCEPT ![m] = NoMsg] /\ ~Is(m, {"update"})
    BY <1>1, <2>2 DEF InUse
  <2> QED
    BY <1>2, <2>1, <2>2, Zenon DEF Gives
<1>3. ASSUME NEW m \in AllMsgs, Receives(m)
      PROVE  /\ ToSet(taskport') \subseteq ToSet(taskport)
             /\ \A n \in AllMsgs : \/ msg'[n] = msg[n]
                                   \/ ~InUse(n)' /\ ~Is(n, {"update"})
             /\ UNCHANGED <<sub, subport, hold>>
  <2>1. /\ ToSet(taskport') \subseteq ToSet(taskport)
        /\ UNCHANGED <<sub, subport, hold>>
    BY <1>3 DEF Receives, Taken
  <2>2. UNCHANGED msg \/ Gives(m)
    BY <1>3, Zenon DEF Receives
  <2> QED
    BY <1>2, <2>1, <2>2
<1>4. ASSUME NEW m \in AllMsgs, Answered(m)
      PROVE  /\ ToSet(taskport') \subseteq ToSet(taskport)
             /\ \A n \in AllMsgs : \/ msg'[n] = msg[n]
                                   \/ ~InUse(n)' /\ ~Is(n, {"update"})
             /\ UNCHANGED <<sub, subport, hold>>
  BY <1>2, <1>4 DEF Answered, Taken
<1>5. ASSUME NEW m \in AllMsgs, Returned(m)
      PROVE  /\ ToSet(taskport') \subseteq ToSet(taskport)
             /\ \A n \in AllMsgs : \/ msg'[n] = msg[n]
                                   \/ ~InUse(n)' /\ ~Is(n, {"update"})
             /\ UNCHANGED <<sub, subport, hold>>
  BY <1>2, <1>5 DEF Returned, ports
<1>6. CASE \/ \E f \in Frames : Waiting(f)
           \/ Looping
           \/ \E t \in Tasks : Freed(t)
  BY <1>6 DEF Waiting, Looping, Freed, process
<1> QED
  BY <1>3, <1>4, <1>5, <1>6, MainSteps

\* Objects only make messages.
LEMMA ObjectMessages ==
  ASSUME IInv, NEW t \in Tasks, Object(t)
  PROVE  /\ \A m \in AllMsgs :
              \/ msg'[m] = msg[m]
              \/ /\ ~InUse(m) /\ m \in Msgs
                 /\ \E k \in {"send", "set"} : msg'[m] = [kind |-> k, task |-> t]
              \/ /\ ~InUse(m) /\ m = <<t, "startup">> /\ Starttask(t)
                 /\ msg'[m] = [kind |-> "startup", task |-> t]
         /\ \A u \in Tasks : \A m \in ToSet(subport'[u]) :
              m \in ToSet(subport[u]) \/ (u = t /\ Sender(m)' = t)
         /\ UNCHANGED <<hold, taskport>>
<1> USE DEF IInv
<1>1. /\ msg \in [AllMsgs -> {NoMsg} \cup [kind : Kinds, task : Tasks]]
      /\ subport \in [Tasks -> Seq(Msgs)] /\ Msgs \subseteq AllMsgs
  BY DEF TypeOK, AllMsgs
<1>2. CASE Newtask(t) \/ StarttaskFails(t) \/ StoptaskAsync(t) \/ Disposetask(t)
  BY <1>2 DEF Newtask, StarttaskFails, StoptaskAsync, Disposetask, process, ports
<1>3. CASE Starttask(t)
  <2>1. /\ msg' = [msg EXCEPT ![<<t, "startup">>] = [kind |-> "startup", task |-> t]]
        /\ UNCHANGED <<hold, taskport, subport>>
    BY <1>3 DEF Starttask, ports
  <2>2. ~InUse(<<t, "startup">>)
    <3>1. MainRuns
      BY <1>3 DEF Starttask, CanStart
    <3>2. ~(depth > 0 /\ Waits(depth))
      BY <3>1, Callers, SMT DEF Handles, Waits
    <3> QED
      BY <3>2, Zenon DEF StartupFirst
  <2> QED
    BY <1>1, <1>3, <2>1, <2>2
<1>4. ASSUME NEW n \in Msgs, NEW k \in {"send", "set"}, Post(n, k, t)
      PROVE  /\ \A m \in AllMsgs :
                  \/ msg'[m] = msg[m]
                  \/ /\ ~InUse(m) /\ m \in Msgs
                     /\ msg'[m] = [kind |-> k, task |-> t]
             /\ \A u \in Tasks : \A m \in ToSet(subport'[u]) :
                  m \in ToSet(subport[u]) \/ (u = t /\ Sender(m)' = t)
  <2>1. /\ ~InUse(n) /\ msg' = [msg EXCEPT ![n] = [kind |-> k, task |-> t]]
        /\ subport' = [subport EXCEPT ![t] = Append(@, n)]
    BY <1>4 DEF Post, Unused, InUse
  <2>2. ToSet(Append(subport[t], n)) = ToSet(subport[t]) \cup {n}
    BY <1>1, AppendSet
  <2>3. Sender(n)' = t
    BY <1>1, <2>1 DEF Sender
  <2>4. ASSUME NEW u \in Tasks, NEW m \in ToSet(subport'[u])
        PROVE  m \in ToSet(subport[u]) \/ (u = t /\ Sender(m)' = t)
    <3>1. CASE u = t
      <4>1. subport'[u] = Append(subport[t], n)
        BY <1>1, <2>1, <3>1
      <4>2. m \in ToSet(subport[t]) \/ m = n
        BY <2>2, <4>1
      <4> QED
        BY <2>3, <3>1, <4>2
    <3>2. CASE u # t
      BY <1>1, <2>1, <3>2
    <3> QED
      BY <3>1, <3>2
  <2> QED
    BY <1>1, <2>1, <2>4
<1>5. ASSUME NEW n \in Msgs, AsetattrsasyncA(n, t) \/ AsetattrssyncA(n, t)
      PROVE  /\ UNCHANGED <<hold, taskport>>
             /\ \E k \in {"send", "set"} : Post(n, k, t)
  BY <1>5 DEF AsetattrsasyncA, AsetattrssyncA, ports
<1>6. CASE \E n \in Msgs : AsetattrsasyncA(n, t) \/ AsetattrssyncA(n, t)
  <2>1. PICK n \in Msgs : AsetattrsasyncA(n, t) \/ AsetattrssyncA(n, t)
    BY <1>6
  <2>2. PICK k \in {"send", "set"} : Post(n, k, t)
    BY <1>5, <2>1
  <2> QED
    BY <1>4, <1>5, <2>1, <2>2
<1> QED
  BY <1>2, <1>3, <1>6 DEF Object

\* What becomes of a message, of what a subtask holds and of its port.
FreedOrMade(m) ==
  \/ msg'[m] = msg[m] \/ ~InUse(m)'
  \/ /\ ~InUse(m) /\ m \in Msgs
     /\ \E k \in {"async", "send", "set"}, t \in Tasks :
          msg'[m] = [kind |-> k, task |-> t]
  \/ /\ ~InUse(m)
     /\ \E k \in OwnKinds, t \in Tasks :
          m = <<t, k>> /\ msg'[m] = [kind |-> k, task |-> t]
HeldFromPort ==
  \A u \in Tasks : hold'[u] \in {hold[u], Nobody} \cup ToSet(subport[u])
PostedByMain ==
  \A u \in Tasks : \A m \in ToSet(subport'[u]) :
    m \in ToSet(subport[u]) \/ Sender(m)' = u

\* When structures are freed or made for what they are, kinds agree.
LEMMA KindsKept ==
  ASSUME TypeOK, TypeOK', OneAt, OneAt', KindsAgree,
         \A m \in AllMsgs : FreedOrMade(m), HeldFromPort, PostedByMain
  PROVE  KindsAgree'
<1> USE DEF FreedOrMade, HeldFromPort, PostedByMain
<1>1. ASSUME NEW m \in Msgs, InUse(m)'
      PROVE  msg'[m].kind \in {"async", "send", "set"}
  <2>1. m \in AllMsgs
    BY DEF AllMsgs
  <2>2. CASE msg'[m] = msg[m]
    BY <1>1, <2>2 DEF KindsAgree, InUse
  <2>3. CASE \E k \in {"async", "send", "set"}, t \in Tasks :
               msg'[m] = [kind |-> k, task |-> t]
    BY <2>3
  <2>4. ~(\E k \in OwnKinds, t \in Tasks : m = <<t, k>>)
    BY OwnFacts
  <2> QED
    BY <1>1, <2>1, <2>2, <2>3, <2>4
<1>2. ASSUME NEW t \in Tasks, NEW k \in OwnKinds, InUse(<<t, k>>)'
      PROVE  msg'[<<t, k>>] = [kind |-> k, task |-> t]
  <2>1. <<t, k>> \in AllMsgs /\ <<t, k>> \notin Msgs
    BY OwnFacts
  <2>2. CASE msg'[<<t, k>>] = msg[<<t, k>>]
    BY <1>2, <2>2 DEF KindsAgree, InUse
  <2>3. ASSUME NEW j \in OwnKinds, NEW u \in Tasks, <<t, k>> = <<u, j>>,
               msg'[<<t, k>>] = [kind |-> j, task |-> u]
        PROVE  msg'[<<t, k>>] = [kind |-> k, task |-> t]
    BY <2>3
  <2> QED
    BY <1>2, <2>1, <2>2, <2>3
<1>3. ASSUME NEW u \in Tasks, NEW m \in Msgs, InUse(m), InUse(m)', Sender(m) = u
      PROVE  Sender(m)' = u
  <2>1. m \in AllMsgs /\ ~(\E k \in OwnKinds, t \in Tasks : m = <<t, k>>)
    BY OwnFacts DEF AllMsgs
  <2>2. msg'[m] = msg[m]
    BY <1>3, <2>1
  <2> QED
    BY <1>3, <2>2 DEF Sender
<1>4. ASSUME NEW u \in Tasks, NEW m \in ToSet(subport[u])
      PROVE  m \in Msgs /\ InUse(m) /\ Sender(m) = u
  <2>1. m \in Msgs
    <3>1. subport[u] \in Seq(Msgs)
      BY DEF TypeOK
    <3> QED
      BY <3>1, SMT DEF ToSet
  <2>2. At(m, "posted", u)
    BY AtPosted
  <2>3. m \in AllMsgs
    BY <2>1 DEF AllMsgs
  <2>4. InUse(m)
    BY <2>2, <2>3, OnlyThere, PlaceFacts
  <2>5. Sender(m) = u
    BY DEF KindsAgree
  <2> QED
    BY <2>1, <2>4, <2>5
<1>5. ASSUME NEW u \in Tasks, NEW m, m = hold'[u], m # Nobody
      PROVE  Sender(m)' = u
  <2>1. m \in Msgs
    BY <1>5 DEF TypeOK
  <2>2. InUse(m)'
    <3>1. At(m, "held", u)'
      BY <1>5, AtHeld
    <3>2. m \in AllMsgs /\ u \in Spots /\ "held" \in PlaceKinds
      BY <2>1, PlaceFacts DEF AllMsgs
    <3> QED
      BY <3>1, <3>2, Zenon DEF OneAt
  <2>3. CASE m = hold[u]
    <3>1. InUse(m)
      <4>1. At(m, "held", u)
        BY <2>3, AtHeld
      <4>2. m \in AllMsgs
        BY <2>1 DEF AllMsgs
      <4> QED
        BY <4>1, <4>2, OnlyThere, PlaceFacts
    <3>2. Sender(m) = u
      BY <1>5, <2>3 DEF KindsAgree
    <3> QED
      BY <1>3, <2>1, <2>2, <3>1, <3>2
  <2>4. CASE m \in ToSet(subport[u])
    BY <1>3, <1>4, <2>2, <2>4
  <2> QED
    BY <1>5, <2>3, <2>4
<1>6. ASSUME NEW u \in Tasks, NEW m \in ToSet(subport'[u])
      PROVE  Sender(m)' = u
  <2>1. m \in Msgs
    <3>1. subport'[u] \in Seq(Msgs)
      BY DEF TypeOK
    <3> QED
      BY <3>1, SMT DEF ToSet
  <2>2. InUse(m)'
    <3>1. At(m, "posted", u)'
      BY AtPosted
    <3>2. m \in AllMsgs /\ u \in Spots /\ "posted" \in PlaceKinds
      BY <2>1, PlaceFacts DEF AllMsgs
    <3> QED
      BY <3>1, <3>2, Zenon DEF OneAt
  <2>3. CASE m \in ToSet(subport[u])
    BY <1>3, <1>4, <2>2, <2>3
  <2> QED
    BY <2>3
<1>7. \A u \in Tasks : hold'[u] # Nobody => Sender(hold[u])'  = u
  BY <1>5 DEF Sender
<1> QED
  BY <1>1, <1>2, <1>6, <1>7 DEF KindsAgree, InUse, Sender

\* What can become of a message in a step.
LEMMA MessagesNext ==
  ASSUME IInv, Next, NEW m \in AllMsgs
  PROVE  FreedOrMade(m)
<1>1. CASE Main \/ HandlerReturns
  BY <1>1, MainMessages DEF FreedOrMade
<1>2. ASSUME NEW t \in Tasks, Process(t) PROVE FreedOrMade(m)
  <2>1. CASE m \in Msgs /\ msg'[m] = [kind |-> "async", task |-> t] /\ ~InUse(m)
    BY <2>1 DEF FreedOrMade
  <2>2. ASSUME NEW k \in {"update", "last"}, ~InUse(m), m = <<t, k>>,
               msg'[m] = [kind |-> k, task |-> t]
        PROVE  FreedOrMade(m)
    <3>1. k \in OwnKinds
      BY DEF OwnKinds
    <3> QED
      BY <2>2, <3>1, Zenon DEF FreedOrMade
  <2>3. CASE msg'[m] = msg[m] \/ ~InUse(m)'
    BY <2>3 DEF FreedOrMade
  <2>4. \/ msg'[m] = msg[m] \/ ~InUse(m)'
        \/ ~InUse(m) /\ Made(m, t)
    BY <1>2, SubtaskMessages
  <2>5. CASE ~InUse(m) /\ Made(m, t)
    <3>1. \/ m \in Msgs /\ msg'[m] = [kind |-> "async", task |-> t]
          \/ \E k \in {"update", "last"} :
               m = <<t, k>> /\ msg'[m] = [kind |-> k, task |-> t]
      BY <2>5, Zenon DEF Made
    <3> QED
      BY <2>1, <2>2, <2>5, <3>1, Zenon
  <2> QED
    BY <2>3, <2>4, <2>5, Zenon
<1>3. ASSUME NEW t \in Tasks, Object(t) PROVE FreedOrMade(m)
  <2>1. ASSUME NEW k \in {"send", "set"}, ~InUse(m), m \in Msgs,
               msg'[m] = [kind |-> k, task |-> t]
        PROVE  FreedOrMade(m)
    <3>1. k \in {"async", "send", "set"}
      OBVIOUS
    <3> QED
      BY <2>1, <3>1, Zenon DEF FreedOrMade
  <2>2. CASE /\ ~InUse(m) /\ m = <<t, "startup">>
             /\ msg'[m] = [kind |-> "startup", task |-> t]
    <3>1. "startup" \in OwnKinds
      BY DEF OwnKinds
    <3> QED
      BY <2>2, <3>1, Zenon DEF FreedOrMade
  <2>3. CASE msg'[m] = msg[m]
    BY <2>3 DEF FreedOrMade
  <2> QED
    BY <1>3, <2>1, <2>2, <2>3, ObjectMessages, Zenon
<1> QED
  BY <1>1, <1>2, <1>3 DEF Next

\* Every step keeps the kinds of messages.
LEMMA KindsAgreeKept ==
  ASSUME IInv, TypeOK', OneAt', Next
  PROVE  KindsAgree'
<1> USE DEF IInv
<1>1. \A m \in AllMsgs : FreedOrMade(m)
  BY MessagesNext
<1>2. CASE Main \/ HandlerReturns
  <2>1. UNCHANGED <<sub, subport, hold>>
    BY <1>2, MainMessages
  <2>2. HeldFromPort /\ PostedByMain
    BY <2>1 DEF HeldFromPort, PostedByMain
  <2> QED
    BY <1>1, <2>2, KindsKept
<1>3. ASSUME NEW t \in Tasks, Process(t) PROVE KindsAgree'
  <2>1. HeldFromPort
    BY <1>3, SubtaskStates DEF HeldFromPort
  <2>2. PostedByMain
    BY <1>3, SubtaskStates DEF PostedByMain
  <2> QED
    BY <1>1, <2>1, <2>2, KindsKept
<1>4. ASSUME NEW t \in Tasks, Object(t) PROVE KindsAgree'
  <2>1. HeldFromPort
    BY <1>4, ObjectMessages DEF HeldFromPort
  <2>2. PostedByMain
    BY <1>4, ObjectMessages DEF PostedByMain
  <2> QED
    BY <1>1, <2>1, <2>2, KindsKept
<1> QED
  BY <1>2, <1>3, <1>4 DEF Next

-----------------------------------------------------------------------------
(* The object and its process.                                             *)

\* From the event loop and in handlers, no process is being started.
LEMMA NotStarting ==
  ASSUME IInv, MainRuns, NEW t \in Tasks
  PROVE  ~InUse(<<t, "startup">>) /\ sub[t] # "created"
<1> USE DEF IInv
<1>1. depth > 0 => ~Waits(depth)
  BY Callers DEF Handles, Waits
<1>2. ~InUse(<<t, "startup">>)
  BY <1>1 DEF StartupFirst
<1>3. <<t, "startup">> \in AllMsgs /\ t \in Spots /\ "created" \in PlaceKinds
  BY OwnFacts, PlaceFacts DEF OwnKinds
<1>4. sub[t] = "created" => At(<<t, "startup">>, "created", t)
  BY AtCreated
<1> QED
  BY <1>2, <1>3, <1>4, OnlyThere

\* A task that is freed has no process and no message of its own.
LEMMA FreedHasNone ==
  ASSUME IInv, NEW t \in Tasks, Freed(t)
  PROVE  /\ sub[t] = "none" /\ hold[t] = Nobody /\ subport[t] = << >>
         /\ \A k \in OwnKinds : ~InUse(<<t, k>>)
         /\ \A m \in ToSet(taskport) : ~Of(m, t)
<1> USE DEF IInv
<1>1. /\ depth \in 1 .. depth /\ Stops(depth, t) /\ calls[depth].at = "last"
      /\ ~HasMsgOf(t)
  BY Levels, SMT DEF Freed, TypeOK, depth
<1>2. sub[t] = "none"
  BY <1>1 DEF OneStop, OneStopOf
<1>3. hold[t] = Nobody /\ subport[t] = << >>
  <2>1. state[t] # "RUN"
    BY <1>2 DEF StatesAgree
  <2> QED
    BY <1>2, <2>1 DEF StatesAgree
<1>4. \A m \in ToSet(taskport) : ~Of(m, t)
  BY <1>1, HasMsgOfTask DEF TypeOK
<1>5. ~InUse(<<t, "startup">>)
  <2>1. ~Waits(depth)
    BY <1>1 DEF Waits
  <2> QED
    BY <2>1 DEF StartupFirst
<1>6. ~InUse(<<t, "update">>)
  BY <1>2 DEF OwnAgree
<1>7. ~InUse(<<t, "last">>)
  <2>1. SUFFICES ASSUME InUse(<<t, "last">>) PROVE FALSE
    OBVIOUS
  <2>2. /\ <<t, "last">> \in AllMsgs /\ <<t, "last">> \notin Msgs
        /\ <<t, "last">> # Nobody
    BY OwnFacts DEF OwnKinds
  <2>3. /\ Sender(<<t, "last">>) = t /\ msg[<<t, "last">>].kind = "last"
        /\ Of(<<t, "last">>, t)
    BY <2>1, OwnMessages DEF OwnKinds
  <2>4. PICK c \in PlaceKinds, x \in Spots : At(<<t, "last">>, c, x)
    BY <2>1, <2>2 DEF OneAt
  <2>5. c # "port"
    BY <1>4, <2>3, <2>4, AtPort
  <2>6. c # "handler"
    <3>1. SUFFICES ASSUME c = "handler" PROVE FALSE
      OBVIOUS
    <3>2. x \in 1 .. depth /\ Handles(x) /\ calls[x].msg = <<t, "last">>
      BY <2>4, <3>1, AtHandler
    <3>3. Quiet(calls[x].msg)
      BY <2>3, <3>2 DEF Quiet, Is
    <3>4. x # depth
      BY <1>1, <3>2 DEF Handles
    <3>5. Plain(depth, t)
      <4>1. depth > x
        BY <1>1, <3>2, <3>4, Levels, SMT DEF TypeOK
      <4> QED
        BY <1>1, <2>3, <3>2, <3>3, <4>1 DEF QuietInside, QuietHandler
    <3>6. ~Waits(depth) /\ ~Handles(depth)
      BY <1>1 DEF Waits, Handles
    <3> QED
      BY <1>1, <3>5, <3>6 DEF Plain, Stops
  <2>7. c # "held"
    BY <2>2, <2>4, AtHeld DEF TypeOK
  <2>8. c # "posted"
    <3>1. SUFFICES ASSUME x \in Tasks, <<t, "last">> \in ToSet(subport[x])
                   PROVE  FALSE
      BY <2>4, AtPosted
    <3>2. subport[x] \in Seq(Msgs)
      BY <3>1 DEF TypeOK
    <3> QED
      BY <2>2, <3>1, <3>2 DEF ToSet
  <2>9. c # "back" /\ c # "created"
    <3>1. \A y : <<t, "last">> # <<y, "update">> /\ <<t, "last">> # <<y, "startup">>
      BY SMT
    <3> QED
      BY <2>4, <3>1, AtBack, AtCreated
  <2> QED
    BY <2>5, <2>6, <2>7, <2>8, <2>9, PlaceFacts
<1> QED
  BY <1>2, <1>3, <1>4, <1>5, <1>6, <1>7 DEF OwnKinds

\* The main task changes the flags of tasks that are there, and frees one.
LEMMA MainStates ==
  ASSUME IInv, Main \/ HandlerReturns
  PROVE  \/ /\ UNCHANGED state
            /\ \A u \in Tasks : state[u] = "FREE" => flags'[u] = flags[u]
         \/ \E t \in Tasks : Freed(t)
<1> USE DEF IInv
<1>1. ASSUME NEW m \in AllMsgs, Receives(m) \/ Answered(m)
      PROVE  /\ UNCHANGED state
             /\ \A u \in Tasks : state[u] = "FREE" => flags'[u] = flags[u]
  <2>1. m \in ToSet(taskport) /\ UNCHANGED state
    BY <1>1 DEF Receives, Answered
  <2>2. Sender(m) \in Tasks /\ Of(m, Sender(m))
    BY <2>1, PortInUse, Returning DEF Of, InUse
  <2>3. state[Sender(m)] # "FREE"
    BY <2>1, <2>2 DEF OwnAgree
  <2>4. flags \in [Tasks -> SUBSET Flags]
    BY DEF TypeOK
  <2>5. \E fl : flags' = [flags EXCEPT ![Sender(m)] = fl]
    BY <1>1, Zenon DEF Receives, Answered, Settles, Disposes
  <2> QED
    BY <2>1, <2>2, <2>3, <2>4, <2>5
<1>2. ASSUME NEW m \in AllMsgs, Returned(m)
      PROVE  /\ UNCHANGED state
             /\ \A u \in Tasks : state[u] = "FREE" => flags'[u] = flags[u]
  <2>1. UNCHANGED state
    BY <1>2 DEF Returned
  <2>2. flags \in [Tasks -> SUBSET Flags]
    BY DEF TypeOK
  <2>3. \/ flags' = [flags EXCEPT ![Sender(m)] = flags[Sender(m)] \ {"PROCESSING"}]
        \/ "MUSTDISPOSE" \in flags[Sender(m)]
           /\ \E fl : flags' = [flags EXCEPT ![Sender(m)] = fl]
    BY <1>2, Zenon DEF Returned, Settles, Disposes
  <2>4. ASSUME NEW u \in Tasks, state[u] = "FREE" PROVE flags'[u] = flags[u]
    <3>1. flags[u] = {}
      BY <2>4 DEF StatesAgree
    <3> QED
      BY <2>2, <2>3, <3>1
  <2> QED
    BY <2>1, <2>4
<1>3. ASSUME NEW f \in Frames, Waiting(f) PROVE UNCHANGED <<state, flags>>
  BY <1>3, SMT DEF Waiting, object
<1>4. ASSUME Looping PROVE UNCHANGED <<state, flags>>
  BY <1>4, SMT DEF Looping, object
<1> QED
  BY <1>1, <1>2, <1>3, <1>4, MainSteps

\* The main task keeps objects and processes in agreement.
LEMMA StatesMain ==
  ASSUME IInv, Main \/ HandlerReturns
  PROVE  StatesAgree'
<1> USE DEF IInv
<1>1. UNCHANGED <<sub, subport, hold>>
  BY MainMessages
<1>2. CASE /\ UNCHANGED state
           /\ \A u \in Tasks : state[u] = "FREE" => flags'[u] = flags[u]
  BY <1>1, <1>2 DEF StatesAgree
<1>3. ASSUME NEW t \in Tasks, Freed(t) PROVE StatesAgree'
  <2>1. /\ \A u \in Tasks \ {t} : state'[u] = state[u] /\ flags'[u] = flags[u]
        /\ state'[t] = "FREE" /\ flags'[t] = {}
    BY <1>3 DEF Freed, TypeOK
  <2>2. sub[t] = "none" /\ hold[t] = Nobody /\ subport[t] = << >>
    BY <1>3, FreedHasNone
  <2> QED
    BY <1>1, <2>1, <2>2 DEF StatesAgree
<1> QED
  BY <1>2, <1>3, MainStates

\* A subtask does.
LEMMA StatesSubtasks ==
  ASSUME IInv, NEW t \in Tasks, Process(t)
  PROVE  StatesAgree'
<1>1. UNCHANGED flags
  BY SubtasksKeep
<1>2. SUFFICES ASSUME NEW u \in Tasks
      PROVE  /\ state'[u] = "FREE" => sub'[u] = "none" /\ flags'[u] = {}
             /\ state'[u] = "NEW" => sub'[u] \in {"none", "created"}
             /\ state'[u] = "RUN" => sub'[u] \in {"run", "update", "last"}
             /\ state'[u] = "DEAD" => sub'[u] \in {"none", "ending", "failed"}
             /\ hold'[u] # Nobody => sub'[u] \in {"run", "update"}
             /\ subport'[u] # << >> => state'[u] = "RUN"
  BY Zenon DEF StatesAgree
<1>3. CASE u = t
  BY <1>3, SubtaskStates
<1>4. CASE u # t
  <2>1. /\ state'[u] = state[u] /\ sub'[u] = sub[u]
        /\ hold'[u] = hold[u] /\ subport'[u] = subport[u]
    BY <1>4, SubtaskStates
  <2> QED
    BY <1>1, <2>1 DEF IInv, StatesAgree
<1> QED
  BY <1>3, <1>4

\* What objects do does.
LEMMA StatesObject ==
  ASSUME IInv, NEW t \in Tasks, Object(t)
  PROVE  StatesAgree'
<1> USE DEF IInv
<1>0. /\ state \in [Tasks -> States] /\ flags \in [Tasks -> SUBSET Flags]
      /\ sub \in [Tasks -> Places] /\ subport \in [Tasks -> Seq(Msgs)]
  BY DEF TypeOK
<1>1. CASE Newtask(t)
  <2>1. /\ UNCHANGED <<flags, sub, subport, hold>>
        /\ state[t] = "FREE" /\ state' = [state EXCEPT ![t] = "NEW"]
    BY <1>1 DEF Newtask, process
  <2> QED
    BY <1>0, <2>1 DEF StatesAgree
<1>2. CASE Starttask(t)
  <2>1. /\ UNCHANGED <<state, flags, subport, hold>>
        /\ state[t] = "NEW" /\ sub' = [sub EXCEPT ![t] = "created"]
    BY <1>2 DEF Starttask, CanStart, object
  <2> QED
    BY <1>0, <2>1 DEF StatesAgree
<1>3. CASE StarttaskFails(t)
  <2>1. /\ UNCHANGED <<flags, sub, subport, hold>>
        /\ state[t] = "NEW" /\ state' = [state EXCEPT ![t] = "DEAD"]
        /\ MainRuns
    BY <1>3 DEF StarttaskFails, CanStart, process
  <2>2. sub[t] # "created"
    BY <2>1, NotStarting
  <2> QED
    BY <1>0, <2>1, <2>2 DEF StatesAgree
<1>4. CASE StoptaskAsync(t)
  BY <1>4 DEF StoptaskAsync, object, StatesAgree
<1>5. CASE Disposetask(t)
  <2>1. UNCHANGED <<state, sub, subport, hold>> /\ state[t] # "FREE"
    BY <1>5 DEF Disposetask
  <2>2. \E fl : flags' = [flags EXCEPT ![t] = fl]
    BY <1>5, DisposesAs
  <2> QED
    BY <1>0, <2>1, <2>2 DEF StatesAgree
<1>6. ASSUME NEW m \in Msgs, AsetattrsasyncA(m, t) \/ AsetattrssyncA(m, t)
      PROVE  StatesAgree'
  <2>1. /\ UNCHANGED <<state, flags, sub, hold>> /\ state[t] = "RUN"
        /\ subport' = [subport EXCEPT ![t] = Append(@, m)]
    BY <1>6, SMT DEF AsetattrsasyncA, AsetattrssyncA, Post, object
  <2> QED
    BY <1>0, <2>1 DEF StatesAgree
<1> QED
  BY <1>1, <1>2, <1>3, <1>4, <1>5, <1>6 DEF Object

\* Where the process goes.
LEMMA SubtaskMoves ==
  ASSUME IInv, NEW t \in Tasks, Process(t)
  PROVE  /\ sub[t] \in {"last", "ending"} => sub'[t] \in {"last", "ending", "none"}
         /\ sub[t] = "update" => \/ sub'[t] = "update"
                                 \/ msg'[<<t, "update">>] = NoMsg
         /\ sub'[t] = "update" =>
              \/ sub[t] = "update"
              \/ msg'[<<t, "update">>] = [kind |-> "update", task |-> t]
<1> USE DEF IInv
<1>0. /\ sub \in [Tasks -> Places] /\ DOMAIN msg = AllMsgs
      /\ <<t, "update">> \in AllMsgs
  BY OwnFacts DEF TypeOK, OwnKinds
<1>1. CASE Updated(t)
  BY <1>0, <1>1 DEF Updated
<1>2. CASE UpdateSync(t)
  BY <1>0, <1>2 DEF UpdateSync, Update
<1>3. CASE \/ \E upd \in BOOLEAN : Subtask(t, upd)
           \/ SubtaskFails(t)
  BY <1>0, <1>3 DEF Subtask, SubtaskFails
<1>4. CASE SubtaskEnds(t) \/ ReleaseRunsema(t)
  <2>1. \/ sub[t] = "last" /\ sub' = [sub EXCEPT ![t] = "ending"]
        \/ sub[t] \in {"ending", "failed"} /\ sub' = [sub EXCEPT ![t] = "none"]
    BY <1>4, Zenon DEF SubtaskEnds, ReleaseRunsema
  <2> QED
    BY <1>0, <2>1
<1>5. CASE Gettaskmsg(t) \/ Replytaskmsg(t)
  BY <1>5 DEF Gettaskmsg, Replytaskmsg
<1>6. CASE \E m \in Msgs : UpdateAsync(m, t)
  BY <1>6 DEF UpdateAsync
<1>7. CASE EntryEnds(t)
  <2>1. sub[t] = "run" /\ sub' = [sub EXCEPT ![t] = "last"]
    BY <1>7, Zenon DEF EntryEnds
  <2> QED
    BY <1>0, <2>1
<1> QED
  BY <1>1, <1>2, <1>3, <1>4, <1>5, <1>6, <1>7 DEF Process, Wrapper

\* A message at the port is that of a task that has been started, also later.
LEMMA NoneAtPort ==
  ASSUME IInv, NEW u \in Tasks, state[u] \in {"FREE", "NEW"},
         NEW m \in ToSet(taskport),
         msg'[m] = msg[m] \/ ~InUse(m)' \/ ~InUse(m)
  PROVE  ~Of(m, u)'
<1>1. m \in AllMsgs /\ InUse(m)
  BY PortInUse DEF IInv
<1>2. ~Of(m, u)
  BY DEF IInv, OwnAgree
<1>3. CASE ~InUse(m)'
  BY <1>3 DEF InUse, Of
<1>4. CASE msg'[m] = msg[m]
  BY <1>2, <1>4 DEF Of, Sender
<1> QED
  BY <1>1, <1>3, <1>4

\* A subtask keeps its own messages in agreement with where it is.
LEMMA OwnSubtasks ==
  ASSUME IInv, NEW t \in Tasks, Process(t)
  PROVE  OwnAgree'
<1> USE DEF IInv
<1>1. SUFFICES ASSUME NEW u \in Tasks
      PROVE  /\ InUse(<<u, "update">>)' <=> sub'[u] = "update"
             /\ InUse(<<u, "last">>)' => sub'[u] \in {"last", "ending", "none"}
             /\ state'[u] \in {"FREE", "NEW"}
                  => ~InUse(<<u, "last">>)' /\ \A m \in ToSet(taskport') : ~Of(m, u)'
  BY Zenon DEF OwnAgree
<1>2. /\ <<u, "update">> \in AllMsgs /\ <<u, "update">> \notin Msgs
      /\ <<u, "last">> \in AllMsgs /\ <<u, "last">> \notin Msgs
  BY OwnFacts DEF OwnKinds
<1>3. CASE u # t
  <2>0. \A k, j : <<u, k>> # <<t, j>>
    BY <1>3
  <2>1. msg'[<<u, "update">>] = msg[<<u, "update">>]
    <3>1. ~Made(<<u, "update">>, t)
      BY <1>2, <2>0, Zenon DEF Made
    <3> QED
      BY <1>2, <2>0, <3>1, SubtaskMessages
  <2>2. msg'[<<u, "last">>] = msg[<<u, "last">>]
    <3>1. ~Made(<<u, "last">>, t)
      BY <1>2, <2>0, Zenon DEF Made
    <3> QED
      BY <1>2, <2>0, <3>1, SubtaskMessages
  <2>3. state'[u] = state[u] /\ sub'[u] = sub[u]
    BY <1>3, SubtaskStates
  <2>4. ASSUME state[u] \in {"FREE", "NEW"}, NEW m \in ToSet(taskport')
        PROVE  ~Of(m, u)'
    <3>1. CASE m \in ToSet(taskport)
      <4>1. m \in AllMsgs
        BY <3>1, PortInUse
      <4>2. msg'[m] = msg[m] \/ ~InUse(m)' \/ ~InUse(m)
        BY <4>1, SubtaskMessages
      <4> QED
        BY <2>4, <3>1, <4>2, NoneAtPort
    <3>2. CASE Sender(m)' = t
      BY <1>3, <3>2 DEF Of
    <3> QED
      BY <3>1, <3>2, SubtaskPort
  <2> QED
    BY <2>1, <2>2, <2>3, <2>4 DEF OwnAgree, InUse
<1>4. CASE u = t
  <2>1. state'[u] \in {"RUN", "DEAD"} /\ sub[u] # "none"
    BY <1>4, SubtaskStates
  <2>2. InUse(<<u, "update">>)' <=> sub'[u] = "update"
    <3>1. InUse(<<u, "update">>) <=> sub[u] = "update"
      BY DEF OwnAgree
    <3>2. CASE InUse(<<u, "update">>)'
      <4>1. \/ msg'[<<u, "update">>] = msg[<<u, "update">>]
            \/ sub'[u] = "update"
        BY <1>2, <1>4, <3>2, SubtaskMessages
      <4>2. ASSUME msg'[<<u, "update">>] = msg[<<u, "update">>]
            PROVE  sub[u] = "update"
        BY <3>1, <3>2, <4>2 DEF InUse
      <4> QED
        BY <1>4, <3>2, <4>1, <4>2, SubtaskMoves DEF InUse
    <3>3. CASE sub'[u] = "update"
      <4>1. CASE msg'[<<u, "update">>] = [kind |-> "update", task |-> u]
        <5>1. msg'[<<u, "update">>].kind = "update" /\ NoMsg.kind = "free"
          BY <4>1 DEF NoMsg
        <5> QED
          BY <3>3, <5>1 DEF InUse
      <4>2. CASE sub[u] = "update"
        <5>1. InUse(<<u, "update">>)
          BY <3>1, <4>2
        <5>2. \/ msg'[<<u, "update">>] = msg[<<u, "update">>]
              \/ sub'[t] = "run"
          BY <1>2, <1>4, <5>1, SubtaskMessages
        <5> QED
          BY <1>4, <3>3, <5>1, <5>2 DEF InUse
      <4> QED
        BY <1>4, <3>3, <4>1, <4>2, SubtaskMoves
    <3> QED
      BY <3>2, <3>3
  <2>3. InUse(<<u, "last">>)' => sub'[u] \in {"last", "ending", "none"}
    <3>1. SUFFICES ASSUME InUse(<<u, "last">>)' PROVE sub'[u] \in {"last", "ending", "none"}
      OBVIOUS
    <3>2. <<u, "last">> # <<t, "update">>
      BY SMT
    <3>3. CASE msg'[<<u, "last">>] = msg[<<u, "last">>]
      <4>1. InUse(<<u, "last">>)
        BY <3>1, <3>3 DEF InUse
      <4>2. sub[u] \in {"last", "ending"}
        BY <2>1, <4>1 DEF OwnAgree
      <4> QED
        BY <1>4, <4>2, SubtaskMoves
    <3>4. msg'[<<u, "last">>] = msg[<<u, "last">>] \/ sub'[u] = "last"
      BY <1>2, <1>4, <3>1, <3>2, SubtaskMessages
    <3> QED
      BY <3>3, <3>4
  <2> QED
    BY <2>1, <2>2, <2>3
<1> QED
  BY <1>3, <1>4

\* The main task does.
LEMMA OwnMain ==
  ASSUME IInv, Main \/ HandlerReturns
  PROVE  OwnAgree'
<1> USE DEF IInv
<1>1. SUFFICES ASSUME NEW u \in Tasks
      PROVE  /\ InUse(<<u, "update">>)' <=> sub'[u] = "update"
             /\ InUse(<<u, "last">>)' => sub'[u] \in {"last", "ending", "none"}
             /\ state'[u] \in {"FREE", "NEW"}
                  => ~InUse(<<u, "last">>)' /\ \A m \in ToSet(taskport') : ~Of(m, u)'
  BY Zenon DEF OwnAgree
<1>2. <<u, "update">> \in AllMsgs /\ <<u, "last">> \in AllMsgs
  BY OwnFacts DEF OwnKinds
<1>3. UNCHANGED sub
  BY MainMessages
<1>4. InUse(<<u, "update">>)' <=> InUse(<<u, "update">>)
  <2>1. \/ msg'[<<u, "update">>] = msg[<<u, "update">>]
        \/ ~InUse(<<u, "update">>)' /\ ~Is(<<u, "update">>, {"update"})
    BY <1>2, MainMessages
  <2>2. InUse(<<u, "update">>) => Is(<<u, "update">>, {"update"})
    BY OwnMessages DEF OwnKinds, Is
  <2> QED
    BY <2>1, <2>2 DEF InUse
<1>5. InUse(<<u, "last">>)' => InUse(<<u, "last">>)
  BY <1>2, MainMessages DEF InUse
<1>6. ASSUME state[u] \in {"FREE", "NEW"}, NEW m \in ToSet(taskport')
      PROVE  ~Of(m, u)'
  <2>1. m \in ToSet(taskport)
    BY MainMessages
  <2>2. m \in AllMsgs
    BY <2>1, PortInUse
  <2> QED
    BY <1>6, <2>1, <2>2, MainMessages, NoneAtPort
<1>7. CASE state'[u] = state[u]
  BY <1>3, <1>4, <1>5, <1>6, <1>7 DEF OwnAgree
<1>8. ASSUME NEW t \in Tasks, Freed(t), u = t
      PROVE  ~InUse(<<u, "last">>)' /\ \A m \in ToSet(taskport') : ~Of(m, u)'
  <2>1. UNCHANGED <<msg, taskport>>
    BY <1>8 DEF Freed
  <2>2. ~InUse(<<t, "last">>) /\ \A m \in ToSet(taskport) : ~Of(m, t)
    BY <1>8, FreedHasNone DEF OwnKinds
  <2> QED
    BY <1>8, <2>1, <2>2 DEF InUse, Of, Sender
<1>9. ASSUME NEW t \in Tasks, Freed(t), u # t
      PROVE  state'[u] = state[u]
  BY <1>9 DEF Freed, TypeOK
<1> QED
  BY <1>3, <1>4, <1>5, <1>7, <1>8, <1>9, MainStates DEF OwnAgree

\* What objects do does.
LEMMA OwnObject ==
  ASSUME IInv, NEW t \in Tasks, Object(t)
  PROVE  OwnAgree'
<1> USE DEF IInv
<1>1. SUFFICES ASSUME NEW u \in Tasks
      PROVE  /\ InUse(<<u, "update">>)' <=> sub'[u] = "update"
             /\ InUse(<<u, "last">>)' => sub'[u] \in {"last", "ending", "none"}
             /\ state'[u] \in {"FREE", "NEW"}
                  => ~InUse(<<u, "last">>)' /\ \A m \in ToSet(taskport') : ~Of(m, u)'
  BY Zenon DEF OwnAgree
<1>2. /\ <<u, "update">> \in AllMsgs /\ <<u, "update">> \notin Msgs
      /\ <<u, "last">> \in AllMsgs /\ <<u, "last">> \notin Msgs
  BY OwnFacts DEF OwnKinds
<1>3. /\ msg'[<<u, "update">>] = msg[<<u, "update">>]
      /\ msg'[<<u, "last">>] = msg[<<u, "last">>]
      /\ UNCHANGED taskport
  <2>1. /\ <<u, "update">> # <<t, "startup">>
        /\ <<u, "last">> # <<t, "startup">>
    BY SMT
  <2> QED
    BY <1>2, <2>1, ObjectMessages
<1>4. /\ state \in [Tasks -> States] /\ sub \in [Tasks -> Places]
  BY DEF TypeOK
<1>5. \/ /\ sub'[u] = sub[u]
         /\ state'[u] \in {"FREE", "NEW"} => state[u] \in {"FREE", "NEW"}
      \/ /\ state[u] = "NEW" /\ sub'[u] = "created"
         /\ state'[u] = state[u]
  <2>1. CASE Newtask(t)
    BY <1>4, <2>1 DEF Newtask, process
  <2>2. CASE Starttask(t)
    BY <1>4, <2>2 DEF Starttask, CanStart, object
  <2>3. CASE StarttaskFails(t)
    BY <1>4, <2>3 DEF StarttaskFails, process
  <2>4. CASE StoptaskAsync(t)
    BY <2>4 DEF StoptaskAsync, object
  <2>5. CASE Disposetask(t)
    BY <2>5 DEF Disposetask
  <2>6. ASSUME NEW m \in Msgs, AsetattrsasyncA(m, t) \/ AsetattrssyncA(m, t)
        PROVE  UNCHANGED <<sub, state>>
    BY <2>6, SMT DEF AsetattrsasyncA, AsetattrssyncA, object
  <2> QED
    BY <2>1, <2>2, <2>3, <2>4, <2>5, <2>6 DEF Object
<1>6. ASSUME state[u] \in {"FREE", "NEW"}, NEW m \in ToSet(taskport')
      PROVE  ~Of(m, u)'
  <2>1. m \in ToSet(taskport)
    BY <1>3
  <2>2. m \in AllMsgs
    BY <2>1, PortInUse
  <2>3. msg'[m] = msg[m] \/ ~InUse(m)
    BY <2>2, ObjectMessages
  <2> QED
    BY <1>6, <2>1, <2>3, NoneAtPort
<1>7. CASE /\ sub'[u] = sub[u]
           /\ state'[u] \in {"FREE", "NEW"} => state[u] \in {"FREE", "NEW"}
  BY <1>3, <1>6, <1>7 DEF OwnAgree, InUse
<1>8. CASE /\ state[u] = "NEW" /\ sub'[u] = "created"
           /\ state'[u] = state[u]
  <2>1. sub[u] # "update"
    BY <1>8 DEF StatesAgree
  <2> QED
    BY <1>3, <1>6, <1>8, <2>1 DEF OwnAgree, InUse
<1> QED
  BY <1>5, <1>7, <1>8

-----------------------------------------------------------------------------
(* While a process starts.                                                 *)

\* A message at the port is not made again while it is there.
LEMMA NotOfLater ==
  ASSUME IInv, NEW u \in Tasks, NEW m \in ToSet(taskport), ~Of(m, u),
         msg'[m] = msg[m] \/ ~InUse(m)' \/ ~InUse(m)
  PROVE  ~Of(m, u)'
<1>1. InUse(m)
  BY PortInUse DEF IInv
<1>2. CASE ~InUse(m)'
  BY <1>2 DEF InUse, Of
<1>3. CASE msg'[m] = msg[m]
  BY <1>3 DEF Of, Sender
<1> QED
  BY <1>1, <1>2, <1>3

\* A subtask replies its startup message before it sends any other.
LEMMA StartupSubtasks ==
  ASSUME IInv, NEW t \in Tasks, Process(t)
  PROVE  StartupFirst'
<1> USE DEF IInv
<1>1. SUFFICES ASSUME NEW u \in Tasks, InUse(<<u, "startup">>)'
      PROVE  /\ depth' > 0 /\ calls'[depth'].at \in {"wait", "sleep"}
             /\ calls'[depth'].msg = <<u, "startup">>
             /\ sub'[u] = "created" \/ FirstAtPort(u)'
  BY SMT DEF StartupFirst, Waits
<1>2. <<u, "startup">> \in AllMsgs /\ <<u, "startup">> \notin Msgs
  BY OwnFacts DEF OwnKinds
<1>3. InUse(<<u, "startup">>)
  <2>1. \A k \in {"update", "last"} : <<u, "startup">> # <<t, k>>
    BY SMT
  <2>2. ~Made(<<u, "startup">>, t)
    BY <1>2, <2>1, Zenon DEF Made
  <2>3. msg'[<<u, "startup">>] = msg[<<u, "startup">>]
    BY <1>1, <1>2, <2>1, <2>2, SubtaskMessages
  <2> QED
    BY <1>1, <2>3 DEF InUse
<1>4. /\ depth > 0 /\ Waits(depth) /\ calls[depth].msg = <<u, "startup">>
      /\ UNCHANGED <<calls, depth>>
  BY <1>3, SubtasksKeep DEF StartupFirst
<1>5. taskport \in Seq(AllMsgs) /\ Len(taskport) \in Nat
  BY DEF TypeOK
<1>6. ASSUME NEW m \in ToSet(taskport), ~Of(m, u) PROVE ~Of(m, u)'
  <2>1. m \in AllMsgs
    BY PortInUse
  <2> QED
    BY <1>6, <2>1, SubtaskMessages, NotOfLater
<1>7. CASE sub[u] = "created" /\ u = t
  <2>1. /\ Len(taskport') = Len(taskport) + 1
        /\ taskport'[Len(taskport) + 1] = <<u, "startup">>
        /\ \A i \in 1 .. Len(taskport) : taskport'[i] = taskport[i]
    BY <1>7, SubtaskPort
  <2>2. state[u] = "NEW"
    BY <1>7, StateBySub
  <2>3. ASSUME NEW j \in 1 .. Len(taskport) PROVE ~Of(taskport[j], u)'
    <3>1. taskport[j] \in ToSet(taskport)
      BY <1>5 DEF ToSet
    <3>2. PICK m \in ToSet(taskport) : m = taskport[j]
      BY <3>1
    <3>3. ~Of(m, u)
      BY <2>2 DEF OwnAgree
    <3>4. ~Of(m, u)'
      BY <1>6, <3>3
    <3>5. taskport'[j] = taskport[j]
      BY <2>1
    <3> QED
      BY <3>2, <3>4, <3>5 DEF Of, Sender
  <2>4. FirstAtPort(u)'
    BY <1>5, <2>1, <2>3, SMT DEF FirstAtPort
  <2> QED
    BY <1>4, <1>5, <2>1, <2>3, <2>4 DEF Waits
<1>8. CASE sub[u] = "created" /\ u # t
  BY <1>4, <1>8, SubtaskStates DEF Waits
<1>9. CASE sub[u] # "created"
  <2>1. PICK i \in 1 .. Len(taskport) :
          /\ taskport[i] = <<u, "startup">>
          /\ \A j \in 1 .. i - 1 : ~Of(taskport[j], u)
    BY <1>3, <1>9 DEF StartupFirst, FirstAtPort
  <2>2. /\ Len(taskport') >= Len(taskport)
        /\ \A j \in 1 .. Len(taskport) : taskport'[j] = taskport[j]
    BY SubtaskPort
  <2>3. ASSUME NEW j \in 1 .. i - 1 PROVE ~Of(taskport[j], u)'
    <3>1. j \in 1 .. Len(taskport)
      BY <1>5
    <3>2. PICK m \in ToSet(taskport) : m = taskport[j]
      BY <1>5, <3>1 DEF ToSet
    <3>3. ~Of(m, u)'
      BY <1>6, <2>1, <3>2
    <3>4. taskport'[j] = taskport[j]
      BY <2>2, <3>1
    <3> QED
      BY <3>2, <3>3, <3>4 DEF Of, Sender
  <2>4. Len(taskport') \in Nat
    BY TypeSubtasks DEF TypeOK
  <2>5. i \in 1 .. Len(taskport') /\ taskport'[i] = <<u, "startup">>
    BY <1>5, <2>1, <2>2, <2>4
  <2>6. FirstAtPort(u)'
    BY <2>3, <2>5, SMT DEF FirstAtPort
  <2> QED
    BY <1>4, <2>6 DEF Waits
<1> QED
  BY <1>7, <1>8, <1>9

\* The main task gets the startup message first.
LEMMA StartupMain ==
  ASSUME IInv, Main \/ HandlerReturns
  PROVE  StartupFirst'
<1> USE DEF IInv
<1>1. SUFFICES ASSUME NEW u \in Tasks, InUse(<<u, "startup">>)'
      PROVE  /\ depth' > 0 /\ calls'[depth'].at \in {"wait", "sleep"}
             /\ calls'[depth'].msg = <<u, "startup">>
             /\ sub'[u] = "created" \/ FirstAtPort(u)'
  BY SMT DEF StartupFirst, Waits
<1>2. <<u, "startup">> \in AllMsgs /\ <<u, "startup">> \notin Msgs
  BY OwnFacts DEF OwnKinds
<1>3. InUse(<<u, "startup">>) /\ msg'[<<u, "startup">>] = msg[<<u, "startup">>]
  BY <1>1, <1>2, MainMessages DEF InUse
<1>4. depth > 0 /\ Waits(depth) /\ calls[depth].msg = <<u, "startup">>
  BY <1>3 DEF StartupFirst
<1>5. ~Handles(depth) /\ \A t : ~Stops(depth, t)
  BY <1>4 DEF Handles, Waits, Stops, Stages
<1>6. depth \in Nat
  BY Levels DEF TypeOK
<1>7. ASSUME NEW m \in AllMsgs PROVE ~Receives(m)
  <2>1. depth # 0
    BY <1>4, <1>6
  <2>2. ~(\A v \in Tasks : calls[depth].msg # <<v, "startup">>)
    BY <1>4
  <2> QED
    BY <1>5, <2>1, <2>2, Zenon DEF Receives
<1>8. ASSUME NEW m \in AllMsgs PROVE ~Answered(m)
  <2>1. SUFFICES ASSUME Answered(m) PROVE FALSE
    OBVIOUS
  <2>2. m = <<u, "startup">> /\ Gives(m)
    BY <1>4, <2>1, Zenon DEF Answered
  <2>3. m # <<Sender(m), "update">>
    BY <2>2
  <2>4. msg' = [msg EXCEPT ![m] = NoMsg]
    BY <2>2, <2>3, Zenon DEF Gives
  <2>5. DOMAIN msg = AllMsgs
    BY DEF TypeOK
  <2> QED
    BY <1>1, <2>2, <2>4, <2>5 DEF InUse
<1>9. ASSUME NEW m \in AllMsgs PROVE ~Returned(m)
  BY <1>5, Zenon DEF Returned
<1>10. ~Looping /\ \A t \in Tasks : ~Freed(t)
  <2>1. calls[depth].at # "loop"
    BY <1>4 DEF Waits
  <2> QED
    BY <1>4, <1>5, <1>6, <2>1 DEF Looping, Freed
<1>11. PICK f \in Frames : Waiting(f)
  BY <1>7, <1>8, <1>9, <1>10, MainSteps
<1>12. f.at \in {"wait", "sleep"} /\ f.msg = calls[depth].msg
  BY <1>5, <1>11, Zenon DEF Waiting
<1>13. /\ Swaps(f)
       /\ UNCHANGED <<sub, taskport, msg>>
  BY <1>11, SMT DEF Waiting, process
<1>14. FirstAtPort(u) => FirstAtPort(u)'
  BY <1>13, SMT DEF FirstAtPort, Of, Sender
<1>15. sub[u] = "created" \/ FirstAtPort(u)
  BY <1>3 DEF StartupFirst
<1> QED
  BY <1>4, <1>12, <1>13, <1>14, <1>15 DEF Swaps

\* Objects act in the event loop and in handlers.
LEMMA ObjectRuns ==
  ASSUME NEW t \in Tasks, Object(t)
  PROVE  MainRuns
  BY Zenon DEF Object, Newtask, Starttask, StarttaskFails, StoptaskAsync,
     Disposetask, AsetattrsasyncA, AsetattrssyncA, CanStart, MayDispose, MainRuns

\* A task is started once, and waited for.
LEMMA StartupObject ==
  ASSUME IInv, NEW t \in Tasks, Object(t)
  PROVE  StartupFirst'
<1> USE DEF IInv
<1>1. SUFFICES ASSUME NEW u \in Tasks, InUse(<<u, "startup">>)'
      PROVE  /\ depth' > 0 /\ calls'[depth'].at \in {"wait", "sleep"}
             /\ calls'[depth'].msg = <<u, "startup">>
             /\ sub'[u] = "created"
  BY SMT DEF StartupFirst, Waits
<1>2. <<u, "startup">> \in AllMsgs /\ <<u, "startup">> \notin Msgs
  BY OwnFacts DEF OwnKinds
<1>3. ~InUse(<<u, "startup">>)
  BY ObjectRuns, NotStarting
<1>4. u = t /\ Starttask(t)
  <2>1. <<u, "startup">> = <<t, "startup">> /\ Starttask(t)
    BY <1>1, <1>2, <1>3, ObjectMessages DEF InUse
  <2> QED
    BY <2>1
<1>5. Adds(WaitFor(<<u, "startup">>))
  BY <1>2, <1>4, WaitCalled DEF Starttask
<1>6. depth \in Nat
  BY Levels DEF TypeOK
<1>7. sub'[u] = "created"
  BY <1>4 DEF Starttask, TypeOK
<1> QED
  BY <1>5, <1>6, <1>7 DEF Adds, WaitFor

-----------------------------------------------------------------------------
(* One Stoptask for a task.                                                *)

\* The calls after a step: those there were, the event loop's, and a new one.
CallsAre(f) ==
  /\ depth' \in Nat
  /\ \A k \in 1 .. depth' : \/ k \in 1 .. depth /\ calls'[k] = calls[k]
                            \/ k = 1 /\ calls'[k].at = "loop"
                            \/ k = depth' /\ calls'[k] = f

\* The levels of the stack below a call, and above those there were.
LEMMA Between ==
  ASSUME NEW d \in Nat, NEW e \in Nat, NEW k \in 1 .. e
  PROVE  k \in 1 .. d \/ k = e \/ k \in d + 1 .. e - 1
  BY SMT

\* The calls after a step of any of the forms.
LEMMA CallsAfter ==
  ASSUME TypeOK, NEW f,
         \/ Grows \/ Adds(f)
         \/ depth > 0 /\ Pops
         \/ depth > 0 /\ Swaps(f)
  PROVE  CallsAre(f)
<1>1. depth \in Nat
  BY Levels DEF TypeOK
<1>2. CASE Grows
  BY <1>1, <1>2 DEF Grows, CallsAre
<1>3. CASE Adds(f)
  <2>1. ASSUME NEW k \in 1 .. depth'
        PROVE  \/ k \in 1 .. depth /\ calls'[k] = calls[k]
               \/ k = 1 /\ calls'[k].at = "loop"
               \/ k = depth' /\ calls'[k] = f
    <3>1. CASE k \in 1 .. depth
      BY <1>3, <3>1, Zenon DEF Adds
    <3>2. CASE k = depth'
      <4>1. calls'[depth'] = f
        BY <1>3 DEF Adds
      <4>2. calls'[k] = f
        BY <3>2, <4>1, SMTT(20)
      <4> QED
        BY <3>2, <4>2, Zenon
    <3>3. CASE k \in depth + 1 .. depth' - 1
      BY <1>3, <3>3, Zenon DEF Adds
    <3>4. depth' \in Nat
      BY <1>3 DEF Adds
    <3>5. k \in 1 .. depth \/ k = depth' \/ k \in depth + 1 .. depth' - 1
      BY <1>1, <2>1, <3>4, Between, Zenon
    <3> QED
      BY <3>1, <3>2, <3>3, <3>5, Zenon
  <2> QED
    BY <1>3, <2>1 DEF Adds, CallsAre
<1>4. CASE depth > 0 /\ Pops
  BY <1>1, <1>4 DEF Pops, CallsAre
<1>5. CASE depth > 0 /\ Swaps(f)
  BY <1>1, <1>5 DEF Swaps, CallsAre
<1> QED
  BY <1>2, <1>3, <1>4, <1>5

\* A step that makes no Stoptask of a task and leaves its flags alone.
OldStops(t) ==
  \A k \in 1 .. depth' : Stops(k, t)' =>
    /\ k \in 1 .. depth /\ Stops(k, t)
    /\ calls'[k].at = "last" => sub'[t] = "none"
FlagsStay(t) == /\ "DISPOSING" \in flags'[t] <=> "DISPOSING" \in flags[t]
                /\ "MUSTDISPOSE" \in flags'[t] <=> "MUSTDISPOSE" \in flags[t]

\* A task that no new Stoptask is about keeps its one.
LEMMA StopKept ==
  ASSUME NEW t \in Tasks, OneStopOf(t), OldStops(t), FlagsStay(t)
  PROVE  OneStopOf(t)'
<1>1. SUFFICES /\ "MUSTDISPOSE" \in flags'[t] => "DISPOSING" \in flags'[t]
               /\ \A k \in 1 .. depth' : Stops(k, t)' =>
                    /\ "DISPOSING" \in flags'[t] /\ "MUSTDISPOSE" \notin flags'[t]
                    /\ calls'[k].at = "last" => sub'[t] = "none"
                    /\ \A l \in 1 .. depth' : Stops(l, t)' => k = l
  BY Zenon DEF OneStopOf
<1> QED
  BY Zenon DEF OldStops, FlagsStay, OneStopOf

\* A step that makes one, and there was none.
LEMMA StopMade ==
  ASSUME NEW t \in Tasks,
         "DISPOSING" \in flags'[t], "MUSTDISPOSE" \notin flags'[t],
         \A k \in 1 .. depth' : Stops(k, t)' => k = depth' /\ calls'[k].at = "first"
  PROVE  OneStopOf(t)'
<1>1. SUFFICES /\ "MUSTDISPOSE" \in flags'[t] => "DISPOSING" \in flags'[t]
               /\ \A k \in 1 .. depth' : Stops(k, t)' =>
                    /\ "DISPOSING" \in flags'[t] /\ "MUSTDISPOSE" \notin flags'[t]
                    /\ calls'[k].at = "last" => sub'[t] = "none"
                    /\ \A l \in 1 .. depth' : Stops(l, t)' => k = l
  BY Zenon DEF OneStopOf
<1>2. "first" # "last"
  OBVIOUS
<1> QED
  BY <1>2

\* The calls of other tasks are not touched by a new call.
LEMMA StopsOfOthers ==
  ASSUME IInv, NEW f, CallsAre(f), NEW t \in Tasks, f.at \in Stages => f.task # t,
         sub'[t] = sub[t] \/ sub[t] # "none" \/ "DISPOSING" \notin flags[t]
  PROVE  OldStops(t)
<1>1. SUFFICES ASSUME NEW k \in 1 .. depth', Stops(k, t)'
               PROVE  /\ k \in 1 .. depth /\ Stops(k, t)
                      /\ calls'[k].at = "last" => sub'[t] = "none"
  BY Zenon DEF OldStops
<1>2. calls'[k].at \in Stages /\ calls'[k].task = t
  BY <1>1 DEF Stops
<1>3. calls'[k].at # "loop"
  BY <1>2 DEF Stages
<1>4. k \in 1 .. depth /\ calls'[k] = calls[k]
  BY <1>2, <1>3 DEF CallsAre
<1>5. Stops(k, t)
  BY <1>2, <1>4 DEF Stops
<1> QED
  BY <1>4, <1>5 DEF IInv, OneStop, OneStopOf

\* The event loop's call is the outermost.
LEMMA LoopOutermost ==
  ASSUME IInv, NEW f, CallsAre(f), f.at # "loop"
  PROVE  \A k \in 1 .. depth' : calls'[k].at = "loop" => k = 1
  BY Zenon DEF IInv, OneStop, CallsAre

\* A new Stoptask, of a task that had none.
LEMMA StopAdded ==
  ASSUME IInv, NEW s \in Tasks, CallsAre(Stopping(s)),
         UNCHANGED sub, \A k \in 1 .. depth : ~Stops(k, s),
         "DISPOSING" \in flags'[s], "MUSTDISPOSE" \notin flags'[s],
         \A t \in Tasks \ {s} : FlagsStay(t)
  PROVE  OneStop'
<1>1. Stopping(s).at = "first" /\ Stopping(s).task = s
  BY DEF Stopping
<1>2. ASSUME NEW t \in Tasks \ {s} PROVE OneStopOf(t)'
  <2>1. OldStops(t)
    BY <1>1, StopsOfOthers
  <2> QED
    BY <2>1, StopKept DEF IInv, OneStop
<1>3. OneStopOf(s)'
  <2>1. ASSUME NEW k \in 1 .. depth', Stops(k, s)'
        PROVE  k = depth' /\ calls'[k].at = "first"
    <3>1. calls'[k].at \in Stages /\ calls'[k].task = s
      BY <2>1 DEF Stops
    <3>2. calls'[k].at # "loop"
      BY <3>1 DEF Stages
    <3>3. ~(k \in 1 .. depth /\ calls'[k] = calls[k])
      BY <3>1 DEF Stops
    <3> QED
      BY <1>1, <3>2, <3>3 DEF CallsAre
  <2> QED
    BY <2>1, StopMade
<1>4. \A k \in 1 .. depth' : calls'[k].at = "loop" => k = 1
  <2>1. Stopping(s).at # "loop"
    BY <1>1
  <2> QED
    BY <2>1, LoopOutermost
<1> QED
  BY <1>2, <1>3, <1>4, Zenon DEF OneStop

\* No new Stoptask.
LEMMA NoStopAdded ==
  ASSUME IInv, NEW f, CallsAre(f), f.at \notin Stages, f.at # "loop",
         \A t \in Tasks : \/ sub'[t] = sub[t] \/ sub[t] # "none"
                          \/ "DISPOSING" \notin flags[t],
         \A t \in Tasks : FlagsStay(t)
  PROVE  OneStop'
<1>1. ASSUME NEW t \in Tasks PROVE OneStopOf(t)'
  <2>1. OldStops(t)
    BY StopsOfOthers
  <2> QED
    BY <2>1, StopKept DEF IInv, OneStop
<1> QED
  BY <1>1, LoopOutermost, Zenon DEF OneStop

\* The flags that a disposal is about, by the new flags of one task.
LEMMA FlagsAfter ==
  ASSUME TypeOK, NEW s \in Tasks, NEW fl, flags' = [flags EXCEPT ![s] = fl]
  PROVE  /\ \A t \in Tasks \ {s} : FlagsStay(t)
         /\ /\ "DISPOSING" \in fl <=> "DISPOSING" \in flags[s]
            /\ "MUSTDISPOSE" \in fl <=> "MUSTDISPOSE" \in flags[s]
            => \A t \in Tasks : FlagsStay(t)
         /\ flags'[s] = fl
<1>1. flags'[s] = fl /\ \A t \in Tasks \ {s} : flags'[t] = flags[t]
  BY DEF TypeOK
<1> QED
  BY <1>1 DEF FlagsStay

\* A message is processed: the disposal that was put off begins, or not.
LEMMA SettledStops ==
  ASSUME IInv, NEW s \in Tasks, NEW fl, NEW f, CallsAre(f), f.at \notin Stages,
         f.at # "loop", UNCHANGED sub, Settles(s, fl),
         fl \in {flags[s], flags[s] \ {"PROCESSING"}}
  PROVE  OneStop'
<1>1. /\ "DISPOSING" \in fl <=> "DISPOSING" \in flags[s]
      /\ "MUSTDISPOSE" \in fl <=> "MUSTDISPOSE" \in flags[s]
  OBVIOUS
<1>2. \A t \in Tasks : FlagsStay(t)
  BY <1>1, FlagsAfter DEF Settles, IInv
<1> QED
  BY <1>2, NoStopAdded

\* The disposal that was put off is the task's only one.
LEMMA DisposedStops ==
  ASSUME IInv, NEW s \in Tasks, NEW fl, CallsAre(Stopping(s)), UNCHANGED sub,
         Disposes(s, fl), fl \in {flags[s], flags[s] \ {"PROCESSING"}}
  PROVE  OneStop'
<1>1. /\ "MUSTDISPOSE" \in flags[s]
      /\ "DISPOSING" \in fl <=> "DISPOSING" \in flags[s]
  BY DEF Disposes
<1>2. "DISPOSING" \in flags[s] /\ \A k \in 1 .. depth : ~Stops(k, s)
  BY <1>1 DEF IInv, OneStop, OneStopOf
<1>3. flags'[s] = fl \ {"MUSTDISPOSE"} /\ \A t \in Tasks \ {s} : FlagsStay(t)
  BY FlagsAfter DEF Disposes, IInv
<1>4. "DISPOSING" \in flags'[s] /\ "MUSTDISPOSE" \notin flags'[s]
  BY <1>1, <1>2, <1>3
<1> QED
  BY <1>2, <1>3, <1>4, StopAdded

\* The main task keeps the Stoptasks of different tasks.
LEMMA OneStopMain ==
  ASSUME IInv, Main \/ HandlerReturns
  PROVE  OneStop'
<1> USE DEF IInv
<1>1. UNCHANGED sub
  BY MainMessages
<1>2. \A m : NewHandler(m).at \notin Stages /\ NewHandler(m).at # "loop"
  BY SMT DEF NewHandler, Stages
<1>3. ASSUME NEW m \in AllMsgs, Receives(m) PROVE OneStop'
  <2>1. Sender(m) \in Tasks
    BY <1>3, PortInUse, Returning DEF Receives
  <2>2. CASE /\ Adds(NewHandler(m))
             /\ flags' = [flags EXCEPT ![Sender(m)] = @ \cup {"PROCESSING"}]
    <3>1. CallsAre(NewHandler(m))
      BY <2>2, CallsAfter
    <3>2. \A t \in Tasks : FlagsStay(t)
      BY <2>1, <2>2, FlagsAfter
    <3> QED
      BY <1>1, <1>2, <3>1, <3>2, NoStopAdded
  <2>3. CASE Grows /\ Settles(Sender(m), flags[Sender(m)])
    <3>1. CallsAre(NewHandler(m))
      BY <2>3, CallsAfter
    <3> QED
      BY <1>1, <1>2, <2>1, <2>3, <3>1, SettledStops
  <2>4. CASE /\ Adds(Stopping(Sender(m)))
             /\ Disposes(Sender(m), flags[Sender(m)])
    <3>1. CallsAre(Stopping(Sender(m)))
      BY <2>4, CallsAfter
    <3> QED
      BY <1>1, <2>1, <2>4, <3>1, DisposedStops
  <2> QED
    BY <1>3, <2>2, <2>3, <2>4, Zenon DEF Receives
<1>4. ASSUME NEW m \in AllMsgs, Answered(m) PROVE OneStop'
  <2>1. Sender(m) \in Tasks
    BY <1>4, PortInUse, Returning DEF Answered
  <2>2. CASE /\ Pops
             /\ flags' = [flags EXCEPT ![Sender(m)] = @ \cup {"STARTED"}]
    <3>1. CallsAre(NewHandler(m))
      BY <1>4, <2>2, CallsAfter DEF Answered
    <3>2. \A t \in Tasks : FlagsStay(t)
      BY <2>1, <2>2, FlagsAfter
    <3> QED
      BY <1>1, <1>2, <3>1, <3>2, NoStopAdded
  <2>3. CASE Pops /\ Settles(Sender(m), flags[Sender(m)])
    <3>1. CallsAre(NewHandler(m))
      BY <1>4, <2>3, CallsAfter DEF Answered
    <3> QED
      BY <1>1, <1>2, <2>1, <2>3, <3>1, SettledStops
  <2>4. CASE /\ Swaps(Stopping(Sender(m)))
             /\ Disposes(Sender(m), flags[Sender(m)])
    <3>1. CallsAre(Stopping(Sender(m)))
      BY <1>4, <2>4, CallsAfter DEF Answered
    <3> QED
      BY <1>1, <2>1, <2>4, <3>1, DisposedStops
  <2> QED
    BY <1>4, <2>2, <2>3, <2>4, Zenon DEF Answered
<1>5. ASSUME NEW m \in AllMsgs, Returned(m) PROVE OneStop'
  <2>0. depth \in 1 .. depth /\ Handles(depth) /\ calls[depth].msg = m
    BY <1>5, Levels DEF Returned, TypeOK
  <2>1. Sender(m) \in Tasks
    BY <2>0, HandlerInUse, Returning
  <2>2. CASE Pops /\ Settles(Sender(m), flags[Sender(m)] \ {"PROCESSING"})
    <3>1. CallsAre(NewHandler(m))
      BY <1>5, <2>2, CallsAfter DEF Returned
    <3> QED
      BY <1>1, <1>2, <2>1, <2>2, <3>1, SettledStops
  <2>3. CASE /\ Swaps(Stopping(Sender(m)))
             /\ Disposes(Sender(m), flags[Sender(m)] \ {"PROCESSING"})
    <3>1. CallsAre(Stopping(Sender(m)))
      BY <1>5, <2>3, CallsAfter DEF Returned
    <3> QED
      BY <1>1, <2>1, <2>3, <3>1, DisposedStops
  <2> QED
    BY <1>5, <2>2, <2>3, Zenon DEF Returned
<1>6. ASSUME NEW f \in Frames, Waiting(f) PROVE OneStop'
  <2>1. /\ depth > 0 /\ Swaps(f) /\ UNCHANGED flags
    BY <1>6, SMT DEF Waiting, object
  <2>2. CallsAre(f) /\ \A t \in Tasks : FlagsStay(t)
    BY <2>1, CallsAfter DEF FlagsStay
  <2>3. CASE f.at \in {"wait", "sleep"}
    <3>1. f.at \notin Stages /\ f.at # "loop"
      BY <2>3 DEF Stages
    <3> QED
      BY <1>1, <2>2, <3>1, NoStopAdded
  <2>4. CASE /\ Stops(depth, f.task) /\ f.at \in Stages
             /\ f.at = "last" => semaport # << >> /\ Head(semaport) = f.task
    <3>1. ASSUME NEW t \in Tasks PROVE OldStops(t)
      <4>1. CASE f.task # t
        BY <1>1, <2>2, <4>1, StopsOfOthers
      <4>2. CASE f.task = t
        <5>1. SUFFICES ASSUME NEW k \in 1 .. depth', Stops(k, t)'
              PROVE  /\ k \in 1 .. depth /\ Stops(k, t)
                     /\ calls'[k].at = "last" => sub'[t] = "none"
          BY Zenon DEF OldStops
        <5>2. depth \in Nat /\ depth' = depth /\ depth \in 1 .. depth
          BY <2>1, Levels DEF TypeOK, Swaps
        <5>3. CASE k = depth
          <6>1. calls'[k] = f
            BY <2>1, <5>3 DEF Swaps
          <6>2. semaport # << >> /\ Head(semaport) = t => sub[t] = "none"
            <7>1. semaport \in Seq(Tasks)
              BY DEF TypeOK
            <7>2. semaport # << >> => Head(semaport) \in ToSet(semaport)
              BY <7>1, SMT DEF ToSet
            <7> QED
              BY <7>2 DEF GrantsAwaited
          <6> QED
            BY <1>1, <2>4, <4>2, <5>2, <5>3, <6>1, <6>2
        <5>4. CASE k # depth
          <6>1. k \in 1 .. depth - 1 /\ calls'[k] = calls[k]
            BY <2>1, <5>2, <5>4 DEF Swaps
          <6>2. Stops(k, t)
            BY <5>1, <6>1 DEF Stops
          <6> QED
            BY <2>4, <4>2, <5>2, <5>4, <6>2 DEF OneStop, OneStopOf
        <5> QED
          BY <5>3, <5>4
      <4> QED
        BY <4>1, <4>2
    <3>2. \A t \in Tasks : OneStopOf(t)'
      BY <2>2, <3>1, StopKept DEF OneStop
    <3>3. f.at # "loop"
      BY <2>4 DEF Stages
    <3> QED
      BY <2>2, <3>2, <3>3, LoopOutermost, Zenon DEF OneStop
  <2> QED
    BY <1>6, <2>3, <2>4, SMT DEF Waiting
<1>7. ASSUME Looping PROVE OneStop'
  <2>1. UNCHANGED flags
    BY <1>7, SMT DEF Looping, object
  <2>2. CallsAre(NewHandler(Nobody))
    BY <1>7, CallsAfter DEF Looping
  <2>3. \A t \in Tasks : FlagsStay(t)
    BY <2>1 DEF FlagsStay
  <2> QED
    BY <1>1, <1>2, <2>2, <2>3, NoStopAdded
<1>8. ASSUME NEW t \in Tasks, Freed(t) PROVE OneStop'
  <2>1. /\ depth > 0 /\ Stops(depth, t) /\ Pops
        /\ flags' = [flags EXCEPT ![t] = {}]
    BY <1>8 DEF Freed
  <2>2. depth \in Nat /\ depth \in 1 .. depth
    BY <2>1, Levels DEF TypeOK
  <2>3. CallsAre(NewHandler(Nobody))
    BY <2>1, CallsAfter
  <2>4. flags'[t] = {} /\ \A u \in Tasks \ {t} : FlagsStay(u)
    BY <2>1, FlagsAfter
  <2>5. \A u \in Tasks \ {t} : OneStopOf(u)'
    BY <1>1, <1>2, <2>3, <2>4, StopsOfOthers, StopKept DEF OneStop
  <2>6. ASSUME NEW k \in 1 .. depth' PROVE ~Stops(k, t)'
    <3>1. k \in 1 .. depth /\ k # depth /\ calls'[k] = calls[k]
      BY <2>1, <2>2 DEF Pops
    <3>2. ~Stops(k, t)
      BY <2>1, <2>2, <3>1 DEF OneStop, OneStopOf
    <3> QED
      BY <3>1, <3>2 DEF Stops
  <2>7. OneStopOf(t)'
    BY <2>4, <2>6 DEF OneStopOf
  <2>8. \A k \in 1 .. depth' : calls'[k].at = "loop" => k = 1
    BY <1>2, <2>3, LoopOutermost
  <2> QED
    BY <2>5, <2>7, <2>8, Zenon DEF OneStop
<1> QED
  BY <1>3, <1>4, <1>5, <1>6, <1>7, <1>8, MainSteps

\* A subtask does.
LEMMA OneStopSubtasks ==
  ASSUME IInv, NEW t \in Tasks, Process(t)
  PROVE  OneStop'
<1>1. UNCHANGED <<flags, calls, depth>>
  BY SubtasksKeep
<1>2. depth \in Nat
  BY Levels DEF IInv, TypeOK
<1>3. CallsAre(NewHandler(Nobody))
  BY <1>1, <1>2 DEF CallsAre
<1>4. \A u \in Tasks : sub'[u] = sub[u] \/ sub[u] # "none"
  BY SubtaskStates
<1>5. \A u \in Tasks : FlagsStay(u)
  BY <1>1 DEF FlagsStay
<1>6. NewHandler(Nobody).at \notin Stages /\ NewHandler(Nobody).at # "loop"
  BY SMT DEF NewHandler, Stages
<1> QED
  BY <1>3, <1>4, <1>5, <1>6, NoStopAdded

\* What objects do to calls, flags and processes.
LEMMA ObjectCalls ==
  ASSUME IInv, NEW t \in Tasks, Object(t)
  PROVE  \/ /\ UNCHANGED <<flags, calls, depth, sub>>
            /\ \A u \in Tasks : state'[u] = "FREE" => state[u] = "FREE"
            /\ \A u \in Tasks : state[u] \in {"RUN", "DEAD"} => state'[u] = state[u]
         \/ /\ Starttask(t) /\ Adds(StartWait(t)) /\ UNCHANGED <<flags, state>>
            /\ "DISPOSING" \notin flags[t] /\ state[t] = "NEW"
            /\ \A u \in Tasks \ {t} : sub'[u] = sub[u]
         \/ /\ UNCHANGED <<flags, sub, state>>
            /\ \E m \in Msgs : AsetattrssyncA(m, t) /\ Adds(WaitFor(m))
         \/ /\ Disposetask(t) /\ "DISPOSING" \notin flags[t] /\ Busy(t)
            /\ UNCHANGED <<calls, depth, sub, state>>
            /\ flags' = [flags EXCEPT ![t] = @ \cup {"DISPOSING", "MUSTDISPOSE"}]
         \/ /\ Disposetask(t) /\ "DISPOSING" \notin flags[t] /\ ~Busy(t)
            /\ Adds(Stopping(t)) /\ UNCHANGED <<sub, state>>
            /\ flags' = [flags EXCEPT ![t] = @ \cup {"DISPOSING"}]
<1> USE DEF IInv
<1>0. state \in [Tasks -> States] /\ sub \in [Tasks -> Places]
  BY DEF TypeOK
<1>1. CASE Newtask(t)
  <2>1. /\ UNCHANGED <<flags, stack, sub>> /\ state[t] = "FREE"
        /\ state' = [state EXCEPT ![t] = "NEW"]
    BY <1>1 DEF Newtask, process
  <2>2. UNCHANGED <<calls, depth>>
    BY <2>1 DEF calls, depth
  <2>3. /\ \A u \in Tasks : state'[u] = "FREE" => state[u] = "FREE"
        /\ \A u \in Tasks : state[u] \in {"RUN", "DEAD"} => state'[u] = state[u]
    BY <1>0, <2>1
  <2> QED
    BY <2>1, <2>2, <2>3
<1>2. CASE Starttask(t)
  <2>1. Adds(StartWait(t))
    BY <1>2, WaitCalled, OwnFacts DEF Starttask, OwnKinds, StartWait, WaitFor
  <2>2. /\ UNCHANGED <<flags, state>> /\ "DISPOSING" \notin flags[t]
        /\ state[t] = "NEW" /\ sub' = [sub EXCEPT ![t] = "created"]
    BY <1>2 DEF Starttask, CanStart, object
  <2> QED
    BY <1>0, <1>2, <2>1, <2>2
<1>3. CASE StarttaskFails(t)
  <2>1. /\ UNCHANGED <<flags, stack, sub>> /\ state[t] = "NEW"
        /\ state' = [state EXCEPT ![t] = "DEAD"]
    BY <1>3 DEF StarttaskFails, CanStart, process
  <2>2. UNCHANGED <<calls, depth>>
    BY <2>1 DEF calls, depth
  <2>3. /\ \A u \in Tasks : state'[u] = "FREE" => state[u] = "FREE"
        /\ \A u \in Tasks : state[u] \in {"RUN", "DEAD"} => state'[u] = state[u]
    BY <1>0, <2>1
  <2> QED
    BY <2>1, <2>2, <2>3
<1>4. CASE StoptaskAsync(t)
  <2>1. UNCHANGED <<flags, stack, sub, state>>
    BY <1>4 DEF StoptaskAsync, object
  <2>2. UNCHANGED <<calls, depth>>
    BY <2>1 DEF calls, depth
  <2> QED
    BY <2>1, <2>2
<1>5. CASE Disposetask(t)
  <2>1. UNCHANGED <<sub, state>> /\ "DISPOSING" \notin flags[t]
    BY <1>5 DEF Disposetask
  <2> QED
    BY <1>5, <2>1, DisposesAs
<1>6. ASSUME NEW m \in Msgs, AsetattrsasyncA(m, t)
      PROVE  /\ UNCHANGED <<flags, calls, depth, sub, state>>
  <2>1. UNCHANGED <<flags, stack, sub, state>>
    BY <1>6, SMT DEF AsetattrsasyncA, object
  <2> QED
    BY <2>1 DEF calls, depth
<1>7. ASSUME NEW m \in Msgs, AsetattrssyncA(m, t)
      PROVE  /\ UNCHANGED <<flags, sub, state>>
             /\ AsetattrssyncA(m, t) /\ Adds(WaitFor(m))
  <2>1. UNCHANGED <<flags, sub, state>>
    BY <1>7, SMT DEF AsetattrssyncA, object
  <2>2. Adds(WaitFor(m))
    BY <1>7, WaitCalled DEF AsetattrssyncA, AllMsgs
  <2> QED
    BY <1>7, <2>1, <2>2
<1> QED
  BY <1>1, <1>2, <1>3, <1>4, <1>5, <1>6, <1>7, Zenon DEF Object

\* What objects do does: a disposal is asked for once.
LEMMA OneStopObject ==
  ASSUME IInv, NEW t \in Tasks, Object(t)
  PROVE  OneStop'
<1> USE DEF IInv
<1>1. depth \in Nat
  BY Levels DEF TypeOK
<1>2. \A m : WaitFor(m).at \notin Stages /\ WaitFor(m).at # "loop"
  BY SMT DEF WaitFor, Stages
<1>3. StartWait(t).at \notin Stages /\ StartWait(t).at # "loop"
  BY SMT DEF StartWait, Stages
<1>4. CASE UNCHANGED <<flags, calls, depth, sub>>
  <2>1. CallsAre(WaitFor(Nobody))
    BY <1>1, <1>4 DEF CallsAre
  <2>2. \A u \in Tasks : FlagsStay(u)
    BY <1>4 DEF FlagsStay
  <2> QED
    BY <1>2, <1>4, <2>1, <2>2, NoStopAdded
<1>5. CASE /\ Adds(StartWait(t)) /\ UNCHANGED flags
           /\ "DISPOSING" \notin flags[t]
           /\ \A u \in Tasks \ {t} : sub'[u] = sub[u]
  <2>1. CallsAre(StartWait(t))
    BY <1>5, CallsAfter
  <2>2. \A u \in Tasks : FlagsStay(u)
    BY <1>5 DEF FlagsStay
  <2> QED
    BY <1>3, <1>5, <2>1, <2>2, NoStopAdded
<1>6. ASSUME UNCHANGED <<flags, sub>>, NEW m \in Msgs, Adds(WaitFor(m))
      PROVE  OneStop'
  <2>1. CallsAre(WaitFor(m))
    BY <1>6, CallsAfter
  <2>2. \A u \in Tasks : FlagsStay(u)
    BY <1>6 DEF FlagsStay
  <2> QED
    BY <1>2, <1>6, <2>1, <2>2, NoStopAdded
<1>7. ASSUME "DISPOSING" \notin flags[t]
      PROVE  /\ "MUSTDISPOSE" \notin flags[t]
             /\ \A k \in 1 .. depth : ~Stops(k, t)
  BY <1>7 DEF OneStop, OneStopOf
<1>8. CASE /\ "DISPOSING" \notin flags[t] /\ UNCHANGED <<calls, depth, sub>>
           /\ flags' = [flags EXCEPT ![t] = @ \cup {"DISPOSING", "MUSTDISPOSE"}]
  <2>1. CallsAre(WaitFor(Nobody))
    BY <1>1, <1>8 DEF CallsAre
  <2>2. /\ \A u \in Tasks \ {t} : FlagsStay(u)
        /\ flags'[t] = flags[t] \cup {"DISPOSING", "MUSTDISPOSE"}
    BY <1>8, FlagsAfter
  <2>3. \A u \in Tasks \ {t} : OneStopOf(u)'
    BY <1>2, <1>8, <2>1, <2>2, StopsOfOthers, StopKept DEF OneStop
  <2>4. \A k \in 1 .. depth' : ~Stops(k, t)'
    BY <1>7, <1>8 DEF Stops
  <2>5. OneStopOf(t)'
    BY <2>2, <2>4 DEF OneStopOf
  <2>6. \A k \in 1 .. depth' : calls'[k].at = "loop" => k = 1
    BY <1>2, <2>1, LoopOutermost
  <2> QED
    BY <2>3, <2>5, <2>6, Zenon DEF OneStop
<1>9. CASE /\ "DISPOSING" \notin flags[t] /\ UNCHANGED sub
           /\ Adds(Stopping(t))
           /\ flags' = [flags EXCEPT ![t] = @ \cup {"DISPOSING"}]
  <2>1. CallsAre(Stopping(t))
    BY <1>9, CallsAfter
  <2>2. /\ \A u \in Tasks \ {t} : FlagsStay(u)
        /\ flags'[t] = flags[t] \cup {"DISPOSING"}
    BY <1>9, FlagsAfter
  <2>3. "DISPOSING" \in flags'[t] /\ "MUSTDISPOSE" \notin flags'[t]
    BY <1>7, <1>9, <2>2
  <2> QED
    BY <1>7, <1>9, <2>1, <2>2, <2>3, StopAdded
<1> QED
  BY <1>4, <1>5, <1>6, <1>8, <1>9, ObjectCalls

-----------------------------------------------------------------------------
(* The grants of runsema.                                                  *)

\* A Stoptask that waits for runsema.
WaitsGrant(k, t) == Stops(k, t) /\ calls[k].at \in {"procured", "again"}

\* No grant is new, and those that wait for the rest go on waiting.
LEMMA GrantsKept ==
  ASSUME GrantsAwaited, IsInjective(semaport'),
         ToSet(semaport') \subseteq ToSet(semaport),
         \A t \in ToSet(semaport') : sub'[t] = sub[t],
         \A t \in ToSet(semaport') : \A k \in 1 .. depth :
           WaitsGrant(k, t) => k \in 1 .. depth' /\ WaitsGrant(k, t)'
  PROVE  GrantsAwaited'
<1>1. SUFFICES ASSUME NEW t \in ToSet(semaport')
               PROVE  /\ sub'[t] = "none"
                      /\ \E k \in 1 .. depth' : WaitsGrant(k, t)'
  BY SMT DEF GrantsAwaited, WaitsGrant
<1>2. t \in ToSet(semaport) /\ sub[t] = "none"
  BY DEF GrantsAwaited
<1>3. PICK k \in 1 .. depth : WaitsGrant(k, t)
  BY <1>2 DEF GrantsAwaited, WaitsGrant
<1> QED
  BY <1>2, <1>3

\* One is new.
LEMMA GrantMade ==
  ASSUME TypeOK, GrantsAwaited, NEW s \in Tasks, s \notin ToSet(semaport),
         semaport' = Append(semaport, s), sub'[s] = "none",
         NEW l \in 1 .. depth', WaitsGrant(l, s)',
         \A t \in ToSet(semaport) : sub'[t] = sub[t],
         \A t \in ToSet(semaport) : \A k \in 1 .. depth :
           WaitsGrant(k, t) => k \in 1 .. depth' /\ WaitsGrant(k, t)'
  PROVE  GrantsAwaited'
<1>1. semaport \in Seq(Tasks) /\ IsInjective(semaport)
  BY DEF TypeOK, GrantsAwaited
<1>2. IsInjective(semaport') /\ ToSet(semaport') = ToSet(semaport) \cup {s}
  BY <1>1, AppendSet
<1>3. SUFFICES ASSUME NEW t \in ToSet(semaport')
               PROVE  /\ sub'[t] = "none"
                      /\ \E k \in 1 .. depth' : WaitsGrant(k, t)'
  BY <1>2, SMT DEF GrantsAwaited, WaitsGrant
<1>4. CASE t = s
  BY <1>4
<1>5. CASE t \in ToSet(semaport)
  <2>1. sub[t] = "none"
    BY <1>5 DEF GrantsAwaited
  <2>2. PICK k \in 1 .. depth : WaitsGrant(k, t)
    BY <1>5 DEF GrantsAwaited, WaitsGrant
  <2> QED
    BY <1>5, <2>1, <2>2
<1> QED
  BY <1>2, <1>4, <1>5

\* A call that stays where it is.
LEMMA StaysWaiting ==
  ASSUME NEW t, NEW k \in 1 .. depth, k \in 1 .. depth', calls'[k] = calls[k],
         WaitsGrant(k, t)
  PROVE  k \in 1 .. depth' /\ WaitsGrant(k, t)'
<1>1. Stops(k, t)'
  BY DEF WaitsGrant, Stops
<1> QED
  BY <1>1 DEF WaitsGrant

\* Calls that were made, or one that returned, do not change the others.
LEMMA GrantsUnchanged ==
  ASSUME IInv, UNCHANGED semaport,
         \A t \in ToSet(semaport) : sub'[t] = sub[t],
         NEW f,
         \/ Grows \/ Adds(f)
         \/ /\ depth > 0 /\ \A t : ~WaitsGrant(depth, t)
            /\ Pops \/ Swaps(f)
  PROVE  GrantsAwaited'
<1> USE DEF IInv
<1>0. depth \in Nat
  BY Levels DEF TypeOK
<1>1. ASSUME NEW t, NEW k \in 1 .. depth, WaitsGrant(k, t)
      PROVE  k \in 1 .. depth' /\ WaitsGrant(k, t)'
  <2>1. k \in 1 .. depth' /\ calls'[k] = calls[k]
    <3>1. CASE Grows
      BY <1>0, <3>1 DEF Grows
    <3>2. CASE Adds(f)
      BY <1>0, <3>2 DEF Adds
    <3>3. CASE /\ depth > 0 /\ \A u : ~WaitsGrant(depth, u)
               /\ Pops \/ Swaps(f)
      <4>1. k # depth
        BY <1>1, <3>3
      <4>2. CASE Pops
        BY <1>0, <4>1, <4>2 DEF Pops
      <4>3. CASE Swaps(f)
        BY <1>0, <4>1, <4>3 DEF Swaps
      <4> QED
        BY <3>3, <4>2, <4>3
    <3> QED
      BY <3>1, <3>2, <3>3
  <2> QED
    BY <1>1, <2>1, StaysWaiting
<1>2. IsInjective(semaport') /\ ToSet(semaport') = ToSet(semaport)
  BY DEF GrantsAwaited
<1> QED
  BY <1>1, <1>2, GrantsKept

\* The main task keeps every grant with a Stoptask that waits for it.
LEMMA GrantsMain ==
  ASSUME IInv, Main \/ HandlerReturns
  PROVE  GrantsAwaited'
<1> USE DEF IInv
<1>1. UNCHANGED sub
  BY MainMessages
<1>2. depth \in Nat /\ (depth > 0 => depth \in 1 .. depth)
  BY Levels DEF TypeOK
<1>3. \A t : \/ Waits(depth) \/ Handles(depth) \/ calls[depth].at \in {"loop", "last"}
             => ~WaitsGrant(depth, t)
  BY DEF WaitsGrant, Waits, Handles
<1>4. ASSUME NEW m \in AllMsgs, Receives(m) PROVE GrantsAwaited'
  <2>1. UNCHANGED semaport
    BY <1>4 DEF Receives, semas
  <2>2. Grows \/ \E f : Adds(f)
    BY <1>4, Zenon DEF Receives
  <2> QED
    BY <1>1, <2>1, <2>2, GrantsUnchanged
<1>5. ASSUME NEW m \in AllMsgs, Answered(m) \/ Returned(m) PROVE GrantsAwaited'
  <2>1. UNCHANGED semaport
    BY <1>5, SMT DEF Answered, Returned, semas
  <2>2. depth > 0 /\ (Waits(depth) \/ Handles(depth)) /\ (Pops \/ \E f : Swaps(f))
    BY <1>5, Zenon DEF Answered, Returned
  <2> QED
    BY <1>1, <1>3, <2>1, <2>2, GrantsUnchanged
<1>6. ASSUME NEW f \in Frames, Waiting(f) PROVE GrantsAwaited'
  <2>1. depth > 0 /\ Swaps(f)
    BY <1>6 DEF Waiting
  <2>2. CASE Waits(depth) /\ UNCHANGED semas
    <3>1. UNCHANGED semaport
      BY <2>2 DEF semas
    <3> QED
      BY <1>1, <1>3, <2>1, <2>2, <3>1, GrantsUnchanged
  <2>3. ASSUME Stops(depth, f.task), f.at \in Stages
        PROVE  /\ f.task \in Tasks
               /\ \A k \in 1 .. depth : Stops(k, f.task) => k = depth
               /\ \A k \in 1 .. depth : k # depth
                    => k \in 1 .. depth' /\ calls'[k] = calls[k]
               /\ f.at \in {"procured", "again"} => \A k \in 1 .. depth :
                    k = depth => k \in 1 .. depth' /\ WaitsGrant(k, f.task)'
    <3>1. f.task \in Tasks
      BY <2>3, FrameFields
    <3>2. \A k \in 1 .. depth : Stops(k, f.task) => k = depth
      BY <1>2, <2>1, <2>3, <3>1 DEF OneStop, OneStopOf
    <3>3. /\ \A k \in 1 .. depth : k # depth
               => k \in 1 .. depth' /\ calls'[k] = calls[k]
          /\ calls'[depth] = f /\ depth' = depth
      BY <1>2, <2>1 DEF Swaps
    <3>4. ASSUME f.at \in {"procured", "again"}, NEW k \in 1 .. depth, k = depth
          PROVE  k \in 1 .. depth' /\ WaitsGrant(k, f.task)'
      <4>1. k \in 1 .. depth' /\ calls'[k] = f
        BY <3>3, <3>4
      <4> QED
        BY <2>3, <3>4, <4>1 DEF WaitsGrant, Stops
    <3> QED
      BY <3>1, <3>2, <3>3, <3>4
  <2>4. ASSUME Stops(depth, f.task), f.at \in Stages,
               calls[depth].at = "first", f.at = "procured",
               ~HasRunsema(f.task), semaport' = Append(semaport, f.task)
        PROVE  GrantsAwaited'
    <3>1. f.task \notin ToSet(semaport)
      <4>1. \A k \in 1 .. depth : ~WaitsGrant(k, f.task)
        BY <2>3, <2>4 DEF WaitsGrant
      <4> QED
        BY <4>1 DEF GrantsAwaited, WaitsGrant
    <3>2. sub[f.task] = "none"
      <4>1. sub[f.task] \in {"none", "created"}
        BY <2>3, <2>4 DEF HasRunsema, TypeOK, Places
      <4>2. sub[f.task] # "created"
        <5>1. SUFFICES ASSUME sub[f.task] = "created" PROVE FALSE
          OBVIOUS
        <5>2. At(<<f.task, "startup">>, "created", f.task)
          BY <2>3, <2>4, <5>1, AtCreated
        <5>3. InUse(<<f.task, "startup">>)
          BY <2>3, <2>4, <5>2, OnlyThere, OwnFacts, PlaceFacts DEF OwnKinds
        <5>4. Waits(depth)
          BY <2>3, <2>4, <5>3 DEF StartupFirst
        <5> QED
          BY <2>4, <5>4 DEF Waits
      <4> QED
        BY <4>1, <4>2
    <3>3. ASSUME NEW t, NEW k \in 1 .. depth, WaitsGrant(k, t)
          PROVE  k \in 1 .. depth' /\ WaitsGrant(k, t)'
      <4>1. k # depth
        BY <2>4, <3>3 DEF WaitsGrant
      <4> QED
        BY <2>3, <2>4, <3>3, <4>1, StaysWaiting
    <3>4. PICK s \in Tasks : s = f.task
      BY <2>3, <2>4
    <3>5. PICK l \in 1 .. depth' : WaitsGrant(l, s)'
      <4>1. PICK l \in 1 .. depth : l = depth
        BY <1>2, <2>1
      <4> QED
        BY <2>3, <2>4, <3>4, <4>1
    <3>6. /\ s \notin ToSet(semaport) /\ semaport' = Append(semaport, s)
          /\ sub'[s] = "none"
      BY <1>1, <2>4, <3>1, <3>2, <3>4
    <3> QED
      BY <1>1, <3>3, <3>5, <3>6, GrantMade
  <2>5. ASSUME Stops(depth, f.task), f.at \in Stages,
               f.at \in {"procured", "again"}, UNCHANGED semaport
        PROVE  GrantsAwaited'
    <3>1. ASSUME NEW t, NEW k \in 1 .. depth, WaitsGrant(k, t)
          PROVE  k \in 1 .. depth' /\ WaitsGrant(k, t)'
      <4>1. CASE k # depth
        BY <2>3, <2>5, <3>1, <4>1, StaysWaiting
      <4>2. CASE k = depth
        <5>1. t = f.task
          BY <2>5, <3>1, <4>2 DEF WaitsGrant, Stops
        <5> QED
          BY <2>3, <2>5, <4>2, <5>1
      <4> QED
        BY <4>1, <4>2
    <3>2. IsInjective(semaport')
      BY <2>5 DEF GrantsAwaited
    <3> QED
      BY <1>1, <2>5, <3>1, <3>2, GrantsKept
  <2>6. ASSUME Stops(depth, f.task), f.at \in Stages,
               semaport # << >>, semaport' = Tail(semaport),
               Head(semaport) = f.task \/ f.at \in {"procured", "again"}
        PROVE  GrantsAwaited'
    <3>1. /\ IsInjective(semaport')
          /\ ToSet(semaport') = ToSet(semaport) \ {Head(semaport)}
      BY <2>6, TailSet DEF TypeOK, GrantsAwaited
    <3>2. ASSUME NEW t \in ToSet(semaport'), NEW k \in 1 .. depth, WaitsGrant(k, t)
          PROVE  k \in 1 .. depth' /\ WaitsGrant(k, t)'
      <4>1. CASE k # depth
        BY <2>3, <2>6, <3>2, <4>1, StaysWaiting
      <4>2. CASE k = depth
        <5>1. t = f.task
          BY <2>6, <3>2, <4>2 DEF WaitsGrant, Stops
        <5>2. f.at \in {"procured", "again"}
          BY <2>6, <3>1, <3>2, <5>1
        <5> QED
          BY <2>3, <2>6, <4>2, <5>1, <5>2
      <4> QED
        BY <4>1, <4>2
    <3> QED
      BY <1>1, <3>1, <3>2, GrantsKept
  <2> QED
    BY <1>6, <2>2, <2>4, <2>5, <2>6, SMT DEF Waiting
<1>7. ASSUME Looping PROVE GrantsAwaited'
  <2>1. UNCHANGED semaport
    BY <1>7, SMT DEF Looping, semas
  <2> QED
    BY <1>1, <1>3, <1>7, <2>1, GrantsUnchanged DEF Looping
<1>8. ASSUME NEW t \in Tasks, Freed(t) PROVE GrantsAwaited'
  <2>1. UNCHANGED semaport
    BY <1>8, SMT DEF Freed, semas
  <2> QED
    BY <1>1, <1>3, <1>8, <2>1, GrantsUnchanged DEF Freed
<1> QED
  BY <1>4, <1>5, <1>6, <1>7, <1>8, MainSteps

\* An element of the stack is a call.
LEMMA StackLevel ==
  ASSUME TypeOK, NEW i \in DOMAIN stack
  PROVE  depth + 1 - i \in 1 .. depth /\ calls[depth + 1 - i] = stack[i]
<1>1. stack \in Seq(Frames) /\ i \in 1 .. Len(stack)
  BY DEF TypeOK
<1>2. \A k \in 1 .. Len(stack) : calls[k] = stack[Len(stack) + 1 - k]
  BY <1>1, ReverseElements DEF calls
<1>3. Len(stack) \in Nat
  BY <1>1
<1>4. Len(stack) + 1 - i \in 1 .. Len(stack)
  BY <1>1, <1>3
<1>5. Len(stack) + 1 - (Len(stack) + 1 - i) = i
  BY <1>1, <1>3
<1> QED
  BY <1>2, <1>4, <1>5 DEF depth

\* A subtask does: it grants its runsema once, when it is gone.
LEMMA GrantsSubtasks ==
  ASSUME IInv, NEW t \in Tasks, Process(t)
  PROVE  GrantsAwaited'
<1> USE DEF IInv
<1>1. UNCHANGED <<stack, calls, depth>>
  BY SubtasksKeep
<1>2. t \notin ToSet(semaport)
  BY SubtaskStates DEF GrantsAwaited
<1>3. \A u \in ToSet(semaport) : sub'[u] = sub[u]
  <2>1. ToSet(semaport) \subseteq Tasks
    BY SMT DEF TypeOK, ToSet
  <2> QED
    BY <1>2, <2>1, SubtaskStates
<1>4. CASE UNCHANGED semaport
  <2>1. Grows
    BY <1>1, Levels DEF Grows, TypeOK
  <2> QED
    BY <1>3, <1>4, <2>1, GrantsUnchanged
<1>5. CASE ReleaseRunsema(t) /\ Procured(t) /\ semaport' = Append(semaport, t)
  <2>1. PICK i \in DOMAIN stack : /\ stack[i].at \in {"procured", "again"}
                                  /\ stack[i].task = t
    BY <1>5 DEF Procured
  <2>2. PICK l : l \in 1 .. depth /\ calls[l] = stack[i]
    BY StackLevel
  <2>3. WaitsGrant(l, t)
    BY <2>1, <2>2 DEF WaitsGrant, Stops, Stages
  <2>4. ASSUME NEW u, NEW k \in 1 .. depth, WaitsGrant(k, u)
        PROVE  k \in 1 .. depth' /\ WaitsGrant(k, u)'
    BY <1>1, <2>4, StaysWaiting
  <2>5. sub'[t] = "none"
    BY <1>5 DEF ReleaseRunsema, TypeOK
  <2>6. l \in 1 .. depth' /\ WaitsGrant(l, t)'
    BY <2>2, <2>3, <2>4
  <2> QED
    BY <1>2, <1>3, <1>5, <2>4, <2>5, <2>6, GrantMade
<1>6. ReleaseRunsema(t) \/ UNCHANGED semaport
  BY Zenon DEF Process, Wrapper, Subtask, SubtaskFails, Updated, SubtaskEnds,
     Gettaskmsg, Replytaskmsg, UpdateSync, UpdateAsync, Update, EntryEnds, semas
<1> QED
  BY <1>4, <1>5, <1>6, ReleasesAs

\* What objects do does.
LEMMA GrantsObject ==
  ASSUME IInv, NEW t \in Tasks, Object(t)
  PROVE  GrantsAwaited'
<1> USE DEF IInv
<1>1. UNCHANGED semaport
  BY Zenon DEF Object, Newtask, Starttask, StarttaskFails, StoptaskAsync,
     Disposetask, AsetattrsasyncA, AsetattrssyncA, semas
<1>2. Grows \/ \E f : Adds(f)
  <2>1. UNCHANGED <<calls, depth>> => Grows
    BY Levels DEF Grows, TypeOK
  <2> QED
    BY <2>1, ObjectCalls
<1>3. \A u \in ToSet(semaport) : sub'[u] = sub[u]
  <2>1. ToSet(semaport) \subseteq Tasks
    BY SMT DEF TypeOK, ToSet
  <2>2. "DISPOSING" \notin flags[t] => t \notin ToSet(semaport)
    BY DEF GrantsAwaited, OneStop, OneStopOf
  <2> QED
    BY <2>1, <2>2, ObjectCalls
<1> QED
  BY <1>1, <1>2, <1>3, GrantsUnchanged

-----------------------------------------------------------------------------
(* Inside handlers.                                                        *)

\* The message of a handler is the same while the handler runs.
LEMMA HandlerMessage ==
  ASSUME IInv, OneAt', Next, NEW k \in 1 .. depth, k \in 1 .. depth',
         calls'[k] = calls[k], Handles(k), NEW m, m = calls[k].msg
  PROVE  m \in AllMsgs /\ msg'[m] = msg[m] /\ InUse(m) /\ Sender(m) \in Tasks
<1> USE DEF IInv
<1>1. m \in AllMsgs /\ InUse(m) /\ Sender(m) \in Tasks
  BY HandlerInUse, Returning
<1>2. InUse(m)'
  <2>1. At(m, "handler", k)'
    BY AtHandler DEF Handles
  <2>2. k \in Spots /\ "handler" \in PlaceKinds
    BY PlaceFacts DEF Spots
  <2> QED
    BY <1>1, <2>1, <2>2, Zenon DEF OneAt
<1> QED
  BY <1>1, <1>2, MessagesNext DEF FreedOrMade

\* A call that stays is about the same task.
LEMMA PlainKept ==
  ASSUME IInv, OneAt', Next, NEW k \in 1 .. depth, k \in 1 .. depth',
         calls'[k] = calls[k], NEW t, Plain(k, t)
  PROVE  Plain(k, t)'
<1>1. SUFFICES
        \/ /\ calls'[k].at \in {"wait", "sleep"}
           /\ \E u \in Tasks \ {t} : calls'[k].msg = <<u, "startup">>
        \/ \E u \in Tasks \ (Hot \cup Restoring \cup {t}) :
             \/ calls'[k].at \in Stages /\ calls'[k].task = u
             \/ calls'[k].at = "update" /\ msg'[calls'[k].msg].task = u
  BY SMT DEF Plain, Waits, Stops, Handles, Sender
<1>2. PICK m : m = calls[k].msg
  OBVIOUS
<1>3. CASE Handles(k)
  <2>1. msg'[m] = msg[m]
    BY <1>2, <1>3, HandlerMessage
  <2> QED
    BY <1>2, <1>3, <2>1 DEF Plain, Waits, Stops, Handles, Stages, Sender
<1>4. CASE ~Handles(k)
  BY <1>4 DEF Plain, Waits, Stops
<1> QED
  BY <1>3, <1>4

\* Under a quiet handler.
Under(k, t) == k \in 1 .. depth /\ t \in Tasks /\ QuietHandler(k, t)
QuietSafe(t) == "PROCESSING" \in flags'[t] /\ state'[t] \in {"RUN", "DEAD"}
PlainCall(f, t) ==
  \/ /\ f.at \in {"wait", "sleep"}
     /\ \E u \in Tasks \ {t} : f.msg = <<u, "startup">>
  \/ \E u \in Tasks \ (Hot \cup Restoring \cup {t}) :
       \/ f.at \in Stages /\ f.task = u
       \/ f.at = "update" /\ msg'[f.msg].task = u
OldTop == depth' \in 1 .. depth /\ calls'[depth'] = calls[depth']

\* What a step has to respect for a quiet handler to stay so.
LEMMA QuietNext ==
  ASSUME IInv, OneAt', Next, NEW f, CallsAre(f),
         \A k \in 1 .. depth, t \in Tasks :
           Under(k, t) /\ k \in 1 .. depth' /\ calls'[k] = calls[k]
             => QuietSafe(t) /\ (k < depth' /\ ~OldTop => PlainCall(f, t)),
         f.at = "update" => QuietSafe(msg'[f.msg].task)
  PROVE  QuietInside'
<1> USE DEF IInv
<1>0. depth \in Nat /\ depth' \in Nat
  BY Levels DEF TypeOK, CallsAre
<1>1. SUFFICES ASSUME NEW k \in 1 .. depth', NEW t \in Tasks, NEW m,
                      calls'[k].at = "update", m = calls'[k].msg,
                      Quiet(m)', msg'[m].task = t
               PROVE  /\ QuietSafe(t)
                      /\ \A l \in 1 .. depth' : l > k => Plain(l, t)'
  <2>1. SUFFICES ASSUME NEW k \in 1 .. depth', NEW t \in Tasks, QuietHandler(k, t)'
                 PROVE  /\ QuietSafe(t)
                        /\ \A l \in 1 .. depth' : l > k => Plain(l, t)'
    BY SMT DEF QuietInside, QuietSafe
  <2>2. PICK m : m = calls'[k].msg
    OBVIOUS
  <2>3. /\ calls'[k].at = "update" /\ msg'[m].task = t
        /\ msg'[m].kind = "async" => msg'[m].task \notin Restoring
    BY <2>1, <2>2, SMT DEF QuietHandler, Handles, Sender, Quiet, Is
  <2>4. Quiet(m)'
    BY <2>3 DEF Quiet, Is, Sender
  <2> QED
    BY <1>1, <2>2, <2>3, <2>4
<1>2. CASE k \in 1 .. depth /\ calls'[k] = calls[k]
  <2>1. Handles(k) /\ m = calls[k].msg
    BY <1>1, <1>2 DEF Handles
  <2>2. msg'[m] = msg[m]
    BY <1>2, <2>1, HandlerMessage
  <2>3. Under(k, t)
    <3>1. Sender(m) = t
      BY <1>1, <2>2 DEF Sender
    <3>2. Quiet(m)
      BY <1>1, <2>2 DEF Quiet, Is, Sender
    <3> QED
      BY <1>2, <2>1, <3>1, <3>2 DEF Under, QuietHandler
  <2>4. QuietSafe(t) /\ (k < depth' /\ ~OldTop => PlainCall(f, t))
    BY <1>2, <2>3
  <2>5. ASSUME NEW l \in 1 .. depth', l > k PROVE Plain(l, t)'
    <3>1. CASE l \in 1 .. depth /\ calls'[l] = calls[l]
      <4>1. Plain(l, t)
        BY <1>2, <2>3, <2>5, <3>1 DEF QuietInside, Under
      <4> QED
        BY <3>1, <4>1, PlainKept
    <3>2. CASE ~(l \in 1 .. depth /\ calls'[l] = calls[l])
      <4>1. l # 1
        BY <1>0, <2>5
      <4>2. l = depth' /\ calls'[l] = f
        BY <3>2, <4>1 DEF CallsAre
      <4>3. PlainCall(f, t)
        BY <2>4, <2>5, <3>2, <4>2 DEF OldTop
      <4>4. \/ /\ calls'[l].at \in {"wait", "sleep"}
               /\ \E u \in Tasks \ {t} : calls'[l].msg = <<u, "startup">>
            \/ \E u \in Tasks \ (Hot \cup Restoring \cup {t}) :
                 \/ calls'[l].at \in Stages /\ calls'[l].task = u
                 \/ calls'[l].at = "update" /\ msg'[calls'[l].msg].task = u
        BY <4>2, <4>3 DEF PlainCall
      <4> QED
        BY <4>4, SMT DEF Plain, Waits, Stops, Handles, Sender
    <3> QED
      BY <3>1, <3>2
  <2> QED
    BY <2>4, <2>5
<1>3. CASE ~(k \in 1 .. depth /\ calls'[k] = calls[k])
  <2>1. k = depth' /\ calls'[k] = f
    BY <1>1, <1>3 DEF CallsAre
  <2>2. QuietSafe(t)
    BY <1>1, <2>1
  <2>3. \A l \in 1 .. depth' : ~(l > k)
    BY <1>0, <2>1
  <2> QED
    BY <2>2, <2>3
<1> QED
  BY <1>2, <1>3

\* What is under a quiet handler, and what is there when it runs.
LEMMA UnderQuiet ==
  ASSUME IInv, NEW k, NEW t, Under(k, t)
  PROVE  /\ k \in 1 .. depth /\ t \in Tasks /\ depth > 0 /\ depth \in 1 .. depth
         /\ Handles(k) /\ Quiet(calls[k].msg) /\ Sender(calls[k].msg) = t
         /\ "PROCESSING" \in flags[t] /\ state[t] \in {"RUN", "DEAD"}
         /\ k # depth => Plain(depth, t)
<1>1. depth \in Nat
  BY Levels DEF IInv, TypeOK
<1>2. /\ k \in 1 .. depth /\ t \in Tasks /\ QuietHandler(k, t)
  BY DEF Under
<1>3. depth > 0 /\ depth \in 1 .. depth /\ (k # depth => depth > k)
  BY <1>1, <1>2
<1> QED
  BY <1>2, <1>3 DEF QuietHandler, QuietInside, IInv

\* The task that Stoptask stops inside a quiet handler.
LEMMA StopsUnder ==
  ASSUME IInv, NEW k, NEW t, Under(k, t), NEW s, Stops(depth, s)
  PROVE  s \in Tasks \ (Hot \cup Restoring \cup {t}) /\ k # depth
<1>1. ~Waits(depth) /\ ~Handles(depth) /\ \A u : Stops(depth, u) => u = s
  BY DEF Stops, Stages, Waits, Handles
<1>2. k # depth
  BY <1>1, UnderQuiet
<1>3. Plain(depth, t)
  BY <1>2, UnderQuiet
<1> QED
  BY <1>1, <1>2, <1>3 DEF Plain

\* The only message that it waits for there is a startup message.
LEMMA WaitsUnder ==
  ASSUME IInv, NEW k, NEW t, Under(k, t), Waits(depth)
  PROVE  k # depth /\ \E u \in Tasks \ {t} : calls[depth].msg = <<u, "startup">>
<1>1. ~Handles(depth) /\ \A u : ~Stops(depth, u)
  BY DEF Stops, Stages, Waits, Handles
<1>2. k # depth
  BY <1>1, UnderQuiet
<1>3. Plain(depth, t)
  BY <1>2, UnderQuiet
<1> QED
  BY <1>1, <1>2, <1>3 DEF Plain

\* A handler that runs in one.
LEMMA HandlesUnder ==
  ASSUME IInv, NEW k, NEW t, Under(k, t), Handles(depth), k # depth
  PROVE  Sender(calls[depth].msg) \in Tasks \ (Hot \cup Restoring \cup {t})
<1>1. ~Waits(depth) /\ \A u : ~Stops(depth, u)
  BY DEF Stops, Stages, Waits, Handles
<1>2. Plain(depth, t)
  BY UnderQuiet
<1> QED
  BY <1>1, <1>2 DEF Plain

\* A subtask keeps what is called inside handlers.
LEMMA QuietSubtasks ==
  ASSUME IInv, OneAt', NEW p \in Tasks, Process(p)
  PROVE  QuietInside'
<1> USE DEF IInv
<1>1. UNCHANGED <<flags, calls, depth>>
  BY SubtasksKeep
<1>2. depth \in Nat
  BY Levels DEF TypeOK
<1>3. CallsAre(Stopping(p))
  BY <1>1, <1>2 DEF CallsAre
<1>4. ASSUME NEW k \in 1 .. depth, NEW t \in Tasks, Under(k, t)
      PROVE  QuietSafe(t) /\ OldTop
  <2>1. "PROCESSING" \in flags[t] /\ state[t] \in {"RUN", "DEAD"} /\ depth \in 1 .. depth
    BY <1>4, UnderQuiet
  <2>2. state'[t] \in {"RUN", "DEAD"}
    BY <2>1, SubtaskStates
  <2> QED
    BY <1>1, <2>1, <2>2 DEF QuietSafe, OldTop
<1>5. Stopping(p).at # "update"
  BY SMT DEF Stopping
<1>6. Next
  BY DEF Next
<1> QED
  BY <1>3, <1>4, <1>5, <1>6, QuietNext

\* The main task does: waits inside run other tasks' handlers.
LEMMA QuietMain ==
  ASSUME IInv, OneAt', Main \/ HandlerReturns
  PROVE  QuietInside'
<1> USE DEF IInv
<1>0. /\ depth \in Nat /\ Next
      /\ flags \in [Tasks -> SUBSET Flags] /\ state \in [Tasks -> States]
  BY Levels DEF TypeOK, Next
<1>1. \A s : Stopping(s).at = "first" /\ Stopping(s).task = s
  BY DEF Stopping
<1>2. \A m : NewHandler(m).at = "update" /\ NewHandler(m).msg = m
  BY DEF NewHandler
<1>3. ASSUME NEW m \in AllMsgs, Receives(m) PROVE QuietInside'
  <2>1. /\ m \in ToSet(taskport) /\ UNCHANGED state
        /\ \/ depth = 0
           \/ depth > 0 /\ Waits(depth) /\ \A u \in Tasks : calls[depth].msg # <<u, "startup">>
           \/ Stops(depth, Sender(m))
    BY <1>3, Zenon DEF Receives
  <2>2. InUse(m) /\ Sender(m) \in Tasks
    BY <2>1, PortInUse, Returning
  <2>3. PICK s \in Tasks : s = Sender(m)
    BY <2>2
  <2>4. ASSUME NEW k \in 1 .. depth, NEW t \in Tasks, Under(k, t)
        PROVE  s \in Tasks \ (Hot \cup Restoring \cup {t})
    <3>1. depth # 0
      BY <1>0
    <3>2. ~(Waits(depth) /\ \A u \in Tasks : calls[depth].msg # <<u, "startup">>)
      BY <2>4, WaitsUnder
    <3> QED
      BY <2>1, <2>3, <2>4, <3>1, <3>2, StopsUnder
  <2>5. ASSUME NEW k \in 1 .. depth, NEW t \in Tasks, Under(k, t),
               NEW fl, flags' = [flags EXCEPT ![s] = fl]
        PROVE  QuietSafe(t)
    <3>1. "PROCESSING" \in flags[t] /\ state[t] \in {"RUN", "DEAD"}
      BY <2>5, UnderQuiet
    <3>2. flags'[t] = flags[t]
      BY <1>0, <2>4, <2>5
    <3> QED
      BY <2>1, <3>1, <3>2 DEF QuietSafe
  <2>6. CASE /\ Adds(NewHandler(m)) /\ UNCHANGED msg
             /\ flags' = [flags EXCEPT ![s] = @ \cup {"PROCESSING"}]
    <3>1. CallsAre(NewHandler(m))
      BY <2>6, CallsAfter
    <3>2. msg'[m].task = s
      BY <2>3, <2>6 DEF Sender
    <3>3. ASSUME NEW k \in 1 .. depth, NEW t \in Tasks, Under(k, t)
          PROVE  QuietSafe(t) /\ PlainCall(NewHandler(m), t)
      BY <1>2, <2>4, <2>5, <2>6, <3>2, <3>3 DEF PlainCall
    <3>4. QuietSafe(s)
      <4>1. "PROCESSING" \in flags'[s]
        BY <1>0, <2>6
      <4>2. state[s] \notin {"FREE", "NEW"}
        BY <2>1, <2>2, <2>3 DEF OwnAgree, Of, InUse
      <4> QED
        BY <1>0, <2>1, <4>1, <4>2 DEF QuietSafe, States
    <3> QED
      BY <1>0, <1>2, <3>1, <3>2, <3>3, <3>4, QuietNext
  <2>7. CASE /\ Grows \/ Adds(Stopping(s))
             /\ \E fl : flags' = [flags EXCEPT ![s] = fl]
    <3>1. CallsAre(Stopping(s))
      BY <2>7, CallsAfter
    <3>2. ASSUME NEW k \in 1 .. depth, NEW t \in Tasks, Under(k, t)
          PROVE  QuietSafe(t) /\ PlainCall(Stopping(s), t)
      <4>1. Stopping(s).at \in Stages
        BY <1>1 DEF Stages
      <4> QED
        BY <1>1, <2>4, <2>5, <2>7, <3>2, <4>1 DEF PlainCall
    <3>3. Stopping(s).at # "update"
      BY <1>1
    <3> QED
      BY <1>0, <3>1, <3>2, <3>3, QuietNext
  <2> QED
    BY <1>3, <2>3, <2>6, <2>7, Zenon DEF Receives, Settles, Disposes
<1>4. ASSUME NEW m \in AllMsgs, Answered(m) PROVE QuietInside'
  <2>1. /\ m \in ToSet(taskport) /\ UNCHANGED state
        /\ depth > 0 /\ Waits(depth) /\ calls[depth].msg = m
    BY <1>4 DEF Answered
  <2>2. InUse(m) /\ Sender(m) \in Tasks
    BY <2>1, PortInUse, Returning
  <2>3. PICK s \in Tasks : s = Sender(m)
    BY <2>2
  <2>4. CASE /\ m = <<s, "startup">> /\ Pops
             /\ flags' = [flags EXCEPT ![s] = @ \cup {"STARTED"}]
    <3>1. CallsAre(Stopping(s))
      BY <2>1, <2>4, CallsAfter
    <3>2. ASSUME NEW k \in 1 .. depth, NEW t \in Tasks, Under(k, t), k < depth'
          PROVE  QuietSafe(t) /\ OldTop
      <4>1. "PROCESSING" \in flags[t] /\ state[t] \in {"RUN", "DEAD"}
        BY <3>2, UnderQuiet
      <4>2. "PROCESSING" \in flags'[t]
        BY <1>0, <2>4, <4>1
      <4>3. OldTop
        BY <1>0, <2>1, <2>4, <3>2 DEF OldTop, Pops
      <4> QED
        BY <2>1, <4>1, <4>2, <4>3 DEF QuietSafe
    <3>3. ASSUME NEW k \in 1 .. depth, NEW t \in Tasks, Under(k, t)
          PROVE  QuietSafe(t)
      <4>1. "PROCESSING" \in flags[t] /\ state[t] \in {"RUN", "DEAD"}
        BY <3>3, UnderQuiet
      <4>2. "PROCESSING" \in flags'[t]
        BY <1>0, <2>4, <4>1
      <4> QED
        BY <2>1, <4>1, <4>2 DEF QuietSafe
    <3>4. Stopping(s).at # "update"
      BY <1>1
    <3> QED
      BY <1>0, <3>1, <3>2, <3>3, <3>4, QuietNext
  <2>5. CASE /\ \A u \in Tasks : m # <<u, "startup">>
             /\ Pops \/ Swaps(Stopping(s))
    <3>1. CallsAre(Stopping(s))
      BY <2>1, <2>5, CallsAfter
    <3>2. \A k \in 1 .. depth, t \in Tasks : ~Under(k, t)
      BY <2>1, <2>5, WaitsUnder
    <3>3. Stopping(s).at # "update"
      BY <1>1
    <3> QED
      BY <1>0, <3>1, <3>2, <3>3, QuietNext
  <2> QED
    BY <1>4, <2>3, <2>4, <2>5, Zenon DEF Answered
<1>5. ASSUME NEW m \in AllMsgs, Returned(m) PROVE QuietInside'
  <2>1. /\ depth > 0 /\ Handles(depth) /\ calls[depth].msg = m /\ UNCHANGED state
    BY <1>5 DEF Returned
  <2>2. depth \in 1 .. depth
    BY <1>0, <2>1
  <2>3. PICK s \in Tasks : s = Sender(m)
    BY <2>1, <2>2, HandlerInUse, Returning
  <2>4. CASE /\ Pops \/ Swaps(Stopping(s))
             /\ \E fl : flags' = [flags EXCEPT ![s] = fl]
    <3>1. CallsAre(Stopping(s))
      BY <2>1, <2>4, CallsAfter
    <3>2. Stopping(s).at \in Stages /\ Stopping(s).at # "update"
      BY <1>1 DEF Stages
    <3>3. ASSUME NEW k \in 1 .. depth, NEW t \in Tasks, Under(k, t),
                 k \in 1 .. depth', calls'[k] = calls[k]
          PROVE  QuietSafe(t) /\ PlainCall(Stopping(s), t)
      <4>1. k # depth
        <5>1. SUFFICES ASSUME k = depth PROVE FALSE
          OBVIOUS
        <5>2. CASE Pops
          BY <1>0, <3>3, <5>1, <5>2 DEF Pops
        <5>3. CASE Swaps(Stopping(s))
          <6>1. calls'[k] = Stopping(s)
            BY <5>1, <5>3 DEF Swaps
          <6> QED
            BY <2>1, <3>2, <3>3, <5>1, <6>1 DEF Handles
        <5> QED
          BY <2>4, <5>2, <5>3
      <4>2. s \in Tasks \ (Hot \cup Restoring \cup {t})
        BY <2>1, <2>3, <3>3, <4>1, HandlesUnder
      <4>3. "PROCESSING" \in flags[t] /\ state[t] \in {"RUN", "DEAD"}
        BY <3>3, UnderQuiet
      <4>4. flags'[t] = flags[t]
        BY <1>0, <2>4, <4>2
      <4> QED
        BY <1>1, <2>1, <3>2, <4>2, <4>3, <4>4 DEF QuietSafe, PlainCall
    <3> QED
      BY <1>0, <3>1, <3>2, <3>3, QuietNext
  <2> QED
    BY <1>5, <2>3, <2>4, Zenon DEF Returned, Settles, Disposes
<1>6. ASSUME NEW f \in Frames, Waiting(f) PROVE QuietInside'
  <2>1. /\ depth > 0 /\ Swaps(f) /\ UNCHANGED <<flags, state>>
        /\ \/ Waits(depth) /\ f.at \in {"wait", "sleep"} /\ f.msg = calls[depth].msg
           \/ Stops(depth, f.task) /\ f.at \in Stages
    BY <1>6, SMT DEF Waiting, object
  <2>2. CallsAre(f)
    BY <2>1, CallsAfter
  <2>3. f.at # "update"
    BY <2>1 DEF Stages
  <2>4. ASSUME NEW k \in 1 .. depth, NEW t \in Tasks, Under(k, t)
        PROVE  QuietSafe(t) /\ PlainCall(f, t)
    <3>1. "PROCESSING" \in flags[t] /\ state[t] \in {"RUN", "DEAD"}
      BY <2>4, UnderQuiet
    <3>2. ASSUME Waits(depth), f.at \in {"wait", "sleep"}, f.msg = calls[depth].msg
          PROVE  PlainCall(f, t)
      BY <2>4, <3>2, WaitsUnder DEF PlainCall
    <3>3. ASSUME Stops(depth, f.task), f.at \in Stages PROVE PlainCall(f, t)
      BY <2>4, <3>3, StopsUnder DEF PlainCall
    <3> QED
      BY <2>1, <3>1, <3>2, <3>3 DEF QuietSafe
  <2> QED
    BY <1>0, <2>2, <2>3, <2>4, QuietNext
<1>7. ASSUME Looping PROVE QuietInside'
  <2>1. UNCHANGED <<flags, state>>
    BY <1>7, SMT DEF Looping, object
  <2>2. CallsAre(Stopping(Nobody))
    BY <1>7, CallsAfter DEF Looping
  <2>3. Stopping(Nobody).at # "update"
    BY <1>1
  <2>4. ASSUME NEW k \in 1 .. depth, NEW t \in Tasks, Under(k, t)
        PROVE  QuietSafe(t) /\ (k < depth' => OldTop)
    <3>1. "PROCESSING" \in flags[t] /\ state[t] \in {"RUN", "DEAD"}
      BY <2>4, UnderQuiet
    <3>2. depth > 0 /\ Pops
      BY <1>0, <1>7 DEF Looping
    <3>3. k < depth' => OldTop
      BY <1>0, <3>2 DEF OldTop, Pops
    <3> QED
      BY <2>1, <3>1, <3>3 DEF QuietSafe
  <2> QED
    BY <1>0, <2>2, <2>3, <2>4, QuietNext
<1>8. ASSUME NEW s \in Tasks, Freed(s) PROVE QuietInside'
  <2>1. /\ depth > 0 /\ Stops(depth, s) /\ Pops
        /\ flags' = [flags EXCEPT ![s] = {}]
        /\ state' = [state EXCEPT ![s] = "FREE"]
    BY <1>8 DEF Freed
  <2>2. CallsAre(Stopping(s))
    BY <2>1, CallsAfter
  <2>3. Stopping(s).at # "update"
    BY <1>1
  <2>4. ASSUME NEW k \in 1 .. depth, NEW t \in Tasks, Under(k, t)
        PROVE  QuietSafe(t) /\ (k < depth' => OldTop)
    <3>1. "PROCESSING" \in flags[t] /\ state[t] \in {"RUN", "DEAD"}
      BY <2>4, UnderQuiet
    <3>2. s # t
      BY <2>1, <2>4, StopsUnder
    <3>3. k < depth' => OldTop
      BY <1>0, <2>1 DEF OldTop, Pops
    <3> QED
      BY <1>0, <2>1, <3>1, <3>2, <3>3 DEF QuietSafe
  <2> QED
    BY <1>0, <2>2, <2>3, <2>4, QuietNext
<1> QED
  BY <1>3, <1>4, <1>5, <1>6, <1>7, <1>8, MainSteps

\* What objects do does: MayDispose and AsetattrssyncA say who calls.
LEMMA QuietObject ==
  ASSUME IInv, OneAt', NEW p \in Tasks, Object(p)
  PROVE  QuietInside'
<1> USE DEF IInv
<1>0. depth \in Nat /\ Next /\ flags \in [Tasks -> SUBSET Flags]
  BY Levels DEF TypeOK, Next
<1>1. Stopping(p).at = "first" /\ Stopping(p).task = p /\ Stopping(p).at \in Stages
  BY DEF Stopping, Stages
<1>2. CASE /\ UNCHANGED <<flags, calls, depth, sub>>
           /\ \A u \in Tasks : state[u] \in {"RUN", "DEAD"} => state'[u] = state[u]
  <2>1. CallsAre(Stopping(p))
    BY <1>0, <1>2 DEF CallsAre
  <2>2. ASSUME NEW k \in 1 .. depth, NEW t \in Tasks, Under(k, t)
        PROVE  QuietSafe(t) /\ OldTop
    <3>1. "PROCESSING" \in flags[t] /\ state[t] \in {"RUN", "DEAD"} /\ depth \in 1 .. depth
      BY <2>2, UnderQuiet
    <3> QED
      BY <1>2, <3>1 DEF QuietSafe, OldTop
  <2> QED
    BY <1>0, <1>1, <2>1, <2>2, QuietNext
<1>3. CASE /\ Adds(StartWait(p)) /\ UNCHANGED <<flags, state>> /\ state[p] = "NEW"
  <2>1. CallsAre(StartWait(p))
    BY <1>3, CallsAfter
  <2>2. StartWait(p).at = "wait" /\ StartWait(p).msg = <<p, "startup">>
    BY DEF StartWait
  <2>3. ASSUME NEW k \in 1 .. depth, NEW t \in Tasks, Under(k, t)
        PROVE  QuietSafe(t) /\ PlainCall(StartWait(p), t)
    <3>1. "PROCESSING" \in flags[t] /\ state[t] \in {"RUN", "DEAD"}
      BY <2>3, UnderQuiet
    <3> QED
      BY <1>3, <2>2, <3>1 DEF QuietSafe, PlainCall
  <2> QED
    BY <1>0, <2>1, <2>2, <2>3, QuietNext
<1>4. ASSUME NEW m \in Msgs, AsetattrssyncA(m, p), Adds(WaitFor(m))
      PROVE  QuietInside'
  <2>1. CallsAre(WaitFor(m))
    BY <1>4, CallsAfter
  <2>2. WaitFor(m).at = "wait"
    BY DEF WaitFor
  <2>3. ASSUME NEW k \in 1 .. depth, NEW t \in Tasks, Under(k, t) PROVE FALSE
    <3>1. /\ InHandler /\ Is(Top.msg, {"async"})
          /\ Sender(Top.msg) \in Restoring
      <4>1. stack # << >>
        BY <1>0, Callers
      <4> QED
        BY <1>4, <4>1 DEF AsetattrssyncA
    <3>2. Handles(depth) /\ Top = calls[depth]
      BY <3>1, Callers
    <3>3. CASE k = depth
      BY <2>3, <3>1, <3>2, <3>3, UnderQuiet DEF Quiet
    <3>4. CASE k # depth
      BY <2>3, <3>1, <3>2, <3>4, HandlesUnder
    <3> QED
      BY <3>3, <3>4
  <2> QED
    BY <1>0, <2>1, <2>2, <2>3, QuietNext
<1>5. CASE /\ UNCHANGED <<calls, depth, sub, state>>
           /\ flags' = [flags EXCEPT ![p] = @ \cup {"DISPOSING", "MUSTDISPOSE"}]
  <2>1. CallsAre(Stopping(p))
    BY <1>0, <1>5 DEF CallsAre
  <2>2. ASSUME NEW k \in 1 .. depth, NEW t \in Tasks, Under(k, t)
        PROVE  QuietSafe(t) /\ OldTop
    <3>1. "PROCESSING" \in flags[t] /\ state[t] \in {"RUN", "DEAD"} /\ depth \in 1 .. depth
      BY <2>2, UnderQuiet
    <3>2. "PROCESSING" \in flags'[t]
      BY <1>0, <1>5, <3>1
    <3> QED
      BY <1>5, <3>1, <3>2 DEF QuietSafe, OldTop
  <2> QED
    BY <1>0, <1>1, <2>1, <2>2, QuietNext
<1>6. CASE /\ Disposetask(p) /\ ~Busy(p) /\ Adds(Stopping(p)) /\ UNCHANGED state
           /\ flags' = [flags EXCEPT ![p] = @ \cup {"DISPOSING"}]
  <2>1. CallsAre(Stopping(p))
    BY <1>6, CallsAfter
  <2>2. ASSUME NEW k \in 1 .. depth, NEW t \in Tasks, Under(k, t)
        PROVE  QuietSafe(t) /\ PlainCall(Stopping(p), t)
    <3>1. "PROCESSING" \in flags[t] /\ state[t] \in {"RUN", "DEAD"} /\ depth \in 1 .. depth
      BY <2>2, UnderQuiet
    <3>2. "PROCESSING" \in flags'[t]
      BY <1>0, <1>6, <3>1
    <3>3. p # t
      BY <1>6, <3>1 DEF Busy
    <3>4. p \notin Hot \cup Restoring
      <4>1. stack # << >>
        BY <1>0, Callers
      <4>2. ~(InHandler /\ Is(Top.msg, {"last"}) /\ Sender(Top.msg) = p)
        <5>1. SUFFICES ASSUME InHandler, Is(Top.msg, {"last"}), Sender(Top.msg) = p
                       PROVE  FALSE
          OBVIOUS
        <5>2. Handles(depth) /\ Top = calls[depth]
          BY <5>1, Callers
        <5>3. Quiet(calls[depth].msg)
          BY <5>1, <5>2 DEF Quiet, Is
        <5>4. Under(depth, p)
          BY <3>1, <5>1, <5>2, <5>3 DEF Under, QuietHandler
        <5> QED
          BY <1>6, <5>4, UnderQuiet DEF Busy
      <4> QED
        BY <1>6, <4>1, <4>2 DEF Disposetask, MayDispose
    <3> QED
      BY <1>1, <1>6, <3>1, <3>2, <3>3, <3>4 DEF QuietSafe, PlainCall
  <2> QED
    BY <1>0, <1>1, <2>1, <2>2, QuietNext
<1> QED
  BY <1>2, <1>3, <1>4, <1>5, <1>6, ObjectCalls

-----------------------------------------------------------------------------
(* The invariant.                                                          *)

\* Before anything is started.
LEMMA InitIInv == Init => IInv
<1> SUFFICES ASSUME Init PROVE IInv
  OBVIOUS
<1> USE DEF Init
<1>1. /\ stack = << >> /\ taskport = << >> /\ semaport = << >>
      /\ \A t \in Tasks : /\ state[t] = "FREE" /\ flags[t] = {} /\ sub[t] = "none"
                          /\ subport[t] = << >> /\ hold[t] = Nobody /\ ~replied[t]
      /\ \A m \in AllMsgs : ~InUse(m)
  BY DEF InUse
<1>2. \A t \in Tasks, k \in OwnKinds : ~InUse(<<t, k>>)
  BY <1>1, OwnFacts
<1>3. TypeOK
  <2>1. /\ state \in [Tasks -> States] /\ flags \in [Tasks -> SUBSET Flags]
        /\ target \in [Tasks -> BOOLEAN] /\ updport \in [Tasks -> BOOLEAN]
        /\ sub \in [Tasks -> Places] /\ ctrlc \in [Tasks -> BOOLEAN]
        /\ hold \in [Tasks -> Msgs \cup {Nobody}] /\ replied \in [Tasks -> BOOLEAN]
    BY DEF States, Places
  <2>2. msg \in [AllMsgs -> {NoMsg} \cup [kind : Kinds, task : Tasks]]
    BY Zenon
  <2>3. /\ taskport \in Seq(AllMsgs) /\ semaport \in Seq(Tasks)
        /\ stack \in Seq(Frames) /\ subport \in [Tasks -> Seq(Msgs)]
        /\ signal \in BOOLEAN /\ semasignal \in BOOLEAN
    <3>1. \A S : << >> \in Seq(S)
      BY SMT
    <3>2. subport \in [Tasks -> Seq(Msgs)]
      BY <3>1, Zenon
    <3> QED
      BY <3>1, <3>2, Zenon
  <2> QED
    BY <2>1, <2>2, <2>3 DEF TypeOK
<1>4. depth = 0
  BY <1>1, <1>3, Levels DEF TypeOK
<1>5. ToSet(taskport) = {} /\ ToSet(semaport) = {} /\ \A t \in Tasks : ToSet(subport[t]) = {}
  BY <1>1, SMT DEF ToSet
<1>6. IsInjective(taskport) /\ IsInjective(semaport) /\ \A t \in Tasks : IsInjective(subport[t])
  BY <1>1, SMT DEF IsInjective
<1>7. KindsAgree
  BY <1>1, <1>2, <1>5 DEF KindsAgree, AllMsgs
<1>8. OneAt
  <2>1. ASSUME NEW m \in AllMsgs, NEW c \in PlaceKinds, NEW x \in Spots, At(m, c, x)
        PROVE  FALSE
    <3>1. m # Nobody
      BY OwnFacts
    <3>2. c # "port"
      BY <1>5, <2>1, AtPort
    <3>3. c # "handler"
      BY <1>4, <2>1, AtHandler
    <3>4. c # "held"
      BY <1>1, <2>1, <3>1, AtHeld
    <3>5. c # "posted"
      BY <1>5, <2>1, AtPosted
    <3>6. c # "back"
      BY <1>1, <2>1, AtBack
    <3>7. c # "created"
      BY <1>1, <2>1, AtCreated
    <3> QED
      BY <3>2, <3>3, <3>4, <3>5, <3>6, <3>7, PlaceFacts
  <2> QED
    BY <1>1, <1>6, <2>1, Zenon DEF OneAt
<1>9. StatesAgree
  BY <1>1 DEF StatesAgree
<1>10. OwnAgree
  BY <1>1, <1>2, <1>5 DEF OwnAgree, OwnKinds
<1>11. StartupFirst
  BY <1>2 DEF StartupFirst, OwnKinds
<1>12. OneStop
  BY <1>1, <1>4 DEF OneStop, OneStopOf
<1>13. GrantsAwaited
  BY <1>5, <1>6 DEF GrantsAwaited
<1>14. QuietInside
  BY <1>4 DEF QuietInside
<1> QED
  BY <1>3, <1>7, <1>8, <1>9, <1>10, <1>11, <1>12, <1>13, <1>14 DEF IInv

\* Every step keeps the invariant.
LEMMA NextIInv == IInv /\ Next => IInv'
<1> SUFFICES ASSUME IInv, Next PROVE IInv'
  OBVIOUS
<1>1. TypeOK' /\ OneAt'
  BY TypeMain, TypeObject, TypeSubtasks, OneAtMain, OneAtObject, OneAtSubtasks
  DEF Next, IInv
<1>2. KindsAgree'
  BY <1>1, KindsAgreeKept
<1>3. StatesAgree'
  BY StatesMain, StatesObject, StatesSubtasks DEF Next
<1>4. OwnAgree'
  BY OwnMain, OwnObject, OwnSubtasks DEF Next
<1>5. StartupFirst'
  BY StartupMain, StartupObject, StartupSubtasks DEF Next
<1>6. OneStop'
  BY OneStopMain, OneStopObject, OneStopSubtasks DEF Next
<1>7. GrantsAwaited'
  BY GrantsMain, GrantsObject, GrantsSubtasks DEF Next
<1>8. QuietInside'
  BY <1>1, QuietMain, QuietObject, QuietSubtasks DEF Next
<1> QED
  BY <1>1, <1>2, <1>3, <1>4, <1>5, <1>6, <1>7, <1>8 DEF IInv

\* A step of the rest of the program.
LEMMA StutterIInv == IInv /\ UNCHANGED vars => IInv'
<1> SUFFICES ASSUME IInv, UNCHANGED vars PROVE IInv'
  OBVIOUS
<1> USE DEF IInv
<1>1. UNCHANGED <<state, flags, target, updport, sub, ctrlc, subport, hold, replied,
          msg, taskport, signal, semaport, semasignal, stack>>
  BY DEF vars
<1>2. UNCHANGED <<calls, depth>>
  BY <1>1 DEF calls, depth
<1>3. TypeOK'
  BY <1>1 DEF TypeOK
<1>4. OneAt'
  <2>1. SameInUse /\ Distinct
    BY <1>1 DEF SameInUse, InUse, Distinct, OneAt
  <2>2. KeptBut({})
    BY <1>1, <1>2, PlacesKept, PlaceFacts DEF KeptBut
  <2> QED
    BY <2>1, <2>2, NoTransfer
<1>5. KindsAgree'
  BY <1>1, SMT DEF KindsAgree, InUse, Sender
<1>6. StatesAgree'
  BY <1>1 DEF StatesAgree
<1>7. OwnAgree'
  <2>1. /\ \A x : InUse(x)' <=> InUse(x)
        /\ \A x, t : Of(x, t)' <=> Of(x, t)
    BY <1>1, SMT DEF InUse, Of, Sender
  <2>2. \A t \in Tasks :
          /\ InUse(<<t, "update">>)' <=> sub'[t] = "update"
          /\ InUse(<<t, "last">>)' => sub'[t] \in {"last", "ending", "none"}
          /\ state'[t] \in {"FREE", "NEW"}
               => ~InUse(<<t, "last">>)' /\ \A m \in ToSet(taskport') : ~Of(m, t)'
    BY <1>1, <2>1 DEF OwnAgree
  <2> QED
    BY <2>2, Zenon DEF OwnAgree
<1>8. StartupFirst'
  <2>1. \A t \in Tasks : InUse(<<t, "startup">>)' <=> InUse(<<t, "startup">>)
    BY <1>1 DEF InUse
  <2>2. \A t \in Tasks : FirstAtPort(t)' <=> FirstAtPort(t)
    BY <1>1, SMT DEF FirstAtPort, Of, Sender
  <2> QED
    BY <1>1, <1>2, <2>1, <2>2, SMT DEF StartupFirst, Waits
<1>9. OneStop'
  BY <1>1, <1>2, SMT DEF OneStop, OneStopOf, Stops
<1>10. GrantsAwaited'
  BY <1>1, <1>2, SMT DEF GrantsAwaited, Stops
<1>11. QuietInside'
  BY <1>1, <1>2, SMT DEF QuietInside, QuietHandler, Handles, Quiet, Is, Sender,
     Plain, Waits, Stops
<1> QED
  BY <1>3, <1>4, <1>5, <1>6, <1>7, <1>8, <1>9, <1>10, <1>11

\* The inductive invariant holds in every state of every behaviour.
THEOREM Invariant == Spec => []IInv
<1>1. IInv /\ [Next]_vars => IInv'
  BY NextIInv, StutterIInv
<1> QED
  BY <1>1, InitIInv, PTL DEF Spec

\* Every variable keeps its type: aweb/task.c never puts a task, a message or
\* a call of the main task in a state that the others do not know.
THEOREM TypeCorrect == Spec => []TypeOK
<1>1. IInv => TypeOK
  BY DEF IInv
<1> QED
  BY <1>1, Invariant, PTL

-----------------------------------------------------------------------------
(* One place for a message, counted.                                       *)

\* A set with at most one element.
LEMMA AtMostOne ==
  ASSUME NEW S, \A x, y \in S : x = y
  PROVE  (S = {} /\ Cardinality(S) = 0) \/ (S # {} /\ Cardinality(S) = 1)
<1>1. CASE S = {}
  <2>1. Cardinality({}) = 0
    BY FS_EmptySet
  <2> QED
    BY <1>1, <2>1
<1>2. CASE S # {}
  <2>1. PICK x : x \in S
    BY <1>2
  <2>2. S = {x}
    BY <2>1
  <2> QED
    BY <1>2, <2>2, FS_Singleton
<1> QED
  BY <1>1, <1>2

\* The places counted: at most one each, and one in all.
LEMMA OnePlaceThen == IInv => OnePlace
<1> SUFFICES ASSUME IInv, NEW m \in AllMsgs
             PROVE  PlacesOf(m) = IF msg[m] = NoMsg THEN 0 ELSE 1
  BY DEF OnePlace
<1> USE DEF IInv
<1> DEFINE P == {i \in DOMAIN taskport : taskport[i] = m}
           H == {i \in DOMAIN stack : stack[i].at = "update" /\ stack[i].msg = m}
           D == {t \in Tasks : hold[t] = m}
           B == {t \in Tasks : m = <<t, "update">> /\ replied[t]}
           O == {t \in Tasks : m \in ToSet(subport[t])}
           C == {t \in Tasks : m = <<t, "startup">> /\ sub[t] = "created"}
<1>1. /\ taskport \in Seq(AllMsgs) /\ stack \in Seq(Frames) /\ depth \in Nat
      /\ IsInjective(taskport)
  BY Levels DEF TypeOK, OneAt
<1>2. (P = {} /\ Cardinality(P) = 0) \/ (P # {} /\ Cardinality(P) = 1)
  <2>1. \A i, j \in P : i = j
    BY <1>1 DEF IsInjective
  <2> HIDE DEF P
  <2> QED
    BY <2>1, AtMostOne
<1>3. \A x \in H : x \in 1 .. depth /\ depth + 1 - x \in Spots /\ At(m, "handler", depth + 1 - x)
  <2>1. SUFFICES ASSUME NEW x \in H
                 PROVE  x \in 1 .. depth /\ depth + 1 - x \in Spots
                        /\ At(m, "handler", depth + 1 - x)
    OBVIOUS
  <2>2. x \in DOMAIN stack /\ stack[x].at = "update" /\ stack[x].msg = m
    OBVIOUS
  <2>3. x \in 1 .. depth
    BY <1>1, <2>2 DEF depth
  <2>4. PICK k : k = depth + 1 - x
    OBVIOUS
  <2>5. k \in 1 .. depth /\ calls[k] = stack[x]
    BY <2>2, <2>4, StackLevel
  <2>6. At(m, "handler", k)
    BY <2>2, <2>5, AtHandler DEF Handles
  <2>7. k \in Spots
    BY <2>5 DEF Spots
  <2> QED
    BY <2>3, <2>4, <2>6, <2>7
<1>4. (H = {} /\ Cardinality(H) = 0) \/ (H # {} /\ Cardinality(H) = 1)
  <2>1. ASSUME NEW x \in H, NEW y \in H PROVE x = y
    <3>1. depth + 1 - x = depth + 1 - y
      BY <1>3, OnlyThere, PlaceFacts
    <3> QED
      BY <1>1, <1>3, <3>1
  <2> HIDE DEF H
  <2> QED
    BY <2>1, AtMostOne
<1>5. /\ \A t \in D : At(m, "held", t)
      /\ \A t \in B : At(m, "back", t)
      /\ \A t \in O : At(m, "posted", t)
      /\ \A t \in C : At(m, "created", t)
      /\ P # {} => At(m, "port", 0)
  <2>1. P # {} => m \in ToSet(taskport)
    BY <1>1, InToSet
  <2> QED
    BY <2>1, AtHeld, AtBack, AtPosted, AtCreated, AtPort
<1>6. /\ D \subseteq Spots /\ B \subseteq Spots /\ O \subseteq Spots
      /\ C \subseteq Spots
  BY PlaceFacts
<1>7. (D = {} /\ Cardinality(D) = 0) \/ (D # {} /\ Cardinality(D) = 1)
  <2>1. \A x, y \in D : x = y
    BY <1>5, <1>6, OnlyThere, PlaceFacts
  <2> HIDE DEF D
  <2> QED
    BY <2>1, AtMostOne
<1>8. (B = {} /\ Cardinality(B) = 0) \/ (B # {} /\ Cardinality(B) = 1)
  <2>1. \A x, y \in B : x = y
    BY <1>5, <1>6, OnlyThere, PlaceFacts
  <2> HIDE DEF B
  <2> QED
    BY <2>1, AtMostOne
<1>9. (O = {} /\ Cardinality(O) = 0) \/ (O # {} /\ Cardinality(O) = 1)
  <2>1. \A x, y \in O : x = y
    BY <1>5, <1>6, OnlyThere, PlaceFacts
  <2> HIDE DEF O
  <2> QED
    BY <2>1, AtMostOne
<1>10. (C = {} /\ Cardinality(C) = 0) \/ (C # {} /\ Cardinality(C) = 1)
  <2>1. \A x, y \in C : x = y
    BY <1>5, <1>6, OnlyThere, PlaceFacts
  <2> HIDE DEF C
  <2> QED
    BY <2>1, AtMostOne
<1>11. ASSUME NEW x \in Spots
       PROVE  /\ At(m, "port", x) => P # {}
              /\ At(m, "handler", x) => H # {}
              /\ At(m, "held", x) => D # {}
              /\ At(m, "back", x) => B # {}
              /\ At(m, "posted", x) => O # {}
              /\ At(m, "created", x) => C # {}
  <2>1. ASSUME At(m, "port", x) PROVE P # {}
    <3>1. m \in ToSet(taskport)
      BY <2>1, AtPort
    <3>2. PICK i \in 1 .. Len(taskport) : taskport[i] = m
      BY <1>1, <3>1, InToSet
    <3>3. i \in P
      BY <1>1, <3>2
    <3> QED
      BY <3>3
  <2>2. ASSUME At(m, "handler", x) PROVE H # {}
    <3>1. x \in 1 .. depth /\ Handles(x) /\ calls[x].msg = m
      BY <2>2, AtHandler
    <3>2. calls[x] = stack[Len(stack) + 1 - x]
      BY <1>1, <3>1, ReverseElements DEF calls, depth
    <3>3. depth + 1 - x \in DOMAIN stack
      BY <1>1, <3>1 DEF depth
    <3>4. depth + 1 - x \in H
      BY <3>1, <3>2, <3>3 DEF depth, Handles
    <3> QED
      BY <3>4
  <2>3. ASSUME At(m, "held", x) PROVE D # {}
    BY <2>3, AtHeld
  <2>4. ASSUME At(m, "back", x) PROVE B # {}
    BY <2>4, AtBack
  <2>5. ASSUME At(m, "posted", x) PROVE O # {}
    BY <2>5, AtPosted
  <2>6. ASSUME At(m, "created", x) PROVE C # {}
    BY <2>6, AtCreated
  <2> HIDE DEF P, H, D, B, O, C
  <2> QED
    BY <2>1, <2>2, <2>3, <2>4, <2>5, <2>6
<1>12. PlacesOf(m) = Cardinality(P) + Cardinality(H) + Cardinality(D)
                     + Cardinality(B) + Cardinality(O) + Cardinality(C)
  BY DEF PlacesOf, Count, HandlersOf
<1>13. /\ \A t \in D : t \in Spots
       /\ \A t \in B : t \in Spots
       /\ \A t \in O : t \in Spots
       /\ \A t \in C : t \in Spots
  BY <1>6
<1> HIDE DEF P, H, D, B, O, C
<1>14. CASE ~InUse(m)
  <2>1. \A c \in PlaceKinds, x \in Spots : ~At(m, c, x)
    BY <1>14, OnlyThere
  <2>2. P = {} /\ H = {} /\ D = {} /\ B = {} /\ O = {} /\ C = {}
    BY <1>3, <1>5, <1>13, <2>1, PlaceFacts
  <2> QED
    BY <1>2, <1>4, <1>7, <1>8, <1>9, <1>10, <1>12, <1>14, <2>2 DEF InUse
<1>15. CASE InUse(m)
  <2>1. PICK c \in PlaceKinds, x \in Spots : At(m, c, x)
    BY <1>15 DEF OneAt
  <2>2. \A d \in PlaceKinds, y \in Spots : At(m, d, y) => d = c
    BY <2>1, OnlyThere
  <2>3. /\ P # {} => c = "port"
        /\ H # {} => c = "handler"
        /\ D # {} => c = "held"
        /\ B # {} => c = "back"
        /\ O # {} => c = "posted"
        /\ C # {} => c = "created"
    BY <1>3, <1>5, <1>13, <2>2, PlaceFacts
  <2>4. \/ (c = "port" /\ P # {})    \/ (c = "handler" /\ H # {})
        \/ (c = "held" /\ D # {})    \/ (c = "back" /\ B # {})
        \/ (c = "posted" /\ O # {})  \/ (c = "created" /\ C # {})
    <3>1. /\ c = "port" => P # {}
          /\ c = "handler" => H # {}
          /\ c = "held" => D # {}
          /\ c = "back" => B # {}
          /\ c = "posted" => O # {}
          /\ c = "created" => C # {}
      BY <1>11, <2>1, Zenon
    <3>2. c \in {"port", "handler", "held", "posted", "back", "created"}
      BY PlaceFacts
    <3> QED
      BY <3>1, <3>2
  <2> QED
    BY <1>2, <1>4, <1>7, <1>8, <1>9, <1>10, <1>12, <1>15, <2>3, <2>4 DEF InUse
<1> QED
  BY <1>14, <1>15

\* Every Ataskmsg in use is in exactly one place, and one that is not in use
\* is in none: none is leaked, replied twice or freed while somebody has it.
THEOREM OneMessageOnePlace == Spec => []OnePlace
  BY OnePlaceThen, Invariant, PTL

=============================================================================
