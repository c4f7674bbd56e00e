--------------------------- MODULE ExecutorProofs ---------------------------
(***************************************************************************)
(* Proofs that no wakeup is lost between the threads that send, the run    *)
(* loop and the executor, and that actors handle what they are sent.       *)
(***************************************************************************)
EXTENDS Executor, TLAPS

(* What a poll has yet to do is not with actors that have ended. *)
PollShape ==
  /\ pc # "poll" => unpolled = {} /\ current = NoTask
  /\ unpolled \cap ended = {} /\ current \notin ended /\ current \notin unpolled

(* An actor has a waker in its channel, or will come to put one there. *)
ChannelAwaited ==
  \A s \in Task \ ended :
    rxWaker[s] \/ signalled \/ sender[s] = "signal" \/ Polls(s, "recv")

(* A waker in a channel with something to receive is about to be taken. *)
ChannelEmpty ==
  \A s \in Task \ ended :
    rxWaker[s] /\ (queue[s] > 0 \/ Closed(s, ended)) => sender[s] = "take"

TimerAwaited ==
  \A s \in Task \ ended : watching[s] => timerWaker[s] \/ signalled \/ Polls(s, "timer")

TimerPending == \A s \in Task : timerWaker[s] => ~fired[s]

(* The run loop goes on only with a main task. *)
MainTaskThere == pc \in {"sleep", "poll"} \/ (pc = "look" /\ ~stopped) => mainTask

IInv ==
  /\ TypeOK /\ PollShape /\ ChannelAwaited /\ ChannelEmpty /\ TimerAwaited /\ TimerPending
  /\ MainTaskThere /\ SleepsSoundly

-----------------------------------------------------------------------------

LEMMA InitInvariant == Init => IInv
<1>1. Init => TypeOK
  <2> SUFFICES ASSUME Init PROVE TypeOK
    OBVIOUS
  <2>1. /\ signalled \in BOOLEAN /\ port \in BOOLEAN /\ stopped \in BOOLEAN
        /\ mainTask \in BOOLEAN
    BY Zenon DEF Init
  <2>2. /\ dropped \in [Task -> BOOLEAN] /\ rxWaker \in [Task -> BOOLEAN]
        /\ armed \in [Task -> BOOLEAN] /\ fired \in [Task -> BOOLEAN]
        /\ timerWaker \in [Task -> BOOLEAN] /\ watching \in [Task -> BOOLEAN]
    BY Zenon DEF Init
  <2>3. queue \in [Task -> Nat] /\ handled \in [Task -> Nat] /\ sends \in Nat /\ fires \in Nat /\ stops \in Nat
    BY DEF Init
  <2>4. sender \in [Task -> {"idle", "take", "signal", "wakeup"}] /\ lock \in Task \cup {NoTask}
    BY DEF Init
  <2>5. /\ ended \subseteq Task /\ pc \in {"out", "look", "sleep", "poll"}
        /\ unpolled \subseteq Task /\ current \in Task \cup {NoTask} /\ left \subseteq Branches
    BY DEF Init
  <2> QED BY <2>1, <2>2, <2>3, <2>4, <2>5 DEF TypeOK
<1>2. Init => PollShape /\ ChannelAwaited /\ ChannelEmpty /\ TimerAwaited /\ TimerPending
              /\ MainTaskThere /\ SleepsSoundly
  BY ExecutorAssumption
     DEF Init, PollShape, ChannelAwaited, ChannelEmpty, TimerAwaited, TimerPending, MainTaskThere,
         SleepsSoundly
<1> QED BY <1>1, <1>2 DEF IInv

(* Each step keeps the types. *)
LEMMA TypeStep == TypeOK /\ PollShape /\ [Next]_vars => TypeOK'
<1> SUFFICES ASSUME TypeOK, PollShape, [Next]_vars PROVE TypeOK'
  OBVIOUS
<1> USE ExecutorAssumption
<1>1. CASE RunLoop \/ Stop
  <2> USE DEF TypeOK, Branches, senders, timers, runLoop, polling, bounds
  <2>1. CASE Enter \/ WakeUp
    BY <2>1 DEF Enter, WakeUp
  <2>2. CASE Perform
    BY <2>2 DEF Perform
  <2>3. CASE Sleep \/ Leave
    BY <2>3 DEF Sleep, Leave
  <2>4. CASE Stop
    BY <2>4 DEF Stop
  <2>5. CASE Finish
    <3>1. mainTask' \in BOOLEAN /\ stopped' \in BOOLEAN
      BY <2>5, Zenon DEF Finish
    <3> QED BY <2>5, <3>1 DEF Finish
  <2> QED BY <1>1, <2>1, <2>2, <2>3, <2>4, <2>5 DEF RunLoop
<1>2. ASSUME NEW s \in Task, Push(s) \/ TakeWaker(s) \/ Wake(s) PROVE TypeOK'
  <2> USE DEF TypeOK, Branches, senders, timers, runLoop, polling, bounds
  <2>1. CASE Push(s)
    <3>1. dropped' \in [Task -> BOOLEAN]
      BY <2>1, Zenon DEF Push
    <3> QED BY <2>1, <3>1 DEF Push
  <2>2. CASE TakeWaker(s)
    BY <2>2 DEF TakeWaker
  <2>3. CASE Wake(s)
    BY <2>3 DEF Wake
  <2> QED BY <1>2, <2>1, <2>2, <2>3
<1>3. ASSUME NEW s \in Task, FireTimer(s) PROVE TypeOK'
  BY <1>3 DEF FireTimer, WakeHere, TypeOK, Branches, senders, timers, runLoop, polling, bounds
<1>4. ASSUME NEW s \in Task, Turn(s) \/ Await(s) \/ AwaitTimer(s) \/ Suspend(s) PROVE TypeOK'
  BY <1>4 DEF Turn, Await, AwaitTimer, Suspend, LoopBranches, TypeOK, Branches, senders, timers,
              runLoop, polling, bounds
<1>5. ASSUME NEW s \in Task, Receive(s) \/ Expire(s) PROVE TypeOK'
  <2> USE DEF TypeOK, Branches, senders, timers, runLoop, polling, bounds
  <2>1. ASSUME Handles(s) PROVE fires' \in Nat /\ left' \subseteq Branches
    BY <2>1 DEF Handles, LoopBranches
  <2>2. ASSUME Handles(s) PROVE armed' \in [Task -> BOOLEAN] /\ watching' \in [Task -> BOOLEAN]
    BY <2>2, Zenon DEF Handles
  <2>3. CASE Receive(s)
    BY <2>1, <2>2, <2>3 DEF Receive
  <2>4. CASE Expire(s)
    BY <2>1, <2>2, <2>4 DEF Expire
  <2> QED BY <1>5, <2>3, <2>4
<1>6. ASSUME NEW s \in Task, End(s) PROVE TypeOK'
  BY <1>6 DEF End, WakeHere, TypeOK, Branches, senders, timers, runLoop, polling, bounds
<1>7. ASSUME NEW s \in Task, NEW u \in Task, Forward(s, u) PROVE TypeOK'
  BY <1>7 DEF Forward, WakeHere, TypeOK, Branches, senders, timers, runLoop, polling, bounds
<1>8. CASE UNCHANGED vars
  BY <1>8 DEF vars, TypeOK, senders, timers, runLoop, polling, bounds
<1> QED BY <1>1, <1>2, <1>3, <1>4, <1>5, <1>6, <1>7, <1>8 DEF Next, Poll

(* The rest of the invariant, which each step disturbs a part of. *)
Rest == PollShape /\ ChannelAwaited /\ ChannelEmpty /\ TimerAwaited /\ TimerPending
        /\ MainTaskThere /\ SleepsSoundly

LEMMA RestStep == IInv /\ [Next]_vars => Rest'
<1> SUFFICES ASSUME IInv, [Next]_vars PROVE Rest'
  OBVIOUS
<1> USE ExecutorAssumption
    DEF IInv, TypeOK, Rest, PollShape, ChannelAwaited, ChannelEmpty, TimerAwaited, TimerPending,
        MainTaskThere, SleepsSoundly, Polls, Closed, Ends, Branches, senders, timers, runLoop,
        polling, bounds
<1>1. CASE RunLoop \/ Stop
  BY <1>1 DEF RunLoop, Stop, Enter, Perform, Sleep, WakeUp, Leave, Finish
<1>2. ASSUME NEW s \in Task, Push(s) PROVE Rest'
  BY <1>2 DEF Push
<1>3. ASSUME NEW s \in Task, TakeWaker(s) \/ Wake(s) PROVE Rest'
  BY <1>3 DEF TakeWaker, Wake
<1>4. ASSUME NEW s \in Task, FireTimer(s) PROVE Rest'
  BY <1>4 DEF FireTimer, WakeHere
<1>5. ASSUME NEW s \in Task, Turn(s) \/ Suspend(s) PROVE Rest'
  BY <1>5 DEF Turn, Suspend, LoopBranches
<1>6. ASSUME NEW s \in Task, Await(s) \/ AwaitTimer(s) PROVE Rest'
  BY <1>6 DEF Await, AwaitTimer
<1>7. ASSUME NEW s \in Task, Receive(s) \/ Expire(s) PROVE Rest'
  BY <1>7 DEF Receive, Expire, Handles, LoopBranches
<1>8. ASSUME NEW s \in Task, End(s) PROVE Rest'
  BY <1>8 DEF End, WakeHere
<1>9. ASSUME NEW s \in Task, NEW u \in Task, Forward(s, u) PROVE Rest'
  BY <1>9 DEF Forward, WakeHere
<1>10. CASE UNCHANGED vars
  BY <1>10 DEF vars
<1> QED BY <1>1, <1>2, <1>3, <1>4, <1>5, <1>6, <1>7, <1>8, <1>9, <1>10 DEF Next, Poll

LEMMA Invariant == Spec => []IInv
<1>1. IInv /\ [Next]_vars => IInv'
  BY TypeStep, RestStep DEF IInv, Rest
<1> QED BY <1>1, InitInvariant, PTL DEF Spec

-----------------------------------------------------------------------------

(* Variables have their types. *)
THEOREM TypeCorrect == Spec => []TypeOK
<1>1. IInv => TypeOK
  BY DEF IInv
<1> QED BY <1>1, Invariant, PTL

(* An event is never left in a channel with nobody about to see to it,     *)
(* however sends, wakeups and polls interleave.                            *)
THEOREM EventsNotForgotten == Spec => []NoEventForgotten
<1>1. IInv => NoEventForgotten
  BY DEF IInv, ChannelAwaited, ChannelEmpty, NoEventForgotten
<1> QED BY <1>1, Invariant, PTL

(* A timer that fired is never left with nobody about to look at it. *)
THEOREM TimersNotForgotten == Spec => []NoTimerForgotten
<1>1. IInv => NoTimerForgotten
  BY DEF IInv, TimerAwaited, TimerPending, NoTimerForgotten
<1> QED BY <1>1, Invariant, PTL

(* The run loop does not sleep over a source that is signalled. *)
THEOREM SleepIsSound == Spec => []SleepsSoundly
<1>1. IInv => SleepsSoundly
  BY DEF IInv
<1> QED BY <1>1, Invariant, PTL

(* process_tasks always finds a main task. *)
THEOREM MainTaskPolled == Spec => []PollsMainTask
<1>1. IInv => PollsMainTask
  BY DEF IInv, MainTaskThere, PollsMainTask
<1> QED BY <1>1, Invariant, PTL

(* Nothing is forgotten: NothingForgotten is the four together.            *)
THEOREM NothingIsForgotten == Spec => []NothingForgotten
<1>1. NoEventForgotten /\ NoTimerForgotten /\ SleepsSoundly /\ PollsMainTask => NothingForgotten
  BY DEF NothingForgotten
<1> QED BY <1>1, EventsNotForgotten, TimersNotForgotten, SleepIsSound, MainTaskPolled, PTL

-----------------------------------------------------------------------------

(* What one more in a channel does to the count of what was sent. *)
Count(h, q) == [u \in Task |-> h[u] + q[u]]

LEMMA OneMore ==
  ASSUME NEW q \in [Task -> Nat], NEW h \in [Task -> Nat], NEW s \in Task
  PROVE  Count(h, [q EXCEPT ![s] = @ + 1]) = [Count(h, q) EXCEPT ![s] = @ + 1]
<1> DEFINE r == [q EXCEPT ![s] = @ + 1]
<1>1. \A u \in Task : h[u] + r[u] = IF u = s THEN (h[u] + q[u]) + 1 ELSE h[u] + q[u]
  OBVIOUS
<1>2. Count(h, r) = [u \in Task |-> IF u = s THEN (h[u] + q[u]) + 1 ELSE h[u] + q[u]]
  BY <1>1, Zenon DEF Count
<1>3. [Count(h, q) EXCEPT ![s] = @ + 1]
        = [u \in Task |-> IF u = s THEN (h[u] + q[u]) + 1 ELSE h[u] + q[u]]
  BY Zenon DEF Count
<1> QED BY <1>2, <1>3, Zenon

(* Every step of the thread is one of the mailboxes, or none: events are   *)
(* neither lost nor handled twice.                                         *)
THEOREM MailboxesImplemented == Spec => Promise!Safe
<1> DEFINE count == [s \in Task |-> handled[s] + queue[s]]
<1>1. Init => Promise!Init
  BY DEF Init, Promise!Init
<1>2. TypeOK /\ [Next]_vars => [Promise!Next]_(Promise!mailboxes)
  <2> SUFFICES ASSUME TypeOK, [Next]_vars PROVE [Promise!Next]_(Promise!mailboxes)
    OBVIOUS
  <2> USE DEF Promise!Next, Promise!mailboxes, Promise!Send, Promise!Handle, TypeOK
  <2>1. ASSUME NEW s \in Task, Push(s) PROVE [Promise!Next]_(Promise!mailboxes)
    <3>1. CASE UNCHANGED queue
      BY <2>1, <3>1 DEF Push
    <3>2. CASE queue' = [queue EXCEPT ![s] = @ + 1]
      <4>1. count' = [count EXCEPT ![s] = @ + 1] /\ handled' = handled
        <5>1. handled' = handled
          BY <2>1 DEF Push
        <5>2. queue \in [Task -> Nat] /\ handled \in [Task -> Nat]
          OBVIOUS
        <5>3. [r \in Task |-> handled[r] + queue'[r]] = [count EXCEPT ![s] = @ + 1]
          <6>1. Count(handled, [queue EXCEPT ![s] = @ + 1]) = [Count(handled, queue) EXCEPT ![s] = @ + 1]
            BY <5>2, OneMore
          <6> QED BY <3>2, <6>1, Zenon DEF Count
        <5> QED BY <5>1, <5>3, Zenon
      <4> QED BY <4>1
    <3> QED BY <2>1, <3>1, <3>2 DEF Push
  <2>2. ASSUME NEW s \in Task, Receive(s) PROVE [Promise!Next]_(Promise!mailboxes)
    <3>1. count' = count /\ handled' = [handled EXCEPT ![s] = @ + 1] /\ handled[s] < count[s]
      BY <2>2 DEF Receive
    <3> QED BY <3>1
  <2>3. ASSUME NEW s \in Task, NEW u \in Task, Forward(s, u)
        PROVE [Promise!Next]_(Promise!mailboxes)
    <3>1. count' = [count EXCEPT ![u] = @ + 1] /\ handled' = handled
      <4>1. handled' = handled /\ queue' = [queue EXCEPT ![u] = @ + 1]
        BY <2>3 DEF Forward
      <4>2. queue \in [Task -> Nat] /\ handled \in [Task -> Nat]
        OBVIOUS
      <4>3. [r \in Task |-> handled[r] + queue'[r]] = [count EXCEPT ![u] = @ + 1]
        <5>1. Count(handled, [queue EXCEPT ![u] = @ + 1]) = [Count(handled, queue) EXCEPT ![u] = @ + 1]
          BY <4>2, OneMore
        <5> QED BY <4>1, <5>1, Zenon DEF Count
      <4> QED BY <4>1, <4>3, Zenon
    <3> QED BY <3>1
  <2>4. ASSUME UNCHANGED <<queue, handled>> PROVE [Promise!Next]_(Promise!mailboxes)
    BY <2>4
  <2>5. ASSUME NEW s \in Task,
               TakeWaker(s) \/ Wake(s) \/ FireTimer(s) \/ Turn(s) \/ Await(s) \/ End(s)
                 \/ Expire(s) \/ AwaitTimer(s) \/ Suspend(s)
        PROVE UNCHANGED <<queue, handled>>
    BY <2>5 DEF TakeWaker, Wake, FireTimer, Turn, Await, End, Expire, AwaitTimer, Suspend
  <2>6. ASSUME RunLoop \/ Stop \/ UNCHANGED vars PROVE UNCHANGED <<queue, handled>>
    BY <2>6 DEF RunLoop, Enter, Perform, Sleep, WakeUp, Leave, Finish, Stop, vars
  <2> QED BY <2>1, <2>2, <2>3, <2>4, <2>5, <2>6 DEF Next, Poll
<1> QED BY <1>1, <1>2, TypeCorrect, PTL DEF Spec, Promise!Safe
=============================================================================
