------------------------------ MODULE Executor ------------------------------
(***************************************************************************)
(* A thread of the window manager: a run loop that sleeps until a source   *)
(* is signalled or a timer is due, an executor that then polls the one     *)
(* main task (src/sys/executor.rs, src/sys/run_loop.rs), in it the loops   *)
(* of the actors of the thread, which wait for an event or their timer     *)
(* (src/sys/timer.rs), and the other threads that send to them.            *)
(*                                                                         *)
(* The run loop and the channels are external.  A channel is a queue that  *)
(* keeps one waker; sending puts an event in the queue and then takes the  *)
(* waker, if there is one, and wakes with it.  A panic aborts the program. *)
(***************************************************************************)
EXTENDS Naturals, FiniteSets

CONSTANTS
  Task, NoTask,  \* the actors that the main task joins
  Forwards,      \* <<s, u>>: s has a sender to u
  MaxSends,      \* bound: what is sent to all actors together
  MaxFires,      \* bound: how often timers are set
  MaxStops       \* bound: how often other code stops the run loop

ASSUME ExecutorAssumption ==
  /\ NoTask \notin Task
  /\ Forwards \subseteq Task \X Task
  /\ {MaxSends, MaxFires, MaxStops} \subseteq Nat

Branches == {"recv", "timer"}

VARIABLES
  queue,         \* how many events wait in each channel
  handled,       \* history: how many events each actor has handled
  dropped,       \* whether the other threads have dropped their sender
  rxWaker,       \* whether the channel holds a waker
  sender,        \* where the other threads' sending to each channel is
  lock,          \* WakerImpl: the actor whose sender is waking
  armed,         \* whether the fire date of the actor's timer is set
  fired,         \* the timer's status: Fired, or Pending
  timerWaker,    \* whether the timer holds a waker
  watching,      \* whether the actor's loop looks at its timer
  ended,         \* the actors whose loop has ended
  pc,            \* the run loop: "out", not running, "look" for what to do,
                 \* "sleep", or "poll", in process_tasks
  signalled,     \* whether the source is signalled
  port,          \* whether the run loop was told to wake up
  stopped,       \* whether the run loop was told to stop
  unpolled,      \* the actors that this poll has not got to
  current,       \* the actor that is polled
  left,          \* the branches its select has yet to poll
  mainTask,      \* whether there is a main task
  sends, fires, stops

senders == <<dropped, sender, lock>>
timers == <<armed, fired, timerWaker>>
runLoop == <<signalled, port, stopped>>
polling == <<unpolled, current, left>>
bounds == <<sends, fires, stops>>
vars == <<queue, handled, rxWaker, senders, timers, watching, ended, pc, runLoop, polling,
          mainTask, bounds>>

(* Whether the actors in done are all that send to s on its thread, and    *)
(* whether, if they have ended, the channel is closed.                     *)
Ends(s, done) == \A u \in Task : <<u, s>> \in Forwards => u \in done
Closed(s, done) == dropped[s] /\ Ends(s, done)

LoopBranches(s) == IF watching'[s] THEN Branches ELSE {"recv"}

-----------------------------------------------------------------------------
(* Sending from other threads, and dropping the sender, which is as good   *)
(* as sending if it is the last.                                           *)

Push(s) ==
  /\ ~dropped[s] /\ sender[s] = "idle" /\ s \notin ended
  /\ \/ /\ sends < MaxSends
        /\ queue' = [queue EXCEPT ![s] = @ + 1] /\ sends' = sends + 1
        /\ sender' = [sender EXCEPT ![s] = "take"] /\ UNCHANGED dropped
     \/ /\ dropped' = [dropped EXCEPT ![s] = TRUE] /\ UNCHANGED <<queue, sends>>
        /\ sender' = [sender EXCEPT ![s] = IF Ends(s, ended) THEN "take" ELSE @]
  /\ UNCHANGED <<handled, rxWaker, lock, timers, watching, ended, pc, runLoop, polling, mainTask,
                 fires, stops>>

(* With the waker of the channel its thread gets the lock of the handle.   *)
TakeWaker(s) ==
  /\ sender[s] = "take" /\ lock = NoTask
  /\ IF rxWaker[s]
     THEN /\ rxWaker' = [rxWaker EXCEPT ![s] = FALSE]
          /\ sender' = [sender EXCEPT ![s] = "signal"] /\ lock' = s
     ELSE sender' = [sender EXCEPT ![s] = "idle"] /\ UNCHANGED <<rxWaker, lock>>
  /\ UNCHANGED <<queue, handled, dropped, timers, watching, ended, pc, runLoop, polling, mainTask,
                 bounds>>

(* A bug: nothing wakes the run loop up. *)
WakeIdly(s) ==
  /\ sender[s] = "signal"
  /\ signalled' = TRUE /\ sender' = [sender EXCEPT ![s] = "idle"] /\ lock' = NoTask
  /\ UNCHANGED <<queue, handled, dropped, rxWaker, timers, watching, ended, pc, port, stopped,
                 polling, mainTask, bounds>>

(* WakeupHandle::wake: first the source is signalled, then the run loop is *)
(* told to wake up.                                                        *)
Wake(s) ==
  /\ \/ /\ sender[s] = "signal"
        /\ signalled' = TRUE /\ sender' = [sender EXCEPT ![s] = "wakeup"]
        /\ UNCHANGED <<port, lock>>
     \/ /\ sender[s] = "wakeup"
        /\ port' = TRUE /\ sender' = [sender EXCEPT ![s] = "idle"] /\ lock' = NoTask
        /\ UNCHANGED signalled
  /\ UNCHANGED <<queue, handled, dropped, rxWaker, timers, watching, ended, pc, stopped, polling,
                 mainTask, bounds>>

(* Waking from the thread itself, for each waker that is held. *)
WakeHere(held) ==
  /\ held => lock = NoTask
  /\ signalled' = (signalled \/ held) /\ port' = (port \/ held)

-----------------------------------------------------------------------------
(* The run loop. *)

(* Executor::run: once, and again whenever other code stopped the loop. *)
Enter ==
  /\ pc = "out" /\ mainTask
  /\ pc' = "look" /\ stopped' = FALSE
  /\ UNCHANGED <<queue, handled, rxWaker, senders, timers, watching, ended, signalled, port,
                 polling, mainTask, bounds>>

(* The source is signalled: process_tasks. *)
Perform ==
  /\ pc = "look" /\ ~stopped /\ signalled
  /\ pc' = "poll" /\ signalled' = FALSE /\ unpolled' = Task \ ended
  /\ UNCHANGED <<queue, handled, rxWaker, senders, timers, watching, ended, port, stopped, current,
                 left, mainTask, bounds>>

(* The timer of s is due: timer_fire_callback. *)
FireTimer(s) ==
  /\ pc \in {"look", "sleep"} /\ ~stopped /\ armed[s] /\ s \notin ended
  /\ armed' = [armed EXCEPT ![s] = FALSE] /\ fired' = [fired EXCEPT ![s] = TRUE]
  /\ timerWaker' = [timerWaker EXCEPT ![s] = FALSE] /\ WakeHere(timerWaker[s])
  /\ pc' = "look"
  /\ UNCHANGED <<queue, handled, rxWaker, senders, watching, ended, stopped, polling, mainTask,
                 bounds>>

(* With nothing to do it sleeps, until it is told to wake up. *)
Sleep ==
  /\ pc = "look" /\ ~stopped /\ ~signalled /\ pc' = "sleep"
  /\ UNCHANGED <<queue, handled, rxWaker, senders, timers, watching, ended, runLoop, polling,
                 mainTask, bounds>>

WakeUp ==
  /\ pc = "sleep" /\ port
  /\ pc' = "look" /\ port' = FALSE
  /\ UNCHANGED <<queue, handled, rxWaker, senders, timers, watching, ended, signalled, stopped,
                 polling, mainTask, bounds>>

Leave ==
  /\ pc = "look" /\ stopped /\ pc' = "out"
  /\ UNCHANGED <<queue, handled, rxWaker, senders, timers, watching, ended, runLoop, polling,
                 mainTask, bounds>>

(* Other code that the loop runs stops it. *)
Stop ==
  /\ pc = "look" /\ ~stopped /\ stops < MaxStops
  /\ stopped' = TRUE /\ stops' = stops + 1
  /\ UNCHANGED <<queue, handled, rxWaker, senders, timers, watching, ended, pc, signalled, port,
                 polling, mainTask, sends, fires>>

-----------------------------------------------------------------------------
(* The poll of the main task: join polls each actor until it can not go    *)
(* on, and its select the branches in any order.                           *)

Turn(s) ==
  /\ pc = "poll" /\ current = NoTask /\ s \in unpolled
  /\ current' = s /\ unpolled' = unpolled \ {s} /\ UNCHANGED watching /\ left' = LoopBranches(s)
  /\ UNCHANGED <<queue, handled, rxWaker, senders, timers, ended, pc, runLoop, mainTask, bounds>>

(* What a handler does with its timer, and which branches its loop then    *)
(* looks at: set_next_fire, or not; the timer is looked at, or not.        *)
Handles(s) ==
  /\ \/ fires < MaxFires /\ fires' = fires + 1 /\ armed' = [armed EXCEPT ![s] = TRUE]
     \/ UNCHANGED <<fires, armed>>
  /\ \E look \in BOOLEAN : watching' = [watching EXCEPT ![s] = look]
  /\ left' = LoopBranches(s)

(* The channel: an event, or the channel's end, or a waker is left. *)
Receive(s) ==
  /\ current = s /\ "recv" \in left /\ queue[s] > 0
  /\ queue' = [queue EXCEPT ![s] = @ - 1] /\ handled' = [handled EXCEPT ![s] = @ + 1]
  /\ Handles(s)
  /\ UNCHANGED <<rxWaker, senders, fired, timerWaker, ended, pc, runLoop, unpolled, current,
                 mainTask, sends, stops>>

(* A bug: the channel is found empty before the waker is left in it. *)
AwaitIdly(s) ==
  /\ current = s /\ "recv" \in left
  /\ rxWaker' = [rxWaker EXCEPT ![s] = TRUE] /\ left' = left \ {"recv"}
  /\ UNCHANGED <<queue, handled, senders, timers, watching, ended, pc, runLoop, unpolled, current,
                 mainTask, bounds>>

Await(s) ==
  /\ current = s /\ "recv" \in left /\ queue[s] = 0 /\ ~Closed(s, ended)
  /\ rxWaker' = [rxWaker EXCEPT ![s] = TRUE] /\ left' = left \ {"recv"}
  /\ UNCHANGED <<queue, handled, senders, timers, watching, ended, pc, runLoop, unpolled, current,
                 mainTask, bounds>>

(* The loop ends; its timer is dropped, which wakes, and so are its        *)
(* senders, which wakes the channels that this was the last sender of.     *)
End(s) ==
  LET done == ended \cup {s}
      woken == {u \in Task \ done : rxWaker[u] /\ ~Closed(u, ended) /\ Closed(u, done)}
  IN /\ current = s /\ "recv" \in left /\ queue[s] = 0 /\ Closed(s, ended)
     /\ ended' = done /\ current' = NoTask /\ left' = {}
     /\ rxWaker' = [u \in Task |-> rxWaker[u] /\ u \notin woken]
     /\ armed' = [armed EXCEPT ![s] = FALSE] /\ timerWaker' = [timerWaker EXCEPT ![s] = FALSE]
     /\ WakeHere(timerWaker[s] \/ woken # {})
     /\ UNCHANGED <<queue, handled, senders, fired, watching, pc, stopped, unpolled, mainTask,
                    bounds>>

(* poll_next of the timer that fired. *)
Expire(s) ==
  /\ current = s /\ "timer" \in left /\ fired[s]
  /\ fired' = [fired EXCEPT ![s] = FALSE]
  /\ Handles(s)
  /\ UNCHANGED <<queue, handled, rxWaker, senders, timerWaker, ended, pc, runLoop, unpolled,
                 current, mainTask, sends, stops>>

AwaitTimer(s) ==
  /\ current = s /\ "timer" \in left /\ ~fired[s]
  /\ timerWaker' = [timerWaker EXCEPT ![s] = TRUE] /\ left' = left \ {"timer"}
  /\ UNCHANGED <<queue, handled, rxWaker, senders, armed, fired, watching, ended, pc, runLoop,
                 unpolled, current, mainTask, bounds>>

(* An actor sends to one of the same thread, as it handles something. *)
Forward(s, u) ==
  /\ current = s /\ <<s, u>> \in Forwards /\ u \notin ended /\ sends < MaxSends
  /\ "recv" \in left
  /\ queue' = [queue EXCEPT ![u] = @ + 1] /\ sends' = sends + 1
  /\ rxWaker' = [rxWaker EXCEPT ![u] = FALSE] /\ WakeHere(rxWaker[u])
  /\ UNCHANGED <<handled, senders, timers, watching, ended, pc, stopped, polling, mainTask, fires,
                 stops>>

Suspend(s) ==
  /\ current = s /\ left = {}
  /\ current' = NoTask
  /\ UNCHANGED <<queue, handled, rxWaker, senders, timers, watching, ended, pc, runLoop, unpolled,
                 left, mainTask, bounds>>

(* The poll is over.  If all actors have ended the main task is dropped    *)
(* and the run loop stopped.                                               *)
Finish ==
  /\ pc = "poll" /\ current = NoTask /\ unpolled = {}
  /\ pc' = "look" /\ mainTask' = (ended # Task) /\ stopped' = (ended = Task)
  /\ UNCHANGED <<queue, handled, rxWaker, senders, timers, watching, ended, signalled, port,
                 polling, bounds>>

-----------------------------------------------------------------------------

(* The executor wakes itself, for the first poll. *)
Init ==
  /\ queue = [s \in Task |-> 0] /\ handled = [s \in Task |-> 0]
  /\ dropped = [s \in Task |-> FALSE] /\ rxWaker = [s \in Task |-> FALSE]
  /\ sender = [s \in Task |-> "idle"] /\ lock = NoTask
  /\ armed = [s \in Task |-> FALSE] /\ fired = [s \in Task |-> FALSE]
  /\ timerWaker = [s \in Task |-> FALSE] /\ watching \in [Task -> BOOLEAN] /\ ended = {}
  /\ pc = "out" /\ signalled = TRUE /\ port = TRUE /\ stopped = FALSE
  /\ unpolled = {} /\ current = NoTask /\ left = {} /\ mainTask = TRUE
  /\ sends = 0 /\ fires = 0 /\ stops = 0

Poll(s) ==
  Turn(s) \/ Receive(s) \/ Await(s) \/ End(s) \/ Expire(s) \/ AwaitTimer(s) \/ Suspend(s)

RunLoop == Enter \/ Perform \/ Sleep \/ WakeUp \/ Leave \/ Finish

Next ==
  \/ RunLoop \/ Stop
  \/ \E s \in Task : Push(s) \/ TakeWaker(s) \/ Wake(s) \/ FireTimer(s) \/ Poll(s)
  \/ \E s, u \in Task : Forward(s, u)

(* Threads run, and the run loop fires timers that are due. *)
Spec ==
  /\ Init /\ [][Next]_vars
  /\ WF_vars(RunLoop \/ \E s \in Task : Poll(s))
  /\ \A s \in Task : WF_vars(TakeWaker(s) \/ Wake(s)) /\ WF_vars(FireTimer(s))

-----------------------------------------------------------------------------
(* Properties. *)

TypeOK ==
  /\ queue \in [Task -> Nat] /\ handled \in [Task -> Nat]
  /\ dropped \in [Task -> BOOLEAN] /\ rxWaker \in [Task -> BOOLEAN]
  /\ sender \in [Task -> {"idle", "take", "signal", "wakeup"}] /\ lock \in Task \cup {NoTask}
  /\ armed \in [Task -> BOOLEAN] /\ fired \in [Task -> BOOLEAN]
  /\ timerWaker \in [Task -> BOOLEAN] /\ watching \in [Task -> BOOLEAN] /\ ended \subseteq Task
  /\ pc \in {"out", "look", "sleep", "poll"}
  /\ signalled \in BOOLEAN /\ port \in BOOLEAN /\ stopped \in BOOLEAN /\ mainTask \in BOOLEAN
  /\ unpolled \subseteq Task /\ current \in Task \cup {NoTask} /\ left \subseteq Branches
  /\ sends \in Nat /\ fires \in Nat /\ stops \in Nat

(* Whether this poll still gets to a branch of s. *)
Polls(s, branch) ==
  pc = "poll" /\ (s \in unpolled \/ (current = s /\ branch \in left))

(* No event is forgotten: an actor with something in its channel will be   *)
(* polled, as the source is signalled or as a sender has yet to wake it.   *)
NoEventForgotten ==
  \A s \in Task \ ended :
    queue[s] > 0 \/ Closed(s, ended) =>
      signalled \/ Polls(s, "recv") \/ sender[s] \in {"take", "signal"}

(* Nor is a timer that fired, while the actor looks at it. *)
NoTimerForgotten ==
  \A s \in Task \ ended : watching[s] /\ fired[s] => signalled \/ Polls(s, "timer")

(* The run loop does not sleep over a signal, but to be woken at once. *)
SleepsSoundly ==
  pc = "sleep" /\ signalled => port \/ \E s \in Task : sender[s] = "wakeup"

(* The main task is there whenever it is polled; else process_tasks panics. *)
PollsMainTask == pc = "poll" => mainTask

(* Nothing is forgotten, and nothing is polled that is not there.          *)
NothingForgotten == NoEventForgotten /\ NoTimerForgotten /\ SleepsSoundly /\ PollsMainTask

(* What is sent is handled. *)
Promise == INSTANCE Mailboxes WITH sent <- [s \in Task |-> handled[s] + queue[s]]
EveryEventHandled == Promise!Spec
=============================================================================
