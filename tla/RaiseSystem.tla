----------------------------- MODULE RaiseSystem -----------------------------
(***************************************************************************)
(* The raise manager together with the app threads that carry its raises   *)
(* out (src/actor/app.rs).  An app thread passes each Raise request on to  *)
(* a task of its own, which handles one at a time: it warms the app up,    *)
(* takes a lock shared by all app threads, makes the first window key,     *)
(* waits for the app to be activated, and raises the windows one by one.   *)
(* Between these steps the request may be cancelled.                       *)
(*                                                                         *)
(* Both tasks of an app thread run on that thread, so requests are taken   *)
(* only while the raise task awaits something.  Reports travel through the *)
(* window server actor, the space manager and the reactor, in order; a     *)
(* RaiseTimeout is sent to the reactor directly and may overtake them.     *)
(***************************************************************************)
EXTENDS RaiseManager

VARIABLES
  raises,    \* per app, the raises handed to its raise task (raises_tx)
  pc,        \* per app, where the raise task is
  cur,       \* per app, the raise being handled
  at,        \* per app, the index of the window to raise next
  woken,     \* per app, the activation waited for has happened
  lockQ,     \* MUTEX: the apps in line for it, its holder first
  reports,   \* RaiseCompleted and RaiseRequestFailed events on their way
  key,       \* history: sequence and phase of the last raise that made a window key
  disturbed  \* history: a timer fired, a call failed or a thread ended

appVars == <<raises, pc, cur, at, woken, lockQ, key>>
sysVars == <<vars, appVars, reports, disturbed>>

NoRaise == [wids |-> << >>, token |-> <<0, 0>>, seq |-> 0, quiet |-> TRUE]

SysInit ==
  /\ Init
  /\ raises = [a \in App |-> << >>]
  /\ pc = [a \in App |-> "idle"]
  /\ cur = [a \in App |-> NoRaise]
  /\ at = [a \in App |-> 1]
  /\ woken = [a \in App |-> FALSE]
  /\ lockQ = << >>
  /\ reports = << >>
  /\ key = [seq |-> 0, quiet |-> TRUE]
  /\ disturbed = FALSE

Cancelled(a) == cur[a].token \in cancelled
Holds(a) == lockQ # << >> /\ Head(lockQ) = a
Awaiting(a) == pc[a] \in {"idle", "locking", "waiting"}

Goto(a, l) == pc' = [pc EXCEPT ![a] = l]
(* Dropping the lock's guard, where it is held, lets the next in line have it. *)
Release(a) == lockQ' = IF Holds(a) THEN Tail(lockQ) ELSE lockQ

(* The request is done with: handle_raise_request returns. *)
Return(a) ==
  /\ Goto(a, "idle")
  /\ Release(a)
  /\ cur' = [cur EXCEPT ![a] = NoRaise]
  /\ at' = [at EXCEPT ![a] = 1]
  /\ woken' = [woken EXCEPT ![a] = FALSE]

-----------------------------------------------------------------------------
(* The raise manager's side: it takes reports in order. *)

Report(e) == IF e.failed THEN HandleRaiseRequestFailed(e.wids, e.seq)
             ELSE \E w \in e.wids : HandleRaiseCompleted(w, e.seq)

TakeReport ==
  /\ reports # << >>
  /\ Report(Head(reports))
  /\ reports' = Tail(reports)
  /\ UNCHANGED <<appVars, disturbed>>

Manager ==
  /\ \/ \E r \in Requests : HandleRaiseRequest(r)
     \/ HandleRaiseTimeout
     \/ Settle
  /\ UNCHANGED <<appVars, reports, disturbed>>

TimeOut ==
  /\ TimerFires
  /\ disturbed' = TRUE
  /\ UNCHANGED <<appVars, reports>>

-----------------------------------------------------------------------------
(* The incoming task of an app thread. *)

(* A bug: the newest request is taken first. *)
PassNewestRaise(a) ==
  /\ Awaiting(a)
  /\ appQ[a] # << >>
  /\ appQ' = [appQ EXCEPT ![a] = Front(@)]
  /\ raises' = [raises EXCEPT ![a] = Append(@, Last(appQ[a]))]
  /\ UNCHANGED <<rmVars, open, pc, cur, at, woken, lockQ, reports, key, disturbed>>

(* Request::Raise is passed on to the raise task. *)
PassRaise(a) ==
  /\ Awaiting(a)
  /\ AppTakes(a)
  /\ raises' = [raises EXCEPT ![a] = Append(@, Head(appQ[a]))]
  /\ UNCHANGED <<pc, cur, at, woken, lockQ, reports, key, disturbed>>

(* The app is terminated: the incoming task ends and its channel closes.   *)
(* The raise task does not end, and with it neither does the thread.       *)
EndIncoming(a) ==
  /\ Awaiting(a)
  /\ AppExits(a)
  /\ disturbed' = TRUE
  /\ UNCHANGED <<appVars, reports>>

(* The activation notification sends on the channel the raise waits for. *)
Activation(a) ==
  /\ a \in open
  /\ pc[a] = "waiting" /\ ~woken[a]
  /\ woken' = [woken EXCEPT ![a] = TRUE]
  /\ UNCHANGED <<vars, raises, pc, cur, at, lockQ, reports, key, disturbed>>

-----------------------------------------------------------------------------
(* The raise task: handle_raises and handle_raise_request. *)

(* The request ended with RaiseCancelled: nothing is reported. *)
GiveUp(a) ==
  /\ Cancelled(a)
  /\ Return(a)
  /\ UNCHANGED <<reports, disturbed>>

(* A bug: a failed request is not reported. *)
FailSilently(a) ==
  /\ Return(a)
  /\ disturbed' = TRUE
  /\ UNCHANGED reports

(* A call to the app failed, or the window is gone. *)
Fail(a) ==
  /\ Return(a)
  /\ reports' = Append(reports, [wids |-> ToSet(cur[a].wids), seq |-> cur[a].seq, failed |-> TRUE])
  /\ disturbed' = TRUE

(* A request is taken; it may have been cancelled already. *)
StartRaise(a) ==
  /\ pc[a] = "idle" /\ raises[a] # << >>
  /\ raises' = [raises EXCEPT ![a] = Tail(@)]
  /\ IF Head(raises[a]).token \in cancelled
     THEN UNCHANGED <<pc, cur>>
     ELSE /\ cur' = [cur EXCEPT ![a] = Head(raises[a])]
          /\ Goto(a, "warm")
  /\ UNCHANGED <<vars, at, woken, lockQ, reports, key, disturbed>>

(* The app answers the warm-up read, or has no such window. *)
WarmUp(a) ==
  /\ pc[a] = "warm"
  /\ \/ Fail(a)
     \/ GiveUp(a)
     \/ /\ ~Cancelled(a)
        /\ Goto(a, "warmed")
        /\ UNCHANGED <<cur, at, woken, lockQ, reports, disturbed>>
  /\ UNCHANGED <<vars, raises, key>>

(* The manager may cancel between the check and the place in line. *)
GetInLine(a) ==
  /\ pc[a] = "warmed"
  /\ Goto(a, "locking")
  /\ lockQ' = Append(lockQ, a)
  /\ UNCHANGED <<vars, raises, cur, at, woken, reports, key, disturbed>>

(* A bug: the token is not checked again once the lock is held. *)
LockedUnchecked(a) ==
  /\ pc[a] = "locking" /\ Holds(a)
  /\ Goto(a, "key")
  /\ UNCHANGED <<vars, raises, cur, at, woken, lockQ, reports, key, disturbed>>

Locked(a) ==
  /\ pc[a] = "locking" /\ Holds(a)
  /\ \/ GiveUp(a)
     \/ /\ ~Cancelled(a)
        /\ Goto(a, "key")
        /\ UNCHANGED <<cur, at, woken, lockQ, reports, disturbed>>
  /\ UNCHANGED <<vars, raises, key>>

(* make_key_window, then wait for the activation it causes.  There is none *)
(* to wait for if the app says it is frontmost, the window is not a        *)
(* standard one, or the call failed.                                       *)
MakeKey(a) ==
  /\ pc[a] = "key"
  /\ \/ Fail(a) /\ UNCHANGED key
     \/ /\ Goto(a, "raising")
        /\ disturbed' = TRUE
        /\ UNCHANGED <<cur, at, woken, lockQ, reports, key>>
     \/ /\ \E l \in {"waiting", "raising"} : Goto(a, l)
        /\ key' = [seq |-> cur[a].seq, quiet |-> cur[a].quiet]
        /\ UNCHANGED <<cur, at, woken, lockQ, reports, disturbed>>
  /\ UNCHANGED <<vars, raises>>

(* Either outcome may be picked when both are ready. *)
WaitForActivation(a) ==
  /\ pc[a] = "waiting"
  /\ \/ GiveUp(a)
     \/ /\ woken[a]
        /\ Goto(a, "raising")
        /\ UNCHANGED <<cur, at, woken, lockQ, reports, disturbed>>
  /\ UNCHANGED <<vars, raises, key>>

Completed(a) ==
  reports' = Append(reports, [wids |-> {cur[a].wids[at[a]]}, seq |-> cur[a].seq, failed |-> FALSE])

(* A bug: the lock is let go before the last window is raised. *)
RaiseWindowUnlocked(a) ==
  /\ pc[a] = "raising"
  /\ Completed(a)
  /\ IF at[a] = Len(cur[a].wids)
     THEN Return(a)
     ELSE Release(a) /\ at' = [at EXCEPT ![a] = @ + 1] /\ UNCHANGED <<pc, cur, woken>>
  /\ UNCHANGED <<vars, raises, key, disturbed>>

(* One window is raised and reported.  The lock is released after the last. *)
RaiseWindow(a) ==
  /\ pc[a] = "raising"
  /\ \/ Fail(a)
     \/ /\ Completed(a)
        /\ IF at[a] = Len(cur[a].wids)
           THEN Return(a)
           ELSE at' = [at EXCEPT ![a] = @ + 1] /\ UNCHANGED <<pc, cur, woken, lockQ>>
        /\ UNCHANGED disturbed
  /\ UNCHANGED <<vars, raises, key>>

RaiseTask(a) ==
  \/ StartRaise(a)
  \/ WarmUp(a)
  \/ GetInLine(a)
  \/ Locked(a)
  \/ MakeKey(a)
  \/ WaitForActivation(a)
  \/ RaiseWindow(a)

-----------------------------------------------------------------------------
SysNext ==
  \/ Manager
  \/ TakeReport
  \/ TimeOut
  \/ \E a \in App : PassRaise(a) \/ EndIncoming(a) \/ Activation(a) \/ RaiseTask(a)

SysSpec == SysInit /\ [][SysNext]_sysVars

(***************************************************************************)
(* Fairness: every thread runs, and a call to an app returns.  That an     *)
(* activation ever happens is not assumed, nor that an incoming task ends. *)
(***************************************************************************)
SysFairness ==
  /\ WF_sysVars(Settle /\ UNCHANGED <<appVars, reports, disturbed>>)
  /\ SF_sysVars(HandleRaiseTimeout /\ UNCHANGED <<appVars, reports, disturbed>>)
  /\ SF_sysVars(TakeReport)
  /\ SF_sysVars(TimeOut)
  /\ \A a \in App : SF_sysVars(PassRaise(a)) /\ WF_sysVars(RaiseTask(a))

SysFairSpec == SysSpec /\ SysFairness

-----------------------------------------------------------------------------
(* Types of the variables this module adds.  The window to raise next is   *)
(* one of the request's.                                                   *)
SysTypeOK ==
  /\ raises \in [App -> Seq(Raise)]
  /\ pc \in [App -> {"idle", "warm", "warmed", "locking", "key", "waiting", "raising"}]
  /\ cur \in [App -> Raise]
  /\ \A a \in App : pc[a] # "idle" => at[a] \in DOMAIN cur[a].wids
  /\ woken \in [App -> BOOLEAN]
  /\ lockQ \in Seq(App)
  /\ reports \in Seq([wids : SUBSET Window, seq : Nat, failed : BOOLEAN])
  /\ key \in [seq : Nat, quiet : BOOLEAN]
  /\ disturbed \in BOOLEAN

(***************************************************************************)
(* A window the manager waits for is accounted for: its raise is on its    *)
(* way to the app, in progress there, or reported; or a thread has ended   *)
(* or the raise was cancelled behind the manager's back, and a timeout is  *)
(* due.  Without this, only the timeout would end the sequence.            *)
(***************************************************************************)
Concerns(r, w) == w \in ToSet(r.wids) /\ r.seq = active.id

Underway(w) ==
  \/ \E a \in App : \E i \in DOMAIN appQ[a] : Concerns(appQ[a][i], w)
  \/ \E a \in App : \E i \in DOMAIN raises[a] : Concerns(raises[a][i], w)
  \/ \E a \in App : pc[a] # "idle" /\ Concerns(cur[a], w)
  \/ \E i \in DOMAIN reports : w \in reports[i].wids /\ reports[i].seq = active.id

PendingIsAnswered ==
  active # NoSequence =>
    \A w \in active.pending : Underway(w) \/ Owner[w] \notin open

(***************************************************************************)
(* Requests take the focus in the order they were made, and the focus      *)
(* raise of a request after its background raises, however late an app is  *)
(* in carrying its part out.                                               *)
(***************************************************************************)
Before(r, s) == r.seq < s.seq \/ (r.seq = s.seq /\ (r.quiet \/ ~s.quiet))

FocusTakenInOrder == [][Before(key, key')]_sysVars

(***************************************************************************)
(* While an app raises its windows no other makes one key: the raise would *)
(* be ineffective.                                                         *)
(***************************************************************************)
RaisesExclusively ==
  \A a, b \in App :
    pc[a] \in {"key", "waiting", "raising"} /\ pc[b] \in {"key", "waiting", "raising"} => a = b

(***************************************************************************)
(* When all is done, and nothing failed or timed out, the mouse and the    *)
(* focus are at the same request: no later raise took the focus from the   *)
(* last window the mouse was warped to, nor was its own raise dropped.     *)
(***************************************************************************)
Idle ==
  /\ ~settling /\ active = NoSequence
  /\ reports = << >>
  /\ \A a \in App : appQ[a] = << >> /\ raises[a] = << >> /\ pc[a] = "idle"

FocusFollowsMouse ==
  Idle /\ ~disturbed /\ warped > 0 =>
    key.seq >= warped /\ (key.seq = warped => ~key.quiet)

(***************************************************************************)
(* No raise holds up its app thread, or the lock, for ever, even if the    *)
(* activation it waits for never happens.                                  *)
(***************************************************************************)
NoRaiseHangs == \A a \in App : pc[a] # "idle" ~> pc[a] = "idle"

(* Every message and every raise is dealt with in the end. *)
AllDone == <>[](nextId > MaxSeq) => <>[]Idle

(***************************************************************************)
(* Nothing hangs: each raise ends, and the whole queue is worked off, even *)
(* if an app quits or the activation a raise waits for never happens.      *)
(***************************************************************************)
EveryRaiseEnds == NoRaiseHangs /\ AllDone
=============================================================================
