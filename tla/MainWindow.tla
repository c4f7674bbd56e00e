----------------------------- MODULE MainWindow -----------------------------
(***************************************************************************)
(* Which window has the focus: the reactor's MainWindowTracker             *)
(* (src/actor/reactor/main_window.rs), the app threads that report         *)
(* activations and main windows (src/actor/app.rs), and the system, which  *)
(* reports activations on a path of its own by the notification center.    *)
(*                                                                         *)
(* The window server decides which app is in front.  An app learns of it   *)
(* later (inbox), and our thread for it later still (notes).  The user     *)
(* focuses windows, and raises of our own do; these ought not to be taken  *)
(* for the user's.  The raise task is here as far as it activates apps;    *)
(* RaiseSystem has the rest of it.                                         *)
(***************************************************************************)
EXTENDS Integers, Sequences, FiniteSets, SequencesExt

CONSTANTS
  App, Window,
  Owner,          \* the app of each window
  NonStandard,    \* windows for which no activation is awaited
  NoApp, NoWindow,
  MaxActs,        \* bound: windows focused by the user
  MaxRaises       \* bound: raises

ASSUME ActivationAssumption ==
  /\ Owner \in [Window -> App] /\ NonStandard \subseteq Window
  /\ \A a \in App : \E w \in Window : Owner[w] = a
  /\ NoApp \notin App /\ NoWindow \notin Window
  /\ {MaxActs, MaxRaises} \subseteq Nat

VARIABLES
  front,      \* the frontmost app, according to the window server
  inbox,      \* what each app has not yet heard from the window server
  thinks,     \* whether each app thinks it is frontmost
  main,       \* the main window of each app
  notes,      \* accessibility notifications to our threads
  threads,    \* apps with a thread that has initialised
  isFront, mainSeen,   \* is_frontmost and main_window of each thread
  last,       \* last_activated: an activation of ours that is expected
  task,       \* the raise task of each thread
  lock,       \* the app whose thread holds the lock, or NoApp
  centre,     \* notifications of the system on their way to the reactor
  reactor,    \* MainWindowTracker: its apps and global_frontmost; and selected,
              \* the window of the last WindowFocused
  acts, raised,       \* how often the user acted, and raises were made
  aim,        \* history: the window that should be selected in the end
  hurry,      \* history: the user focused a window before all was quiet
  doubt       \* history: an activation can no longer be told from others, or a
              \* window was raised before the app heard of the one made key

worldVars == <<front, inbox, thinks, main>>
threadVars == <<notes, threads, isFront, mainSeen, last, task, lock>>
vars == <<worldVars, threadVars, centre, reactor, acts, raised, aim, hurry, doubt>>

WindowsOf(a) == {w \in Window : Owner[w] = a}
Idle == [pc |-> "idle", wids |-> << >>, quiet |-> FALSE, at |-> 0]
NotExpected == [quiet |-> FALSE, win |-> NoWindow, live |-> FALSE, set |-> FALSE]

(* All news have been passed on and no raise is under way. *)
Quiet ==
  /\ centre = << >>
  /\ \A a \in App : inbox[a] = << >> /\ notes[a] = << >> /\ task[a] = Idle

(* And no activation of ours is expected. *)
Calm == Quiet /\ \A a \in App : ~last[a].live

Event(k, a, w, q) == [kind |-> k, pid |-> a, wid |-> w, quiet |-> q, on |-> FALSE]
Update(f, a, x) == [b \in DOMAIN f \cup {a} |-> IF b = a THEN x ELSE f[b]]

(* All threads but one have initialised, and all is quiet.  (The others    *)
(* only do so earlier.)                                                    *)
Init ==
  /\ front \in App
  /\ inbox = [a \in App |-> << >>]
  /\ thinks = [a \in App |-> a = front]
  /\ main = [a \in App |-> CHOOSE w \in WindowsOf(a) : TRUE]
  /\ notes = [a \in App |-> << >>]
  /\ \E a \in App : threads = App \ {a}
  /\ isFront = [a \in App |-> a \in threads /\ thinks[a]]
  /\ mainSeen = [a \in App |-> IF a \in threads THEN main[a] ELSE NoWindow]
  /\ last = [a \in App |-> NotExpected]
  /\ task = [a \in App |-> Idle] /\ lock = NoApp
  /\ centre = << >>
  /\ reactor =
       [apps |-> [a \in threads |-> [frontmost |-> thinks[a], quiet |-> FALSE, main |-> main[a]]],
        global |-> front,
        selected |-> IF front \in threads THEN main[front] ELSE NoWindow]
  /\ acts = 0 /\ raised = 0
  /\ aim = main[front] /\ hurry = FALSE /\ doubt = FALSE

-----------------------------------------------------------------------------
(* The reactor: MainWindowTracker.handle_event, and the WindowFocused that *)
(* follows.  Events come in the order they are sent, and nothing else      *)
(* looks at the tracker, so they are handled when they are sent.           *)

(* A bug: the system's word is taken for it. *)
MainWindowUnagreed(r) == IF r.global \in DOMAIN r.apps THEN r.apps[r.global].main ELSE NoWindow

(* The main window is believed if the app and the system agree. *)
MainWindow(r) ==
  IF r.global \in DOMAIN r.apps /\ r.apps[r.global].frontmost
  THEN r.apps[r.global].main ELSE NoWindow

(* A bug: apps that are not frontmost are not listened to. *)
AppsAfterOfFrontmost(r, e) ==
  IF e.kind = "launched"
  THEN Update(r.apps, e.pid, [frontmost |-> e.on, quiet |-> FALSE, main |-> e.wid])
  ELSE IF e.pid \notin DOMAIN r.apps THEN r.apps
  ELSE CASE e.kind = "activated" ->
              [r.apps EXCEPT ![e.pid].frontmost = TRUE, ![e.pid].quiet = e.quiet]
         [] e.kind = "deactivated" -> [r.apps EXCEPT ![e.pid].frontmost = FALSE]
         [] e.kind = "mainWindow" /\ r.apps[e.pid].frontmost ->
              [r.apps EXCEPT ![e.pid].main = e.wid]
         [] OTHER -> r.apps

AppsAfter(r, e) ==
  IF e.kind = "launched"
  THEN Update(r.apps, e.pid, [frontmost |-> e.on, quiet |-> FALSE, main |-> e.wid])
  ELSE IF e.pid \notin DOMAIN r.apps THEN r.apps
  ELSE CASE e.kind = "activated" ->
              [r.apps EXCEPT ![e.pid].frontmost = TRUE, ![e.pid].quiet = e.quiet]
         [] e.kind = "deactivated" -> [r.apps EXCEPT ![e.pid].frontmost = FALSE]
         [] e.kind = "mainWindow" -> [r.apps EXCEPT ![e.pid].main = e.wid]
         [] OTHER -> r.apps

GlobalAfter(r, e) ==
  CASE e.kind = "globallyActivated" -> e.pid
    [] e.kind = "globallyDeactivated" /\ r.global = e.pid -> NoApp
    [] OTHER -> r.global

(* An edge that is not quiet.  That of the system is as quiet as the app's *)
(* own last activation.                                                    *)
Loud(r, e) ==
  \/ e.kind = "launched"
  \/ /\ e.pid \in DOMAIN r.apps
     /\ \/ e.kind \in {"activated", "mainWindow"} /\ ~e.quiet
        \/ e.kind = "globallyActivated" /\ ~r.apps[e.pid].quiet

HandleEvent(r, e) ==
  LET after == [r EXCEPT !.apps = AppsAfter(r, e), !.global = GlobalAfter(r, e)]
      w == MainWindow(after)
  IN  IF Loud(r, e) /\ e.pid = after.global /\ w # NoWindow
      THEN [after EXCEPT !.selected = w] ELSE after

(* The same for an event that may not have been sent. *)
Handled(r, es) == IF es = {} THEN r ELSE HandleEvent(r, CHOOSE e \in es : TRUE)

-----------------------------------------------------------------------------
(* The system. *)

(* Window w gets the focus: the window server tells the apps and           *)
(* NSWorkspace, each of which passes it on in its own time.                *)
Focuses(w) ==
  LET a == Owner[w]
      news == [on |-> TRUE, win |-> w]
      goes == [on |-> FALSE, win |-> NoWindow]
  IN  /\ front' = a
      /\ inbox' = [b \in App |->
           IF b = a THEN Append(inbox[b], news)
           ELSE IF b = front THEN Append(inbox[b], goes) ELSE inbox[b]]
      /\ centre' = IF a = front THEN centre
                   ELSE centre \o << [on |-> FALSE, pid |-> front], [on |-> TRUE, pid |-> a] >>

UserFocuses(w) ==
  /\ acts < MaxActs /\ acts' = acts + 1
  /\ front # Owner[w] \/ main[front] # w
  /\ Focuses(w)
  /\ aim' = w
  /\ hurry' = IF Calm THEN FALSE ELSE hurry \/ ~Quiet
  /\ doubt' = IF Calm THEN FALSE ELSE doubt \/ (~Quiet /\ raised > 0)
  /\ UNCHANGED <<thinks, main, threadVars, reactor, raised>>

(* An app hears of it; if it is watched it notifies our thread of what     *)
(* changed, in no particular order.                                        *)
AppHears(a) ==
  LET n == Head(inbox[a])
      switched == IF n.on # thinks[a] THEN {"activation"} ELSE {}
      moved == IF n.on /\ n.win # main[a] THEN {"main"} ELSE {}
  IN  /\ inbox[a] # << >>
      /\ inbox' = [inbox EXCEPT ![a] = Tail(@)]
      /\ thinks' = [thinks EXCEPT ![a] = n.on]
      /\ main' = [main EXCEPT ![a] = IF n.on THEN n.win ELSE @]
      /\ IF a \in threads
         THEN \E s \in SetToSeqs(switched \cup moved) :
                notes' = [notes EXCEPT ![a] = @ \o s]
         ELSE notes' = notes
      /\ UNCHANGED <<front, threads, isFront, mainSeen, last, task, lock, centre,
                     reactor, acts, raised, aim, hurry, doubt>>

(* The notification center's news reach the reactor. *)
CentreTells ==
  /\ centre # << >>
  /\ reactor' = HandleEvent(reactor,
       Event(IF Head(centre).on THEN "globallyActivated" ELSE "globallyDeactivated",
             Head(centre).pid, NoWindow, FALSE))
  /\ centre' = Tail(centre)
  /\ UNCHANGED <<worldVars, threadVars, acts, raised, aim, hurry, doubt>>

-----------------------------------------------------------------------------
(* App threads. *)

(* The thread starts: it reads the app's state and reports it.  (What the  *)
(* app has yet to hear of was main before, and is reported as focused.)    *)
ThreadStarts(a) ==
  /\ a \notin threads
  /\ threads' = threads \cup {a}
  /\ isFront' = [isFront EXCEPT ![a] = thinks[a]]
  /\ mainSeen' = [mainSeen EXCEPT ![a] = main[a]]
  /\ reactor' = HandleEvent(reactor,
       [Event("launched", a, main[a], FALSE) EXCEPT !.on = thinks[a]])
  /\ doubt' = (doubt \/ inbox[a] # << >>)
  /\ UNCHANGED <<worldVars, notes, last, task, lock, centre, acts, raised, aim, hurry>>

(* on_main_window_changed: the event to send, if any, when the main window *)
(* is m.  It is read back, and one reported before is not again.           *)
MainReport(a, m, quietIf) ==
  IF m = NoWindow \/ m = mainSeen[a] THEN {}
  ELSE {Event("mainWindow", a, m, quietIf = m)}

MainReported(a, m) == IF m = NoWindow THEN mainSeen[a] ELSE m

(* Notifications are handled by the thread that raises, so not while it    *)
(* does, but while it waits.                                               *)
Listens(a) == task[a].pc # "raising"

(* Whether the activation of a is one of ours, and in time. *)
Taken(a) == last[a].set /\ last[a].live

(* The main window changed.  It is quiet if it is the one a raise of ours  *)
(* left behind; that holds once, and until the deadline.                   *)
HandleMainChanged(a) ==
  LET taken == IF Taken(a) THEN last[a].win ELSE NoWindow
  IN  /\ Listens(a) /\ notes[a] # << >> /\ Head(notes[a]) = "main"
      /\ notes' = [notes EXCEPT ![a] = Tail(@)]
      /\ last' = [last EXCEPT ![a].win = IF @ = taken THEN NoWindow ELSE @]
      /\ reactor' = Handled(reactor, MainReport(a, main[a], taken))
      /\ mainSeen' = [mainSeen EXCEPT ![a] = MainReported(a, main[a])]
      /\ UNCHANGED <<worldVars, threads, isFront, task, lock, centre, acts, raised,
                     aim, hurry, doubt>>

(* The app was activated, or deactivated: what it thinks now counts, not   *)
(* what the notification said.  An activation that was expected is ours.   *)
HandleActivation(a) ==
  LET on == thinks[a]
      ours == on /\ Taken(a)
      mainEvent == IF on THEN MainReport(a, main[a], IF ours THEN last[a].win ELSE NoWindow)
                   ELSE {}
      activation == IF on = isFront[a] THEN {}
                    ELSE {Event(IF on THEN "activated" ELSE "deactivated", a, NoWindow,
                                ours /\ last[a].quiet)}
  IN  /\ Listens(a) /\ notes[a] # << >> /\ Head(notes[a]) = "activation"
      /\ notes' = [notes EXCEPT ![a] = Tail(@)]
      /\ isFront' = [isFront EXCEPT ![a] = on]
      /\ last' = IF on THEN [last EXCEPT ![a] = NotExpected] ELSE last
      /\ task' = IF ours /\ task[a].pc = "waiting" THEN [task EXCEPT ![a].pc = "woken"] ELSE task
      /\ reactor' = Handled(Handled(reactor, mainEvent), activation)
      /\ mainSeen' = IF on THEN [mainSeen EXCEPT ![a] = MainReported(a, main[a])] ELSE mainSeen
      /\ UNCHANGED <<worldVars, threads, lock, centre, acts, raised, aim, hurry, doubt>>

-----------------------------------------------------------------------------
(* Raises. *)

(* With the lock held the thread makes the first window key, and awaits    *)
(* the activation if the app does not think it is frontmost.  The layout   *)
(* manager selected the last window when it asked for a raise to it.  For  *)
(* some reason or other the activation may not happen.                     *)
RaiseMakesKey(a, wids, quiet, works) ==
  LET first == Head(wids)
      awaits == ~thinks[a] /\ first \notin NonStandard
      wanted == [quiet |-> quiet \/ Len(wids) > 1,
                 win |-> IF quiet \/ Len(wids) > 1 THEN first ELSE NoWindow,
                 live |-> TRUE, set |-> TRUE]
  IN  /\ raised < MaxRaises /\ raised' = raised + 1
      /\ a \in DOMAIN reactor.apps /\ task[a] = Idle /\ lock = NoApp
      /\ IF works THEN Focuses(first) ELSE UNCHANGED <<front, inbox, centre>>
      /\ last' = IF awaits THEN [last EXCEPT ![a] = wanted] ELSE last
      /\ task' = [task EXCEPT ![a] = [pc |-> IF awaits THEN "waiting" ELSE "raising",
                                      wids |-> wids, quiet |-> quiet, at |-> 1]]
      /\ lock' = a
      /\ reactor' = IF quiet THEN reactor ELSE [reactor EXCEPT !.selected = Last(wids)]
      /\ aim' = IF quiet THEN aim ELSE Last(wids)
      /\ doubt' = (doubt \/ ~Quiet \/ threads # App \/ (~thinks[a] /\ ~awaits))
      /\ UNCHANGED <<thinks, main, notes, threads, isFront, mainSeen, acts, hurry>>

(* A raise is cancelled while it waits.  The activation it asked for may   *)
(* still come; it is ours until its deadline, which is brought forward.    *)
RaiseCancelled(a) ==
  /\ task[a].pc \in {"waiting", "woken"}
  /\ task' = [task EXCEPT ![a] = Idle]
  /\ lock' = NoApp
  /\ doubt' = TRUE
  /\ UNCHANGED <<worldVars, notes, threads, isFront, mainSeen, last, centre, reactor,
                 acts, raised, aim, hurry>>

(* ACTIVATION_TIMEOUT, or the shorter grace after a cancellation. *)
DeadlinePasses(a) ==
  /\ last[a].set /\ last[a].live
  /\ last' = [last EXCEPT ![a].live = FALSE]
  /\ doubt' = TRUE
  /\ UNCHANGED <<worldVars, notes, threads, isFront, mainSeen, task, lock, centre,
                 reactor, acts, raised, aim, hurry>>

(* The next window is raised, and the main window read back.  All but the  *)
(* last are quiet; before the last is reported the lock is given back.     *)
(* An app that thinks it is frontmost is not waited for, and may have yet  *)
(* to hear that another window was made key: once it does, it goes back to *)
(* that one, which counts as the user's doing.                             *)
RaiseWindow(a) ==
  LET t == task[a]
      w == t.wids[t.at]
      done == t.at = Len(t.wids)
      quietIf == IF ~done \/ t.quiet THEN w ELSE NoWindow
  IN  /\ t.pc \in {"woken", "raising"}
      /\ main' = [main EXCEPT ![a] = w]
      /\ notes' = IF w = main[a] THEN notes ELSE [notes EXCEPT ![a] = Append(@, "main")]
      /\ reactor' = Handled(reactor, MainReport(a, w, quietIf))
      /\ mainSeen' = [mainSeen EXCEPT ![a] = MainReported(a, w)]
      /\ task' = [task EXCEPT ![a] = IF done THEN Idle ELSE [t EXCEPT !.pc = "raising", !.at = t.at + 1]]
      /\ lock' = IF done THEN NoApp ELSE lock
      /\ doubt' = (doubt \/ \E news \in ToSet(inbox[a]) : news.win # w)
      /\ UNCHANGED <<front, inbox, thinks, threads, isFront, last, centre, acts,
                     raised, aim, hurry>>

(* RaiseRequestFailed: the reactor goes back to the window that has the    *)
(* focus, as far as it knows one.                                          *)
Failed(quiet) ==
  IF quiet \/ MainWindow(reactor) = NoWindow THEN reactor
  ELSE [reactor EXCEPT !.selected = MainWindow(reactor)]

(* A raise fails before anything is made key: a window is gone, or the app *)
(* does not answer.                                                        *)
RaiseRefused(a, quiet) ==
  /\ raised < MaxRaises /\ raised' = raised + 1
  /\ a \in DOMAIN reactor.apps /\ task[a] = Idle
  /\ reactor' = Failed(quiet)
  /\ aim' = IF quiet THEN aim ELSE main[front]
  /\ doubt' = (doubt \/ ~Quiet \/ threads # App)
  /\ UNCHANGED <<worldVars, threadVars, centre, acts, hurry>>

(* Or it fails after that, between two windows. *)
RaiseFails(a) ==
  LET t == task[a]
  IN  /\ t.pc \in {"woken", "raising"}
      /\ task' = [task EXCEPT ![a] = Idle]
      /\ lock' = NoApp
      /\ reactor' = Failed(t.quiet)
      /\ aim' = IF t.quiet THEN aim ELSE main[front]
      /\ doubt' = (doubt \/ centre # << >> \/ notes[a] # << >> \/ inbox[a] # << >>)
      /\ UNCHANGED <<worldVars, notes, threads, isFront, mainSeen, last, centre, acts,
                     raised, hurry>>

RaiseLists(a) == {s \in [1..1 -> WindowsOf(a)] \cup [1..2 -> WindowsOf(a)] : IsInjective(s)}

Next ==
  \/ \E w \in Window : UserFocuses(w)
  \/ CentreTells
  \/ \E a \in App :
       \/ AppHears(a)
       \/ ThreadStarts(a)
       \/ HandleMainChanged(a)
       \/ HandleActivation(a)
       \/ \E wids \in RaiseLists(a), quiet, works \in BOOLEAN :
            RaiseMakesKey(a, wids, quiet, works)
       \/ \E quiet \in BOOLEAN : RaiseRefused(a, quiet)
       \/ RaiseCancelled(a)
       \/ RaiseFails(a)
       \/ DeadlinePasses(a)
       \/ RaiseWindow(a)

Spec == Init /\ [][Next]_vars

-----------------------------------------------------------------------------
(* MainWindowTracker "guarantees eventual consistency" (main_window.rs:114):  *)
(* apps and system report activations on paths of their own, in any order,  *)
(* and once all is quiet the main window is the one that has the focus.     *)
Agreement == Quiet /\ threads = App => MainWindow(reactor) = main[front]

(* The selection moves only to the window that the user focused last, or   *)
(* that a raise which is not quiet was for: never to a window on the way,   *)
(* be it the old main window of the app that comes to the front or one     *)
(* that a raise of ours passes.  (A user who returns to an app before it   *)
(* has heard that he left does see its old main window selected: hurry.)   *)
SelectionAimed ==
  [][~hurry' /\ ~doubt' /\ reactor'.selected # reactor.selected => reactor'.selected = aim']_vars

(* And it gets there, if no raise was cancelled, too late for its          *)
(* activation or ahead of the window made key; after one was, it does so   *)
(* again from the next focus on that comes when no activation of ours is   *)
(* expected any more.                                                      *)
SelectionArrives == Quiet /\ threads = App /\ ~doubt => reactor.selected = aim

(* Once all is quiet reactor and layout agree with the system on the focus. *)
FocusAgreed == Agreement /\ SelectionArrives
=============================================================================
