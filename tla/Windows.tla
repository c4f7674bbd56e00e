------------------------------- MODULE Windows -------------------------------
(***************************************************************************)
(* Which windows the reactor tiles, on one screen with several spaces: the *)
(* app threads that find windows by notifications and by asking            *)
(* (src/actor/app.rs), the actor WindowServer that compares lists of what  *)
(* is on screen and the SkylightWatcher that hears of windows destroyed    *)
(* (src/actor/window_server.rs), and what the reactor makes of it          *)
(* (src/actor/reactor.rs).                                                 *)
(*                                                                         *)
(* What an app's thread learns goes through WindowServer's queue, where    *)
(* the list of the windows on screen is read, and on to the reactor; the   *)
(* reactor looks at nothing but its events, so the two steps are one here. *)
(* Windows have frames of their own: tabs are left out.                    *)
(*                                                                         *)
(* The program may just have been started, with the layouts it saved when  *)
(* it ended or without.                                                    *)
(***************************************************************************)
EXTENDS Integers, Sequences, FiniteSets, SequencesExt

CONSTANTS
  App, Window, Space,
  Owner,          \* the app of each window
  Begun,          \* windows that may be open from the start
  MaxActs         \* bound: what the user and the apps do by themselves

(* Window ids are of a process id and a 32-bit number. *)
ASSUME WindowsAssumption ==
  /\ IsFiniteSet(Window) /\ Owner \in [Window -> App] /\ Begun \subseteq Window /\ MaxActs \in Nat
  /\ Space # {}

VARIABLES
  stat,       \* each window is new, open, mini, closed (not destroyed) or dead
  at,         \* its space
  here,       \* the space on screen
  order,      \* open windows, front to back
  quitting,   \* apps that are gone
  notes,      \* accessibility notifications to each thread
  threads,    \* apps with a thread
  known,      \* windows each thread has registered
  mainSeen,   \* main_window of each thread, as a set of at most one
  asked,      \* apps with a GetVisibleWindows waiting
  told,       \* windows of which Skylight told the thread they were destroyed
  tracked,    \* registered_windows of the SkylightWatcher
  saved,      \* windows in the layouts that were restored
  server,     \* WindowServer's queue
  list,       \* visible_window_ids, as WindowServer read them last
  r,          \* the reactor
  strange,    \* history: windows once closed or hidden, or found before they were announced
  fresh,      \* history: apps that answered GetVisibleWindows since the last act
  acts

worldVars == <<stat, at, here, order, quitting, saved>>
threadVars == <<threads, known, mainSeen>>
vars == <<worldVars, notes, threadVars, asked, told, tracked, server, list, r, strange, fresh, acts>>

WindowsOf(a) == {w \in Window : Owner[w] = a}
OnScreen(w) == stat[w] = "open" /\ at[w] = here

(* What is in S of sequence q, in its order. *)
Only(q, S) ==
  LET kept == {i \in DOMAIN q : q[i] \in S}
  IN  [k \in 1..Cardinality(kept) |->
         q[CHOOSE i \in kept : Cardinality({j \in kept : j < i}) = k - 1]]

List == Only(order, {w \in Window : OnScreen(w)})

(* What accessibility lists: the app's windows on this space, minimized    *)
(* ones too.                                                               *)
Listed(a) == {w \in WindowsOf(a) : stat[w] \in {"open", "mini"} /\ at[w] = here}

(* The app's main window is its first on screen. *)
Main(a) ==
  {w \in WindowsOf(a) : \E i \in DOMAIN List :
     List[i] = w /\ \A j \in 1..i - 1 : Owner[List[j]] # a}

(* Nothing is under way but answers to GetVisibleWindows; and not those    *)
(* either, which all apps gave since.                                      *)
Quiet ==
  /\ r.started /\ threads = App \ quitting /\ told = {} /\ \A a \in App : notes[a] = << >>
  /\ \A i \in DOMAIN server : server[i].kind = "discovered"

Settled == Quiet /\ threads \subseteq fresh /\ asked = {} /\ server = << >>

Note(k, w) == [kind |-> k, wid |-> w]
Event(k, a, new, seen) == [kind |-> k, pid |-> a, new |-> new, known |-> seen]

-----------------------------------------------------------------------------
(* The reactor's handlers. *)

(* send_visible_windows_to_layout, and WindowsOnScreenUpdated of the       *)
(* layout manager: the windows of an app on the space are set to those     *)
(* visible, each once.                                                     *)
SendVisible(s, a) ==
  [s EXCEPT !.layout[s.space] =
     [w \in Window |-> IF Owner[w] # a THEN @[w]
                       ELSE IF w \in s.visible \cap s.ids \cap s.windows THEN 1 ELSE 0]]

(* update_partial_window_server_info *)
SetVisible(s, l) == [s EXCEPT !.visible = Range(l) \ s.hidden]

(* A bug: windows that accessibility does not list stay. *)
DiscoveredTrusting(s, a, new, seen) ==
  SendVisible([s EXCEPT !.windows = @ \cup new, !.ids = @ \cup new, !.hidden = @ \ seen], a)

(* on_windows_discovered: windows that accessibility does not list are     *)
(* hidden, if it lists any that was known before.                          *)
Discovered(s, a, new, seen) ==
  LET ids == s.ids \cup new
      hidden == IF seen = {} THEN s.hidden
                ELSE (s.hidden \ seen) \cup ((ids \cap WindowsOf(a)) \ seen)
  IN  SendVisible([s EXCEPT !.windows = @ \cup new, !.ids = ids, !.hidden = hidden,
                            !.visible = IF seen = {} THEN @ ELSE @ \ hidden], a)

Created(s, w) == [s EXCEPT !.windows = @ \cup {w}, !.ids = @ \cup {w}]

(* WindowBecameVisible adds the window to the layout of the space. *)
BecameVisible(s, w) == [s EXCEPT !.layout[s.space][w] = @ + 1]

Removed(s, ws) ==
  [s EXCEPT !.layout = [sp \in Space |-> [w \in Window |-> IF w \in ws THEN 0 ELSE @[sp][w]]]]

Destroyed(s, w) == Removed([s EXCEPT !.hidden = @ \ {w}, !.windows = @ \ {w}], {w})

(* A bug: the layout is not told. *)
ThreadEndedQuietly(s, a) == [s EXCEPT !.apps = @ \ {a}]

ThreadEnded(s, a) == Removed([s EXCEPT !.apps = @ \ {a}], WindowsOf(a))

(* WindowServer sends the list on if it changed. *)
IfChanged(s, a) == IF List = list THEN s ELSE SendVisible(SetVisible(s, List), a)

-----------------------------------------------------------------------------
(* LayoutManager::load: each window is in the layout of its space. *)
Restored(ws) == [s \in Space |-> [w \in Window |-> IF w \in ws /\ at[w] = s THEN 1 ELSE 0]]

(* Either all apps have a thread, which knows their windows on this space, *)
(* or the program starts now.  Windows of a saved layout may be gone, and  *)
(* apps, since it was saved.  The start counts as an act.                  *)
Init ==
  /\ here = CHOOSE s \in Space : TRUE
  /\ threads \in {{}, App}
  /\ stat \in [Window -> {"new", "open", "dead"}] /\ at \in [Window -> Space]
  /\ \A w \in Window : stat[w] = "new" => at[w] = here
  /\ \A w \in Window \ Begun : stat[w] = "new"
  /\ saved \in {{}, {w \in Window : stat[w] # "new"}}
  /\ threads = App => saved = {}
  /\ \A w \in Window : stat[w] = "dead" => w \in saved
  /\ order \in SetToSeqs({w \in Window : stat[w] = "open"})
  /\ quitting \in SUBSET {Owner[w] : w \in saved}
  /\ \A w \in Window : Owner[w] \in quitting => stat[w] # "open"
  /\ notes = [a \in App |-> << >>]
  /\ known = [a \in App |-> IF a \in threads THEN Listed(a) ELSE {}]
  /\ mainSeen = [a \in App |-> IF a \in threads THEN Main(a) ELSE {}]
  /\ asked = {} /\ told = {}
  /\ tracked = UNION {known[a] : a \in App}
  /\ server = << >> /\ list = List
  /\ LET ws == UNION {known[a] : a \in App}
     IN  r = [apps |-> threads, windows |-> ws, ids |-> ws, hidden |-> {},
              visible |-> Range(List), space |-> here, layout |-> Restored(ws \cup saved),
              started |-> threads = App]
  /\ strange = {} /\ fresh = {}
  /\ acts = IF threads = App THEN 0 ELSE 1

-----------------------------------------------------------------------------
(* The user and the apps. *)

Acts == acts < MaxActs /\ acts' = acts + 1 /\ fresh' = {}
Rest == UNCHANGED <<saved, threadVars, asked, server, list, r, strange>>

(* The app of window w notifies its thread, if there is one. *)
Notifies(w, kinds) ==
  LET a == Owner[w]
  IN  IF a \in threads
      THEN \E s \in SetToSeqs(kinds) : notes' = [notes EXCEPT ![a] = @ \o [i \in DOMAIN s |-> Note(s[i], w)]]
      ELSE notes' = notes

Without(ws) == Only(order, Window \ ws)
ToFront(w) == << w >> \o Without({w})
IfMain(w, k) == IF {w} = Main(Owner[w]) THEN {k} ELSE {}

(* A window opens, in front: it becomes main.  Its app may be slow to say  *)
(* which first.                                                            *)
Opens(w) ==
  /\ Acts /\ stat[w] = "new" /\ Owner[w] \notin quitting
  /\ stat' = [stat EXCEPT ![w] = "open"] /\ at' = [at EXCEPT ![w] = here]
  /\ order' = ToFront(w)
  /\ Notifies(w, {"created", "main"})
  /\ Rest /\ UNCHANGED <<here, quitting, told, tracked>>

Focuses(w) ==
  /\ Acts /\ OnScreen(w) /\ w # Head(order)
  /\ order' = ToFront(w)
  /\ Notifies(w, {"main"})
  /\ Rest /\ UNCHANGED <<stat, at, here, quitting, told, tracked>>

Minimizes(w) ==
  /\ Acts /\ OnScreen(w)
  /\ stat' = [stat EXCEPT ![w] = "mini"] /\ order' = Without({w})
  /\ Notifies(w, {"visibility"} \cup IfMain(w, "main"))
  /\ strange' = IF w \in known[Owner[w]] THEN strange ELSE strange \cup {w}
  /\ UNCHANGED <<at, here, quitting, saved, threadVars, asked, told, tracked, server, list, r>>

(* A window is closed but not destroyed; the app only says if another      *)
(* window is main now.                                                     *)
Closes(w) ==
  /\ Acts /\ OnScreen(w)
  /\ stat' = [stat EXCEPT ![w] = "closed"] /\ order' = Without({w})
  /\ Notifies(w, IfMain(w, "main"))
  /\ strange' = strange \cup {w}
  /\ UNCHANGED <<at, here, quitting, saved, threadVars, asked, told, tracked, server, list, r>>

(* A minimized or closed window is back. *)
Returns(w) ==
  /\ Acts /\ stat[w] \in {"mini", "closed"} /\ at[w] = here
  /\ stat' = [stat EXCEPT ![w] = "open"] /\ order' = ToFront(w)
  /\ Notifies(w, {"main"} \cup IF stat[w] = "mini" THEN {"visibility"} ELSE {})
  /\ Rest /\ UNCHANGED <<at, here, quitting, told, tracked>>

(* The SkylightWatcher hears that windows are destroyed, and tells their   *)
(* threads of those it was told to track; once.                            *)
SkylightHears(ws) ==
  /\ told' = told \cup (tracked \cap ws)
  /\ tracked' = tracked \ ws

(* The app may not tell its thread, if the SkylightWatcher does.           *)
Destroys(w) ==
  /\ Acts /\ stat[w] \in {"open", "mini", "closed"} /\ Owner[w] \notin quitting
  /\ stat' = [stat EXCEPT ![w] = "dead"] /\ order' = Without({w})
  /\ \E k \in {{}, {"destroyed"}} :
       /\ k = {} => w \in tracked
       /\ Notifies(w, k \cup IfMain(w, "main"))
  /\ SkylightHears({w})
  /\ Rest /\ UNCHANGED <<at, here, quitting>>

(* The user switches to space s; WindowServer is told. *)
SwitchesTo(s) ==
  /\ Acts /\ s # here
  /\ here' = s
  /\ server' = Append(server, Event("space", "", {}, {}))
  /\ UNCHANGED <<stat, at, order, quitting, saved, notes, threadVars, asked, told, tracked,
                 list, r, strange>>

(* An app quits, with its windows. *)
Quits(a) ==
  /\ Acts /\ a \notin quitting
  /\ quitting' = quitting \cup {a}
  /\ stat' = [w \in Window |-> IF Owner[w] = a THEN "dead" ELSE stat[w]]
  /\ order' = Without(WindowsOf(a))
  /\ SkylightHears(WindowsOf(a))
  /\ Rest /\ UNCHANGED <<at, here, notes>>

-----------------------------------------------------------------------------
(* App threads. *)

Tells(es) == server' = server \o es

(* The thread starts: it registers the windows it is shown. *)
Launches(a) ==
  /\ a \notin threads \cup quitting
  /\ threads' = threads \cup {a}
  /\ known' = [known EXCEPT ![a] = Listed(a)]
  /\ mainSeen' = [mainSeen EXCEPT ![a] = Main(a)]
  /\ tracked' = tracked \cup Listed(a)
  /\ Tells(<< Event("launched", a, Listed(a), {}) >>)
  /\ UNCHANGED <<worldVars, notes, asked, told, list, r, strange, fresh, acts>>

(* StartupComplete, when the threads of all apps have started or ended.    *)
(* The WM controller sends it by a way of its own: it may come before the  *)
(* reactor hears of them.  What is in the layout of apps that the reactor  *)
(* has not heard of is not kept (AppsRunningUpdated).                      *)
AppsRunningUpdated(s) == Removed(s, {w \in Window : Owner[w] \notin s.apps})
StartupCompletes ==
  /\ ~r.started /\ App \subseteq threads \cup quitting
  /\ r' = [AppsRunningUpdated(r) EXCEPT !.started = TRUE]
  /\ UNCHANGED <<worldVars, notes, threadVars, asked, told, tracked, server, list, strange,
                 fresh, acts>>

(* It registers a window and says it was created. *)
Registers(a, ws) ==
  /\ known' = [known EXCEPT ![a] = @ \cup ws]
  /\ tracked' = tracked \cup ws

(* Request GetVisibleWindows. *)
Answers(a) ==
  /\ a \in asked /\ a \in threads \ quitting
  /\ asked' = asked \ {a}
  /\ Registers(a, Listed(a) \ known[a])
  /\ Tells(<< Event("discovered", a, Listed(a) \ known[a], Listed(a) \cap known[a]) >>)
  /\ strange' = strange \cup (Listed(a) \ known[a])
  /\ fresh' = IF Quiet /\ Listed(a) \subseteq known[a] THEN fresh \cup {a} ELSE fresh \ {a}
  /\ UNCHANGED <<worldVars, notes, threads, mainSeen, told, list, r, acts>>

(* It could not be answered. *)
AnswerFails(a) ==
  /\ Acts /\ a \in asked /\ a \in threads \ quitting
  /\ asked' = asked \ {a}
  /\ Tells(<< Event("discovered", a, {}, {}) >>)
  /\ UNCHANGED <<worldVars, notes, threadVars, told, tracked, list, r, strange>>

Forgets(a, w) ==
  /\ known' = [known EXCEPT ![a] = @ \ {w}]
  /\ Tells(IF w \in known[a] THEN << Event("destroyed", a, {w}, {}) >> ELSE << >>)

(* Request WindowDestroyed, of Skylight. *)
HearsDestroyed(a) ==
  \E w \in told \cap WindowsOf(a) :
    /\ a \in threads
    /\ told' = told \ {w}
    /\ Forgets(a, w)
    /\ UNCHANGED <<worldVars, notes, threads, mainSeen, asked, tracked, list, r, strange, fresh, acts>>

(* Requests come before notifications. *)
HandleNote(a) ==
  LET n == Head(notes[a])
      w == n.wid
      m == IF a \in quitting THEN {} ELSE Main(a)
      unknown == m \ known[a]
      create == IF unknown = {} THEN << >> ELSE << Event("created", a, unknown, {}) >>
  IN  /\ a \in threads \ asked /\ told \cap WindowsOf(a) = {} /\ notes[a] # << >>
      /\ notes' = [notes EXCEPT ![a] = Tail(@)]
      /\ \/ /\ n.kind = "created"
            /\ LET ws == IF stat[w] = "dead" THEN {} ELSE {w} \ known[a]
               IN  /\ Registers(a, ws)
                   /\ Tells(IF ws = {} THEN << >> ELSE << Event("created", a, ws, {}) >>)
            /\ mainSeen' = mainSeen
         \/ /\ n.kind = "main"
            /\ Registers(a, unknown)
            /\ mainSeen' = [mainSeen EXCEPT ![a] = IF m = {} THEN @ ELSE m]
            /\ Tells(create \o IF m \subseteq mainSeen[a] THEN << >>
                               ELSE << Event("main", a, {}, {}) >>)
         \/ /\ n.kind = "visibility"
            /\ Tells(IF w \in known[a] THEN << Event("visibility", a, {}, {}) >> ELSE << >>)
            /\ UNCHANGED <<known, tracked, mainSeen>>
         \/ /\ n.kind = "destroyed"
            /\ Forgets(a, w)
            /\ UNCHANGED <<tracked, mainSeen>>
      /\ UNCHANGED <<worldVars, threads, asked, told, list, r, strange, fresh, acts>>

(* Request Terminate, once the app is gone. *)
ThreadEnds(a) ==
  /\ a \in threads \cap quitting
  /\ threads' = threads \ {a}
  /\ notes' = [notes EXCEPT ![a] = << >>]
  /\ told' = told \ WindowsOf(a) /\ asked' = asked \ {a}
  /\ Tells(<< Event("ended", a, {}, {}) >>)
  /\ UNCHANGED <<worldVars, known, mainSeen, tracked, list, r, strange, fresh, acts>>

-----------------------------------------------------------------------------
(* WindowServer handles an event, and the reactor what comes of it. *)
After(e) ==
  LET a == e.pid
  IN  CASE e.kind = "created" ->
             LET w == CHOOSE x \in e.new : TRUE
             IN  BecameVisible(IfChanged(Created(r, w), a), w)
        [] e.kind \in {"main", "visibility"} -> IfChanged(r, a)
        [] e.kind = "launched" ->
             LET s == SendVisible(SetVisible(r, List), a)
             IN  Discovered([s EXCEPT !.apps = @ \cup {a}], a, e.new, {})
        [] e.kind = "discovered" -> Discovered(r, a, e.new, e.known)
        [] e.kind = "destroyed" -> Destroyed(r, CHOOSE x \in e.new : TRUE)
        [] e.kind = "ended" -> ThreadEnded(r, a)
        [] e.kind = "space" -> [SetVisible(r, List) EXCEPT !.space = here]

ReadsList(e) == e.kind \in {"created", "main", "visibility", "launched", "space"}

(* The reactor asks again when the main window or the space changes. *)
Asks(e) ==
  CASE e.kind = "main" -> {e.pid} \cap r.apps
    [] e.kind = "space" -> r.apps
    [] OTHER -> {}

ServerHandles ==
  LET e == Head(server)
  IN  /\ server # << >>
      /\ server' = Tail(server)
      /\ r' = After(e)
      /\ list' = IF ReadsList(e) THEN List ELSE list
      /\ asked' = asked \cup (Asks(e) \cap threads)
      /\ strange' = strange \cup r'.hidden
      /\ UNCHANGED <<worldVars, notes, threadVars, told, tracked, fresh, acts>>

(* The visibility timer: every 2 seconds the reactor asks all apps.  (Here  *)
(* only until every app has answered since the last act: that bounds it.)  *)
Poll ==
  /\ ~(r.apps \subseteq fresh)
  /\ asked = {} /\ \A i \in DOMAIN server : server[i].kind # "discovered"
  /\ asked' = asked \cup (r.apps \cap threads)
  /\ UNCHANGED <<worldVars, notes, threadVars, told, tracked, server, list, r, strange, fresh, acts>>

Next ==
  \/ \E w \in Window :
       Opens(w) \/ Focuses(w) \/ Minimizes(w) \/ Closes(w) \/ Returns(w) \/ Destroys(w)
  \/ \E s \in Space : SwitchesTo(s)
  \/ \E a \in App :
       \/ Quits(a) \/ Launches(a) \/ Answers(a) \/ AnswerFails(a)
       \/ HearsDestroyed(a) \/ HandleNote(a) \/ ThreadEnds(a)
  \/ StartupCompletes
  \/ ServerHandles
  \/ Poll

Spec == Init /\ [][Next]_vars

-----------------------------------------------------------------------------
(* Once the program has started only windows of apps it knows are in a     *)
(* layout, and only windows the reactor knows or knew when it saved: a     *)
(* destroyed window or one of an app that quit is in none from when the    *)
(* reactor is told, and no answer that was on its way puts it back; nor    *)
(* does a layout that was saved before (reactor.rs:460).                   *)
LayoutKnown ==
  \A s \in Space, w \in Window :
    r.layout[s][w] > 0 =>
      /\ w \in r.windows \cup saved
      /\ r.started => Owner[w] \in r.apps

(* Windows that are gone, by whatever way, have left the layout on screen  *)
(* once every app has answered: the timer "catches windows that are closed *)
(* without sending proper notifications" (reactor.rs:510).  It does not if *)
(* the app has no other window on the space, nor for a window minimized    *)
(* before it was found.                                                    *)
GoneLeave ==
  Settled =>
    \A w \in Window : r.layout[here][w] > 0 =>
      \/ OnScreen(w)
      \/ stat[w] = "closed" /\ Listed(Owner[w]) = {}
      \/ stat[w] = "mini" /\ w \in strange

(* A window on screen that its app announced, and that never was closed or *)
(* taken for closed, is tiled, once, whatever else happened on the way: it *)
(* takes WindowCreated, the list and WindowBecameVisible in this order     *)
(* (window_server.rs:148).                                                 *)
Arrive ==
  Settled => \A w \in Window : OnScreen(w) /\ w \notin strange => r.layout[here][w] = 1

(* A window is not taken for closed for good.                              *)
HiddenHeals == Settled => \A w \in Window : OnScreen(w) => w \notin r.hidden

(* Once all have answered the layout on screen has the windows there are.  *)
LayoutFollows == GoneLeave /\ Arrive /\ HiddenHeals
=============================================================================
