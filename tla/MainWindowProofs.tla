-------------------------- MODULE MainWindowProofs --------------------------
(***************************************************************************)
(* The focus, for every set of apps and windows and any number of focuses  *)
(* and raises: reactor, threads and apps come to agree with the system,    *)
(* and the selection goes where it should and nowhere else.                *)
(*                                                                         *)
(* While nothing is in doubt, all that is under way comes either of the    *)
(* user's focusing windows (UserFocusing) or of a single raise (Raising).  *)
(* For each of the two it is said what is still to come of every app.      *)
(***************************************************************************)
EXTENDS MainWindow, FiniteSetTheorems, TLAPS

News == [on : {TRUE}, win : Window] \cup [on : {FALSE}, win : {NoWindow}]

AppStates == [frontmost : BOOLEAN, quiet : BOOLEAN, main : Window]

(* The tracker when apps T have been launched. *)
Trackers(T) == [apps : [T -> AppStates], global : App \cup {NoApp}, selected : Window \cup {NoWindow}]

(* What the reactor, the threads and the apps keep. *)
Types ==
  /\ front \in App /\ inbox \in [App -> Seq(News)]
  /\ thinks \in [App -> BOOLEAN] /\ main \in [App -> Window]
  /\ notes \in [App -> Seq({"activation", "main"})] /\ threads \subseteq App
  /\ isFront \in [App -> BOOLEAN] /\ mainSeen \in [App -> Window \cup {NoWindow}]
  /\ last \in [App -> [quiet : BOOLEAN, win : Window \cup {NoWindow},
                       live : BOOLEAN, set : BOOLEAN]]
  /\ task \in [App -> [pc : {"idle", "waiting", "woken", "raising"}, wids : Seq(Window),
                       quiet : BOOLEAN, at : Nat]]
  /\ \A a \in App : task[a].pc # "idle" => task[a].at \in DOMAIN task[a].wids
  /\ \A a \in App \ threads : notes[a] = << >> /\ task[a].pc = "idle"
  /\ centre \in Seq([on : BOOLEAN, pid : App])
  /\ reactor \in Trackers(threads)
  /\ acts \in Nat /\ raised \in Nat
  /\ aim \in Window /\ hurry \in BOOLEAN /\ doubt \in BOOLEAN

(* The last news on their way to somebody tell of the present. *)
NewsCurrent ==
  /\ \A a \in App :
       IF inbox[a] = << >> THEN thinks[a] = (a = front) ELSE Last(inbox[a]).on = (a = front)
  /\ IF centre = << >> THEN reactor.global = front
     ELSE Last(centre) = [on |-> TRUE, pid |-> front]

(* A thread that is behind its app has a notification of what changed. *)
ThreadsNotified ==
  \A a \in threads :
    /\ isFront[a] = thinks[a] \/ "activation" \in ToSet(notes[a])
    /\ mainSeen[a] = main[a] \/ "main" \in ToSet(notes[a])
    /\ mainSeen[a] \in Window

(* The tracker knows of each app what its thread does. *)
TrackerFollows ==
  \A a \in threads :
    reactor.apps[a].frontmost = isFront[a] /\ reactor.apps[a].main = mainSeen[a]

(* Before the first raise nothing is quiet. *)
LoudAtFirst ==
  raised = 0 =>
    /\ \A a \in App : task[a] = Idle /\ ~last[a].set
    /\ \A a \in threads : ~reactor.apps[a].quiet

AtRest(a) == task[a] = Idle /\ ~last[a].live

(* What is left to come of an app that is not to have the focus: it is     *)
(* deactivated.                                                            *)
Leaves(a) ==
  /\ \A n \in ToSet(inbox[a]) : ~n.on
  /\ \A k \in ToSet(notes[a]) : k = "activation"
  /\ notes[a] # << >> => ~thinks[a]

OnlyTold(a) == \A e \in ToSet(centre) : e.on => e.pid = a

(* The user's last focus is the one that comes last. *)
AimLast ==
  IF inbox[front] = << >> THEN main[front] = aim
  ELSE Last(inbox[front]) = [on |-> TRUE, win |-> aim]

(* Before the first raise the selection follows the reactor's main window. *)
FollowsAtFirst ==
  raised = 0 /\ reactor.global \in threads /\ isFront[reactor.global] =>
    reactor.selected = mainSeen[reactor.global]

(* The user focused one window since all was quiet. *)
OneFocus ==
  /\ \A a \in App \ {front} : Leaves(a)
  /\ OnlyTold(front)
  /\ Len(inbox[front]) <= 1
  /\ notes[front] # << >> => inbox[front] = << >>
  /\ front \in threads /\ isFront[front] =>
       /\ centre # << >> => mainSeen[front] = aim /\ ~reactor.apps[front].quiet
       /\ reactor.global = front /\ mainSeen[front] = aim => reactor.selected = aim

UserFocusing ==
  /\ \A a \in App : AtRest(a)
  /\ AimLast
  /\ raised > 0 \/ ~hurry => OneFocus

(* The thread has taken note of the activation. *)
Activated(a) == thinks[a] /\ isFront[a] /\ ~last[a].live

Muted(a) == task[a].quiet \/ Len(task[a].wids) > 1

FirstNews(a) == inbox[a] = << >> \/ inbox[a] = << [on |-> TRUE, win |-> task[a].wids[1]] >>

(* What the app has yet to hear leaves it as it is: it was raised before   *)
(* it heard that it has the key window.                                    *)
NothingNew(a) == inbox[a] = << >> \/ inbox[a] = << [on |-> TRUE, win |-> main[a]] >>

(* The steps of a raise that was made when all was quiet. *)
RaiseDone(a) ==
  /\ task[a] = Idle /\ Activated(a)
  /\ NothingNew(a) /\ mainSeen[a] = main[a]
  /\ centre # << >> /\ ~reactor.apps[a].quiet => main[a] = aim

RaiseWaits(a) ==
  /\ task[a].pc = "waiting" /\ task[a].at = 1
  /\ last[a].live /\ last[a].set /\ last[a].quiet = Muted(a)
  /\ ~isFront[a]
  /\ IF thinks[a] THEN inbox[a] = << >> /\ main[a] = task[a].wids[1]
     ELSE notes[a] = << >> /\ FirstNews(a)

RaiseWoken(a) ==
  /\ task[a].pc = "woken" /\ task[a].at = 1
  /\ Activated(a)
  /\ inbox[a] = << >> /\ mainSeen[a] = main[a] /\ main[a] = task[a].wids[1]
  /\ reactor.apps[a].quiet = Muted(a)

RaiseGoesOn(a) ==
  /\ task[a].pc = "raising" /\ Activated(a)
  /\ IF task[a].at = 1 THEN centre = << >> /\ FirstNews(a)
     ELSE /\ NothingNew(a) /\ mainSeen[a] = main[a]
          /\ centre = << >> \/ reactor.apps[a].quiet

Raising(a) ==
  /\ raised > 0 /\ threads = App /\ reactor.selected = aim
  /\ \A b \in App \ {a} : Leaves(b) /\ AtRest(b)
  /\ OnlyTold(a)
  /\ task[a].pc # "idle" /\ ~task[a].quiet => aim = Last(task[a].wids)
  /\ RaiseDone(a) \/ RaiseWaits(a) \/ RaiseWoken(a) \/ RaiseGoesOn(a)

Base == Types /\ NewsCurrent /\ ThreadsNotified /\ TrackerFollows /\ LoudAtFirst

AimInSight == UserFocusing \/ \E a \in App : Raising(a)

FInv == Base /\ FollowsAtFirst /\ (~doubt => AimInSight)

-----------------------------------------------------------------------------
(* Sequences. *)

LEMMA EmptyFacts ==
  ASSUME NEW S, NEW s \in Seq(S)
  PROVE  (s = << >> <=> Len(s) = 0) /\ (s = << >> <=> ToSet(s) = {})
<1>1. Len(s) \in Nat /\ DOMAIN s = 1..Len(s) /\ (s = << >> <=> Len(s) = 0)
  OBVIOUS
<1>2. Len(s) > 0 => s[1] \in ToSet(s)
  BY <1>1 DEF ToSet
<1>3. Len(s) = 0 => ToSet(s) = {}
  BY <1>1 DEF ToSet
<1>. QED  BY <1>1, <1>2, <1>3

LEMMA AppendFacts ==
  ASSUME NEW S, NEW s \in Seq(S), NEW x \in S
  PROVE  /\ Append(s, x) \in Seq(S) /\ Append(s, x) # << >>
         /\ Len(Append(s, x)) = Len(s) + 1
         /\ Last(Append(s, x)) = x /\ ToSet(Append(s, x)) = ToSet(s) \cup {x}
<1>1. /\ Append(s, x) \in Seq(S) /\ Len(Append(s, x)) = Len(s) + 1
      /\ Append(s, x)[Len(s) + 1] = x
      /\ \A i \in 1..Len(s) : Append(s, x)[i] = s[i]
  OBVIOUS
<1>. PICK t \in Seq(S) : t = Append(s, x)
  BY <1>1
<1>2. Len(s) \in Nat /\ DOMAIN s = 1..Len(s) /\ DOMAIN t = 1..Len(s) + 1
  BY <1>1
<1>3. ToSet(t) = ToSet(s) \cup {x}
  BY <1>1, <1>2 DEF ToSet
<1>. QED  BY <1>1, <1>2, <1>3 DEF Last

LEMMA TailFacts ==
  ASSUME NEW S, NEW s \in Seq(S), s # << >>
  PROVE  /\ Tail(s) \in Seq(S) /\ Head(s) \in S /\ Len(Tail(s)) = Len(s) - 1
         /\ ToSet(s) = ToSet(Tail(s)) \cup {Head(s)}
         /\ Last(s) = IF Tail(s) = << >> THEN Head(s) ELSE Last(Tail(s))
<1>1. /\ Tail(s) \in Seq(S) /\ Head(s) = s[1] /\ Len(s) \in Nat /\ Len(s) > 0
      /\ Len(Tail(s)) = Len(s) - 1 /\ DOMAIN s = 1..Len(s)
      /\ \A i \in 1..Len(s) - 1 : Tail(s)[i] = s[i + 1]
  OBVIOUS
<1>. PICK t \in Seq(S) : t = Tail(s)
  BY <1>1
<1>2. DOMAIN t = 1..Len(s) - 1
  BY <1>1
<1>3. ToSet(s) = ToSet(t) \cup {s[1]}
  <2>1. \A i \in 2..Len(s) : i - 1 \in 1..Len(s) - 1 /\ t[i - 1] = s[i]
    BY <1>1
  <2>2. \A i \in 1..Len(s) : i = 1 \/ i \in 2..Len(s)
    BY <1>1
  <2>3. ASSUME NEW i \in DOMAIN s PROVE s[i] \in ToSet(t) \cup {s[1]}
    <3>1. CASE i \in 2..Len(s)
      BY <1>2, <2>1, <3>1 DEF ToSet
    <3>. QED  BY <1>1, <2>2, <3>1
  <2>4. ToSet(t) \cup {s[1]} \subseteq ToSet(s)
    BY <1>1, <1>2 DEF ToSet
  <2>. QED  BY <2>3, <2>4 DEF ToSet
<1>4. t = << >> <=> Len(s) = 1
  <2>1. (t = << >> <=> Len(t) = 0) /\ Len(t) = Len(s) - 1
    BY <1>1, EmptyFacts
  <2>. QED  BY <1>1, <2>1
<1>. QED  BY <1>1, <1>3, <1>4 DEF Last

LEMMA ConcatFacts ==
  ASSUME NEW S, NEW s \in Seq(S), NEW t \in Seq(S)
  PROVE  s \o t \in Seq(S) /\ ToSet(s \o t) = ToSet(s) \cup ToSet(t)
<1>1. /\ s \o t \in Seq(S) /\ Len(s \o t) = Len(s) + Len(t)
      /\ Len(s) \in Nat /\ Len(t) \in Nat
      /\ \A i \in 1..Len(s) : (s \o t)[i] = s[i]
      /\ \A i \in 1..Len(t) : (s \o t)[i + Len(s)] = t[i]
  OBVIOUS
<1>. PICK u \in Seq(S) : u = s \o t
  BY <1>1
<1>2. DOMAIN u = 1..Len(s) + Len(t) /\ DOMAIN s = 1..Len(s) /\ DOMAIN t = 1..Len(t)
  BY <1>1
<1>3. ToSet(u) \subseteq ToSet(s) \cup ToSet(t)
  <2>1. \A i \in 1..Len(s) + Len(t) : i \in 1..Len(s) \/ i - Len(s) \in 1..Len(t)
    BY <1>1
  <2>2. \A i \in 1..Len(s) + Len(t) : i - Len(s) \in 1..Len(t) => u[i] = t[i - Len(s)]
    <3>. SUFFICES ASSUME NEW i \in 1..Len(s) + Len(t), i - Len(s) \in 1..Len(t)
                  PROVE  u[i] = t[i - Len(s)]
      OBVIOUS
    <3>1. (i - Len(s)) + Len(s) = i
      BY <1>1
    <3>. QED  BY <1>1, <3>1
  <2>. QED  BY <1>1, <1>2, <2>1, <2>2 DEF ToSet
<1>4. ToSet(s) \cup ToSet(t) \subseteq ToSet(u)
  <2>1. \A i \in 1..Len(s) : i \in DOMAIN u
    BY <1>1, <1>2
  <2>2. \A i \in 1..Len(t) : i + Len(s) \in DOMAIN u
    BY <1>1, <1>2
  <2>. QED  BY <1>1, <1>2, <2>1, <2>2 DEF ToSet
<1>. QED  BY <1>1, <1>3, <1>4

LEMMA TwoMoreFacts ==
  ASSUME NEW T, NEW c \in Seq(T), NEW x \in T, NEW y \in T
  PROVE  /\ c \o <<x, y>> \in Seq(T) /\ c \o <<x, y>> # << >>
         /\ Last(c \o <<x, y>>) = y /\ ToSet(c \o <<x, y>>) = ToSet(c) \cup {x, y}
<1>6. <<x, y>> \in Seq(T)
  OBVIOUS
<1>0. PICK s \in Seq(T) : s = <<x, y>>
  BY <1>6
<1>1. Len(s) = 2 /\ s[1] = x /\ s[2] = y /\ DOMAIN s = 1..2
  BY <1>0
<1>2. /\ c \o s \in Seq(T) /\ Len(c \o s) = Len(c) + 2 /\ (c \o s)[Len(c) + 2] = y
      /\ Len(c) \in Nat
  <2>1. /\ c \o s \in Seq(T) /\ Len(c \o s) = Len(c) + Len(s) /\ Len(c) \in Nat
        /\ \A i \in 1..Len(s) : (c \o s)[i + Len(c)] = s[i]
    OBVIOUS
  <2>2. 2 + Len(c) = Len(c) + 2 /\ 2 \in 1..Len(s)
    BY <1>1, <2>1
  <2>3. (c \o s)[2 + Len(c)] = y
    BY <1>1, <2>1, <2>2
  <2>. QED  BY <1>1, <2>1, <2>2, <2>3
<1>3. ToSet(s) = {x, y}
  BY <1>1 DEF ToSet
<1>4. c \o s # << >>
  BY <1>2
<1>5. ToSet(c \o s) = ToSet(c) \cup ToSet(s)
  BY ConcatFacts
<1>. QED  BY <1>0, <1>2, <1>3, <1>4, <1>5 DEF Last

(* The notifications of one change come in some order. *)
LEMMA OrderFacts ==
  ASSUME NEW S \in SUBSET {"activation", "main"}, NEW s \in SetToSeqs(S)
  PROVE  s \in Seq({"activation", "main"}) /\ ToSet(s) = S
<1>1. IsFiniteSet(S) /\ Cardinality(S) \in Nat
  <2>1. IsFiniteSet({"activation"})
    BY FS_Singleton
  <2>2. IsFiniteSet({"activation"} \cup {"main"})
    BY <2>1, FS_AddElement
  <2>3. S \subseteq {"activation"} \cup {"main"}
    OBVIOUS
  <2>. QED  BY <2>2, <2>3, FS_Subset, FS_CardinalityType
<1>2. s \in [1..Cardinality(S) -> S]
      /\ \A i, j \in 1..Cardinality(S) : i # j => s[i] # s[j]
  BY DEF SetToSeqs
<1>. PICK n \in Nat : n = Cardinality(S)
  BY <1>1
<1>3. s \in Seq({"activation", "main"}) /\ DOMAIN s = 1..Cardinality(S)
  <2>1. s \in [1..n -> {"activation", "main"}]
    BY <1>2
  <2>. QED  BY <1>2, <2>1
<1>4. CASE S = {}
  BY <1>2, <1>3, <1>4, FS_EmptySet DEF ToSet
<1>5. CASE S # {}
  <2>1. IsInjective(s)
    BY <1>2, <1>3 DEF IsInjective
  <2>2. s \in Injection(1..Cardinality(S), S)
    BY <1>2, <2>1 DEF Injection
  <2>3. IsFiniteSet(1..Cardinality(S)) /\ Cardinality(1..Cardinality(S)) = Cardinality(S)
    BY <1>1, FS_Interval
  <2>4. s \in Surjection(1..Cardinality(S), S)
    BY <1>1, <2>2, <2>3, FS_Injection
  <2>5. \A k \in S : \E i \in 1..Cardinality(S) : s[i] = k
    BY <2>4 DEF Surjection
  <2>6. \A i \in 1..Cardinality(S) : s[i] \in S
    BY <1>2
  <2>7. ToSet(s) = S
    BY <1>3, <2>5, <2>6 DEF ToSet
  <2>. QED  BY <1>3, <2>7
<1>. QED  BY <1>3, <1>4, <1>5

-----------------------------------------------------------------------------
(* The tracker: what each event does to it. *)

LEMMA EventEffect ==
  ASSUME NEW T, NEW r \in Trackers(T), NEW e, NEW t, t = HandleEvent(r, e),
         NEW U, NEW apps \in [U -> AppStates], apps = AppsAfter(r, e),
         NEW global \in App \cup {NoApp}, global = GlobalAfter(r, e),
         NEW loud \in BOOLEAN, loud = Loud(r, e)
  PROVE  /\ t \in Trackers(U) /\ t.apps = apps /\ t.global = global
         /\ t.selected = IF loud /\ e.pid = global /\ global \in U /\ apps[global].frontmost
                        THEN apps[global].main ELSE r.selected
<1>. PICK after : after = [r EXCEPT !.apps = apps, !.global = global]
  OBVIOUS
<1>. PICK w : w = MainWindow(after)
  OBVIOUS
<1>1. after \in Trackers(U) /\ after.apps = apps /\ after.global = global /\ after.selected = r.selected
  BY DEF Trackers
<1>2. w = IF global \in U /\ apps[global].frontmost THEN apps[global].main ELSE NoWindow
  BY <1>1 DEF MainWindow
<1>3. global \in U => apps[global].main \in Window
  BY DEF AppStates
<1>4. w # NoWindow <=> global \in U /\ apps[global].frontmost
  BY <1>2, <1>3, ActivationAssumption
<1>5. t = IF loud /\ e.pid = after.global /\ w # NoWindow THEN [after EXCEPT !.selected = w] ELSE after
  BY DEF HandleEvent
<1>6. CASE loud /\ e.pid = after.global /\ w # NoWindow
  <2>1. t = [after EXCEPT !.selected = w] /\ w \in Window
    BY <1>2, <1>3, <1>4, <1>5, <1>6
  <2>2. /\ t \in Trackers(U) /\ t.apps = after.apps /\ t.global = after.global /\ t.selected = w
    BY <1>1, <2>1 DEF Trackers
  <2>. QED  BY <1>1, <1>2, <1>4, <1>6, <2>2
<1>7. CASE ~(loud /\ e.pid = after.global /\ w # NoWindow)
  BY <1>1, <1>2, <1>4, <1>5, <1>7
<1>. QED  BY <1>6, <1>7

LEMMA MainWindowEffect ==
  ASSUME NEW T \in SUBSET App, NEW r \in Trackers(T), NEW a \in T, NEW w \in Window,
         NEW q \in BOOLEAN, NEW t, t = HandleEvent(r, Event("mainWindow", a, w, q))
  PROVE  /\ t \in Trackers(T) /\ t.global = r.global /\ t.apps = [r.apps EXCEPT ![a].main = w]
         /\ t.selected = IF ~q /\ a = r.global /\ r.apps[a].frontmost THEN w ELSE r.selected
<1>. PICK e : e = Event("mainWindow", a, w, q)
  OBVIOUS
<1>1. e.kind = "mainWindow" /\ e.pid = a /\ e.wid = w /\ e.quiet = q
  BY DEF Event
<1>2. r.apps \in [T -> AppStates] /\ r.global \in App \cup {NoApp}
  BY DEF Trackers
<1>0. PICK apps : apps = [r.apps EXCEPT ![a].main = w]
  OBVIOUS
<1>3. AppsAfter(r, e) = apps
  BY <1>0, <1>1, <1>2 DEF AppsAfter
<1>4. apps \in [T -> AppStates] /\ apps[a].main = w /\ apps[a].frontmost = r.apps[a].frontmost
  BY <1>0, <1>2 DEF AppStates
<1>5. GlobalAfter(r, e) = r.global /\ Loud(r, e) = ~q
  BY <1>1, <1>2 DEF GlobalAfter, Loud
<1>. PICK global \in App \cup {NoApp} : global = GlobalAfter(r, e)
  BY <1>2, <1>5
<1>. PICK loud \in BOOLEAN : loud = Loud(r, e)
  BY <1>5
<1>7. t = HandleEvent(r, e)
  OBVIOUS
<1>8. /\ t \in Trackers(T) /\ t.apps = apps /\ t.global = global
      /\ t.selected = IF loud /\ e.pid = global /\ global \in T /\ apps[global].frontmost
                     THEN apps[global].main ELSE r.selected
  BY <1>3, <1>4, <1>7, EventEffect
<1>. QED  BY <1>0, <1>1, <1>4, <1>5, <1>8

LEMMA ActivatedEffect ==
  ASSUME NEW T \in SUBSET App, NEW r \in Trackers(T), NEW a \in T,
         NEW q \in BOOLEAN, NEW t, t = HandleEvent(r, Event("activated", a, NoWindow, q))
  PROVE  /\ t \in Trackers(T) /\ t.global = r.global
         /\ t.apps = [r.apps EXCEPT ![a].frontmost = TRUE, ![a].quiet = q]
         /\ t.selected = IF ~q /\ a = r.global THEN r.apps[a].main ELSE r.selected
<1>. PICK e : e = Event("activated", a, NoWindow, q)
  OBVIOUS
<1>1. e.kind = "activated" /\ e.pid = a /\ e.quiet = q
  BY DEF Event
<1>2. r.apps \in [T -> AppStates] /\ r.global \in App \cup {NoApp}
  BY DEF Trackers
<1>0. PICK apps : apps = [r.apps EXCEPT ![a].frontmost = TRUE, ![a].quiet = q]
  OBVIOUS
<1>3. AppsAfter(r, e) = apps
  BY <1>0, <1>1, <1>2 DEF AppsAfter
<1>4. apps \in [T -> AppStates] /\ apps[a].frontmost /\ apps[a].main = r.apps[a].main
  BY <1>0, <1>2 DEF AppStates
<1>5. GlobalAfter(r, e) = r.global /\ Loud(r, e) = ~q
  BY <1>1, <1>2 DEF GlobalAfter, Loud
<1>. PICK global \in App \cup {NoApp} : global = GlobalAfter(r, e)
  BY <1>2, <1>5
<1>. PICK loud \in BOOLEAN : loud = Loud(r, e)
  BY <1>5
<1>7. t = HandleEvent(r, e)
  OBVIOUS
<1>8. /\ t \in Trackers(T) /\ t.apps = apps /\ t.global = global
      /\ t.selected = IF loud /\ e.pid = global /\ global \in T /\ apps[global].frontmost
                     THEN apps[global].main ELSE r.selected
  BY <1>3, <1>4, <1>7, EventEffect
<1>. QED  BY <1>0, <1>1, <1>4, <1>5, <1>8

LEMMA DeactivatedEffect ==
  ASSUME NEW T \in SUBSET App, NEW r \in Trackers(T), NEW a \in T,
         NEW q \in BOOLEAN, NEW t, t = HandleEvent(r, Event("deactivated", a, NoWindow, q))
  PROVE  /\ t \in Trackers(T) /\ t.global = r.global /\ t.selected = r.selected
         /\ t.apps = [r.apps EXCEPT ![a].frontmost = FALSE]
<1>. PICK e : e = Event("deactivated", a, NoWindow, q)
  OBVIOUS
<1>1. e.kind = "deactivated" /\ e.pid = a
  BY DEF Event
<1>2. r.apps \in [T -> AppStates] /\ r.global \in App \cup {NoApp}
  BY DEF Trackers
<1>0. PICK apps : apps = [r.apps EXCEPT ![a].frontmost = FALSE]
  OBVIOUS
<1>3. AppsAfter(r, e) = apps
  BY <1>0, <1>1, <1>2 DEF AppsAfter
<1>4. apps \in [T -> AppStates]
  BY <1>0, <1>2 DEF AppStates
<1>5. GlobalAfter(r, e) = r.global /\ Loud(r, e) = FALSE
  BY <1>1, <1>2 DEF GlobalAfter, Loud
<1>. PICK global \in App \cup {NoApp} : global = GlobalAfter(r, e)
  BY <1>2, <1>5
<1>. PICK loud \in BOOLEAN : loud = Loud(r, e)
  BY <1>5
<1>7. t = HandleEvent(r, e)
  OBVIOUS
<1>8. /\ t \in Trackers(T) /\ t.apps = apps /\ t.global = global
      /\ t.selected = IF loud /\ e.pid = global /\ global \in T /\ apps[global].frontmost
                     THEN apps[global].main ELSE r.selected
  BY <1>3, <1>4, <1>7, EventEffect
<1>. QED  BY <1>0, <1>1, <1>4, <1>5, <1>8

LEMMA GloballyEffect ==
  ASSUME NEW T \in SUBSET App, NEW r \in Trackers(T), NEW a \in App,
         NEW k \in {"globallyActivated", "globallyDeactivated"}, NEW on \in BOOLEAN,
         NEW q, on <=> k = "globallyActivated",
         NEW t, t = HandleEvent(r, Event(k, a, NoWindow, q))
  PROVE  /\ t \in Trackers(T) /\ t.apps = r.apps
         /\ t.global = IF on THEN a ELSE IF r.global = a THEN NoApp ELSE r.global
         /\ t.selected = IF on /\ a \in T /\ ~r.apps[a].quiet /\ r.apps[a].frontmost
                        THEN r.apps[a].main ELSE r.selected
<1>. PICK e : e = Event(k, a, NoWindow, q)
  OBVIOUS
<1>1. e.kind = k /\ e.pid = a
  BY DEF Event
<1>2. r.apps \in [T -> AppStates] /\ r.global \in App \cup {NoApp} /\ DOMAIN r.apps = T
  BY DEF Trackers
<1>3. AppsAfter(r, e) = r.apps
  BY <1>1, <1>2 DEF AppsAfter
<1>4. GlobalAfter(r, e) = IF on THEN a ELSE IF r.global = a THEN NoApp ELSE r.global
  BY <1>1, <1>2 DEF GlobalAfter
<1>5. Loud(r, e) <=> on /\ a \in T /\ ~r.apps[a].quiet
  BY <1>1, <1>2 DEF Loud
<1>6. GlobalAfter(r, e) \in App \cup {NoApp}
  BY <1>2, <1>4
<1>0. PICK apps : apps = AppsAfter(r, e)
  OBVIOUS
<1>9. apps \in [T -> AppStates]
  BY <1>0, <1>2, <1>3
<1>. PICK global \in App \cup {NoApp} : global = GlobalAfter(r, e)
  BY <1>6
<1>. PICK loud \in BOOLEAN : loud = Loud(r, e)
  BY DEF Loud
<1>7. t = HandleEvent(r, e)
  OBVIOUS
<1>8. /\ t \in Trackers(T) /\ t.apps = apps /\ t.global = global
      /\ t.selected = IF loud /\ e.pid = global /\ global \in T /\ apps[global].frontmost
                     THEN apps[global].main ELSE r.selected
  BY <1>0, <1>7, <1>9, EventEffect
<1>. QED  BY <1>0, <1>1, <1>2, <1>3, <1>4, <1>5, <1>8

LEMMA LaunchedEffect ==
  ASSUME NEW T \in SUBSET App, NEW r \in Trackers(T), NEW a \in App \ T, NEW w \in Window,
         NEW on \in BOOLEAN, NEW q, NEW t,
         t = HandleEvent(r, [Event("launched", a, w, q) EXCEPT !.on = on])
  PROVE  /\ t \in Trackers(T \cup {a}) /\ t.global = r.global
         /\ t.apps[a] = [frontmost |-> on, quiet |-> FALSE, main |-> w]
         /\ \A b \in T : t.apps[b] = r.apps[b]
         /\ t.selected = IF a = r.global /\ on THEN w ELSE r.selected
<1>10. PICK e : e = [Event("launched", a, w, q) EXCEPT !.on = on]
  OBVIOUS
<1>1. e.kind = "launched" /\ e.pid = a /\ e.wid = w /\ e.on = on
  BY <1>10 DEF Event
<1>2. r.apps \in [T -> AppStates] /\ r.global \in App \cup {NoApp}
  BY DEF Trackers
<1>9. PICK x : x = [frontmost |-> on, quiet |-> FALSE, main |-> w]
  OBVIOUS
<1>0. PICK apps : apps = [b \in T \cup {a} |-> IF b = a THEN x ELSE r.apps[b]]
  OBVIOUS
<1>3. AppsAfter(r, e) = apps
  <2>1. AppsAfter(r, e) = Update(r.apps, a, [frontmost |-> e.on, quiet |-> FALSE, main |-> e.wid])
    BY <1>1 DEF AppsAfter
  <2>2. Update(r.apps, a, x) = apps
    BY <1>0, <1>2 DEF Update
  <2>. QED  BY <1>1, <1>9, <2>1, <2>2
<1>4. x \in AppStates /\ x.frontmost = on /\ x.main = w
  BY <1>9 DEF AppStates
<1>5. apps \in [T \cup {a} -> AppStates] /\ apps[a] = x /\ \A b \in T : apps[b] = r.apps[b]
  BY <1>0, <1>2, <1>4
<1>6. GlobalAfter(r, e) = r.global /\ Loud(r, e) = TRUE
  BY <1>1 DEF GlobalAfter, Loud
<1>. PICK global \in App \cup {NoApp} : global = GlobalAfter(r, e)
  BY <1>2, <1>6
<1>. PICK loud \in BOOLEAN : loud = Loud(r, e)
  BY <1>6
<1>7. t = HandleEvent(r, e)
  BY <1>10
<1>. PICK U : U = T \cup {a}
  OBVIOUS
<1>8. /\ t \in Trackers(U) /\ t.apps = apps /\ t.global = global
      /\ t.selected = IF loud /\ e.pid = global /\ global \in U /\ apps[global].frontmost
                     THEN apps[global].main ELSE r.selected
  BY <1>3, <1>5, <1>7, EventEffect
<1>11. t.apps[a] = x /\ (\A b \in T : t.apps[b] = r.apps[b]) /\ t.global = r.global
  BY <1>5, <1>6, <1>8
<1>12. t.selected = IF a = r.global /\ on THEN w ELSE r.selected
  BY <1>1, <1>4, <1>5, <1>6, <1>8
<1>. QED  BY <1>8, <1>9, <1>11, <1>12

(* What a report of the main window does, whether or not it is sent. *)
LEMMA ReportEffect ==
  ASSUME Types, TrackerFollows, NEW a \in threads, NEW m \in Window, NEW q,
         NEW t, t = Handled(reactor, MainReport(a, m, q))
  PROVE  /\ t \in Trackers(threads) /\ t.global = reactor.global
         /\ t.apps = [reactor.apps EXCEPT ![a].main = m]
         /\ t.selected = IF m # mainSeen[a] /\ m # q /\ a = reactor.global /\ isFront[a]
                        THEN m ELSE reactor.selected
<1>1. /\ threads \in SUBSET App /\ reactor \in Trackers(threads)
      /\ reactor.apps \in [threads -> AppStates]
      /\ reactor.apps[a].frontmost = isFront[a] /\ reactor.apps[a].main = mainSeen[a]
  BY DEF Types, TrackerFollows, Trackers
<1>2. m # NoWindow
  BY ActivationAssumption
<1>3. CASE m = mainSeen[a]
  <2>1. t = reactor
    BY <1>3 DEF MainReport, Handled
  <2>. QED  BY <1>1, <1>3, <2>1 DEF AppStates
<1>4. CASE m # mainSeen[a]
  <2>0. PICK p \in BOOLEAN : p = (q = m)
    OBVIOUS
  <2>. PICK e : e = Event("mainWindow", a, m, p)
    OBVIOUS
  <2>1. MainReport(a, m, q) = {e}
    BY <1>2, <1>4, <2>0 DEF MainReport
  <2>2. t = HandleEvent(reactor, e)
    BY <2>1 DEF Handled
  <2>3. /\ t \in Trackers(threads) /\ t.global = reactor.global
        /\ t.apps = [reactor.apps EXCEPT ![a].main = m]
        /\ t.selected = IF ~p /\ a = reactor.global /\ reactor.apps[a].frontmost
                       THEN m ELSE reactor.selected
    BY <1>1, <2>2, MainWindowEffect
  <2>. QED  BY <1>1, <1>4, <2>0, <2>3
<1>. QED  BY <1>3, <1>4

Ours(a) == Taken(a) /\ last[a].quiet

LEMMA ActivationEffect ==
  ASSUME Types, TrackerFollows, NEW a \in threads, HandleActivation(a)
  PROVE  /\ reactor' \in Trackers(threads) /\ reactor'.global = reactor.global
         /\ \A b \in threads \ {a} : reactor'.apps[b] = reactor.apps[b]
         /\ reactor'.apps[a].frontmost = thinks[a]
         /\ reactor'.apps[a].main = IF thinks[a] THEN main[a] ELSE mainSeen[a]
         /\ reactor'.apps[a].quiet =
              IF thinks[a] /\ ~isFront[a] THEN Ours(a) ELSE reactor.apps[a].quiet
         /\ \/ reactor'.selected = reactor.selected
            \/ /\ reactor'.selected = main[a] /\ thinks[a] /\ a = reactor.global
               /\ main[a] # mainSeen[a] \/ ~isFront[a]
         /\ thinks[a] /\ a = reactor.global /\ ~isFront[a] /\ ~Ours(a) =>
              reactor'.selected = main[a]
         /\ ~isFront[a] /\ Ours(a) => reactor'.selected = reactor.selected
         /\ isFront[a] /\ thinks[a] /\ a = reactor.global /\ main[a] # mainSeen[a] /\ ~Taken(a) =>
              reactor'.selected = main[a]
<1>1. /\ threads \in SUBSET App /\ reactor \in Trackers(threads)
      /\ reactor.apps \in [threads -> AppStates]
      /\ reactor.apps[a].frontmost = isFront[a] /\ reactor.apps[a].main = mainSeen[a]
      /\ thinks[a] \in BOOLEAN /\ isFront[a] \in BOOLEAN /\ main[a] \in Window
      /\ last[a].quiet \in BOOLEAN /\ last[a].set \in BOOLEAN /\ last[a].live \in BOOLEAN
  BY DEF Types, TrackerFollows, Trackers
<1>2. CASE thinks[a]
  <2>. PICK w : w = IF thinks[a] /\ Taken(a) THEN last[a].win ELSE NoWindow
    OBVIOUS
  <2>. PICK r : r = Handled(reactor, MainReport(a, main[a], w))
    OBVIOUS
  <2>1. /\ r \in Trackers(threads) /\ r.global = reactor.global
        /\ r.apps = [reactor.apps EXCEPT ![a].main = main[a]]
        /\ r.selected = IF main[a] # mainSeen[a] /\ main[a] # w /\ a = reactor.global /\ isFront[a]
                       THEN main[a] ELSE reactor.selected
    BY <1>1, ReportEffect
  <2>2. /\ r.apps \in [threads -> AppStates] /\ r.apps[a].main = main[a]
        /\ r.apps[a].frontmost = isFront[a] /\ r.apps[a].quiet = reactor.apps[a].quiet
        /\ \A b \in threads \ {a} : r.apps[b] = reactor.apps[b]
    <3>1. r.apps \in [threads -> AppStates]
      BY <2>1 DEF Trackers
    <3>. QED  BY <1>1, <2>1, <3>1 DEF AppStates
  <2>3. CASE isFront[a]
    <3>1. reactor' = Handled(r, {})
      BY <1>2, <2>3 DEF HandleActivation
    <3>2. reactor' = r
      BY <3>1 DEF Handled
    <3>3. ~Taken(a) => w = NoWindow /\ main[a] # w
      BY <1>1, ActivationAssumption
    <3>. QED  BY <1>1, <1>2, <2>1, <2>2, <2>3, <3>2, <3>3
  <2>4. CASE ~isFront[a]
    <3>. PICK q \in BOOLEAN : q = Ours(a)
      BY DEF Ours, Taken
    <3>. PICK e : e = Event("activated", a, NoWindow, q)
      OBVIOUS
    <3>0. (thinks[a] /\ Taken(a) /\ last[a].quiet) = q
      BY <1>1, <1>2 DEF Ours, Taken
    <3>1. reactor' = Handled(r, {e})
      BY <1>1, <1>2, <2>4, <3>0 DEF HandleActivation
    <3>2. reactor' = HandleEvent(r, e)
      BY <3>1 DEF Handled
    <3>3. /\ reactor' \in Trackers(threads) /\ reactor'.global = r.global
          /\ reactor'.apps = [r.apps EXCEPT ![a].frontmost = TRUE, ![a].quiet = q]
          /\ reactor'.selected = IF ~q /\ a = r.global THEN r.apps[a].main ELSE r.selected
      BY <1>1, <2>1, <3>2, ActivatedEffect
    <3>4. /\ reactor'.apps[a].frontmost = TRUE /\ reactor'.apps[a].quiet = q
          /\ reactor'.apps[a].main = main[a]
          /\ \A b \in threads \ {a} : reactor'.apps[b] = reactor.apps[b]
      <4>1. r.apps[a] \in AppStates /\ a \in DOMAIN r.apps
        BY <2>2
      <4>2. [r.apps EXCEPT ![a].frontmost = TRUE, ![a].quiet = q][a]
              = [r.apps[a] EXCEPT !.frontmost = TRUE, !.quiet = q]
        BY <2>2
      <4>3. \A b \in threads \ {a} : reactor'.apps[b] = r.apps[b]
        BY <2>2, <3>3
      <4>4. reactor'.apps[a] = [r.apps[a] EXCEPT !.frontmost = TRUE, !.quiet = q]
        BY <3>3, <4>2
      <4>5. /\ reactor'.apps[a].frontmost = TRUE /\ reactor'.apps[a].quiet = q
            /\ reactor'.apps[a].main = r.apps[a].main
        BY <4>1, <4>4 DEF AppStates
      <4>. QED  BY <2>2, <4>3, <4>5
    <3>. QED  BY <1>1, <1>2, <2>1, <2>2, <2>4, <3>3, <3>4
  <2>. QED  BY <2>3, <2>4
<1>3. CASE ~thinks[a]
  <2>1. Handled(reactor, {}) = reactor
    BY DEF Handled
  <2>2. CASE ~isFront[a]
    <3>1. reactor' = Handled(Handled(reactor, {}), {})
      BY <1>1, <1>3, <2>2 DEF HandleActivation
    <3>. QED  BY <1>1, <1>3, <2>1, <2>2, <3>1
  <2>3. CASE isFront[a]
    <3>0. PICK q \in BOOLEAN : q = (thinks[a] /\ Taken(a) /\ last[a].quiet)
      OBVIOUS
    <3>. PICK e : e = Event("deactivated", a, NoWindow, q)
      OBVIOUS
    <3>1. reactor' = Handled(Handled(reactor, {}), {e})
      BY <1>1, <1>3, <2>3, <3>0 DEF HandleActivation
    <3>2. reactor' = HandleEvent(reactor, e)
      BY <2>1, <3>1 DEF Handled
    <3>3. /\ reactor' \in Trackers(threads) /\ reactor'.global = reactor.global
          /\ reactor'.selected = reactor.selected
          /\ reactor'.apps = [reactor.apps EXCEPT ![a].frontmost = FALSE]
      BY <1>1, <3>2, DeactivatedEffect
    <3>4. /\ reactor'.apps[a].frontmost = FALSE /\ reactor'.apps[a].main = mainSeen[a]
          /\ reactor'.apps[a].quiet = reactor.apps[a].quiet
          /\ \A b \in threads \ {a} : reactor'.apps[b] = reactor.apps[b]
      BY <1>1, <3>3 DEF AppStates
    <3>. QED  BY <1>1, <1>3, <2>3, <3>3, <3>4
  <2>. QED  BY <2>2, <2>3
<1>. QED  BY <1>2, <1>3

-----------------------------------------------------------------------------
(* What holds whether or not anything is in doubt. *)

Off == [on |-> FALSE, win |-> NoWindow]

(* Window w of app a gets the focus. *)
Focused(a, w) ==
  /\ a \in App /\ front' = a /\ NewsCurrent'
  /\ inbox' \in [App -> Seq(News)] /\ centre' \in Seq([on : BOOLEAN, pid : App])
  /\ inbox'[a] = Append(inbox[a], [on |-> TRUE, win |-> w])
  /\ \A b \in App \ {a} : inbox'[b] = IF b = front THEN Append(inbox[b], Off) ELSE inbox[b]
  /\ centre' = IF a = front THEN centre
               ELSE centre \o << [on |-> FALSE, pid |-> front], [on |-> TRUE, pid |-> a] >>

LEMMA FocusEffect ==
  ASSUME Types, NewsCurrent, NEW w \in Window, Focuses(w), NEW a, a = Owner[w],
         UNCHANGED thinks, reactor'.global = reactor.global
  PROVE  Focused(a, w)
<1>. PICK on : on = [on |-> TRUE, win |-> w]
  OBVIOUS
<1>. PICK off : off = Off
  OBVIOUS
<1>1. /\ a \in App /\ front \in App /\ inbox \in [App -> Seq(News)]
      /\ centre \in Seq([on : BOOLEAN, pid : App])
      /\ on \in News /\ off \in News /\ on.on = TRUE /\ off.on = FALSE
  BY ActivationAssumption DEF Types, News, Off
<1>2. /\ front' = a
      /\ inbox' = [b \in App |-> IF b = a THEN Append(inbox[b], on)
                               ELSE IF b = front THEN Append(inbox[b], off) ELSE inbox[b]]
      /\ centre' = IF a = front THEN centre
                   ELSE centre \o << [on |-> FALSE, pid |-> front], [on |-> TRUE, pid |-> a] >>
  BY DEF Focuses, Off
<1>3. \A b \in App : /\ Append(inbox[b], on) \in Seq(News) /\ Append(inbox[b], off) \in Seq(News)
                     /\ Append(inbox[b], on) # << >> /\ Last(Append(inbox[b], on)) = on
                     /\ Append(inbox[b], off) # << >> /\ Last(Append(inbox[b], off)) = off
  BY <1>1, AppendFacts
<1>4. /\ inbox' \in [App -> Seq(News)] /\ inbox'[a] = Append(inbox[a], on)
      /\ \A b \in App \ {a} : inbox'[b] = IF b = front THEN Append(inbox[b], off) ELSE inbox[b]
  BY <1>1, <1>2, <1>3
<1>5. /\ centre' \in Seq([on : BOOLEAN, pid : App])
      /\ a # front => centre' # << >> /\ Last(centre') = [on |-> TRUE, pid |-> a]
  <2>4. PICK T : T = [on : BOOLEAN, pid : App]
    OBVIOUS
  <2>2. PICK x \in T : x = [on |-> FALSE, pid |-> front]
    BY <1>1, <2>4
  <2>3. PICK y \in T : y = [on |-> TRUE, pid |-> a]
    BY <1>1, <2>4
  <2>1. CASE a # front
    <3>. PICK c \in Seq(T) : c = centre
      BY <1>1, <2>4
    <3>1. centre' = c \o <<x, y>>
      BY <1>1, <1>2, <2>1, <2>2, <2>3
    <3>2. c \o <<x, y>> \in Seq(T) /\ c \o <<x, y>> # << >> /\ Last(c \o <<x, y>>) = y
      BY TwoMoreFacts
    <3>. QED  BY <2>1, <2>3, <2>4, <3>1, <3>2
  <2>. QED  BY <1>1, <1>2, <2>1
<1>6. ASSUME NEW b \in App
      PROVE  IF inbox'[b] = << >> THEN thinks'[b] = (b = front') ELSE Last(inbox'[b]).on = (b = front')
  <2>1. CASE b = a
    BY <1>1, <1>2, <1>3, <1>4, <2>1
  <2>2. CASE b # a /\ b = front
    BY <1>1, <1>2, <1>3, <1>4, <2>2
  <2>3. CASE b # a /\ b # front
    <3>1. inbox'[b] = inbox[b] /\ (b = front') = (b = front)
      BY <1>2, <1>4, <2>3
    <3>2. IF inbox[b] = << >> THEN thinks[b] = (b = front) ELSE Last(inbox[b]).on = (b = front)
      BY DEF NewsCurrent
    <3>. QED  BY <3>1, <3>2
  <2>. QED  BY <2>1, <2>2, <2>3
<1>7. IF centre' = << >> THEN reactor'.global = front' ELSE Last(centre') = [on |-> TRUE, pid |-> front']
  BY <1>2, <1>5 DEF NewsCurrent
<1>8. NewsCurrent'
  BY <1>6, <1>7 DEF NewsCurrent
<1>. QED  BY <1>1, <1>2, <1>4, <1>5, <1>8 DEF Focused

LEMMA SelectEffect ==
  ASSUME Types, NEW w \in Window, NEW t, t = [reactor EXCEPT !.selected = w]
  PROVE  /\ t \in Trackers(threads) /\ t.apps = reactor.apps /\ t.global = reactor.global
         /\ t.selected = w
BY DEF Types, Trackers

LEMMA FailEffect ==
  ASSUME Types, NEW q \in BOOLEAN, NEW t, t = Failed(q)
  PROVE  /\ t \in Trackers(threads) /\ t.apps = reactor.apps /\ t.global = reactor.global
         /\ t.selected = IF q \/ MainWindow(reactor) = NoWindow THEN reactor.selected
                        ELSE MainWindow(reactor)
<1>1. MainWindow(reactor) \in Window \cup {NoWindow}
  BY DEF Types, Trackers, AppStates, MainWindow
<1>2. CASE q \/ MainWindow(reactor) = NoWindow
  BY <1>2 DEF Failed, Types
<1>3. CASE ~(q \/ MainWindow(reactor) = NoWindow)
  <2>. PICK w \in Window : w = MainWindow(reactor)
    BY <1>1, <1>3
  <2>1. t = [reactor EXCEPT !.selected = w]
    BY <1>3 DEF Failed
  <2>. QED  BY <1>3, <2>1, SelectEffect
<1>. QED  BY <1>2, <1>3

LEMMA UserFocusesBase ==
  ASSUME Base, NEW w \in Window, UserFocuses(w)
  PROVE  Base'
<1>. PICK a : a = Owner[w]
  OBVIOUS
<1>1. /\ Types /\ NewsCurrent /\ Focuses(w) /\ aim' = w /\ acts' = acts + 1
      /\ UNCHANGED <<thinks, main, notes, threads, isFront, mainSeen, last, task, reactor, raised>>
  BY DEF Base, UserFocuses, threadVars
<1>2. /\ front' \in App /\ NewsCurrent'
      /\ inbox' \in [App -> Seq(News)] /\ centre' \in Seq([on : BOOLEAN, pid : App])
  <2>1. Focused(a, w)
    BY <1>1, FocusEffect
  <2>. QED  BY <2>1 DEF Focused
<1>3. hurry' \in BOOLEAN /\ doubt' \in BOOLEAN
  BY <1>1 DEF UserFocuses, Types
<1>4. Types'
  BY <1>1, <1>2, <1>3 DEF Types
<1>5. ThreadsNotified' /\ TrackerFollows' /\ LoudAtFirst'
  BY <1>1 DEF Base, ThreadsNotified, TrackerFollows, LoudAtFirst
<1>. QED  BY <1>2, <1>4, <1>5 DEF Base

(* What the notification center's next news does. *)
LEMMA CentreEffect ==
  ASSUME Types, CentreTells, NEW n, n = Head(centre)
  PROVE  /\ n \in [on : BOOLEAN, pid : App]
         /\ reactor' \in Trackers(threads) /\ reactor'.apps = reactor.apps
         /\ reactor'.global = IF n.on THEN n.pid
                             ELSE IF reactor.global = n.pid THEN NoApp ELSE reactor.global
         /\ reactor'.selected = IF /\ n.on /\ n.pid \in threads
                                  /\ ~reactor.apps[n.pid].quiet /\ reactor.apps[n.pid].frontmost
                               THEN reactor.apps[n.pid].main ELSE reactor.selected
<1>1. /\ centre \in Seq([on : BOOLEAN, pid : App]) /\ centre # << >>
      /\ threads \in SUBSET App /\ reactor \in Trackers(threads)
  BY DEF Types, CentreTells
<1>2. n \in [on : BOOLEAN, pid : App]
  BY <1>1, TailFacts
<1>. PICK a \in App : a = n.pid
  BY <1>2
<1>. PICK on \in BOOLEAN : on = n.on
  BY <1>2
<1>3. PICK k \in {"globallyActivated", "globallyDeactivated"} :
        k = IF on THEN "globallyActivated" ELSE "globallyDeactivated"
  OBVIOUS
<1>4. PICK q : q = FALSE
  OBVIOUS
<1>5. reactor' = HandleEvent(reactor, Event(k, a, NoWindow, q))
  BY <1>3, <1>4 DEF CentreTells
<1>6. on <=> k = "globallyActivated"
  BY <1>3
<1>7. /\ reactor' \in Trackers(threads) /\ reactor'.apps = reactor.apps
      /\ reactor'.global = IF on THEN a ELSE IF reactor.global = a THEN NoApp ELSE reactor.global
      /\ reactor'.selected = IF on /\ a \in threads /\ ~reactor.apps[a].quiet /\ reactor.apps[a].frontmost
                            THEN reactor.apps[a].main ELSE reactor.selected
  BY <1>1, <1>5, <1>6, GloballyEffect
<1>. QED  BY <1>2, <1>7

LEMMA CentreTellsBase ==
  ASSUME Base, CentreTells
  PROVE  Base'
<1>. PICK n : n = Head(centre)
  OBVIOUS
<1>1. /\ centre \in Seq([on : BOOLEAN, pid : App]) /\ centre # << >> /\ centre' = Tail(centre)
      /\ Types /\ Last(centre) = [on |-> TRUE, pid |-> front]
      /\ UNCHANGED <<worldVars, threadVars, acts, raised, aim, hurry, doubt>>
  BY DEF Base, Types, NewsCurrent, CentreTells
<1>2. /\ reactor' \in Trackers(threads) /\ reactor'.apps = reactor.apps
      /\ reactor'.global = IF n.on THEN n.pid
                          ELSE IF reactor.global = n.pid THEN NoApp ELSE reactor.global
  BY <1>1, CentreEffect
<1>3. /\ centre' \in Seq([on : BOOLEAN, pid : App])
      /\ Last(centre) = IF centre' = << >> THEN n ELSE Last(centre')
  BY <1>1, TailFacts
<1>4. Types'
  BY <1>1, <1>2, <1>3 DEF Types, worldVars, threadVars
<1>5. IF centre' = << >> THEN reactor'.global = front ELSE Last(centre') = [on |-> TRUE, pid |-> front]
  BY <1>1, <1>2, <1>3
<1>6. NewsCurrent' /\ ThreadsNotified' /\ TrackerFollows' /\ LoudAtFirst'
  BY <1>1, <1>2, <1>5
     DEF Base, NewsCurrent, ThreadsNotified, TrackerFollows, LoudAtFirst, worldVars, threadVars
<1>. QED  BY <1>4, <1>6 DEF Base

(* What is new to app a when it hears of its next news. *)
LEMMA HearsEffect ==
  ASSUME Types, NEW a \in App, AppHears(a), NEW n, n = Head(inbox[a])
  PROVE  /\ n \in News /\ inbox[a] # << >>
         /\ inbox' \in [App -> Seq(News)] /\ inbox'[a] = Tail(inbox[a])
         /\ \A b \in App \ {a} : inbox'[b] = inbox[b] /\ notes'[b] = notes[b]
         /\ thinks' = [thinks EXCEPT ![a] = n.on]
         /\ main' = [main EXCEPT ![a] = IF n.on THEN n.win ELSE @]
         /\ notes' \in [App -> Seq({"activation", "main"})]
         /\ a \notin threads => notes' = notes
         /\ a \in threads =>
              ToSet(notes'[a]) = ToSet(notes[a])
                \cup (IF n.on # thinks[a] THEN {"activation"} ELSE {})
                \cup (IF n.on /\ n.win # main[a] THEN {"main"} ELSE {})
         /\ UNCHANGED <<front, threads, isFront, mainSeen, last, task, lock, centre,
                        reactor, acts, raised, aim, hurry, doubt>>
<1>1. /\ inbox \in [App -> Seq(News)] /\ inbox[a] # << >> /\ inbox' = [inbox EXCEPT ![a] = Tail(@)]
      /\ notes \in [App -> Seq({"activation", "main"})]
      /\ thinks' = [thinks EXCEPT ![a] = n.on]
      /\ main' = [main EXCEPT ![a] = IF n.on THEN n.win ELSE @]
      /\ UNCHANGED <<front, threads, isFront, mainSeen, last, task, lock, centre,
                     reactor, acts, raised, aim, hurry, doubt>>
  BY DEF Types, AppHears
<1>2. n \in News /\ Tail(inbox[a]) \in Seq(News)
  BY <1>1, TailFacts
<1>3. inbox' \in [App -> Seq(News)] /\ inbox'[a] = Tail(inbox[a])
  BY <1>1, <1>2
<1>4. CASE a \notin threads
  <2>1. notes' = notes
    BY <1>4 DEF AppHears
  <2>. QED  BY <1>1, <1>2, <1>3, <1>4, <2>1
<1>5. CASE a \in threads
  <2>1. PICK S : S = (IF n.on # thinks[a] THEN {"activation"} ELSE {})
                       \cup (IF n.on /\ n.win # main[a] THEN {"main"} ELSE {})
    OBVIOUS
  <2>2. S \in SUBSET {"activation", "main"}
    BY <2>1
  <2>3. PICK s \in SetToSeqs(S) : notes' = [notes EXCEPT ![a] = @ \o s]
    BY <1>5, <2>1 DEF AppHears
  <2>4. s \in Seq({"activation", "main"}) /\ ToSet(s) = S
    BY <2>2, <2>3, OrderFacts
  <2>. PICK K : K = {"activation", "main"}
    OBVIOUS
  <2>5. notes[a] \o s \in Seq(K) /\ ToSet(notes[a] \o s) = ToSet(notes[a]) \cup ToSet(s)
    BY <1>1, <2>4, ConcatFacts
  <2>6. notes' \in [App -> Seq(K)] /\ notes'[a] = notes[a] \o s
        /\ \A b \in App \ {a} : notes'[b] = notes[b]
    BY <1>1, <2>3, <2>5
  <2>. QED  BY <1>1, <1>2, <1>3, <1>5, <2>1, <2>4, <2>5, <2>6
<1>. QED  BY <1>4, <1>5

LEMMA AppHearsBase ==
  ASSUME Base, NEW a \in App, AppHears(a)
  PROVE  Base'
<1>0. PICK n : n = Head(inbox[a])
  OBVIOUS
<1>1. /\ n \in News /\ inbox[a] # << >>
      /\ inbox' \in [App -> Seq(News)] /\ inbox'[a] = Tail(inbox[a])
      /\ \A b \in App \ {a} : inbox'[b] = inbox[b] /\ notes'[b] = notes[b]
      /\ thinks' = [thinks EXCEPT ![a] = n.on]
      /\ main' = [main EXCEPT ![a] = IF n.on THEN n.win ELSE @]
      /\ notes' \in [App -> Seq({"activation", "main"})]
      /\ a \notin threads => notes' = notes
      /\ a \in threads =>
           ToSet(notes'[a]) = ToSet(notes[a])
             \cup (IF n.on # thinks[a] THEN {"activation"} ELSE {})
             \cup (IF n.on /\ n.win # main[a] THEN {"main"} ELSE {})
      /\ UNCHANGED <<front, threads, isFront, mainSeen, last, task, lock, centre,
                     reactor, acts, raised, aim, hurry, doubt>>
  BY <1>0, HearsEffect DEF Base
<1>2. /\ thinks \in [App -> BOOLEAN] /\ main \in [App -> Window] /\ inbox \in [App -> Seq(News)]
      /\ Types
  BY DEF Base, Types
<1>3. n.on \in BOOLEAN /\ (n.on => n.win \in Window)
  BY <1>1 DEF News
<1>4. /\ thinks' \in [App -> BOOLEAN] /\ main' \in [App -> Window]
      /\ thinks'[a] = n.on /\ main'[a] = IF n.on THEN n.win ELSE main[a]
      /\ \A b \in App \ {a} : thinks'[b] = thinks[b] /\ main'[b] = main[b]
  BY <1>1, <1>2, <1>3
<1>5. Types'
  BY <1>1, <1>2, <1>4 DEF Types
<1>6. ASSUME NEW b \in App
      PROVE  IF inbox'[b] = << >> THEN thinks'[b] = (b = front) ELSE Last(inbox'[b]).on = (b = front)
  <2>1. CASE b = a
    <3>1. Last(inbox[a]) = IF Tail(inbox[a]) = << >> THEN n ELSE Last(Tail(inbox[a]))
      BY <1>0, <1>1, <1>2, TailFacts
    <3>2. Last(inbox[a]).on = (a = front)
      BY <1>1 DEF Base, NewsCurrent
    <3>. QED  BY <1>1, <1>4, <2>1, <3>1, <3>2
  <2>2. CASE b # a
    <3>1. IF inbox[b] = << >> THEN thinks[b] = (b = front) ELSE Last(inbox[b]).on = (b = front)
      BY DEF Base, NewsCurrent
    <3>. QED  BY <1>1, <1>4, <2>2, <3>1
  <2>. QED  BY <2>1, <2>2
<1>7. NewsCurrent'
  BY <1>1, <1>6 DEF Base, NewsCurrent
<1>8. ASSUME NEW b \in threads
      PROVE  /\ isFront[b] = thinks'[b] \/ "activation" \in ToSet(notes'[b])
             /\ mainSeen[b] = main'[b] \/ "main" \in ToSet(notes'[b])
             /\ mainSeen[b] \in Window
  <2>1. /\ isFront[b] = thinks[b] \/ "activation" \in ToSet(notes[b])
        /\ mainSeen[b] = main[b] \/ "main" \in ToSet(notes[b])
        /\ mainSeen[b] \in Window
    BY DEF Base, ThreadsNotified
  <2>2. CASE b = a
    BY <1>1, <1>4, <2>1, <2>2
  <2>3. CASE b # a
    <3>1. b \in App
      BY <1>2 DEF Types
    <3>. QED  BY <1>1, <1>4, <2>1, <2>3, <3>1
  <2>. QED  BY <2>2, <2>3
<1>9. ThreadsNotified' /\ TrackerFollows' /\ LoudAtFirst'
  BY <1>1, <1>8 DEF Base, ThreadsNotified, TrackerFollows, LoudAtFirst
<1>. QED  BY <1>5, <1>7, <1>9 DEF Base

LEMMA StartsEffect ==
  ASSUME Types, NEW a \in App, ThreadStarts(a)
  PROVE  /\ a \notin threads /\ threads' = threads \cup {a}
         /\ reactor' \in Trackers(threads') /\ reactor'.global = reactor.global
         /\ reactor'.apps[a] = [frontmost |-> thinks[a], quiet |-> FALSE, main |-> main[a]]
         /\ \A b \in threads : reactor'.apps[b] = reactor.apps[b]
         /\ reactor'.selected = IF a = reactor.global /\ thinks[a] THEN main[a] ELSE reactor.selected
<1>1. /\ threads \in SUBSET App /\ a \in App \ threads /\ reactor \in Trackers(threads)
      /\ thinks[a] \in BOOLEAN /\ main[a] \in Window /\ threads' = threads \cup {a}
  BY DEF Types, ThreadStarts
<1>2. PICK q : q = FALSE
  OBVIOUS
<1>. PICK w \in Window : w = main[a]
  BY <1>1
<1>. PICK on \in BOOLEAN : on = thinks[a]
  BY <1>1
<1>3. reactor' = HandleEvent(reactor, [Event("launched", a, w, q) EXCEPT !.on = on])
  BY <1>2 DEF ThreadStarts
<1>4. /\ reactor' \in Trackers(threads \cup {a}) /\ reactor'.global = reactor.global
      /\ reactor'.apps[a] = [frontmost |-> on, quiet |-> FALSE, main |-> w]
      /\ \A b \in threads : reactor'.apps[b] = reactor.apps[b]
      /\ reactor'.selected = IF a = reactor.global /\ on THEN w ELSE reactor.selected
  BY <1>1, <1>3, LaunchedEffect
<1>. QED  BY <1>1, <1>4

LEMMA ThreadStartsBase ==
  ASSUME Base, NEW a \in App, ThreadStarts(a)
  PROVE  Base'
<1>1. /\ a \notin threads /\ threads' = threads \cup {a}
      /\ reactor' \in Trackers(threads') /\ reactor'.global = reactor.global
      /\ reactor'.apps[a] = [frontmost |-> thinks[a], quiet |-> FALSE, main |-> main[a]]
      /\ \A b \in threads : reactor'.apps[b] = reactor.apps[b]
  BY StartsEffect DEF Base
<1>2. /\ isFront' = [isFront EXCEPT ![a] = thinks[a]] /\ mainSeen' = [mainSeen EXCEPT ![a] = main[a]]
      /\ UNCHANGED <<worldVars, notes, last, task, lock, centre, acts, raised, aim, hurry>>
      /\ doubt' \in BOOLEAN /\ Types
  BY DEF ThreadStarts, Base, Types
<1>3. /\ isFront' \in [App -> BOOLEAN] /\ mainSeen' \in [App -> Window \cup {NoWindow}]
      /\ isFront'[a] = thinks[a] /\ mainSeen'[a] = main[a] /\ main[a] \in Window
      /\ \A b \in threads : isFront'[b] = isFront[b] /\ mainSeen'[b] = mainSeen[b]
      /\ threads' \in SUBSET App
  BY <1>1, <1>2 DEF Types
<1>4. Types'
  BY <1>1, <1>2, <1>3 DEF Types, worldVars
<1>5. NewsCurrent'
  BY <1>1, <1>2 DEF Base, NewsCurrent, worldVars
<1>6. ASSUME NEW b \in threads'
      PROVE  /\ isFront'[b] = thinks[b] \/ "activation" \in ToSet(notes[b])
             /\ mainSeen'[b] = main[b] \/ "main" \in ToSet(notes[b])
             /\ mainSeen'[b] \in Window
             /\ reactor'.apps[b].frontmost = isFront'[b] /\ reactor'.apps[b].main = mainSeen'[b]
             /\ b = a => ~reactor'.apps[b].quiet
  BY <1>1, <1>3 DEF Base, ThreadsNotified, TrackerFollows
<1>7. ThreadsNotified' /\ TrackerFollows'
  BY <1>2, <1>6 DEF ThreadsNotified, TrackerFollows, worldVars
<1>8. LoudAtFirst'
  BY <1>1, <1>2, <1>6 DEF Base, LoudAtFirst
<1>. QED  BY <1>4, <1>5, <1>7, <1>8 DEF Base

(* What is left of the notifications when one of kind k is handled. *)
LEMMA NoteEffect ==
  ASSUME Types, NEW a \in App, notes[a] # << >>, notes' = [notes EXCEPT ![a] = Tail(@)]
  PROVE  /\ notes' \in [App -> Seq({"activation", "main"})] /\ a \in threads
         /\ ToSet(notes[a]) = ToSet(notes'[a]) \cup {Head(notes[a])}
         /\ \A b \in App \ {a} : notes'[b] = notes[b]
<1>1. notes \in [App -> Seq({"activation", "main"})] /\ a \in threads
  BY DEF Types
<1>2. Tail(notes[a]) \in Seq({"activation", "main"})
      /\ ToSet(notes[a]) = ToSet(Tail(notes[a])) \cup {Head(notes[a])}
  BY <1>1, TailFacts
<1>. QED  BY <1>1, <1>2

LEMMA MainChangedEffect ==
  ASSUME Types, TrackerFollows, NEW a \in App, HandleMainChanged(a)
  PROVE  /\ a \in threads /\ mainSeen' = [mainSeen EXCEPT ![a] = main[a]]
         /\ reactor' \in Trackers(threads) /\ reactor'.global = reactor.global
         /\ reactor'.apps = [reactor.apps EXCEPT ![a].main = main[a]]
         /\ \/ reactor'.selected = reactor.selected
            \/ /\ reactor'.selected = main[a] /\ main[a] # mainSeen[a]
               /\ a = reactor.global /\ isFront[a]
         /\ ~Taken(a) /\ main[a] # mainSeen[a] /\ a = reactor.global /\ isFront[a] =>
              reactor'.selected = main[a]
<1>1. a \in threads /\ main[a] \in Window /\ main[a] # NoWindow
  BY NoteEffect, ActivationAssumption DEF HandleMainChanged, Types
<1>. PICK w : w = IF Taken(a) THEN last[a].win ELSE NoWindow
  OBVIOUS
<1>2. reactor' = Handled(reactor, MainReport(a, main[a], w))
      /\ mainSeen' = [mainSeen EXCEPT ![a] = MainReported(a, main[a])]
  BY DEF HandleMainChanged
<1>3. mainSeen' = [mainSeen EXCEPT ![a] = main[a]]
  BY <1>1, <1>2 DEF MainReported
<1>4. /\ reactor' \in Trackers(threads) /\ reactor'.global = reactor.global
      /\ reactor'.apps = [reactor.apps EXCEPT ![a].main = main[a]]
      /\ reactor'.selected = IF main[a] # mainSeen[a] /\ main[a] # w /\ a = reactor.global /\ isFront[a]
                            THEN main[a] ELSE reactor.selected
  BY <1>1, <1>2, ReportEffect
<1>5. ~Taken(a) => main[a] # w
  BY <1>1
<1>. QED  BY <1>1, <1>3, <1>4, <1>5

LEMMA MainChangedBase ==
  ASSUME Base, NEW a \in App, HandleMainChanged(a)
  PROVE  Base'
<1>1. /\ a \in threads /\ mainSeen' = [mainSeen EXCEPT ![a] = main[a]]
      /\ reactor' \in Trackers(threads) /\ reactor'.global = reactor.global
      /\ reactor'.apps = [reactor.apps EXCEPT ![a].main = main[a]]
  BY MainChangedEffect DEF Base
<1>2. /\ notes' \in [App -> Seq({"activation", "main"})]
      /\ ToSet(notes[a]) = ToSet(notes'[a]) \cup {"main"}
      /\ \A b \in App \ {a} : notes'[b] = notes[b]
  BY NoteEffect DEF HandleMainChanged, Base
<1>. PICK x : x = IF last[a].win = (IF Taken(a) THEN last[a].win ELSE NoWindow)
                THEN NoWindow ELSE last[a].win
  OBVIOUS
<1>3. /\ last' = [last EXCEPT ![a].win = x]
      /\ UNCHANGED <<worldVars, threads, isFront, task, lock, centre, acts, raised, aim, hurry, doubt>>
      /\ Types
  BY DEF HandleMainChanged, Base
<1>4. /\ main[a] \in Window /\ mainSeen \in [App -> Window \cup {NoWindow}] /\ threads \in SUBSET App
      /\ reactor.apps \in [threads -> AppStates]
      /\ last \in [App -> [quiet : BOOLEAN, win : Window \cup {NoWindow}, live : BOOLEAN, set : BOOLEAN]]
  BY <1>3 DEF Types, Trackers
<1>5. /\ last' \in [App -> [quiet : BOOLEAN, win : Window \cup {NoWindow}, live : BOOLEAN, set : BOOLEAN]]
      /\ \A b \in App : last'[b].set = last[b].set
  <2>1. x \in Window \cup {NoWindow}
    BY <1>4
  <2>. QED  BY <1>3, <1>4, <2>1
<1>6. /\ mainSeen' \in [App -> Window \cup {NoWindow}] /\ mainSeen'[a] = main[a]
      /\ \A b \in App \ {a} : mainSeen'[b] = mainSeen[b]
  BY <1>1, <1>4
<1>7. Types'
  BY <1>1, <1>2, <1>3, <1>5, <1>6 DEF Types, worldVars
<1>8. NewsCurrent'
  BY <1>1, <1>3 DEF Base, NewsCurrent, worldVars
<1>9. ThreadsNotified'
  <2>. SUFFICES ASSUME NEW b \in threads
                PROVE  /\ isFront[b] = thinks[b] \/ "activation" \in ToSet(notes'[b])
                       /\ mainSeen'[b] = main[b] \/ "main" \in ToSet(notes'[b])
                       /\ mainSeen'[b] \in Window
    BY <1>3 DEF ThreadsNotified, worldVars
  <2>1. /\ isFront[b] = thinks[b] \/ "activation" \in ToSet(notes[b])
        /\ mainSeen[b] = main[b] \/ "main" \in ToSet(notes[b])
        /\ mainSeen[b] \in Window /\ b \in App
    BY <1>4 DEF Base, ThreadsNotified
  <2>2. CASE b = a
    BY <1>2, <1>4, <1>6, <2>1, <2>2
  <2>3. CASE b # a
    BY <1>2, <1>6, <2>1, <2>3
  <2>. QED  BY <2>2, <2>3
<1>10. \A b \in threads :
         /\ reactor'.apps[b].frontmost = reactor.apps[b].frontmost
         /\ reactor'.apps[b].quiet = reactor.apps[b].quiet
         /\ reactor'.apps[b].main = IF b = a THEN main[a] ELSE reactor.apps[b].main
  BY <1>1, <1>4 DEF AppStates
<1>11. TrackerFollows'
  BY <1>1, <1>3, <1>4, <1>6, <1>10 DEF Base, TrackerFollows
<1>12. LoudAtFirst'
  BY <1>3, <1>5, <1>10 DEF Base, LoudAtFirst
<1>. QED  BY <1>7, <1>8, <1>9, <1>11, <1>12 DEF Base

LEMMA ActivationBase ==
  ASSUME Base, NEW a \in App, HandleActivation(a)
  PROVE  Base'
<1>1. /\ notes' \in [App -> Seq({"activation", "main"})] /\ a \in threads
      /\ ToSet(notes[a]) = ToSet(notes'[a]) \cup {"activation"}
      /\ \A b \in App \ {a} : notes'[b] = notes[b]
  BY NoteEffect DEF HandleActivation, Base
<1>2. /\ reactor' \in Trackers(threads) /\ reactor'.global = reactor.global
      /\ \A b \in threads \ {a} : reactor'.apps[b] = reactor.apps[b]
      /\ reactor'.apps[a].frontmost = thinks[a]
      /\ reactor'.apps[a].main = IF thinks[a] THEN main[a] ELSE mainSeen[a]
      /\ reactor'.apps[a].quiet =
           IF thinks[a] /\ ~isFront[a] THEN Ours(a) ELSE reactor.apps[a].quiet
  BY <1>1, ActivationEffect DEF Base
<1>3. /\ isFront' = [isFront EXCEPT ![a] = thinks[a]]
      /\ last' = IF thinks[a] THEN [last EXCEPT ![a] = NotExpected] ELSE last
      /\ \/ task' = task
         \/ task[a].pc = "waiting" /\ task' = [task EXCEPT ![a].pc = "woken"]
      /\ mainSeen' = IF thinks[a] THEN [mainSeen EXCEPT ![a] = MainReported(a, main[a])] ELSE mainSeen
      /\ UNCHANGED <<worldVars, threads, lock, centre, acts, raised, aim, hurry, doubt>>
  <2>1. \/ task' = task
        \/ task[a].pc = "waiting" /\ task' = [task EXCEPT ![a].pc = "woken"]
    BY DEF HandleActivation
  <2>2. /\ isFront' = [isFront EXCEPT ![a] = thinks[a]]
        /\ last' = IF thinks[a] THEN [last EXCEPT ![a] = NotExpected] ELSE last
        /\ mainSeen' = IF thinks[a] THEN [mainSeen EXCEPT ![a] = MainReported(a, main[a])] ELSE mainSeen
        /\ UNCHANGED <<worldVars, threads, lock, centre, acts, raised, aim, hurry, doubt>>
    BY DEF HandleActivation
  <2>. QED  BY <2>1, <2>2
<1>. Types
  BY DEF Base
<1>4. /\ main[a] \in Window /\ mainSeen \in [App -> Window \cup {NoWindow}] /\ threads \in SUBSET App
      /\ reactor.apps \in [threads -> AppStates] /\ thinks[a] \in BOOLEAN /\ isFront \in [App -> BOOLEAN]
      /\ last \in [App -> [quiet : BOOLEAN, win : Window \cup {NoWindow}, live : BOOLEAN, set : BOOLEAN]]
      /\ task \in [App -> [pc : {"idle", "waiting", "woken", "raising"}, wids : Seq(Window),
                           quiet : BOOLEAN, at : Nat]]
      /\ MainReported(a, main[a]) = main[a]
  <2>1. main[a] \in Window /\ main[a] # NoWindow
    BY ActivationAssumption DEF Types
  <2>. QED  BY <2>1 DEF Types, Trackers, MainReported
<1>5. /\ last' \in [App -> [quiet : BOOLEAN, win : Window \cup {NoWindow}, live : BOOLEAN, set : BOOLEAN]]
      /\ \A b \in App : last'[b].set => last[b].set
  BY <1>3, <1>4 DEF NotExpected
<1>6. /\ mainSeen' \in [App -> Window \cup {NoWindow}]
      /\ mainSeen'[a] = IF thinks[a] THEN main[a] ELSE mainSeen[a]
      /\ \A b \in App \ {a} : mainSeen'[b] = mainSeen[b]
  BY <1>3, <1>4
<1>7. /\ isFront' \in [App -> BOOLEAN] /\ isFront'[a] = thinks[a]
      /\ \A b \in App \ {a} : isFront'[b] = isFront[b]
  BY <1>3, <1>4
<1>8. /\ task' \in [App -> [pc : {"idle", "waiting", "woken", "raising"}, wids : Seq(Window),
                            quiet : BOOLEAN, at : Nat]]
      /\ \A b \in App : /\ task'[b].wids = task[b].wids /\ task'[b].at = task[b].at
                        /\ task'[b].pc = "idle" <=> task[b].pc = "idle"
      /\ task[a].pc # "waiting" => task' = task
  <2>1. CASE task' = task
    BY <1>4, <2>1
  <2>2. CASE task[a].pc = "waiting" /\ task' = [task EXCEPT ![a].pc = "woken"]
    BY <1>4, <2>2
  <2>. QED  BY <1>3, <2>1, <2>2
<1>9. Types'
  <2>1. /\ \A b \in App : task'[b].pc # "idle" => task'[b].at \in DOMAIN task'[b].wids
        /\ \A b \in App \ threads : notes'[b] = << >> /\ task'[b].pc = "idle"
    BY <1>1, <1>3, <1>8 DEF Types
  <2>. QED  BY <1>1, <1>2, <1>3, <1>5, <1>6, <1>7, <1>8, <2>1 DEF Types, worldVars
<1>10. NewsCurrent'
  BY <1>2, <1>3 DEF Base, NewsCurrent, worldVars
<1>11. ThreadsNotified'
  <2>. SUFFICES ASSUME NEW b \in threads
                PROVE  /\ isFront'[b] = thinks[b] \/ "activation" \in ToSet(notes'[b])
                       /\ mainSeen'[b] = main[b] \/ "main" \in ToSet(notes'[b])
                       /\ mainSeen'[b] \in Window
    BY <1>3 DEF ThreadsNotified, worldVars
  <2>1. /\ isFront[b] = thinks[b] \/ "activation" \in ToSet(notes[b])
        /\ mainSeen[b] = main[b] \/ "main" \in ToSet(notes[b])
        /\ mainSeen[b] \in Window /\ b \in App
    BY <1>4 DEF Base, ThreadsNotified
  <2>2. CASE b = a
    BY <1>1, <1>4, <1>6, <1>7, <2>1, <2>2
  <2>3. CASE b # a
    BY <1>1, <1>6, <1>7, <2>1, <2>3
  <2>. QED  BY <2>2, <2>3
<1>12. TrackerFollows'
  <2>. SUFFICES ASSUME NEW b \in threads
                PROVE  reactor'.apps[b].frontmost = isFront'[b] /\ reactor'.apps[b].main = mainSeen'[b]
    BY <1>3 DEF TrackerFollows
  <2>1. CASE b = a
    BY <1>2, <1>6, <1>7, <2>1
  <2>2. CASE b # a
    BY <1>2, <1>4, <1>6, <1>7, <2>2 DEF Base, TrackerFollows
  <2>. QED  BY <2>1, <2>2
<1>13. LoudAtFirst'
  <2>. SUFFICES ASSUME raised = 0
                PROVE  /\ \A b \in App : task'[b] = Idle /\ ~last'[b].set
                       /\ \A b \in threads : ~reactor'.apps[b].quiet
    BY <1>3 DEF LoudAtFirst
  <2>1. /\ \A b \in App : task[b] = Idle /\ ~last[b].set
        /\ \A b \in threads : ~reactor.apps[b].quiet
    BY DEF Base, LoudAtFirst
  <2>2. task' = task
    BY <1>8, <2>1 DEF Idle
  <2>3. ~Ours(a)
    BY <2>1 DEF Ours, Taken
  <2>. QED  BY <1>2, <1>5, <2>1, <2>2, <2>3
<1>. QED  BY <1>9, <1>10, <1>11, <1>12, <1>13 DEF Base

LEMMA RaiseListFacts ==
  ASSUME NEW a \in App, NEW wids \in RaiseLists(a)
  PROVE  /\ wids \in Seq(Window) /\ Len(wids) \in {1, 2} /\ 1 \in DOMAIN wids
         /\ Head(wids) = wids[1] /\ wids[1] \in Window /\ Owner[wids[1]] = a
         /\ Last(wids) \in Window /\ (Len(wids) = 1 => Last(wids) = wids[1])
<1>. WindowsOf(a) \subseteq Window /\ \A w \in WindowsOf(a) : Owner[w] = a
  BY DEF WindowsOf
<1>1. CASE wids \in [1..1 -> WindowsOf(a)]
  <2>2. wids \in [1..1 -> Window] /\ \A i \in 1..1 : Owner[wids[i]] = a
    BY <1>1
  <2>1. wids \in Seq(Window) /\ Len(wids) = 1 /\ DOMAIN wids = 1..1 /\ Head(wids) = wids[1]
    <3>0. PICK n \in Nat : n = 1
      OBVIOUS
    <3>. wids \in [1..n -> Window]
      BY <2>2, <3>0
    <3>1. wids \in Seq(Window) /\ Len(wids) = n /\ DOMAIN wids = 1..n
      OBVIOUS
    <3>. QED  BY <3>0, <3>1
  <2>. QED  BY <2>1, <2>2 DEF Last
<1>2. CASE wids \in [1..2 -> WindowsOf(a)]
  <2>2. wids \in [1..2 -> Window] /\ \A i \in 1..2 : Owner[wids[i]] = a
    BY <1>2
  <2>1. wids \in Seq(Window) /\ Len(wids) = 2 /\ DOMAIN wids = 1..2 /\ Head(wids) = wids[1]
    <3>0. PICK n \in Nat : n = 2
      OBVIOUS
    <3>. wids \in [1..n -> Window]
      BY <2>2, <3>0
    <3>1. wids \in Seq(Window) /\ Len(wids) = n /\ DOMAIN wids = 1..n
      OBVIOUS
    <3>. QED  BY <3>0, <3>1
  <2>. QED  BY <2>1, <2>2 DEF Last
<1>. QED  BY <1>1, <1>2 DEF RaiseLists

Tasks == [pc : {"idle", "waiting", "woken", "raising"}, wids : Seq(Window), quiet : BOOLEAN, at : Nat]

(* A raise makes its first window key, with or without effect. *)
KeyMade(a, wids, quiet, works) ==
  /\ a \in threads /\ NewsCurrent' /\ raised' = raised + 1
  /\ IF works THEN Focuses(wids[1]) ELSE UNCHANGED <<front, inbox, centre>>
  /\ front' \in App /\ inbox' \in [App -> Seq(News)]
  /\ centre' \in Seq([on : BOOLEAN, pid : App])
  /\ reactor' \in Trackers(threads) /\ reactor'.apps = reactor.apps
  /\ reactor'.global = reactor.global
  /\ reactor'.selected = IF quiet THEN reactor.selected ELSE Last(wids)
  /\ aim' = IF quiet THEN aim ELSE Last(wids)
  /\ UNCHANGED <<thinks, main, notes, threads, isFront, mainSeen, acts, hurry>>
  /\ last' \in [App -> [quiet : BOOLEAN, win : Window \cup {NoWindow}, live : BOOLEAN, set : BOOLEAN]]
  /\ task' \in [App -> Tasks]
  /\ task'[a] = [pc |-> IF ~thinks[a] /\ wids[1] \notin NonStandard THEN "waiting" ELSE "raising",
                 wids |-> wids, quiet |-> quiet, at |-> 1]
  /\ \A b \in App \ {a} : task'[b] = task[b] /\ last'[b] = last[b]
  /\ ~thinks[a] /\ wids[1] \notin NonStandard =>
       last'[a].quiet = (quiet \/ Len(wids) > 1) /\ last'[a].live /\ last'[a].set
  /\ thinks[a] => last' = last
  /\ doubt' = (doubt \/ ~Quiet \/ threads # App \/ (~thinks[a] /\ wids[1] \in NonStandard))

LEMMA MakesKeyEffect ==
  ASSUME Types, NewsCurrent, NEW a \in App, NEW wids \in RaiseLists(a), NEW quiet \in BOOLEAN,
         NEW works \in BOOLEAN, RaiseMakesKey(a, wids, quiet, works)
  PROVE  KeyMade(a, wids, quiet, works)
<1>1. /\ wids \in Seq(Window) /\ Len(wids) \in {1, 2} /\ 1 \in DOMAIN wids
      /\ Head(wids) = wids[1] /\ wids[1] \in Window /\ Owner[wids[1]] = a
      /\ Last(wids) \in Window
  BY RaiseListFacts
<1>2. /\ IF works THEN Focuses(wids[1]) ELSE UNCHANGED <<front, inbox, centre>>
      /\ raised' = raised + 1 /\ a \in DOMAIN reactor.apps
      /\ reactor' = IF quiet THEN reactor ELSE [reactor EXCEPT !.selected = Last(wids)]
      /\ aim' = IF quiet THEN aim ELSE Last(wids)
      /\ UNCHANGED <<thinks, main, notes, threads, isFront, mainSeen, acts, hurry>>
  BY <1>1 DEF RaiseMakesKey
<1>3. PICK k \in {"waiting", "raising"} :
        k = IF ~thinks[a] /\ wids[1] \notin NonStandard THEN "waiting" ELSE "raising"
  OBVIOUS
<1>. PICK t : t = [pc |-> k, wids |-> wids, quiet |-> quiet, at |-> 1]
  OBVIOUS
<1>4. PICK m \in BOOLEAN : m = (quiet \/ Len(wids) > 1)
  OBVIOUS
<1>5. PICK x \in Window \cup {NoWindow} : x = IF m THEN wids[1] ELSE NoWindow
  BY <1>1
<1>6. PICK l : l = [quiet |-> m, win |-> x, live |-> TRUE, set |-> TRUE]
  OBVIOUS
<1>7. /\ task' = [task EXCEPT ![a] = t]
      /\ last' = IF ~thinks[a] /\ wids[1] \notin NonStandard THEN [last EXCEPT ![a] = l] ELSE last
      /\ doubt' = (doubt \/ ~Quiet \/ threads # App \/ (~thinks[a] /\ wids[1] \in NonStandard))
  <2>1. task' = [task EXCEPT ![a] = t]
    BY <1>1, <1>3 DEF RaiseMakesKey
  <2>2. last' = IF ~thinks[a] /\ wids[1] \notin NonStandard THEN [last EXCEPT ![a] = l] ELSE last
    <3>1. last' = IF ~thinks[a] /\ wids[1] \notin NonStandard
                  THEN [last EXCEPT ![a] =
                         [quiet |-> quiet \/ Len(wids) > 1,
                          win |-> IF quiet \/ Len(wids) > 1 THEN wids[1] ELSE NoWindow,
                          live |-> TRUE, set |-> TRUE]]
                  ELSE last
      BY <1>1 DEF RaiseMakesKey
    <3>2. l = [quiet |-> quiet \/ Len(wids) > 1,
               win |-> IF quiet \/ Len(wids) > 1 THEN wids[1] ELSE NoWindow,
               live |-> TRUE, set |-> TRUE]
      BY <1>4, <1>5, <1>6
    <3>. QED  BY <3>1, <3>2
  <2>3. doubt' = (doubt \/ ~Quiet \/ threads # App \/ (~thinks[a] /\ wids[1] \in NonStandard))
    BY <1>1 DEF RaiseMakesKey
  <2>. QED  BY <2>1, <2>2, <2>3
<1>8. /\ last \in [App -> [quiet : BOOLEAN, win : Window \cup {NoWindow}, live : BOOLEAN, set : BOOLEAN]]
      /\ task \in [App -> Tasks] /\ t \in Tasks /\ a \in threads /\ front \in App
      /\ inbox \in [App -> Seq(News)] /\ centre \in Seq([on : BOOLEAN, pid : App])
      /\ reactor \in Trackers(threads)
  BY <1>1, <1>2 DEF Types, Tasks, Trackers
<1>9. task' \in [App -> Tasks] /\ task'[a] = t /\ \A b \in App \ {a} : task'[b] = task[b]
  BY <1>7, <1>8
<1>10. /\ l \in [quiet : BOOLEAN, win : Window \cup {NoWindow}, live : BOOLEAN, set : BOOLEAN]
       /\ l.quiet = m /\ l.live /\ l.set
  BY <1>6
<1>11. /\ last' \in [App -> [quiet : BOOLEAN, win : Window \cup {NoWindow}, live : BOOLEAN, set : BOOLEAN]]
       /\ \A b \in App \ {a} : last'[b] = last[b]
       /\ ~thinks[a] /\ wids[1] \notin NonStandard => last'[a] = l
       /\ thinks[a] => last' = last
  BY <1>7, <1>8, <1>10
<1>12. /\ reactor' \in Trackers(threads) /\ reactor'.apps = reactor.apps
       /\ reactor'.global = reactor.global
       /\ reactor'.selected = IF quiet THEN reactor.selected ELSE Last(wids)
  <2>1. CASE quiet
    BY <1>2, <1>8, <2>1
  <2>2. CASE ~quiet
    <3>1. reactor' = [reactor EXCEPT !.selected = Last(wids)]
      BY <1>2, <2>2
    <3>. QED  BY <1>1, <2>2, <3>1, SelectEffect
  <2>. QED  BY <2>1, <2>2
<1>13. /\ front' \in App /\ inbox' \in [App -> Seq(News)] /\ NewsCurrent'
       /\ centre' \in Seq([on : BOOLEAN, pid : App])
  <2>1. CASE works
    <3>1. PICK w \in Window : w = wids[1]
      BY <1>1
    <3>2. Focuses(w) /\ a = Owner[w] /\ UNCHANGED thinks
      BY <1>1, <1>2, <2>1, <3>1
    <3>3. Focused(a, w)
      BY <1>12, <3>2, FocusEffect
    <3>. QED  BY <3>3 DEF Focused
  <2>2. CASE ~works
    BY <1>2, <1>8, <1>12, <2>2 DEF NewsCurrent
  <2>. QED  BY <2>1, <2>2
<1>14. task'[a] = [pc |-> IF ~thinks[a] /\ wids[1] \notin NonStandard THEN "waiting" ELSE "raising",
                   wids |-> wids, quiet |-> quiet, at |-> 1]
  BY <1>3, <1>9
<1>. QED  BY <1>2, <1>4, <1>7, <1>8, <1>9, <1>10, <1>11, <1>12, <1>13, <1>14 DEF KeyMade

LEMMA MakesKeyBase ==
  ASSUME Base, NEW a \in App, NEW wids \in RaiseLists(a), NEW quiet \in BOOLEAN,
         NEW works \in BOOLEAN, RaiseMakesKey(a, wids, quiet, works)
  PROVE  Base'
<1>1. /\ a \in threads /\ NewsCurrent' /\ raised' = raised + 1
      /\ front' \in App /\ inbox' \in [App -> Seq(News)]
      /\ centre' \in Seq([on : BOOLEAN, pid : App])
      /\ reactor' \in Trackers(threads) /\ reactor'.apps = reactor.apps
      /\ aim' = IF quiet THEN aim ELSE Last(wids)
      /\ UNCHANGED <<thinks, main, notes, threads, isFront, mainSeen, acts, hurry>>
      /\ last' \in [App -> [quiet : BOOLEAN, win : Window \cup {NoWindow}, live : BOOLEAN, set : BOOLEAN]]
      /\ task' \in [App -> Tasks]
      /\ task'[a].at = 1 /\ task'[a].wids = wids
      /\ \A b \in App \ {a} : task'[b] = task[b]
      /\ doubt' \in BOOLEAN
  <2>0. KeyMade(a, wids, quiet, works)
    BY MakesKeyEffect DEF Base
  <2>1. doubt' = (doubt \/ ~Quiet \/ threads # App \/ (~thinks[a] /\ wids[1] \in NonStandard))
        /\ task'[a] = [pc |-> IF ~thinks[a] /\ wids[1] \notin NonStandard THEN "waiting" ELSE "raising",
                       wids |-> wids, quiet |-> quiet, at |-> 1]
    BY <2>0 DEF KeyMade
  <2>2. doubt' \in BOOLEAN
    BY <2>1 DEF Base, Types
  <2>3. task'[a].at = 1 /\ task'[a].wids = wids
    BY <2>1
  <2>4. /\ a \in threads /\ NewsCurrent' /\ raised' = raised + 1
        /\ front' \in App /\ inbox' \in [App -> Seq(News)]
        /\ centre' \in Seq([on : BOOLEAN, pid : App])
        /\ reactor' \in Trackers(threads) /\ reactor'.apps = reactor.apps
        /\ aim' = IF quiet THEN aim ELSE Last(wids)
    BY <2>0 DEF KeyMade
  <2>5. /\ UNCHANGED <<thinks, main, notes, threads, isFront, mainSeen, acts, hurry>>
        /\ last' \in [App -> [quiet : BOOLEAN, win : Window \cup {NoWindow},
                              live : BOOLEAN, set : BOOLEAN]]
        /\ task' \in [App -> Tasks] /\ \A b \in App \ {a} : task'[b] = task[b]
    BY <2>0 DEF KeyMade
  <2>. QED  BY <2>2, <2>3, <2>4, <2>5
<1>2. Last(wids) \in Window /\ 1 \in DOMAIN wids
  BY RaiseListFacts
<1>3. Types'
  <2>. Types
    BY DEF Base
  <2>1. \A b \in App : task'[b].pc # "idle" => task'[b].at \in DOMAIN task'[b].wids
    BY <1>1, <1>2 DEF Types
  <2>2. \A b \in App \ threads : notes[b] = << >> /\ task'[b].pc = "idle"
    BY <1>1 DEF Types
  <2>3. raised' \in Nat /\ aim' \in Window
    BY <1>1, <1>2 DEF Types
  <2>. QED  BY <1>1, <2>1, <2>2, <2>3 DEF Types, Tasks
<1>4. raised' # 0
  BY <1>1 DEF Base, Types
<1>. QED  BY <1>1, <1>3, <1>4 DEF Base, ThreadsNotified, TrackerFollows, LoudAtFirst

LEMMA RefusedBase ==
  ASSUME Base, NEW a \in App, NEW quiet \in BOOLEAN, RaiseRefused(a, quiet)
  PROVE  Base'
<1>1. /\ raised' = raised + 1 /\ reactor' = Failed(quiet) /\ Types
      /\ aim' = IF quiet THEN aim ELSE main[front]
      /\ UNCHANGED <<worldVars, threadVars, centre, acts, hurry>> /\ doubt' \in BOOLEAN
  BY DEF RaiseRefused, Base, Types
<1>2. /\ reactor' \in Trackers(threads) /\ reactor'.apps = reactor.apps
      /\ reactor'.global = reactor.global
  BY <1>1, FailEffect
<1>3. raised' \in Nat /\ raised' # 0 /\ aim' \in Window
  BY <1>1 DEF Types
<1>4. Types'
  BY <1>1, <1>2, <1>3 DEF Types, worldVars, threadVars
<1>. QED  BY <1>1, <1>2, <1>3, <1>4
  DEF Base, NewsCurrent, ThreadsNotified, TrackerFollows, LoudAtFirst, worldVars, threadVars

LEMMA CancelledBase ==
  ASSUME Base, NEW a \in App, RaiseCancelled(a)
  PROVE  Base'
<1>1. /\ task' = [task EXCEPT ![a] = Idle] /\ task[a].pc \in {"waiting", "woken"} /\ doubt' = TRUE
      /\ Types /\ UNCHANGED <<worldVars, notes, threads, isFront, mainSeen, last, centre, reactor,
                              acts, raised, aim, hurry>>
  BY DEF RaiseCancelled, Base
<1>2. task \in [App -> Tasks] /\ Idle \in Tasks
  <2>1. << >> \in Seq(Window)
    OBVIOUS
  <2>. QED  BY <1>1, <2>1 DEF Types, Tasks, Idle
<1>3. task' \in [App -> Tasks] /\ task'[a] = Idle /\ \A b \in App \ {a} : task'[b] = task[b]
  BY <1>1, <1>2
<1>4. Types'
  BY <1>1, <1>3 DEF Types, Tasks, Idle, worldVars
<1>5. raised # 0
  BY <1>1 DEF Base, LoudAtFirst, Idle
<1>. QED  BY <1>1, <1>4, <1>5
  DEF Base, NewsCurrent, ThreadsNotified, TrackerFollows, LoudAtFirst, worldVars

LEMMA DeadlineBase ==
  ASSUME Base, NEW a \in App, DeadlinePasses(a)
  PROVE  Base'
<1>1. /\ last' = [last EXCEPT ![a].live = FALSE] /\ last[a].set /\ doubt' = TRUE
      /\ Types /\ UNCHANGED <<worldVars, notes, threads, isFront, mainSeen, task, lock, centre,
                              reactor, acts, raised, aim, hurry>>
  BY DEF DeadlinePasses, Base
<1>. PICK f \in BOOLEAN : f = FALSE
  OBVIOUS
<1>2. last' \in [App -> [quiet : BOOLEAN, win : Window \cup {NoWindow}, live : BOOLEAN, set : BOOLEAN]]
  <2>1. last \in [App -> [quiet : BOOLEAN, win : Window \cup {NoWindow}, live : BOOLEAN, set : BOOLEAN]]
    BY <1>1 DEF Types
  <2>2. last' = [last EXCEPT ![a].live = f]
    BY <1>1
  <2>. QED  BY <2>1, <2>2
<1>3. Types'
  BY <1>1, <1>2 DEF Types, worldVars
<1>4. raised # 0
  BY <1>1 DEF Base, LoudAtFirst
<1>. QED  BY <1>1, <1>3, <1>4
  DEF Base, NewsCurrent, ThreadsNotified, TrackerFollows, LoudAtFirst, worldVars

LEMMA FailsBase ==
  ASSUME Base, NEW a \in App, RaiseFails(a)
  PROVE  Base'
<1>1. /\ task' = [task EXCEPT ![a] = Idle] /\ task[a].pc \in {"woken", "raising"}
      /\ reactor' = Failed(task[a].quiet) /\ aim' = IF task[a].quiet THEN aim ELSE main[front]
      /\ doubt' \in BOOLEAN
      /\ Types /\ UNCHANGED <<worldVars, notes, threads, isFront, mainSeen, last, centre, acts,
                              raised, hurry>>
  BY DEF RaiseFails, Base, Types
<1>2. task \in [App -> Tasks] /\ Idle \in Tasks /\ task[a].quiet \in BOOLEAN
  <2>1. << >> \in Seq(Window)
    OBVIOUS
  <2>. QED  BY <1>1, <2>1 DEF Types, Tasks, Idle
<1>3. task' \in [App -> Tasks] /\ task'[a] = Idle /\ \A b \in App \ {a} : task'[b] = task[b]
  BY <1>1, <1>2
<1>4. /\ reactor' \in Trackers(threads) /\ reactor'.apps = reactor.apps
      /\ reactor'.global = reactor.global
  BY <1>1, <1>2, FailEffect
<1>5. aim' \in Window
  BY <1>1 DEF Types
<1>6. Types'
  BY <1>1, <1>3, <1>4, <1>5 DEF Types, Tasks, Idle, worldVars
<1>7. raised # 0
  BY <1>1 DEF Base, LoudAtFirst, Idle
<1>. QED  BY <1>1, <1>4, <1>6, <1>7
  DEF Base, NewsCurrent, ThreadsNotified, TrackerFollows, LoudAtFirst, worldVars

(* Window w is raised; it is the last one if done. *)
WindowRaised(a, w, done) ==
  /\ a \in threads /\ w \in Window /\ task[a].pc \in {"woken", "raising"}
  /\ main' \in [App -> Window] /\ main'[a] = w /\ mainSeen'[a] = w
  /\ mainSeen' \in [App -> Window \cup {NoWindow}]
  /\ \A b \in App \ {a} : /\ main'[b] = main[b] /\ mainSeen'[b] = mainSeen[b]
                          /\ notes'[b] = notes[b] /\ task'[b] = task[b]
  /\ notes' \in [App -> Seq({"activation", "main"})]
  /\ ToSet(notes[a]) \subseteq ToSet(notes'[a])
  /\ reactor' \in Trackers(threads) /\ reactor'.global = reactor.global
  /\ reactor'.apps = [reactor.apps EXCEPT ![a].main = w]
  /\ reactor'.selected = IF /\ w # mainSeen[a] /\ done /\ ~task[a].quiet
                           /\ a = reactor.global /\ isFront[a]
                        THEN w ELSE reactor.selected
  /\ task' \in [App -> Tasks]
  /\ done => task'[a] = Idle
  /\ ~done => /\ task'[a].pc = "raising" /\ task'[a].at = task[a].at + 1
              /\ task'[a].wids = task[a].wids /\ task'[a].quiet = task[a].quiet
  /\ doubt' \in BOOLEAN
  /\ ~doubt' => ~doubt /\ \A n \in ToSet(inbox[a]) : n.win = w
  /\ UNCHANGED <<front, inbox, thinks, threads, isFront, last, centre, acts,
                 raised, aim, hurry>>

LEMMA RaisesEffect ==
  ASSUME Types, TrackerFollows, NEW a \in App, RaiseWindow(a),
         NEW w, w = task[a].wids[task[a].at], NEW done \in BOOLEAN,
         done <=> task[a].at = Len(task[a].wids)
  PROVE  WindowRaised(a, w, done)
<1>1. /\ task[a].pc \in {"woken", "raising"}
      /\ UNCHANGED <<front, inbox, thinks, threads, isFront, last, centre, acts,
                     raised, aim, hurry>>
      /\ doubt' = (doubt \/ \E n \in ToSet(inbox[a]) : n.win # w)
      /\ main' = [main EXCEPT ![a] = w]
      /\ notes' = IF w = main[a] THEN notes ELSE [notes EXCEPT ![a] = Append(@, "main")]
      /\ mainSeen' = [mainSeen EXCEPT ![a] = MainReported(a, w)]
  BY DEF RaiseWindow
<1>2. /\ task \in [App -> Tasks] /\ task[a].at \in DOMAIN task[a].wids /\ a \in threads
      /\ main \in [App -> Window] /\ notes \in [App -> Seq({"activation", "main"})]
      /\ mainSeen \in [App -> Window \cup {NoWindow}] /\ task[a].wids \in Seq(Window)
      /\ task[a].quiet \in BOOLEAN /\ task[a].at \in Nat
  BY <1>1 DEF Types, Tasks
<1>3. w \in Window /\ w # NoWindow
  BY <1>2, ActivationAssumption
<1>4. MainReported(a, w) = w
  BY <1>3 DEF MainReported
<1>5. PICK q \in Window \cup {NoWindow} : q = IF ~done \/ task[a].quiet THEN w ELSE NoWindow
  BY <1>3
<1>13. a \in threads
  BY <1>2
<1>11. PICK v \in Window : v = w
  BY <1>3
<1>6. reactor' = Handled(reactor, MainReport(a, v, q))
  BY <1>2, <1>5, <1>11 DEF RaiseWindow
<1>12. /\ reactor' \in Trackers(threads) /\ reactor'.global = reactor.global
       /\ reactor'.apps = [reactor.apps EXCEPT ![a].main = v]
       /\ reactor'.selected = IF v # mainSeen[a] /\ v # q /\ a = reactor.global /\ isFront[a]
                             THEN v ELSE reactor.selected
  BY <1>13, <1>6, ReportEffect
<1>7. /\ reactor' \in Trackers(threads) /\ reactor'.global = reactor.global
      /\ reactor'.apps = [reactor.apps EXCEPT ![a].main = w]
      /\ reactor'.selected = IF w # mainSeen[a] /\ w # q /\ a = reactor.global /\ isFront[a]
                            THEN w ELSE reactor.selected
  BY <1>11, <1>12
<1>8. w # q <=> done /\ ~task[a].quiet
  BY <1>3, <1>5
<1>9. /\ notes' \in [App -> Seq({"activation", "main"})] /\ ToSet(notes[a]) \subseteq ToSet(notes'[a])
      /\ \A b \in App \ {a} : notes'[b] = notes[b]
  <2>. PICK K : K = {"activation", "main"}
    OBVIOUS
  <2>1. "main" \in K /\ notes[a] \in Seq(K)
    BY <1>2
  <2>2. Append(notes[a], "main") \in Seq(K) /\ ToSet(notes[a]) \subseteq ToSet(Append(notes[a], "main"))
    BY <2>1, AppendFacts
  <2>. QED  BY <1>1, <1>2, <2>2
<1>10. /\ task' \in [App -> Tasks] /\ (\A b \in App \ {a} : task'[b] = task[b])
       /\ (done => task'[a] = Idle)
       /\ ~done => /\ task'[a].pc = "raising" /\ task'[a].at = task[a].at + 1
                   /\ task'[a].wids = task[a].wids /\ task'[a].quiet = task[a].quiet
  <2>1. CASE done
    <3>1. task' = [task EXCEPT ![a] = Idle]
      BY <2>1 DEF RaiseWindow
    <3>2. << >> \in Seq(Window)
      OBVIOUS
    <3>3. Idle \in Tasks
      BY <3>2 DEF Idle, Tasks
    <3>. QED  BY <1>2, <2>1, <3>1, <3>3
  <2>2. CASE ~done
    <3>. DEFINE u == [task[a] EXCEPT !.pc = "raising", !.at = task[a].at + 1]
    <3>0. task[a].at # Len(task[a].wids)
      BY <2>2
    <3>1. task' = [task EXCEPT ![a] = u]
      BY <3>0 DEF RaiseWindow
    <3>2. /\ u \in Tasks /\ u.pc = "raising" /\ u.at = task[a].at + 1
          /\ u.wids = task[a].wids /\ u.quiet = task[a].quiet
      <4>1. task[a] \in Tasks /\ task[a].at + 1 \in Nat
        BY <1>2
      <4>. QED  BY <4>1 DEF Tasks
    <3>. HIDE DEF u
    <3>. QED  BY <1>2, <2>2, <3>1, <3>2
  <2>. QED  BY <2>1, <2>2
<1>14. doubt' \in BOOLEAN /\ (~doubt' => ~doubt /\ \A n \in ToSet(inbox[a]) : n.win = w)
  BY <1>1 DEF Types
<1>. QED  BY <1>1, <1>2, <1>3, <1>4, <1>7, <1>8, <1>9, <1>10, <1>14 DEF WindowRaised

LEMMA RaisesBase ==
  ASSUME Base, NEW a \in App, RaiseWindow(a)
  PROVE  Base'
<1>. PICK w : w = task[a].wids[task[a].at]
  OBVIOUS
<1>0. PICK done \in BOOLEAN : done <=> task[a].at = Len(task[a].wids)
  OBVIOUS
<1>1. WindowRaised(a, w, done) /\ Types
  BY <1>0, RaisesEffect DEF Base
<1>2. Types'
  <2>1. task[a].at \in DOMAIN task[a].wids /\ task[a].wids \in Seq(Window) /\ task[a].at \in Nat
    BY <1>1 DEF WindowRaised, Types
  <2>2. ~done => task[a].at + 1 \in DOMAIN task[a].wids
    BY <1>0, <2>1
  <2>5. /\ done => task'[a] = Idle
        /\ ~done => task'[a].at = task[a].at + 1 /\ task'[a].wids = task[a].wids
        /\ \A b \in App \ {a} : task'[b] = task[b]
    BY <1>1 DEF WindowRaised
  <2>6. \A b \in App : task[b].pc # "idle" => task[b].at \in DOMAIN task[b].wids
    BY <1>1 DEF Types
  <2>7. task'[a].pc # "idle" => task'[a].at \in DOMAIN task'[a].wids
    BY <2>2, <2>5 DEF Idle
  <2>3. \A b \in App : task'[b].pc # "idle" => task'[b].at \in DOMAIN task'[b].wids
    BY <2>5, <2>6, <2>7
  <2>4. \A b \in App \ threads : notes'[b] = << >> /\ task'[b].pc = "idle"
    BY <1>1 DEF WindowRaised, Types
  <2>. QED  BY <1>1, <2>3, <2>4 DEF WindowRaised, Types, Tasks
<1>3. NewsCurrent'
  BY <1>1 DEF WindowRaised, Base, NewsCurrent
<1>4. ThreadsNotified'
  <2>. SUFFICES ASSUME NEW b \in threads
                PROVE  /\ isFront[b] = thinks[b] \/ "activation" \in ToSet(notes'[b])
                       /\ mainSeen'[b] = main'[b] \/ "main" \in ToSet(notes'[b])
                       /\ mainSeen'[b] \in Window
    BY <1>1 DEF ThreadsNotified, WindowRaised
  <2>1. /\ isFront[b] = thinks[b] \/ "activation" \in ToSet(notes[b])
        /\ mainSeen[b] = main[b] \/ "main" \in ToSet(notes[b])
        /\ mainSeen[b] \in Window /\ b \in App
    BY <1>1 DEF Base, ThreadsNotified, Types
  <2>2. CASE b = a
    BY <1>1, <2>1, <2>2 DEF WindowRaised
  <2>3. CASE b # a
    BY <1>1, <2>1, <2>3 DEF WindowRaised
  <2>. QED  BY <2>2, <2>3
<1>5. reactor.apps \in [threads -> AppStates] /\ threads \in SUBSET App
  BY <1>1 DEF Types, Trackers
<1>6. \A b \in threads :
        /\ reactor'.apps[b].frontmost = reactor.apps[b].frontmost
        /\ reactor'.apps[b].main = IF b = a THEN w ELSE reactor.apps[b].main
  BY <1>1, <1>5 DEF AppStates, WindowRaised
<1>7. TrackerFollows'
  BY <1>1, <1>5, <1>6 DEF Base, TrackerFollows, WindowRaised
<1>8. raised # 0 /\ raised' = raised
  BY <1>1 DEF Base, LoudAtFirst, Idle, WindowRaised
<1>. QED  BY <1>2, <1>3, <1>4, <1>7, <1>8 DEF Base, LoudAtFirst

LEMMA BaseInit == ASSUME Init PROVE Base
<1>1. PICK c \in App : threads = App \ {c}
  BY DEF Init
<1>2. /\ front \in App /\ inbox = [a \in App |-> << >>] /\ thinks = [a \in App |-> a = front]
      /\ main = [a \in App |-> CHOOSE w \in WindowsOf(a) : TRUE]
      /\ notes = [a \in App |-> << >>]
      /\ isFront = [a \in App |-> a \in threads /\ thinks[a]]
      /\ mainSeen = [a \in App |-> IF a \in threads THEN main[a] ELSE NoWindow]
      /\ last = [a \in App |-> NotExpected] /\ task = [a \in App |-> Idle] /\ centre = << >>
      /\ acts = 0 /\ raised = 0 /\ aim = main[front] /\ hurry = FALSE /\ doubt = FALSE
      /\ reactor =
           [apps |-> [a \in threads |-> [frontmost |-> thinks[a], quiet |-> FALSE, main |-> main[a]]],
            global |-> front,
            selected |-> IF front \in threads THEN main[front] ELSE NoWindow]
  BY DEF Init
<1>3. main \in [App -> Window]
  <2>1. \A a \in App : WindowsOf(a) # {} /\ WindowsOf(a) \subseteq Window
    BY ActivationAssumption DEF WindowsOf
  <2>. QED  BY <1>2, <2>1
<1>4. thinks \in [App -> BOOLEAN] /\ isFront \in [App -> BOOLEAN]
      /\ mainSeen \in [App -> Window \cup {NoWindow}]
  BY <1>2, <1>3
<1>5. reactor \in Trackers(threads)
      /\ \A a \in threads : reactor.apps[a] = [frontmost |-> thinks[a], quiet |-> FALSE, main |-> main[a]]
  <2>1. [a \in threads |-> [frontmost |-> thinks[a], quiet |-> FALSE, main |-> main[a]]]
          \in [threads -> AppStates]
    BY <1>1, <1>3, <1>4 DEF AppStates
  <2>. QED  BY <1>2, <1>3, <2>1 DEF Trackers
<1>6. << >> \in Seq(Window) /\ << >> \in Seq(News) /\ << >> \in Seq({"activation", "main"})
      /\ << >> \in Seq([on : BOOLEAN, pid : App])
  OBVIOUS
<1>7. Types
  BY <1>1, <1>2, <1>3, <1>4, <1>5, <1>6 DEF Types, Idle, NotExpected
<1>8. NewsCurrent
  <2>1. \A a \in App : inbox[a] = << >> /\ thinks[a] = (a = front)
    BY <1>2
  <2>. QED  BY <1>2, <2>1 DEF NewsCurrent
<1>9. \A a \in threads : /\ isFront[a] = thinks[a] /\ mainSeen[a] = main[a] /\ main[a] \in Window
                        /\ reactor.apps[a].frontmost = thinks[a] /\ reactor.apps[a].main = main[a]
                        /\ ~reactor.apps[a].quiet
  BY <1>1, <1>2, <1>3, <1>4, <1>5
<1>10. ThreadsNotified /\ TrackerFollows
  BY <1>9 DEF ThreadsNotified, TrackerFollows
<1>11. LoudAtFirst
  BY <1>2, <1>9 DEF LoudAtFirst, NotExpected
<1>. QED  BY <1>7, <1>8, <1>10, <1>11 DEF Base

LEMMA BaseNext == ASSUME Base, [Next]_vars PROVE Base'
<1>1. CASE UNCHANGED vars
  BY <1>1 DEF vars, worldVars, threadVars, Base, Types, NewsCurrent, ThreadsNotified,
              TrackerFollows, LoudAtFirst
<1>2. CASE Next
  BY <1>2, UserFocusesBase, CentreTellsBase, AppHearsBase, ThreadStartsBase, MainChangedBase,
     ActivationBase, MakesKeyBase, RefusedBase, CancelledBase, FailsBase, DeadlineBase, RaisesBase
  DEF Next
<1>. QED  BY <1>1, <1>2

-----------------------------------------------------------------------------
(* Once all is quiet. *)

LEMMA Believed ==
  ASSUME Base
  PROVE  MainWindow(reactor) = IF reactor.global \in threads /\ isFront[reactor.global]
                               THEN mainSeen[reactor.global] ELSE NoWindow
<1>1. DOMAIN reactor.apps = threads
  BY DEF Base, Types, Trackers
<1>2. \A a \in threads : reactor.apps[a].frontmost = isFront[a] /\ reactor.apps[a].main = mainSeen[a]
  BY DEF Base, TrackerFollows
<1>. QED  BY <1>1, <1>2 DEF MainWindow

LEMMA NothingInside == ToSet(<< >>) = {}
<1>1. << >> \in Seq({})
  OBVIOUS
<1>. QED  BY <1>1, EmptyFacts

(* What nobody has news of is as it seems. *)
LEMMA Settled ==
  ASSUME Base, NEW a \in App
  PROVE  /\ inbox[a] = << >> => thinks[a] = (a = front)
         /\ a \in threads /\ notes[a] = << >> => isFront[a] = thinks[a] /\ mainSeen[a] = main[a]
         /\ centre = << >> => reactor.global = front
BY NothingInside DEF Base, NewsCurrent, ThreadsNotified

LEMMA Agreed == ASSUME Base PROVE Agreement
<1>. SUFFICES ASSUME Quiet, threads = App PROVE MainWindow(reactor) = main[front]
  BY DEF Agreement
<1>1. front \in App
  BY DEF Base, Types
<1>2. centre = << >> /\ inbox[front] = << >> /\ notes[front] = << >>
  BY <1>1 DEF Quiet
<1>. QED  BY <1>1, <1>2, Settled, Believed

LEMMA AllAtRest ==
  ASSUME Quiet, AimInSight, NEW a \in App
  PROVE  AtRest(a)
<1>1. task[a] = Idle
  BY DEF Quiet
<1>2. CASE UserFocusing
  BY <1>2 DEF UserFocusing
<1>3. ASSUME NEW c \in App, Raising(c) PROVE AtRest(a)
  <2>1. task[c] = Idle
    BY DEF Quiet
  <2>2. RaiseDone(c)
    BY <1>3, <2>1 DEF Raising, RaiseWaits, RaiseWoken, RaiseGoesOn, Idle
  <2>. QED  BY <1>1, <1>3, <2>2 DEF Raising, RaiseDone, Activated, AtRest
<1>. QED  BY <1>2, <1>3 DEF AimInSight

LEMMA Arrived == ASSUME FInv PROVE SelectionArrives
<1>. SUFFICES ASSUME Quiet, threads = App, ~doubt PROVE reactor.selected = aim
  BY DEF SelectionArrives
<1>. Base /\ FollowsAtFirst /\ AimInSight
  BY DEF FInv
<1>1. front \in App /\ raised \in Nat
  BY DEF Base, Types
<1>2. centre = << >> /\ inbox[front] = << >> /\ notes[front] = << >>
  BY <1>1 DEF Quiet
<1>3. reactor.global = front /\ isFront[front] /\ mainSeen[front] = main[front]
  BY <1>1, <1>2, Settled
<1>4. CASE UserFocusing
  <2>1. main[front] = aim
    BY <1>2, <1>4 DEF UserFocusing, AimLast
  <2>2. CASE raised = 0
    BY <1>1, <1>3, <2>1, <2>2 DEF FollowsAtFirst
  <2>3. CASE raised > 0
    BY <1>1, <1>3, <1>4, <2>1, <2>3 DEF UserFocusing, OneFocus
  <2>. QED  BY <1>1, <2>2, <2>3
<1>5. CASE \E a \in App : Raising(a)
  BY <1>5 DEF Raising
<1>. QED  BY <1>4, <1>5 DEF AimInSight

-----------------------------------------------------------------------------
(* The selection before the first raise. *)

LEMMA CentreFollows ==
  ASSUME Base, FollowsAtFirst, CentreTells
  PROVE  FollowsAtFirst'
<1>. PICK n : n = Head(centre)
  OBVIOUS
<1>1. /\ n \in [on : BOOLEAN, pid : App] /\ reactor'.apps = reactor.apps
      /\ reactor'.global = IF n.on THEN n.pid
                          ELSE IF reactor.global = n.pid THEN NoApp ELSE reactor.global
      /\ reactor'.selected = IF /\ n.on /\ n.pid \in threads
                               /\ ~reactor.apps[n.pid].quiet /\ reactor.apps[n.pid].frontmost
                            THEN reactor.apps[n.pid].main ELSE reactor.selected
  BY CentreEffect DEF Base
<1>2. UNCHANGED <<raised, threads, isFront, mainSeen>>
  BY DEF CentreTells, threadVars
<1>3. NoApp \notin threads
  BY ActivationAssumption DEF Base, Types
<1>4. raised = 0 => \A a \in threads : ~reactor.apps[a].quiet
  BY DEF Base, LoudAtFirst
<1>5. \A a \in threads : reactor.apps[a].frontmost = isFront[a] /\ reactor.apps[a].main = mainSeen[a]
  BY DEF Base, TrackerFollows
<1>. QED  BY <1>1, <1>2, <1>3, <1>4, <1>5 DEF FollowsAtFirst

LEMMA StartsFollows ==
  ASSUME Base, FollowsAtFirst, NEW a \in App, ThreadStarts(a)
  PROVE  FollowsAtFirst'
<1>1. /\ threads' = threads \cup {a} /\ reactor'.global = reactor.global
      /\ reactor'.selected = IF a = reactor.global /\ thinks[a] THEN main[a] ELSE reactor.selected
  BY StartsEffect DEF Base
<1>2. /\ isFront' = [isFront EXCEPT ![a] = thinks[a]] /\ mainSeen' = [mainSeen EXCEPT ![a] = main[a]]
      /\ raised' = raised
  BY DEF ThreadStarts
<1>3. DOMAIN isFront = App /\ DOMAIN mainSeen = App
  BY DEF Base, Types
<1>. QED  BY <1>1, <1>2, <1>3 DEF FollowsAtFirst, Base, Types

LEMMA MainChangedFollows ==
  ASSUME Base, FollowsAtFirst, NEW a \in App, HandleMainChanged(a)
  PROVE  FollowsAtFirst'
<1>1. /\ a \in threads /\ mainSeen' = [mainSeen EXCEPT ![a] = main[a]]
      /\ reactor'.global = reactor.global
      /\ \/ reactor'.selected = reactor.selected
         \/ /\ reactor'.selected = main[a] /\ main[a] # mainSeen[a]
            /\ a = reactor.global /\ isFront[a]
      /\ ~Taken(a) /\ main[a] # mainSeen[a] /\ a = reactor.global /\ isFront[a] =>
           reactor'.selected = main[a]
  BY MainChangedEffect DEF Base
<1>2. UNCHANGED <<raised, threads, isFront>>
  BY DEF HandleMainChanged
<1>3. raised = 0 => ~Taken(a)
  BY DEF Base, LoudAtFirst, Taken
<1>4. DOMAIN mainSeen = App /\ threads \subseteq App
  BY DEF Base, Types
<1>. QED  BY <1>1, <1>2, <1>3, <1>4 DEF FollowsAtFirst

(* What the thread makes of the activation. *)
ActivationHandled(a) ==
  /\ a \in threads /\ task[a].pc # "raising" /\ notes[a] # << >> /\ "activation" \in ToSet(notes[a])
  /\ ToSet(notes'[a]) \subseteq ToSet(notes[a])
  /\ isFront'[a] = thinks[a]
  /\ mainSeen'[a] = IF thinks[a] THEN main[a] ELSE mainSeen[a]
  /\ \A b \in App \ {a} : /\ isFront'[b] = isFront[b] /\ mainSeen'[b] = mainSeen[b]
                          /\ notes'[b] = notes[b] /\ last'[b] = last[b] /\ task'[b] = task[b]
  /\ IF thinks[a] THEN ~last'[a].live ELSE last'[a] = last[a]
  /\ task'[a].wids = task[a].wids /\ task'[a].quiet = task[a].quiet /\ task'[a].at = task[a].at
  /\ IF thinks[a] /\ Taken(a) /\ task[a].pc = "waiting"
     THEN task'[a].pc = "woken" ELSE task'[a] = task[a]
  /\ UNCHANGED <<worldVars, threads, lock, centre, acts, raised, aim, hurry, doubt>>

LEMMA ActivationFacts ==
  ASSUME Types, NEW a \in App, HandleActivation(a)
  PROVE  ActivationHandled(a)
<1>1. /\ a \in threads /\ notes[a] # << >>
      /\ ToSet(notes[a]) = ToSet(notes'[a]) \cup {"activation"}
      /\ \A b \in App \ {a} : notes'[b] = notes[b]
  BY NoteEffect DEF HandleActivation
<1>2. /\ isFront \in [App -> BOOLEAN] /\ mainSeen \in [App -> Window \cup {NoWindow}]
      /\ DOMAIN last = App /\ task \in [App -> Tasks] /\ thinks[a] \in BOOLEAN
      /\ last[a].set \in BOOLEAN /\ last[a].live \in BOOLEAN
  BY DEF Types, Tasks
<1>3. MainReported(a, main[a]) = main[a]
  BY ActivationAssumption DEF Types, MainReported
<1>4. /\ isFront' = [isFront EXCEPT ![a] = thinks[a]]
      /\ last' = IF thinks[a] THEN [last EXCEPT ![a] = NotExpected] ELSE last
      /\ mainSeen' = IF thinks[a] THEN [mainSeen EXCEPT ![a] = main[a]] ELSE mainSeen
      /\ task[a].pc # "raising"
      /\ UNCHANGED <<worldVars, threads, lock, centre, acts, raised, aim, hurry, doubt>>
  BY <1>3 DEF HandleActivation, Listens
<1>5. IF thinks[a] /\ Taken(a) /\ task[a].pc = "waiting"
      THEN task' = [task EXCEPT ![a].pc = "woken"] ELSE task' = task
  BY <1>2 DEF HandleActivation, Taken
<1>6. /\ \A b \in App \ {a} : task'[b] = task[b]
      /\ task'[a].wids = task[a].wids /\ task'[a].quiet = task[a].quiet /\ task'[a].at = task[a].at
      /\ IF thinks[a] /\ Taken(a) /\ task[a].pc = "waiting"
         THEN task'[a].pc = "woken" ELSE task'[a] = task[a]
  <2>1. CASE thinks[a] /\ Taken(a) /\ task[a].pc = "waiting"
    <3>1. task' = [task EXCEPT ![a].pc = "woken"]
      BY <1>5, <2>1
    <3>. QED  BY <1>2, <2>1, <3>1 DEF Tasks
  <2>2. CASE ~(thinks[a] /\ Taken(a) /\ task[a].pc = "waiting")
    BY <1>5, <2>2
  <2>. QED  BY <2>1, <2>2
<1>7. /\ isFront'[a] = thinks[a]
      /\ mainSeen'[a] = IF thinks[a] THEN main[a] ELSE mainSeen[a]
      /\ \A b \in App \ {a} : /\ isFront'[b] = isFront[b] /\ mainSeen'[b] = mainSeen[b]
                              /\ last'[b] = last[b]
      /\ IF thinks[a] THEN ~last'[a].live ELSE last'[a] = last[a]
  BY <1>2, <1>4 DEF NotExpected
<1>. QED  BY <1>1, <1>4, <1>6, <1>7 DEF ActivationHandled

LEMMA ActivationFollows ==
  ASSUME Base, FollowsAtFirst, NEW a \in App, HandleActivation(a)
  PROVE  FollowsAtFirst'
<1>1. ActivationHandled(a)
  BY ActivationFacts DEF Base
<1>2. /\ a \in threads /\ isFront'[a] = thinks[a] /\ threads' = threads /\ raised' = raised
      /\ mainSeen'[a] = IF thinks[a] THEN main[a] ELSE mainSeen[a]
      /\ \A b \in App \ {a} : isFront'[b] = isFront[b] /\ mainSeen'[b] = mainSeen[b]
  BY <1>1 DEF ActivationHandled
<1>3. /\ reactor'.global = reactor.global
      /\ \/ reactor'.selected = reactor.selected
         \/ /\ reactor'.selected = main[a] /\ thinks[a] /\ a = reactor.global
            /\ main[a] # mainSeen[a] \/ ~isFront[a]
      /\ thinks[a] /\ a = reactor.global /\ ~isFront[a] /\ ~Ours(a) =>
           reactor'.selected = main[a]
      /\ isFront[a] /\ thinks[a] /\ a = reactor.global /\ main[a] # mainSeen[a] /\ ~Taken(a) =>
           reactor'.selected = main[a]
  BY <1>2, ActivationEffect DEF Base
<1>4. raised = 0 => ~Taken(a) /\ ~Ours(a)
  BY DEF Base, LoudAtFirst, Taken, Ours
<1>5. threads \subseteq App
  BY DEF Base, Types
<1>. QED  BY <1>2, <1>3, <1>4, <1>5 DEF FollowsAtFirst

LEMMA FollowsNext ==
  ASSUME Base, FollowsAtFirst, [Next]_vars
  PROVE  FollowsAtFirst'
<1>1. raised \in Nat /\ (raised = 0 => \A a \in App : task[a].pc = "idle" /\ ~last[a].set)
  BY DEF Base, Types, LoudAtFirst, Idle
<1>2. ASSUME NEW w \in Window, UserFocuses(w) PROVE FollowsAtFirst'
  BY <1>2 DEF UserFocuses, threadVars, FollowsAtFirst
<1>3. ASSUME NEW a \in App, AppHears(a) PROVE FollowsAtFirst'
  BY <1>3 DEF AppHears, FollowsAtFirst
<1>4. ASSUME NEW a \in App, NEW wids \in RaiseLists(a), NEW q \in BOOLEAN, NEW works \in BOOLEAN,
             RaiseMakesKey(a, wids, q, works)
      PROVE  FollowsAtFirst'
  BY <1>1, <1>4 DEF RaiseMakesKey, FollowsAtFirst
<1>5. ASSUME NEW a \in App, NEW q \in BOOLEAN, RaiseRefused(a, q) PROVE FollowsAtFirst'
  BY <1>1, <1>5 DEF RaiseRefused, FollowsAtFirst
<1>6. ASSUME NEW a \in App, RaiseCancelled(a) \/ RaiseFails(a) \/ DeadlinePasses(a) \/ RaiseWindow(a)
      PROVE  FollowsAtFirst'
  <2>1. raised' = raised /\ raised # 0
    BY <1>1, <1>6 DEF RaiseCancelled, RaiseFails, DeadlinePasses, RaiseWindow
  <2>. QED  BY <2>1 DEF FollowsAtFirst
<1>7. CASE UNCHANGED vars
  BY <1>7 DEF vars, threadVars, FollowsAtFirst
<1>8. CASE Next
  BY <1>8, <1>2, <1>3, <1>4, <1>5, <1>6, CentreFollows, StartsFollows, MainChangedFollows,
     ActivationFollows DEF Next
<1>. QED  BY <1>7, <1>8

-----------------------------------------------------------------------------
(* Where the selection goes: while the user focuses windows, and while one *)
(* raise is under way.                                                     *)

LEMMA FewNews ==
  ASSUME NEW S, NEW x \in S, NEW s \in Seq(S), s = << >>
  PROVE  Append(s, x) = <<x>> /\ Len(Append(s, x)) = 1 /\ ToSet(Append(s, x)) = {x}
<1>1. Append(s, x) = <<x>> /\ Len(s) = 0
  OBVIOUS
<1>2. PICK t \in Seq(S) : t = s
  OBVIOUS
<1>3. Len(Append(t, x)) = Len(t) + 1 /\ ToSet(Append(t, x)) = ToSet(t) \cup {x}
  BY AppendFacts
<1>4. ToSet(t) = {} /\ Len(t) = 0
  BY <1>1, <1>2, NothingInside
<1>. QED  BY <1>1, <1>2, <1>3, <1>4

LEMMA LeavesKept ==
  ASSUME NEW b, Leaves(b), inbox'[b] = inbox[b], notes'[b] = notes[b], thinks'[b] = thinks[b]
  PROVE  Leaves(b)'
BY DEF Leaves

LEMMA RestKept ==
  ASSUME NEW b, AtRest(b), task'[b] = task[b], last'[b].live = last[b].live
  PROVE  AtRest(b)'
BY DEF AtRest

(* A window that gets the focus when all was quiet. *)
FocusedAlone(a, w) ==
  /\ a \in App /\ front' = a /\ notes'[a] = << >>
  /\ inbox'[a] = << [on |-> TRUE, win |-> w] >> /\ Len(inbox'[a]) = 1
  /\ (\A b \in App \ {a} : Leaves(b)') /\ OnlyTold(a)'
  /\ a = front => centre' = << >>

LEMMA FocusOfQuiet ==
  ASSUME Base, Quiet, NEW w \in Window, Focuses(w), NEW a, a = Owner[w],
         UNCHANGED thinks, UNCHANGED notes, reactor'.global = reactor.global
  PROVE  FocusedAlone(a, w)
<1>1. Types /\ NewsCurrent
  BY DEF Base
<1>2. PICK on : on = [on |-> TRUE, win |-> w]
  OBVIOUS
<1>3. /\ a \in App /\ front' = a /\ inbox'[a] = Append(inbox[a], on)
      /\ \A b \in App \ {a} : inbox'[b] = IF b = front THEN Append(inbox[b], Off) ELSE inbox[b]
      /\ centre' = IF a = front THEN centre
                   ELSE centre \o << [on |-> FALSE, pid |-> front], [on |-> TRUE, pid |-> a] >>
  <2>1. /\ a \in App /\ front' = a /\ inbox'[a] = Append(inbox[a], [on |-> TRUE, win |-> w])
        /\ \A b \in App \ {a} : inbox'[b] = IF b = front THEN Append(inbox[b], Off) ELSE inbox[b]
        /\ centre' = IF a = front THEN centre
                     ELSE centre \o << [on |-> FALSE, pid |-> front], [on |-> TRUE, pid |-> a] >>
    <3>1. Focused(a, w)
      BY <1>1, FocusEffect
    <3>. QED  BY <3>1 DEF Focused
  <2>. QED  BY <1>2, <2>1
<1>4. /\ centre = << >> /\ centre \in Seq([on : BOOLEAN, pid : App]) /\ front \in App
      /\ \A b \in App : inbox[b] = << >> /\ notes[b] = << >> /\ inbox[b] \in Seq(News)
      /\ on \in News /\ Off \in News /\ ~Off.on
  BY <1>1, <1>2 DEF Quiet, Types, News, Off
<1>5. ASSUME NEW b \in App \ {a} PROVE Leaves(b)'
  <2>1. \A n \in ToSet(inbox'[b]) : ~n.on
    <3>1. CASE b = front
      <4>1. ToSet(inbox'[b]) = {Off}
        BY <1>3, <1>4, <3>1, FewNews
      <4>. QED  BY <1>4, <4>1
    <3>2. CASE b # front
      BY <1>3, <1>4, <3>2, NothingInside
    <3>. QED  BY <3>1, <3>2
  <2>2. notes'[b] = << >>
    BY <1>4
  <2>. QED  BY <2>1, <2>2, NothingInside DEF Leaves
<1>6. \A e \in ToSet(centre') : e.on => e.pid = a
  <2>1. CASE a = front
    BY <1>3, <1>4, <2>1, NothingInside
  <2>2. CASE a # front
    <3>1. PICK T : T = [on : BOOLEAN, pid : App]
      OBVIOUS
    <3>2. PICK x \in T : x = [on |-> FALSE, pid |-> front]
      BY <1>4, <3>1
    <3>3. PICK y \in T : y = [on |-> TRUE, pid |-> a]
      BY <1>3, <3>1
    <3>4. centre' = centre \o <<x, y>> /\ centre \in Seq(T)
      BY <1>3, <1>4, <2>2, <3>1, <3>2, <3>3
    <3>5. ToSet(centre') = ToSet(centre) \cup {x, y}
      BY <3>4, TwoMoreFacts
    <3>6. ToSet(centre) = {}
      BY <1>4, NothingInside
    <3>7. ~x.on /\ y.pid = a
      BY <3>2, <3>3
    <3>. QED  BY <3>5, <3>6, <3>7
  <2>. QED  BY <2>1, <2>2
<1>7. Len(inbox'[a]) = 1 /\ inbox'[a] = << on >> /\ notes'[a] = << >>
  BY <1>3, <1>4, FewNews
<1>8. OnlyTold(a)'
  BY <1>6 DEF OnlyTold
<1>. QED  BY <1>2, <1>3, <1>4, <1>5, <1>7, <1>8 DEF FocusedAlone

LEMMA UserFocusesCalm ==
  ASSUME Base, Calm, NEW w \in Window, UserFocuses(w)
  PROVE  OneFocus'
<1>0. PICK a : a = Owner[w]
  OBVIOUS
<1>1. /\ Focuses(w) /\ (front # a \/ main[front] # w)
      /\ aim' = w /\ Quiet
      /\ UNCHANGED <<thinks, main, notes, threads, isFront, mainSeen, last, task, reactor, raised>>
  BY <1>0 DEF Calm, UserFocuses, threadVars
<1>2. /\ a \in App /\ front' = a /\ notes'[a] = << >> /\ Len(inbox'[a]) = 1
      /\ (\A b \in App \ {a} : Leaves(b)') /\ OnlyTold(a)'
      /\ a = front => centre' = << >>
  <2>1. /\ Quiet /\ Focuses(w) /\ UNCHANGED thinks /\ UNCHANGED notes
        /\ reactor'.global = reactor.global
    BY <1>1
  <2>2. FocusedAlone(a, w)
    BY <1>0, <2>1, FocusOfQuiet
  <2>. QED  BY <2>2 DEF FocusedAlone
<1>3. inbox[a] = << >> /\ notes[a] = << >>
  BY <1>1, <1>2 DEF Quiet
<1>4. a \in threads => isFront[a] = (a = front) /\ mainSeen[a] = main[a]
  BY <1>2, <1>3, Settled
<1>5. a \in threads /\ isFront[a] => centre' = << >> /\ mainSeen[a] # w
  BY <1>1, <1>2, <1>4
<1>6. \A b \in App \ {front'} : Leaves(b)'
  BY <1>2
<1>7. OnlyTold(front)'
  BY <1>2 DEF OnlyTold
<1>. QED  BY <1>1, <1>2, <1>5, <1>6, <1>7 DEF OneFocus

LEMMA UserFocusesAim ==
  ASSUME FInv, NEW w \in Window, UserFocuses(w), ~doubt'
  PROVE  UserFocusing'
<1>. Base
  BY DEF FInv
<1>0. PICK a : a = Owner[w]
  OBVIOUS
<1>1. /\ Focuses(w) /\ aim' = w /\ Types /\ NewsCurrent /\ raised \in Nat
      /\ hurry' = IF Calm THEN FALSE ELSE hurry \/ ~Quiet
      /\ doubt' = IF Calm THEN FALSE ELSE doubt \/ (~Quiet /\ raised > 0)
      /\ UNCHANGED <<thinks, main, notes, threads, isFront, mainSeen, last, task, reactor, raised>>
  BY DEF Base, UserFocuses, threadVars, Types
<1>2. PICK on : on = [on |-> TRUE, win |-> w]
  OBVIOUS
<1>3. a \in App /\ front' = a /\ inbox'[a] = Append(inbox[a], on) /\ inbox[a] \in Seq(News) /\ on \in News
  <2>1. a \in App /\ front' = a /\ inbox'[a] = Append(inbox[a], on)
    <3>1. Focused(a, w)
      BY <1>0, <1>1, FocusEffect
    <3>. QED  BY <1>2, <3>1 DEF Focused
  <2>. QED  BY <1>1, <1>2, <2>1 DEF Types, News
<1>4. AimLast'
  <2>1. inbox'[a] # << >> /\ Last(inbox'[a]) = on
    BY <1>3, AppendFacts
  <2>. QED  BY <1>1, <1>2, <1>3, <2>1 DEF AimLast
<1>5. CASE Calm
  <2>1. OneFocus'
    BY <1>5, UserFocusesCalm
  <2>2. \A b \in App : AtRest(b)'
    BY <1>1, <1>5 DEF Calm, Quiet, AtRest
  <2>. QED  BY <1>4, <2>1, <2>2 DEF UserFocusing
<1>6. CASE ~Calm
  <2>1. ~doubt /\ AimInSight /\ (Quiet \/ raised = 0)
    <3>1. ~(doubt \/ (~Quiet /\ raised > 0))
      BY <1>1, <1>6
    <3>2. raised = 0 \/ raised > 0
      BY <1>1
    <3>. QED  BY <3>1, <3>2 DEF FInv
  <2>2. ~Quiet
    BY <1>6, <2>1, AllAtRest DEF Calm, AtRest
  <2>3. UserFocusing
    BY <2>1, <2>2 DEF AimInSight, Raising
  <2>4. \A b \in App : AtRest(b)'
    BY <1>1, <2>3 DEF UserFocusing, AtRest
  <2>5. ~(raised' > 0) /\ hurry'
    BY <1>1, <1>6, <2>1, <2>2
  <2>. QED  BY <1>4, <2>4, <2>5 DEF UserFocusing
<1>. QED  BY <1>5, <1>6

LEMMA NewsInside ==
  ASSUME Types, CentreTells
  PROVE  /\ Head(centre) \in ToSet(centre) /\ ToSet(centre') \subseteq ToSet(centre)
         /\ centre # << >>
<1>1. centre \in Seq([on : BOOLEAN, pid : App]) /\ centre # << >> /\ centre' = Tail(centre)
  BY DEF Types, CentreTells
<1>. QED  BY <1>1, TailFacts

LEMMA CentreUser ==
  ASSUME Base, UserFocusing, CentreTells
  PROVE  UserFocusing'
<1>0. PICK n : n = Head(centre)
  OBVIOUS
<1>1. /\ n \in [on : BOOLEAN, pid : App] /\ reactor'.apps = reactor.apps
      /\ reactor'.global = IF n.on THEN n.pid
                          ELSE IF reactor.global = n.pid THEN NoApp ELSE reactor.global
      /\ reactor'.selected = IF /\ n.on /\ n.pid \in threads
                               /\ ~reactor.apps[n.pid].quiet /\ reactor.apps[n.pid].frontmost
                            THEN reactor.apps[n.pid].main ELSE reactor.selected
  BY <1>0, CentreEffect DEF Base
<1>2. n \in ToSet(centre) /\ ToSet(centre') \subseteq ToSet(centre) /\ centre # << >>
  BY <1>0, NewsInside DEF Base
<1>3. UNCHANGED <<front, inbox, thinks, main, notes, threads, isFront, mainSeen, last, task,
                  raised, aim, hurry>>
  BY DEF CentreTells, worldVars, threadVars
<1>4. ASSUME OneFocus PROVE OneFocus'
  <2>1. n.on => n.pid = front
    BY <1>2, <1>4 DEF OneFocus, OnlyTold
  <2>2. front # NoApp
    BY ActivationAssumption DEF Base, Types
  <2>3. front \in threads => reactor.apps[front].frontmost = isFront[front] /\ reactor.apps[front].main = mainSeen[front]
    BY DEF Base, TrackerFollows
  <2>4. ASSUME front \in threads, isFront[front], reactor'.global = front, mainSeen[front] = aim
        PROVE  reactor'.selected = aim
    <3>1. CASE n.on
      BY <1>1, <1>2, <1>4, <2>1, <2>3, <2>4, <3>1 DEF OneFocus
    <3>2. CASE ~n.on
      BY <1>1, <1>4, <2>2, <2>4, <3>2 DEF OneFocus
    <3>. QED  BY <3>1, <3>2
  <2>5. \A b \in App \ {front} : Leaves(b)'
    BY <1>3, <1>4 DEF OneFocus, Leaves
  <2>6. OnlyTold(front)'
    BY <1>2, <1>3, <1>4 DEF OneFocus, OnlyTold
  <2>. QED  BY <1>1, <1>2, <1>3, <1>4, <2>4, <2>5, <2>6 DEF OneFocus
<1>5. AimLast'
  BY <1>3 DEF UserFocusing, AimLast
<1>6. \A b \in App : AtRest(b)'
  BY <1>3 DEF UserFocusing, AtRest
<1>. QED  BY <1>3, <1>4, <1>5, <1>6 DEF UserFocusing

LEMMA WidsLast ==
  ASSUME Types, NEW a \in App, task[a].pc # "idle", task[a].at = 1, ~Muted(a)
  PROVE  Last(task[a].wids) = task[a].wids[1] /\ ~task[a].quiet
<1>1. PICK s : s = task[a].wids
  OBVIOUS
<1>2. 1 \in DOMAIN s /\ s \in Seq(Window)
  BY <1>1 DEF Types
<1>3. DOMAIN s = 1..Len(s) /\ Len(s) \in Nat
  BY <1>2
<1>4. ~(Len(s) > 1) /\ ~task[a].quiet
  BY <1>1 DEF Muted
<1>5. Len(s) = 1
  BY <1>2, <1>3, <1>4
<1>. QED  BY <1>1, <1>4, <1>5 DEF Last

LEMMA CentreRaise ==
  ASSUME Base, NEW c \in App, Raising(c), CentreTells
  PROVE  Raising(c)'
<1>0. PICK n : n = Head(centre)
  OBVIOUS
<1>1. /\ n \in [on : BOOLEAN, pid : App] /\ reactor'.apps = reactor.apps
      /\ reactor'.selected = IF /\ n.on /\ n.pid \in threads
                               /\ ~reactor.apps[n.pid].quiet /\ reactor.apps[n.pid].frontmost
                            THEN reactor.apps[n.pid].main ELSE reactor.selected
  BY <1>0, CentreEffect DEF Base
<1>2. n \in ToSet(centre) /\ ToSet(centre') \subseteq ToSet(centre) /\ centre # << >>
  BY <1>0, NewsInside DEF Base
<1>3. UNCHANGED <<front, inbox, thinks, main, notes, threads, isFront, mainSeen, last, task,
                  raised, aim, hurry>>
  BY DEF CentreTells, worldVars, threadVars
<1>4. n.on => n.pid = c
  BY <1>2 DEF Raising, OnlyTold
<1>5. /\ c \in threads /\ reactor.apps[c].frontmost = isFront[c] /\ reactor.apps[c].main = mainSeen[c]
  BY DEF Base, TrackerFollows, Raising
<1>6. ~reactor.apps[c].quiet /\ isFront[c] => mainSeen[c] = aim
  <2>1. CASE RaiseDone(c)
    BY <1>2, <2>1 DEF RaiseDone
  <2>2. CASE RaiseWaits(c)
    BY <2>2 DEF RaiseWaits
  <2>3. CASE RaiseWoken(c)
    <3>1. ASSUME ~Muted(c) PROVE aim = task[c].wids[1]
      BY <2>3, <3>1, WidsLast DEF Base, Raising, RaiseWoken
    <3>. QED  BY <2>3, <3>1 DEF RaiseWoken
  <2>4. CASE RaiseGoesOn(c)
    BY <1>2, <2>4 DEF RaiseGoesOn
  <2>. QED  BY <2>1, <2>2, <2>3, <2>4 DEF Raising
<1>7. reactor'.selected = aim
  <2>1. reactor.selected = aim
    BY DEF Raising
  <2>. QED  BY <1>1, <1>4, <1>5, <1>6, <2>1
<1>8. \A b \in App \ {c} : Leaves(b)' /\ AtRest(b)'
  BY <1>3 DEF Raising, Leaves, AtRest
<1>9. OnlyTold(c)'
  BY <1>2 DEF Raising, OnlyTold
<1>10. (RaiseDone(c) \/ RaiseWaits(c) \/ RaiseWoken(c) \/ RaiseGoesOn(c))'
  <2>1. CASE RaiseDone(c)
    BY <1>1, <1>2, <1>3, <2>1 DEF RaiseDone, NothingNew, Activated
  <2>2. CASE RaiseWaits(c)
    BY <1>3, <2>2 DEF RaiseWaits, Muted, FirstNews
  <2>3. CASE RaiseWoken(c)
    BY <1>1, <1>3, <2>3 DEF RaiseWoken, Activated, Muted
  <2>4. CASE RaiseGoesOn(c)
    BY <1>1, <1>2, <1>3, <2>4 DEF RaiseGoesOn, NothingNew, Activated, FirstNews
  <2>. QED  BY <2>1, <2>2, <2>3, <2>4 DEF Raising
<1>. QED  BY <1>3, <1>7, <1>8, <1>9, <1>10 DEF Raising

LEMMA HearsUserFirst ==
  ASSUME Base, UserFocusing, OneFocus, NEW a \in App, AppHears(a)
  PROVE  OneFocus'
<1>0. PICK n : n = Head(inbox[a])
  OBVIOUS
<1>1. /\ n \in News /\ inbox[a] # << >> /\ inbox'[a] = Tail(inbox[a])
      /\ \A b \in App \ {a} : inbox'[b] = inbox[b] /\ notes'[b] = notes[b]
      /\ thinks' = [thinks EXCEPT ![a] = n.on]
      /\ main' = [main EXCEPT ![a] = IF n.on THEN n.win ELSE @]
      /\ a \notin threads => notes' = notes
      /\ a \in threads =>
           ToSet(notes'[a]) = ToSet(notes[a])
             \cup (IF n.on # thinks[a] THEN {"activation"} ELSE {})
             \cup (IF n.on /\ n.win # main[a] THEN {"main"} ELSE {})
      /\ UNCHANGED <<front, threads, isFront, mainSeen, centre, reactor, aim>>
  BY <1>0, HearsEffect DEF Base
<1>2. /\ front \in App /\ inbox[a] \in Seq(News) /\ thinks \in [App -> BOOLEAN]
      /\ \A b \in App \ threads : notes[b] = << >>
  BY DEF Base, Types
<1>3. n \in ToSet(inbox[a]) /\ ToSet(inbox'[a]) \subseteq ToSet(inbox[a])
      /\ Len(inbox'[a]) = Len(inbox[a]) - 1 /\ inbox'[a] \in Seq(News)
  BY <1>0, <1>1, <1>2, TailFacts
<1>4. ASSUME NEW b \in App \ {front} PROVE Leaves(b)'
  <2>1. Leaves(b)
    BY DEF OneFocus
  <2>2. CASE b = a
    <3>1. ~n.on /\ \A m \in ToSet(inbox'[b]) : ~m.on
      BY <1>3, <2>1, <2>2 DEF Leaves
    <3>2. ~thinks'[b]
      BY <1>1, <1>2, <2>2, <3>1
    <3>3. \A k \in ToSet(notes'[b]) : k = "activation"
      BY <1>1, <2>1, <2>2, <3>1 DEF Leaves
    <3>. QED  BY <3>1, <3>2, <3>3 DEF Leaves
  <2>3. CASE b # a
    BY <1>1, <1>2, <2>1, <2>3, LeavesKept
  <2>. QED  BY <2>2, <2>3
<1>5. Len(inbox'[front]) <= 1 /\ (notes'[front] # << >> => inbox'[front] = << >>)
  <2>1. CASE front = a
    <3>1. Len(inbox'[a]) <= 0 /\ Len(inbox'[a]) \in Nat
      <4>1. Len(inbox[a]) <= 1 /\ Len(inbox[a]) \in Nat
        BY <1>2, <2>1 DEF OneFocus
      <4>2. Len(inbox'[a]) \in Nat
        BY <1>3
      <4>. QED  BY <1>3, <4>1, <4>2
    <3>2. inbox'[a] = << >>
      BY <1>3, <3>1, EmptyFacts
    <3>. QED  BY <2>1, <3>1, <3>2
  <2>2. CASE front # a
    BY <1>1, <1>2, <2>2 DEF OneFocus
  <2>. QED  BY <2>1, <2>2
<1>6. \A b \in App \ {front'} : Leaves(b)'
  BY <1>1, <1>4
<1>7. OnlyTold(front)'
  BY <1>1 DEF OneFocus, OnlyTold
<1>. QED  BY <1>1, <1>5, <1>6, <1>7 DEF OneFocus

LEMMA HearsUser ==
  ASSUME Base, UserFocusing, NEW a \in App, AppHears(a)
  PROVE  UserFocusing'
<1>0. PICK n : n = Head(inbox[a])
  OBVIOUS
<1>1. /\ n \in News /\ inbox[a] # << >> /\ inbox'[a] = Tail(inbox[a])
      /\ \A b \in App \ {a} : inbox'[b] = inbox[b]
      /\ main' = [main EXCEPT ![a] = IF n.on THEN n.win ELSE @]
      /\ UNCHANGED <<front, last, task, raised, aim, hurry>>
  BY <1>0, HearsEffect DEF Base
<1>2. inbox[a] \in Seq(News) /\ front \in App /\ main \in [App -> Window]
  BY DEF Base, Types
<1>3. Last(inbox[a]) = IF inbox'[a] = << >> THEN n ELSE Last(inbox'[a])
  BY <1>0, <1>1, <1>2, TailFacts
<1>4. AimLast'
  <2>1. CASE a = front
    <3>1. Last(inbox[a]) = [on |-> TRUE, win |-> aim]
      BY <1>1, <2>1 DEF UserFocusing, AimLast
    <3>2. ASSUME inbox'[a] = << >> PROVE main'[a] = aim
      <4>1. n = [on |-> TRUE, win |-> aim]
        BY <1>3, <3>1, <3>2
      <4>2. n.on /\ n.win = aim
        BY <4>1
      <4>. QED  BY <1>1, <1>2, <4>2
    <3>. QED  BY <1>1, <1>3, <2>1, <3>1, <3>2 DEF AimLast
  <2>2. CASE a # front
    BY <1>1, <1>2, <2>2 DEF UserFocusing, AimLast
  <2>. QED  BY <2>1, <2>2
<1>5. \A b \in App : AtRest(b)'
  BY <1>1 DEF UserFocusing, AtRest
<1>6. (raised > 0 \/ ~hurry => OneFocus)'
  BY <1>1, HearsUserFirst DEF UserFocusing
<1>. QED  BY <1>4, <1>5, <1>6 DEF UserFocusing

LEMMA HearsRaise ==
  ASSUME Base, NEW c \in App, Raising(c), NEW a \in App, AppHears(a)
  PROVE  Raising(c)'
<1>0. PICK n : n = Head(inbox[a])
  OBVIOUS
<1>1. /\ n \in News /\ inbox[a] # << >> /\ inbox'[a] = Tail(inbox[a])
      /\ \A b \in App \ {a} : inbox'[b] = inbox[b] /\ notes'[b] = notes[b]
      /\ thinks' = [thinks EXCEPT ![a] = n.on]
      /\ main' = [main EXCEPT ![a] = IF n.on THEN n.win ELSE @]
      /\ a \in threads =>
           ToSet(notes'[a]) = ToSet(notes[a])
             \cup (IF n.on # thinks[a] THEN {"activation"} ELSE {})
             \cup (IF n.on /\ n.win # main[a] THEN {"main"} ELSE {})
      /\ UNCHANGED <<threads, isFront, mainSeen, last, task, centre, reactor, raised, aim>>
  BY <1>0, HearsEffect DEF Base
<1>2. /\ inbox[a] \in Seq(News) /\ thinks \in [App -> BOOLEAN] /\ main \in [App -> Window]
      /\ threads = App
  BY DEF Base, Types, Raising
<1>3. n \in ToSet(inbox[a]) /\ ToSet(inbox'[a]) \subseteq ToSet(inbox[a])
  BY <1>0, <1>1, <1>2, TailFacts
<1>4. ASSUME NEW b \in App \ {c} PROVE Leaves(b)'
  <2>1. Leaves(b)
    BY DEF Raising
  <2>2. CASE b = a
    <3>1. ~n.on /\ \A m \in ToSet(inbox'[b]) : ~m.on
      BY <1>3, <2>1, <2>2 DEF Leaves
    <3>2. ~thinks'[b]
      BY <1>1, <1>2, <2>2, <3>1
    <3>3. \A k \in ToSet(notes'[b]) : k = "activation"
      BY <1>1, <1>2, <2>1, <2>2, <3>1 DEF Leaves
    <3>. QED  BY <3>1, <3>2, <3>3 DEF Leaves
  <2>3. CASE b # a
    BY <1>1, <1>2, <2>1, <2>3, LeavesKept
  <2>. QED  BY <2>2, <2>3
<1>5. (RaiseDone(c) \/ RaiseWaits(c) \/ RaiseWoken(c) \/ RaiseGoesOn(c))'
  <2>1. CASE c # a
    <3>1. inbox'[c] = inbox[c] /\ notes'[c] = notes[c] /\ thinks'[c] = thinks[c] /\ main'[c] = main[c]
      BY <1>1, <1>2, <2>1
    <3>. QED  BY <1>1, <3>1 DEF Raising, RaiseDone, RaiseWaits, RaiseWoken, RaiseGoesOn, Activated,
                Muted, FirstNews, NothingNew
  <2>2. CASE c = a
    <3>1. RaiseDone(c) \/ RaiseWaits(c) \/ RaiseGoesOn(c)
      BY <1>1, <2>2 DEF Raising, RaiseWoken
    <3>2. CASE RaiseDone(c) \/ (RaiseGoesOn(c) /\ task[c].at # 1)
      <4>1. NothingNew(c)
        BY <3>2 DEF RaiseDone, RaiseGoesOn
      <4>2. inbox[c] = << [on |-> TRUE, win |-> main[c]] >>
        BY <1>1, <2>2, <4>1 DEF NothingNew
      <4>3. n.on /\ n.win = main[c] /\ inbox'[c] = << >>
        BY <1>0, <1>1, <2>2, <4>2
      <4>4. thinks'[c] /\ main'[c] = main[c]
        BY <1>1, <1>2, <2>2, <4>3
      <4>. QED  BY <1>1, <3>2, <4>3, <4>4 DEF RaiseDone, RaiseGoesOn, NothingNew, Activated
    <3>3. CASE RaiseWaits(c) \/ (RaiseGoesOn(c) /\ task[c].at = 1)
      <4>1. FirstNews(c)
        BY <1>1, <2>2, <3>3 DEF RaiseWaits, RaiseGoesOn
      <4>2. inbox[c] = << [on |-> TRUE, win |-> task[c].wids[1]] >>
        BY <1>1, <2>2, <4>1 DEF FirstNews
      <4>3. n.on /\ n.win = task[c].wids[1] /\ inbox'[c] = << >>
        BY <1>0, <1>1, <2>2, <4>2
      <4>4. thinks'[c] /\ main'[c] = task[c].wids[1]
        BY <1>1, <1>2, <2>2, <4>3
      <4>5. CASE RaiseWaits(c)
        BY <1>1, <4>3, <4>4, <4>5 DEF RaiseWaits, Muted
      <4>6. CASE RaiseGoesOn(c)
        BY <1>1, <3>3, <4>3, <4>4, <4>6 DEF RaiseWaits, RaiseGoesOn, Activated, FirstNews
      <4>. QED  BY <3>3, <4>5, <4>6
    <3>. QED  BY <3>1, <3>2, <3>3
  <2>. QED  BY <2>1, <2>2
<1>6. \A b \in App \ {c} : AtRest(b)'
  BY <1>1 DEF Raising, AtRest
<1>7. OnlyTold(c)'
  BY <1>1 DEF Raising, OnlyTold
<1>. QED  BY <1>1, <1>4, <1>5, <1>6, <1>7 DEF Raising

(* A thread that starts reports the app that has the focus. *)
LEMMA StartsUser ==
  ASSUME Base, UserFocusing, NEW a \in App, ThreadStarts(a), ~doubt'
  PROVE  UserFocusing'
<1>1. /\ a \notin threads /\ threads' = threads \cup {a} /\ reactor'.global = reactor.global
      /\ reactor'.apps[a] = [frontmost |-> thinks[a], quiet |-> FALSE, main |-> main[a]]
      /\ \A b \in threads : reactor'.apps[b] = reactor.apps[b]
      /\ reactor'.selected = IF a = reactor.global /\ thinks[a] THEN main[a] ELSE reactor.selected
  BY StartsEffect DEF Base
<1>2. /\ isFront' = [isFront EXCEPT ![a] = thinks[a]] /\ mainSeen' = [mainSeen EXCEPT ![a] = main[a]]
      /\ inbox[a] = << >>
      /\ UNCHANGED <<front, inbox, thinks, main, notes, last, task, centre, raised, aim, hurry>>
  BY DEF ThreadStarts, worldVars
<1>3. DOMAIN isFront = App /\ DOMAIN mainSeen = App /\ front \in App
  BY DEF Base, Types
<1>4. AimLast' /\ \A b \in App : AtRest(b)'
  BY <1>2 DEF UserFocusing, AimLast, AtRest
<1>5. a = front => main[a] = aim
  BY <1>2 DEF UserFocusing, AimLast
<1>6. ASSUME OneFocus PROVE OneFocus'
  <2>1. ASSUME front \in threads', isFront'[front]
        PROVE  /\ centre # << >> => mainSeen'[front] = aim /\ ~reactor'.apps[front].quiet
               /\ reactor.global = front /\ mainSeen'[front] = aim => reactor'.selected = aim
    <3>1. CASE front = a
      BY <1>1, <1>2, <1>3, <1>5, <2>1, <3>1
    <3>2. CASE front # a
      <4>1. front \in threads /\ isFront[front] /\ mainSeen'[front] = mainSeen[front]
            /\ reactor'.apps[front] = reactor.apps[front]
        BY <1>1, <1>2, <1>3, <2>1, <3>2
      <4>2. reactor.global = front => reactor'.selected = reactor.selected
        BY <1>1, <3>2
      <4>. QED  BY <1>6, <4>1, <4>2 DEF OneFocus
    <3>. QED  BY <3>1, <3>2
  <2>2. \A b \in App \ {front} : Leaves(b)'
    BY <1>2, <1>6 DEF OneFocus, Leaves
  <2>3. OnlyTold(front)'
    BY <1>2, <1>6 DEF OneFocus, OnlyTold
  <2>. QED  BY <1>1, <1>2, <1>6, <2>1, <2>2, <2>3 DEF OneFocus
<1>. QED  BY <1>2, <1>4, <1>6 DEF UserFocusing

(* A thread that handles a notification of its app's main window. *)
LEMMA MainChangedUser ==
  ASSUME Base, UserFocusing, NEW a \in App, HandleMainChanged(a)
  PROVE  UserFocusing'
<1>1. /\ a \in threads /\ mainSeen' = [mainSeen EXCEPT ![a] = main[a]]
      /\ reactor' \in Trackers(threads) /\ reactor'.global = reactor.global
      /\ reactor'.apps = [reactor.apps EXCEPT ![a].main = main[a]]
      /\ \/ reactor'.selected = reactor.selected
         \/ /\ reactor'.selected = main[a] /\ main[a] # mainSeen[a]
            /\ a = reactor.global /\ isFront[a]
      /\ ~Taken(a) /\ main[a] # mainSeen[a] /\ a = reactor.global /\ isFront[a] =>
           reactor'.selected = main[a]
  BY MainChangedEffect DEF Base
<1>2. /\ notes[a] # << >> /\ Head(notes[a]) = "main" /\ notes' = [notes EXCEPT ![a] = Tail(@)]
      /\ \A b \in App : last'[b].live = last[b].live
      /\ UNCHANGED <<front, inbox, thinks, main, threads, isFront, task, centre, raised, aim, hurry>>
  <2>1. /\ notes[a] # << >> /\ Head(notes[a]) = "main" /\ notes' = [notes EXCEPT ![a] = Tail(@)]
        /\ \E t : last' = [last EXCEPT ![a].win = t]
        /\ UNCHANGED <<front, inbox, thinks, main, threads, isFront, task, centre, raised, aim, hurry>>
    BY DEF HandleMainChanged, worldVars
  <2>2. last \in [App -> [quiet : BOOLEAN, win : Window \cup {NoWindow}, live : BOOLEAN, set : BOOLEAN]]
    BY DEF Base, Types
  <2>. QED  BY <2>1, <2>2
<1>3. DOMAIN mainSeen = App /\ front \in App /\ threads \subseteq App
  BY DEF Base, Types
<1>4. AimLast' /\ \A b \in App : AtRest(b)'
  BY <1>2 DEF UserFocusing, AimLast, AtRest
<1>5. ASSUME OneFocus PROVE OneFocus'
  <2>1. "main" \in ToSet(notes[a]) /\ ToSet(notes'[a]) \subseteq ToSet(notes[a])
        /\ \A b \in App \ {a} : notes'[b] = notes[b]
    BY <1>2, NoteEffect DEF Base
  <2>2. a = front
    BY <1>3, <1>5, <2>1 DEF OneFocus, Leaves
  <2>3. main[a] = aim
    <3>1. inbox[a] = << >>
      BY <1>2, <1>5, <2>2 DEF OneFocus
    <3>. QED  BY <2>2, <3>1 DEF UserFocusing, AimLast
  <2>4. ~Taken(a)
    BY DEF UserFocusing, AtRest, Taken
  <2>5. mainSeen'[front] = aim
    BY <1>1, <1>3, <2>2, <2>3
  <2>6. reactor'.apps[a].quiet = reactor.apps[a].quiet
    BY <1>1 DEF Base, Types, Trackers, AppStates
  <2>7. ASSUME isFront[a]
        PROVE  /\ centre # << >> => ~reactor'.apps[a].quiet
               /\ reactor'.global = a => reactor'.selected = aim
    <3>1. CASE main[a] = mainSeen[a]
      BY <1>1, <1>5, <2>2, <2>3, <2>6, <2>7, <3>1 DEF OneFocus
    <3>2. CASE main[a] # mainSeen[a]
      BY <1>1, <1>5, <2>2, <2>3, <2>4, <2>6, <2>7, <3>2 DEF OneFocus
    <3>. QED  BY <3>1, <3>2
  <2>8. \A b \in App \ {front} : Leaves(b)'
    <3>1. \A b \in App \ {front} : Leaves(b)
      BY <1>5 DEF OneFocus
    <3>. QED  BY <1>2, <2>1, <2>2, <3>1, LeavesKept
  <2>9. Len(inbox[front]) <= 1 /\ (notes'[front] # << >> => inbox[front] = << >>)
    BY <1>2, <1>5, <2>2 DEF OneFocus
  <2>10. OnlyTold(front)'
    BY <1>2, <1>5 DEF OneFocus, OnlyTold
  <2>. QED  BY <1>2, <2>2, <2>5, <2>7, <2>8, <2>9, <2>10 DEF OneFocus
<1>. QED  BY <1>2, <1>4, <1>5 DEF UserFocusing

LEMMA MainChangedRaise ==
  ASSUME Base, NEW c \in App, Raising(c), NEW a \in App, HandleMainChanged(a)
  PROVE  Raising(c)'
<1>1. /\ mainSeen' = [mainSeen EXCEPT ![a] = main[a]]
      /\ reactor'.apps = [reactor.apps EXCEPT ![a].main = main[a]]
      /\ \/ reactor'.selected = reactor.selected
         \/ /\ reactor'.selected = main[a] /\ main[a] # mainSeen[a]
            /\ a = reactor.global /\ isFront[a]
  BY MainChangedEffect DEF Base
<1>2. /\ notes[a] # << >> /\ Head(notes[a]) = "main" /\ notes' = [notes EXCEPT ![a] = Tail(@)]
      /\ \A b \in App : last'[b].live = last[b].live /\ last'[b].set = last[b].set
                        /\ last'[b].quiet = last[b].quiet
      /\ task[a].pc # "raising"
      /\ UNCHANGED <<inbox, thinks, main, threads, isFront, task, centre, raised, aim>>
  <2>1. /\ notes[a] # << >> /\ Head(notes[a]) = "main" /\ notes' = [notes EXCEPT ![a] = Tail(@)]
        /\ \E t : last' = [last EXCEPT ![a].win = t]
        /\ task[a].pc # "raising"
        /\ UNCHANGED <<inbox, thinks, main, threads, isFront, task, centre, raised, aim>>
    BY DEF HandleMainChanged, worldVars, Listens
  <2>2. last \in [App -> [quiet : BOOLEAN, win : Window \cup {NoWindow}, live : BOOLEAN, set : BOOLEAN]]
    BY DEF Base, Types
  <2>. QED  BY <2>1, <2>2
<1>3. DOMAIN mainSeen = App /\ threads = App
  BY DEF Base, Types, Raising
<1>4. "main" \in ToSet(notes[a]) /\ \A b \in App \ {a} : notes'[b] = notes[b]
  BY <1>2, NoteEffect DEF Base
<1>5. a = c
  BY <1>4 DEF Raising, Leaves
<1>6. RaiseDone(c) \/ RaiseWaits(c) \/ RaiseWoken(c)
  BY <1>2, <1>5 DEF Raising, RaiseGoesOn
<1>7. reactor'.selected = aim
  <2>1. main[a] = mainSeen[a] \/ ~isFront[a]
    BY <1>5, <1>6 DEF RaiseDone, RaiseWaits, RaiseWoken
  <2>. QED  BY <1>1, <2>1 DEF Raising
<1>8. reactor'.apps[c].quiet = reactor.apps[c].quiet
  BY <1>1, <1>3 DEF Base, Types, Trackers, AppStates
<1>9. mainSeen'[c] = main[c]
  BY <1>1, <1>3, <1>5
<1>10. (RaiseDone(c) \/ RaiseWaits(c) \/ RaiseWoken(c))'
  <2>1. CASE RaiseDone(c)
    BY <1>2, <1>8, <1>9, <2>1 DEF RaiseDone, NothingNew, Activated
  <2>2. CASE RaiseWaits(c)
    <3>1. thinks[c]
      BY <1>2, <1>5, <2>2 DEF RaiseWaits
    <3>. QED  BY <1>2, <2>2, <3>1 DEF RaiseWaits, Muted
  <2>3. CASE RaiseWoken(c)
    BY <1>2, <1>8, <1>9, <2>3 DEF RaiseWoken, Activated, Muted
  <2>. QED  BY <1>6, <2>1, <2>2, <2>3
<1>11. \A b \in App \ {c} : Leaves(b)' /\ AtRest(b)'
  <2>1. \A b \in App \ {c} : Leaves(b) /\ AtRest(b)
    BY DEF Raising
  <2>2. \A b \in App \ {c} : notes'[b] = notes[b] /\ inbox'[b] = inbox[b] /\ thinks'[b] = thinks[b]
    BY <1>2, <1>4, <1>5
  <2>3. \A b \in App \ {c} : task'[b] = task[b] /\ last'[b].live = last[b].live
    BY <1>2
  <2>. QED  BY <2>1, <2>2, <2>3, LeavesKept, RestKept
<1>12. OnlyTold(c)'
  BY <1>2 DEF Raising, OnlyTold
<1>. QED  BY <1>2, <1>7, <1>10, <1>11, <1>12 DEF Raising

(* A thread that handles a notification of an activation. *)
LEMMA ActivationUser ==
  ASSUME Base, UserFocusing, NEW a \in App, HandleActivation(a)
  PROVE  UserFocusing'
<1>1. ActivationHandled(a)
  BY ActivationFacts DEF Base
<1>2. /\ a \in threads /\ isFront'[a] = thinks[a]
      /\ mainSeen'[a] = IF thinks[a] THEN main[a] ELSE mainSeen[a]
      /\ \A b \in App \ {a} : isFront'[b] = isFront[b] /\ mainSeen'[b] = mainSeen[b]
      /\ notes[a] # << >>
      /\ UNCHANGED <<front, inbox, thinks, main, threads, centre, raised, aim, hurry>>
  BY <1>1 DEF ActivationHandled, worldVars
<1>3. /\ reactor'.global = reactor.global
      /\ \A b \in threads \ {a} : reactor'.apps[b] = reactor.apps[b]
      /\ reactor'.apps[a].quiet =
           IF thinks[a] /\ ~isFront[a] THEN Ours(a) ELSE reactor.apps[a].quiet
      /\ \/ reactor'.selected = reactor.selected
         \/ /\ reactor'.selected = main[a] /\ thinks[a] /\ a = reactor.global
            /\ main[a] # mainSeen[a] \/ ~isFront[a]
      /\ thinks[a] /\ a = reactor.global /\ ~isFront[a] /\ ~Ours(a) =>
           reactor'.selected = main[a]
      /\ isFront[a] /\ thinks[a] /\ a = reactor.global /\ main[a] # mainSeen[a] /\ ~Taken(a) =>
           reactor'.selected = main[a]
  BY <1>2, ActivationEffect DEF Base
<1>4. front \in App /\ threads \subseteq App
  BY DEF Base, Types
<1>5. ~Taken(a) /\ ~Ours(a)
  BY <1>4, <1>2 DEF UserFocusing, AtRest, Taken, Ours
<1>6. \A b \in App : AtRest(b)'
  <2>1. \A b \in App : AtRest(b)
    BY DEF UserFocusing
  <2>2. \A b \in App : task'[b] = task[b] /\ (last'[b].live = last[b].live \/ ~last'[b].live)
    BY <1>1, <1>2, <1>5 DEF ActivationHandled
  <2>. QED  BY <2>1, <2>2 DEF AtRest
<1>7. AimLast'
  BY <1>2 DEF UserFocusing, AimLast
<1>8. ASSUME OneFocus PROVE OneFocus'
  <2>1. ToSet(notes'[a]) \subseteq ToSet(notes[a]) /\ (\A b \in App \ {a} : notes'[b] = notes[b])
    BY <1>1 DEF ActivationHandled
  <2>2. ASSUME NEW b \in App \ {front} PROVE Leaves(b)'
    <3>1. Leaves(b)
      BY <1>8 DEF OneFocus
    <3>2. CASE b = a
      BY <1>2, <2>1, <3>1, <3>2 DEF Leaves
    <3>3. CASE b # a
      BY <1>2, <2>1, <3>1, <3>3, LeavesKept
    <3>. QED  BY <3>2, <3>3
  <2>3. notes'[front] # << >> => inbox[front] = << >>
    <3>1. notes[front] # << >> => inbox[front] = << >>
      BY <1>8 DEF OneFocus
    <3>. QED  BY <1>2, <1>4, <2>1, <3>1
  <2>4. ASSUME front \in threads, isFront'[front]
        PROVE  /\ centre # << >> => mainSeen'[front] = aim /\ ~reactor'.apps[front].quiet
               /\ reactor.global = front /\ mainSeen'[front] = aim => reactor'.selected = aim
    <3>1. CASE a = front
      <4>1. thinks[a] /\ inbox[a] = << >>
        BY <1>2, <1>8, <2>4, <3>1 DEF OneFocus
      <4>2. main[a] = aim /\ mainSeen'[a] = aim
        BY <1>2, <3>1, <4>1 DEF UserFocusing, AimLast
      <4>3. CASE isFront[a]
        <5>1. /\ centre # << >> => ~reactor.apps[a].quiet
              /\ reactor.global = a /\ mainSeen[a] = aim => reactor.selected = aim
          BY <1>2, <1>8, <3>1, <4>3 DEF OneFocus
        <5>2. centre # << >> => ~reactor'.apps[a].quiet
          BY <1>3, <4>3, <5>1
        <5>3. reactor.global = a => reactor'.selected = aim
          <6>1. CASE mainSeen[a] = aim
            BY <1>3, <4>2, <5>1, <6>1
          <6>2. CASE mainSeen[a] # aim
            BY <1>3, <1>5, <4>1, <4>2, <4>3, <6>2
          <6>. QED  BY <6>1, <6>2
        <5>. QED  BY <3>1, <4>2, <5>2, <5>3
      <4>4. CASE ~isFront[a]
        BY <1>3, <1>5, <3>1, <4>1, <4>2, <4>4
      <4>. QED  BY <4>3, <4>4
    <3>2. CASE a # front
      <4>1. /\ front \in threads /\ isFront[front] /\ mainSeen'[front] = mainSeen[front]
            /\ reactor'.apps[front] = reactor.apps[front]
        BY <1>2, <1>3, <1>4, <2>4, <3>2
      <4>2. ~thinks[a]
        BY <1>2, <1>4, <1>8, <3>2 DEF OneFocus, Leaves
      <4>3. reactor'.selected = reactor.selected
        BY <1>3, <4>2
      <4>. QED  BY <1>8, <4>1, <4>3 DEF OneFocus
    <3>. QED  BY <3>1, <3>2
  <2>5. OnlyTold(front)'
    BY <1>2, <1>8 DEF OneFocus, OnlyTold
  <2>. QED  BY <1>2, <1>3, <1>8, <2>2, <2>3, <2>4, <2>5 DEF OneFocus
<1>. QED  BY <1>2, <1>6, <1>7, <1>8 DEF UserFocusing

LEMMA ActivationRaise ==
  ASSUME Base, NEW c \in App, Raising(c), NEW a \in App, HandleActivation(a)
  PROVE  Raising(c)'
<1>1. ActivationHandled(a)
  BY ActivationFacts DEF Base
<1>2. /\ a \in threads /\ isFront'[a] = thinks[a] /\ task[a].pc # "raising"
      /\ mainSeen'[a] = IF thinks[a] THEN main[a] ELSE mainSeen[a]
      /\ \A b \in App \ {a} : isFront'[b] = isFront[b] /\ mainSeen'[b] = mainSeen[b]
      /\ notes[a] # << >>
      /\ UNCHANGED <<front, inbox, thinks, main, threads, centre, raised, aim, hurry>>
  BY <1>1 DEF ActivationHandled, worldVars
<1>3. /\ \A b \in threads \ {a} : reactor'.apps[b] = reactor.apps[b]
      /\ reactor'.apps[a].quiet =
           IF thinks[a] /\ ~isFront[a] THEN Ours(a) ELSE reactor.apps[a].quiet
      /\ \/ reactor'.selected = reactor.selected
         \/ /\ reactor'.selected = main[a] /\ thinks[a] /\ a = reactor.global
            /\ main[a] # mainSeen[a] \/ ~isFront[a]
      /\ ~isFront[a] /\ Ours(a) => reactor'.selected = reactor.selected
  BY <1>2, ActivationEffect DEF Base
<1>4. /\ \A b \in App \ {a} : task'[b] = task[b] /\ last'[b] = last[b]
      /\ IF thinks[a] THEN ~last'[a].live ELSE last'[a] = last[a]
      /\ task'[a].wids = task[a].wids /\ task'[a].quiet = task[a].quiet /\ task'[a].at = task[a].at
      /\ IF thinks[a] /\ Taken(a) /\ task[a].pc = "waiting"
         THEN task'[a].pc = "woken" ELSE task'[a] = task[a]
  BY <1>1 DEF ActivationHandled
<1>5. ToSet(notes'[a]) \subseteq ToSet(notes[a]) /\ (\A b \in App \ {a} : notes'[b] = notes[b])
  BY <1>1 DEF ActivationHandled
<1>6. ASSUME NEW b \in App \ {c} PROVE Leaves(b)' /\ AtRest(b)'
  <2>1. Leaves(b) /\ AtRest(b)
    BY DEF Raising
  <2>2. CASE b = a
    <3>1. ~thinks[a] /\ task'[a] = task[a] /\ last'[a] = last[a]
      BY <1>2, <1>4, <2>1, <2>2 DEF Leaves
    <3>2. Leaves(b)'
      BY <1>2, <1>5, <2>1, <2>2, <3>1 DEF Leaves
    <3>. QED  BY <2>1, <2>2, <3>1, <3>2, RestKept
  <2>3. CASE b # a
    BY <1>2, <1>4, <1>5, <2>1, <2>3, LeavesKept, RestKept
  <2>. QED  BY <2>2, <2>3
<1>7. OnlyTold(c)'
  BY <1>2 DEF Raising, OnlyTold
<1>8. threads = App /\ reactor.selected = aim /\ (task[c].pc # "idle" /\ ~task[c].quiet => aim = Last(task[c].wids))
  BY DEF Raising
<1>9. CASE a # c
  <2>1. ~thinks[a]
    BY <1>2, <1>9 DEF Raising, Leaves
  <2>2. reactor'.selected = aim
    BY <1>3, <1>8, <2>1
  <2>3. /\ isFront'[c] = isFront[c] /\ mainSeen'[c] = mainSeen[c] /\ task'[c] = task[c]
        /\ last'[c] = last[c] /\ notes'[c] = notes[c] /\ reactor'.apps[c] = reactor.apps[c]
    BY <1>2, <1>3, <1>4, <1>5, <1>8, <1>9
  <2>4. (RaiseDone(c) \/ RaiseWaits(c) \/ RaiseWoken(c) \/ RaiseGoesOn(c))'
    BY <1>2, <2>3 DEF Raising, RaiseDone, RaiseWaits, RaiseWoken, RaiseGoesOn, NothingNew, Activated, Muted, FirstNews
  <2>. QED  BY <1>2, <1>6, <1>7, <1>8, <2>2, <2>3, <2>4 DEF Raising
<1>10. CASE a = c
  <2>1. RaiseDone(c) \/ RaiseWaits(c) \/ RaiseWoken(c)
    BY <1>2, <1>10 DEF Raising, RaiseGoesOn
  <2>2. task'[c].pc # "idle" /\ ~task'[c].quiet => aim = Last(task'[c].wids)
    BY <1>4, <1>8, <1>10
  <2>3. ASSUME RaiseDone(c) \/ RaiseWoken(c) PROVE Raising(c)'
    <3>1. thinks[c] /\ isFront[c] /\ mainSeen[c] = main[c] /\ ~last[c].live
      BY <2>3 DEF RaiseDone, RaiseWoken, Activated
    <3>2. task'[c] = task[c] /\ mainSeen'[c] = main[c] /\ isFront'[c] /\ ~last'[c].live
          /\ reactor'.apps[c].quiet = reactor.apps[c].quiet
      BY <1>2, <1>3, <1>4, <1>10, <3>1 DEF Taken
    <3>3. reactor'.selected = aim
      BY <1>3, <1>8, <1>10, <3>1
    <3>4. (RaiseDone(c) \/ RaiseWoken(c))'
      <4>1. CASE RaiseDone(c)
        BY <1>2, <3>1, <3>2, <4>1 DEF RaiseDone, NothingNew, Activated
      <4>2. CASE RaiseWoken(c)
        BY <1>2, <3>1, <3>2, <4>2 DEF RaiseWoken, Activated, Muted
      <4>. QED  BY <2>3, <4>1, <4>2
    <3>. QED  BY <1>2, <1>6, <1>7, <1>8, <2>2, <3>3, <3>4 DEF Raising
  <2>4. ASSUME RaiseWaits(c) PROVE Raising(c)'
    <3>1. /\ thinks[c] /\ ~isFront[c] /\ inbox[c] = << >> /\ main[c] = task[c].wids[1]
          /\ task[c].pc = "waiting" /\ task[c].at = 1 /\ Taken(c) /\ last[c].quiet = Muted(c)
      BY <1>2, <1>10, <2>4 DEF RaiseWaits, Taken
    <3>2. Ours(c) = Muted(c)
      BY <3>1 DEF Ours, Muted
    <3>3. task'[c].pc = "woken" /\ task'[c].at = 1 /\ task'[c].wids = task[c].wids
          /\ task'[c].quiet = task[c].quiet /\ ~last'[c].live
      BY <1>4, <1>10, <3>1
    <3>4. /\ isFront'[c] /\ mainSeen'[c] = main[c] /\ reactor'.apps[c].quiet = Muted(c)
      BY <1>2, <1>3, <1>10, <3>1, <3>2
    <3>5. reactor'.selected = aim
      <4>1. CASE Muted(c)
        BY <1>3, <1>8, <1>10, <3>1, <3>2, <4>1
      <4>2. CASE ~Muted(c)
        <5>1. main[c] = aim
          BY <1>8, <3>1, <4>2, WidsLast DEF Base
        <5>. QED  BY <1>3, <1>8, <1>10, <5>1
      <4>. QED  BY <4>1, <4>2
    <3>6. RaiseWoken(c)'
      BY <1>2, <3>1, <3>3, <3>4 DEF RaiseWoken, Activated, Muted
    <3>. QED  BY <1>2, <1>6, <1>7, <1>8, <2>2, <3>5, <3>6 DEF Raising
  <2>. QED  BY <2>1, <2>3, <2>4
<1>. QED  BY <1>9, <1>10

(* A raise that is made when all is quiet. *)
LEMMA MakesKeyAim ==
  ASSUME FInv, NEW a \in App, NEW wids \in RaiseLists(a), NEW quiet \in BOOLEAN,
         NEW works \in BOOLEAN, RaiseMakesKey(a, wids, quiet, works), ~doubt'
  PROVE  Raising(a)'
<1>. Base /\ Types /\ NewsCurrent
  BY DEF FInv, Base
<1>1. KeyMade(a, wids, quiet, works)
  BY MakesKeyEffect
<1>2. ~doubt /\ Quiet /\ threads = App /\ (thinks[a] \/ wids[1] \notin NonStandard)
  BY <1>1 DEF KeyMade
<1>3. reactor.selected = aim /\ \A b \in App : AtRest(b)
  <2>1. AimInSight /\ SelectionArrives
    BY <1>2, Arrived DEF FInv
  <2>. QED  BY <1>2, <2>1, AllAtRest DEF SelectionArrives
<1>4. wids[1] \in Window /\ Owner[wids[1]] = a
  BY RaiseListFacts
<1>5. /\ reactor'.global = reactor.global
      /\ reactor'.selected = IF quiet THEN reactor.selected ELSE Last(wids)
      /\ aim' = IF quiet THEN aim ELSE Last(wids)
      /\ raised' = raised + 1
      /\ UNCHANGED <<thinks, notes, threads, isFront>>
      /\ \A b \in App \ {a} : task'[b] = task[b] /\ last'[b] = last[b]
  BY <1>1 DEF KeyMade
<1>6. /\ inbox'[a] = << >> \/ inbox'[a] = << [on |-> TRUE, win |-> wids[1]] >>
      /\ (\A b \in App \ {a} : Leaves(b)') /\ OnlyTold(a)'
      /\ a = front => centre' = << >>
  <2>1. CASE works
    <3>1. Focuses(wids[1])
      BY <1>1, <2>1 DEF KeyMade
    <3>2. PICK w \in Window : w = wids[1]
      BY <1>4
    <3>3. Focuses(w) /\ a = Owner[w] /\ UNCHANGED thinks /\ UNCHANGED notes
      BY <1>4, <1>5, <3>1, <3>2
    <3>4. FocusedAlone(a, w)
      BY <1>2, <1>5, <3>3, FocusOfQuiet
    <3>. QED  BY <3>2, <3>4 DEF FocusedAlone
  <2>2. CASE ~works
    <3>1. UNCHANGED <<inbox, centre>>
      BY <1>1, <2>2 DEF KeyMade
    <3>2. centre = << >> /\ \A b \in App : inbox[b] = << >> /\ notes[b] = << >>
      BY <1>2 DEF Quiet
    <3>3. \A b \in App : Leaves(b)'
      BY <1>5, <3>1, <3>2, NothingInside DEF Leaves
    <3>4. OnlyTold(a)'
      BY <3>1, <3>2, NothingInside DEF OnlyTold
    <3>. QED  BY <3>1, <3>2, <3>3, <3>4
  <2>. QED  BY <2>1, <2>2
<1>7. PICK k : k = IF ~thinks[a] /\ wids[1] \notin NonStandard THEN "waiting" ELSE "raising"
  OBVIOUS
<1>8. task'[a].pc = k /\ task'[a].wids = wids /\ task'[a].quiet = quiet /\ task'[a].at = 1
  BY <1>1, <1>7 DEF KeyMade
<1>9. inbox[a] = << >> /\ notes[a] = << >> /\ isFront[a] = thinks[a] /\ thinks[a] = (a = front)
  <2>1. inbox[a] = << >> /\ notes[a] = << >>
    BY <1>2 DEF Quiet
  <2>. QED  BY <1>2, <2>1, Settled
<1>10. FirstNews(a)'
  BY <1>6, <1>8 DEF FirstNews
<1>11. RaiseWaits(a)' \/ RaiseGoesOn(a)'
  <2>1. CASE thinks[a]
    <3>1. last' = last /\ k = "raising"
      BY <1>1, <1>7, <2>1 DEF KeyMade
    <3>2. thinks'[a] /\ isFront'[a] /\ ~last'[a].live /\ centre' = << >>
      BY <1>3, <1>5, <1>6, <1>9, <2>1, <3>1 DEF AtRest
    <3>. QED  BY <1>8, <1>10, <3>1, <3>2 DEF RaiseGoesOn, Activated
  <2>2. CASE ~thinks[a]
    <3>1. /\ last'[a].quiet = (quiet \/ Len(wids) > 1) /\ last'[a].live /\ last'[a].set
          /\ k = "waiting"
      BY <1>1, <1>2, <1>7, <2>2 DEF KeyMade
    <3>2. ~thinks'[a] /\ ~isFront'[a] /\ notes'[a] = << >>
      BY <1>5, <1>9, <2>2
    <3>3. last'[a].quiet = Muted(a)'
      BY <1>8, <3>1 DEF Muted
    <3>. QED  BY <1>8, <1>10, <3>1, <3>2, <3>3 DEF RaiseWaits
  <2>. QED  BY <2>1, <2>2
<1>12. \A b \in App \ {a} : AtRest(b)'
  BY <1>3, <1>5, RestKept
<1>13. raised' > 0 /\ threads' = App /\ (reactor.selected)' = aim'
  BY <1>2, <1>3, <1>5 DEF Types
<1>14. task'[a].pc # "idle" /\ ~task'[a].quiet => aim' = Last(task'[a].wids)
  BY <1>5, <1>8
<1>. QED  BY <1>6, <1>11, <1>12, <1>13, <1>14 DEF Raising

LEMMA RefusedAim ==
  ASSUME FInv, NEW a \in App, NEW quiet \in BOOLEAN, RaiseRefused(a, quiet), ~doubt'
  PROVE  \E f \in App : Raising(f)'
<1>. Base /\ Types
  BY DEF FInv, Base
<1>1. /\ raised' = raised + 1 /\ reactor' = Failed(quiet)
      /\ aim' = IF quiet THEN aim ELSE main[front]
      /\ ~doubt /\ Quiet /\ threads = App
      /\ UNCHANGED <<front, inbox, thinks, main, notes, threads, isFront, mainSeen, last, task, centre>>
  BY DEF RaiseRefused, worldVars, threadVars
<1>2. reactor.selected = aim /\ \A b \in App : AtRest(b)
  <2>1. AimInSight /\ SelectionArrives
    BY <1>1, Arrived DEF FInv
  <2>. QED  BY <1>1, <2>1, AllAtRest DEF SelectionArrives
<1>3. MainWindow(reactor) = main[front] /\ front \in App /\ main[front] # NoWindow
  <2>1. Agreement
    BY Agreed
  <2>. QED  BY <1>1, <2>1, ActivationAssumption DEF Agreement, Types
<1>4. reactor'.selected = aim'
  <2>1. reactor'.selected = IF quiet \/ MainWindow(reactor) = NoWindow THEN reactor.selected
                           ELSE MainWindow(reactor)
    BY <1>1, FailEffect
  <2>. QED  BY <1>1, <1>2, <1>3, <2>1
<1>5. centre = << >> /\ \A b \in App : inbox[b] = << >> /\ notes[b] = << >> /\ task[b] = Idle
  BY <1>1 DEF Quiet
<1>0. PICK f \in App : f = front
  BY <1>3
<1>6. f = front /\ isFront[f] = thinks[f] /\ thinks[f] /\ mainSeen[f] = main[f]
  BY <1>1, <1>0, <1>5, Settled
<1>7. RaiseDone(f)'
  BY <1>1, <1>2, <1>5, <1>6 DEF RaiseDone, NothingNew, Activated, AtRest
<1>8. \A b \in App : Leaves(b)' /\ AtRest(b)'
  BY <1>1, <1>2, <1>5, NothingInside DEF Leaves, AtRest
<1>9. OnlyTold(f)'
  BY <1>1, <1>5, NothingInside DEF OnlyTold
<1>10. raised' > 0 /\ threads' = App
  BY <1>1 DEF Types
<1>11. task'[f].pc = "idle"
  BY <1>1, <1>5 DEF Idle
<1>. QED  BY <1>4, <1>7, <1>8, <1>9, <1>10, <1>11 DEF Raising

(* The thread that raises is the one whose raise it is. *)
LEMMA WhoRaises ==
  ASSUME AimInSight, NEW a \in App, task[a].pc # "idle"
  PROVE  Raising(a)
<1>1. ~AtRest(a)
  BY DEF AtRest, Idle
<1>2. ~UserFocusing
  BY <1>1 DEF UserFocusing
<1>3. PICK c \in App : Raising(c)
  BY <1>2 DEF AimInSight
<1>. QED  BY <1>1, <1>3 DEF Raising

LEMMA FailsAim ==
  ASSUME FInv, NEW a \in App, RaiseFails(a), ~doubt'
  PROVE  Raising(a)'
<1>. Base /\ Types
  BY DEF FInv, Base
<1>1. /\ task[a].pc \in {"woken", "raising"} /\ task' = [task EXCEPT ![a] = Idle]
      /\ reactor' = Failed(task[a].quiet)
      /\ aim' = IF task[a].quiet THEN aim ELSE main[front]
      /\ ~doubt /\ centre = << >> /\ notes[a] = << >> /\ inbox[a] = << >>
      /\ UNCHANGED <<inbox, thinks, main, notes, threads, isFront, mainSeen, last, centre, raised>>
  BY DEF RaiseFails, worldVars
<1>2. Raising(a)
  BY <1>1, WhoRaises DEF FInv
<1>3. Activated(a) /\ threads = App /\ reactor.selected = aim
  <2>1. RaiseWoken(a) \/ RaiseGoesOn(a)
    BY <1>1, <1>2 DEF Raising, RaiseDone, RaiseWaits, Idle
  <2>. QED  BY <1>2, <2>1 DEF Raising, RaiseWoken, RaiseGoesOn
<1>4. a = front /\ mainSeen[a] = main[a] /\ reactor.global = front /\ isFront[a]
  BY <1>1, <1>3, Settled DEF Activated
<1>5. MainWindow(reactor) = main[front]
  BY <1>3, <1>4, Believed
<1>6. (reactor.selected)' = aim'
  <2>1. task[a].quiet \in BOOLEAN
    BY DEF Types
  <2>3. main[front] # NoWindow
    BY ActivationAssumption DEF Types
  <2>2. reactor'.selected = IF task[a].quiet \/ MainWindow(reactor) = NoWindow THEN reactor.selected
                           ELSE MainWindow(reactor)
    BY <1>1, <2>1, FailEffect
  <2>. QED  BY <1>1, <1>3, <1>5, <2>2, <2>3
<1>7. task'[a] = Idle /\ \A b \in App \ {a} : task'[b] = task[b]
  BY <1>1 DEF Types
<1>8. RaiseDone(a)'
  BY <1>1, <1>3, <1>4, <1>7 DEF RaiseDone, NothingNew, Activated
<1>9. \A b \in App \ {a} : Leaves(b)' /\ AtRest(b)'
  BY <1>1, <1>2, <1>7 DEF Raising, Leaves, AtRest
<1>10. OnlyTold(a)'
  BY <1>1, <1>2 DEF Raising, OnlyTold
<1>11. raised' > 0 /\ threads' = App
  BY <1>1, <1>2 DEF Raising
<1>12. task'[a].pc = "idle"
  BY <1>7 DEF Idle
<1>. QED  BY <1>6, <1>8, <1>9, <1>10, <1>11, <1>12 DEF Raising

LEMMA RaisesAim ==
  ASSUME FInv, NEW a \in App, RaiseWindow(a), ~doubt'
  PROVE  Raising(a)'
<1>. Base /\ Types /\ TrackerFollows
  BY DEF FInv, Base
<1>0. PICK w : w = task[a].wids[task[a].at]
  OBVIOUS
<1>1. PICK done \in BOOLEAN : done <=> task[a].at = Len(task[a].wids)
  OBVIOUS
<1>2. WindowRaised(a, w, done)
  BY <1>0, <1>1, RaisesEffect
<1>3. /\ task[a].pc \in {"woken", "raising"}
      /\ main'[a] = w /\ mainSeen'[a] = w
      /\ \A b \in App \ {a} : notes'[b] = notes[b] /\ task'[b] = task[b]
      /\ reactor'.apps = [reactor.apps EXCEPT ![a].main = w]
      /\ reactor'.selected = IF /\ w # mainSeen[a] /\ done /\ ~task[a].quiet
                                /\ a = reactor.global /\ isFront[a]
                             THEN w ELSE reactor.selected
      /\ done => task'[a] = Idle
      /\ ~done => /\ task'[a].pc = "raising" /\ task'[a].at = task[a].at + 1
                  /\ task'[a].wids = task[a].wids /\ task'[a].quiet = task[a].quiet
      /\ ~doubt /\ \A n \in ToSet(inbox[a]) : n.win = w
      /\ UNCHANGED <<inbox, thinks, threads, isFront, last, centre, raised, aim>>
  BY <1>2 DEF WindowRaised
<1>4. Raising(a)
  BY <1>3, WhoRaises DEF FInv
<1>5. RaiseWoken(a) \/ RaiseGoesOn(a)
  BY <1>3, <1>4 DEF Raising, RaiseDone, RaiseWaits, Idle
<1>6. Activated(a) /\ threads = App /\ reactor.selected = aim /\ raised > 0
      /\ (~task[a].quiet => aim = Last(task[a].wids))
  BY <1>3, <1>4, <1>5 DEF Raising, RaiseWoken, RaiseGoesOn
<1>7. done /\ ~task[a].quiet => w = aim
  BY <1>0, <1>1, <1>6 DEF Last
<1>8. (reactor.selected)' = aim'
  BY <1>3, <1>6, <1>7
<1>9. reactor'.apps[a].quiet = reactor.apps[a].quiet
  BY <1>3, <1>6 DEF Types, Trackers, AppStates
<1>10. Activated(a)'
  BY <1>3, <1>6 DEF Activated
<1>11. centre = << >> \/ reactor.apps[a].quiet \/ (done /\ ~task[a].quiet)
  <2>1. CASE RaiseWoken(a)
    <3>1. task[a].at = 1 /\ reactor.apps[a].quiet = Muted(a)
      BY <2>1 DEF RaiseWoken
    <3>2. PICK s : s = task[a].wids
      OBVIOUS
    <3>3. 1 \in DOMAIN s /\ s \in Seq(Window)
      BY <1>3, <3>1, <3>2 DEF Types
    <3>4. ~done => Len(s) > 1
      <4>1. DOMAIN s = 1..Len(s) /\ Len(s) \in Nat
        BY <3>3
      <4>2. ~done => Len(s) # 1
        BY <1>1, <3>1, <3>2
      <4>. QED  BY <3>3, <4>1, <4>2
    <3>. QED  BY <3>1, <3>2, <3>4 DEF Muted
  <2>2. CASE RaiseGoesOn(a)
    BY <2>2 DEF RaiseGoesOn
  <2>. QED  BY <1>5, <2>1, <2>2
<1>17. NothingNew(a)'
  <2>1. inbox[a] \in Seq(News)
    BY DEF Types
  <2>2. inbox[a] = << >> \/ \E v \in Window : inbox[a] = << [on |-> TRUE, win |-> v] >>
    <3>1. CASE RaiseWoken(a)
      BY <3>1 DEF RaiseWoken
    <3>2. CASE RaiseGoesOn(a) /\ task[a].at = 1
      <4>1. FirstNews(a) /\ w = task[a].wids[1]
        BY <1>0, <3>2 DEF RaiseGoesOn
      <4>2. w \in Window
        BY <1>2 DEF WindowRaised
      <4>. QED  BY <4>1, <4>2 DEF FirstNews
    <3>3. CASE RaiseGoesOn(a) /\ task[a].at # 1
      <4>1. NothingNew(a)
        BY <3>3 DEF RaiseGoesOn
      <4>. QED  BY <4>1 DEF NothingNew, Types
    <3>. QED  BY <1>5, <3>1, <3>2, <3>3
  <2>3. ASSUME NEW v \in Window, inbox[a] = << [on |-> TRUE, win |-> v] >> PROVE v = w
    <3>. PICK n : n = [on |-> TRUE, win |-> v]
      OBVIOUS
    <3>. PICK s \in Seq(News) : s = inbox[a]
      BY <2>1
    <3>1. s = <<n>>
      BY <2>3
    <3>2. 1 \in DOMAIN s /\ s[1] = n
      BY <3>1
    <3>3. n \in ToSet(s)
      BY <3>2 DEF ToSet
    <3>. QED  BY <1>3, <3>3
  <2>. QED  BY <1>3, <2>2, <2>3 DEF NothingNew
<1>12. RaiseDone(a)' \/ RaiseGoesOn(a)'
  <2>1. CASE done
    BY <1>3, <1>7, <1>9, <1>10, <1>11, <1>17, <2>1 DEF RaiseDone
  <2>2. CASE ~done
    <3>1. task'[a].at # 1
      <4>1. task[a].at \in Nat /\ task[a].at >= 1
        <5>1. PICK s \in Seq(Window) : s = task[a].wids
          BY DEF Types
        <5>2. task[a].at \in DOMAIN s /\ DOMAIN s = 1..Len(s)
          BY <1>3, <5>1 DEF Types
        <5>. QED  BY <5>2
      <4>. QED  BY <1>3, <2>2, <4>1
    <3>. QED  BY <1>3, <1>9, <1>10, <1>11, <1>17, <2>2, <3>1 DEF RaiseGoesOn
  <2>. QED  BY <2>1, <2>2
<1>13. \A b \in App \ {a} : Leaves(b)' /\ AtRest(b)'
  BY <1>3, <1>4 DEF Raising, Leaves, AtRest
<1>14. OnlyTold(a)'
  BY <1>3, <1>4 DEF Raising, OnlyTold
<1>15. task'[a].pc # "idle" /\ ~task'[a].quiet => aim' = Last(task'[a].wids)
  BY <1>3, <1>6 DEF Idle
<1>16. raised' > 0 /\ threads' = App
  BY <1>3, <1>6
<1>. QED  BY <1>8, <1>12, <1>13, <1>14, <1>15, <1>16 DEF Raising

-----------------------------------------------------------------------------
(* The invariant. *)

LEMMA FInit == ASSUME Init PROVE FInv
<1>1. Base
  BY BaseInit
<1>2. /\ front \in App /\ inbox = [a \in App |-> << >>] /\ notes = [a \in App |-> << >>]
      /\ isFront = [a \in App |-> a \in threads /\ thinks[a]]
      /\ mainSeen = [a \in App |-> IF a \in threads THEN main[a] ELSE NoWindow]
      /\ last = [a \in App |-> NotExpected] /\ task = [a \in App |-> Idle] /\ centre = << >>
      /\ aim = main[front]
      /\ reactor.global = front
      /\ reactor.selected = IF front \in threads THEN main[front] ELSE NoWindow
  BY DEF Init
<1>3. \A a \in App : inbox[a] = << >> /\ notes[a] = << >> /\ task[a] = Idle /\ ~last[a].live
  BY <1>2 DEF NotExpected
<1>4. front \in threads => mainSeen[front] = main[front] /\ reactor.selected = main[front]
  BY <1>2
<1>5. FollowsAtFirst
  BY <1>2, <1>4 DEF FollowsAtFirst
<1>6. \A a \in App : Leaves(a) /\ AtRest(a)
  BY <1>3, NothingInside DEF Leaves, AtRest
<1>7. OnlyTold(front)
  BY <1>2, NothingInside DEF OnlyTold
<1>8. Len(inbox[front]) <= 1
  <2>1. Len(<< >>) = 0
    OBVIOUS
  <2>. QED  BY <1>2, <1>3, <2>1
<1>9. OneFocus
  BY <1>2, <1>3, <1>4, <1>6, <1>7, <1>8 DEF OneFocus
<1>10. AimLast
  BY <1>2, <1>3 DEF AimLast
<1>. QED  BY <1>1, <1>5, <1>6, <1>9, <1>10 DEF FInv, AimInSight, UserFocusing

(* Nothing but a focus of the user's when all is calm clears a doubt. *)
LEMMA AimNext ==
  ASSUME FInv, [Next]_vars, ~doubt'
  PROVE  AimInSight'
<1>. Base /\ (~doubt => AimInSight)
  BY DEF FInv
<1>1. ASSUME NEW w \in Window, UserFocuses(w) PROVE AimInSight'
  BY <1>1, UserFocusesAim DEF AimInSight
<1>2. CASE CentreTells
  <2>1. AimInSight
    BY <1>2 DEF CentreTells
  <2>2. CASE UserFocusing
    BY <1>2, <2>2, CentreUser DEF AimInSight
  <2>3. ASSUME NEW c \in App, Raising(c) PROVE AimInSight'
    BY <1>2, <2>3, CentreRaise DEF AimInSight
  <2>. QED  BY <2>1, <2>2, <2>3 DEF AimInSight
<1>3. ASSUME NEW a \in App, AppHears(a) PROVE AimInSight'
  <2>1. AimInSight
    BY <1>3 DEF AppHears
  <2>2. CASE UserFocusing
    BY <1>3, <2>2, HearsUser DEF AimInSight
  <2>3. ASSUME NEW c \in App, Raising(c) PROVE AimInSight'
    BY <1>3, <2>3, HearsRaise DEF AimInSight
  <2>. QED  BY <2>1, <2>2, <2>3 DEF AimInSight
<1>4. ASSUME NEW a \in App, ThreadStarts(a) PROVE AimInSight'
  <2>1. AimInSight /\ a \notin threads
    BY <1>4 DEF ThreadStarts
  <2>2. UserFocusing
    BY <2>1 DEF AimInSight, Raising
  <2>. QED  BY <1>4, <2>2, StartsUser DEF AimInSight
<1>5. ASSUME NEW a \in App, HandleMainChanged(a) PROVE AimInSight'
  <2>1. AimInSight
    BY <1>5 DEF HandleMainChanged
  <2>2. CASE UserFocusing
    BY <1>5, <2>2, MainChangedUser DEF AimInSight
  <2>3. ASSUME NEW c \in App, Raising(c) PROVE AimInSight'
    BY <1>5, <2>3, MainChangedRaise DEF AimInSight
  <2>. QED  BY <2>1, <2>2, <2>3 DEF AimInSight
<1>6. ASSUME NEW a \in App, HandleActivation(a) PROVE AimInSight'
  <2>1. AimInSight
    BY <1>6 DEF HandleActivation
  <2>2. CASE UserFocusing
    BY <1>6, <2>2, ActivationUser DEF AimInSight
  <2>3. ASSUME NEW c \in App, Raising(c) PROVE AimInSight'
    BY <1>6, <2>3, ActivationRaise DEF AimInSight
  <2>. QED  BY <2>1, <2>2, <2>3 DEF AimInSight
<1>7. ASSUME NEW a \in App, NEW wids \in RaiseLists(a), NEW quiet \in BOOLEAN, NEW works \in BOOLEAN,
             RaiseMakesKey(a, wids, quiet, works)
      PROVE  AimInSight'
  BY <1>7, MakesKeyAim DEF AimInSight
<1>8. ASSUME NEW a \in App, NEW quiet \in BOOLEAN, RaiseRefused(a, quiet) PROVE AimInSight'
  BY <1>8, RefusedAim DEF AimInSight
<1>9. ASSUME NEW a \in App, RaiseCancelled(a) \/ DeadlinePasses(a) PROVE AimInSight'
  BY <1>9 DEF RaiseCancelled, DeadlinePasses
<1>10. ASSUME NEW a \in App, RaiseFails(a) PROVE AimInSight'
  BY <1>10, FailsAim DEF AimInSight
<1>11. ASSUME NEW a \in App, RaiseWindow(a) PROVE AimInSight'
  BY <1>11, RaisesAim DEF AimInSight
<1>12. CASE UNCHANGED vars
  <2>1. /\ UNCHANGED <<front, inbox, thinks, main, notes, threads, isFront, mainSeen, last, task>>
        /\ UNCHANGED <<centre, reactor, raised, aim, hurry, doubt>>
    BY <1>12 DEF vars, worldVars, threadVars
  <2>2. \A a \in App : (Leaves(a) => Leaves(a)') /\ (AtRest(a) => AtRest(a)')
    BY <2>1 DEF Leaves, AtRest
  <2>3. ASSUME UserFocusing PROVE UserFocusing'
    <3>1. OneFocus => OneFocus'
      BY <2>1, <2>2 DEF OneFocus, OnlyTold
    <3>. QED  BY <2>1, <2>2, <2>3, <3>1 DEF UserFocusing, AimLast
  <2>4. ASSUME NEW c \in App, Raising(c) PROVE Raising(c)'
    <3>1. (RaiseDone(c) \/ RaiseWaits(c) \/ RaiseWoken(c) \/ RaiseGoesOn(c))'
      BY <2>1, <2>4 DEF Raising, RaiseDone, RaiseWaits, RaiseWoken, RaiseGoesOn, NothingNew, Activated, Muted, FirstNews
    <3>2. OnlyTold(c)'
      BY <2>1, <2>4 DEF Raising, OnlyTold
    <3>. QED  BY <2>1, <2>2, <2>4, <3>1, <3>2 DEF Raising
  <2>. QED  BY <2>1, <2>3, <2>4 DEF AimInSight
<1>13. CASE Next
  BY <1>13, <1>1, <1>2, <1>3, <1>4, <1>5, <1>6, <1>7, <1>8, <1>9, <1>10, <1>11 DEF Next
<1>. QED  BY <1>12, <1>13

LEMMA FNext == ASSUME FInv, [Next]_vars PROVE FInv'
BY BaseNext, FollowsNext, AimNext DEF FInv

(* Reactor, threads and apps keep to what is still to come, whatever the    *)
(* order of the news.                                                      *)
THEOREM FocusInvariant == Spec => []FInv
<1>1. Init => FInv
  BY FInit
<1>2. FInv /\ [Next]_vars => FInv'
  BY FNext
<1>. QED  BY <1>1, <1>2, PTL DEF Spec

(* Once all is quiet the reactor's main window is the one that has the      *)
(* focus, and the selection is where it should be.                         *)
THEOREM FocusAgreedHolds == Spec => []FocusAgreed
<1>1. FInv => FocusAgreed
  BY Agreed, Arrived DEF FInv, FocusAgreed
<1>. QED  BY <1>1, FocusInvariant, PTL

(* News that somebody has heard. *)
NewsHandled ==
  \/ CentreTells
  \/ \E a \in App : AppHears(a) \/ ThreadStarts(a) \/ HandleMainChanged(a) \/ HandleActivation(a)

(* What they select while the user focuses one window. *)
LEMMA OnlyAimSelected ==
  ASSUME Base, UserFocusing, OneFocus, NewsHandled, ~doubt'
  PROVE  reactor'.selected = reactor.selected \/ reactor'.selected = aim'
<1>. Types /\ NewsCurrent /\ TrackerFollows
  BY DEF Base
<1>1. CASE CentreTells
  <2>. PICK n : n = Head(centre)
    OBVIOUS
  <2>1. reactor'.selected = IF /\ n.on /\ n.pid \in threads
                              /\ ~reactor.apps[n.pid].quiet /\ reactor.apps[n.pid].frontmost
                           THEN reactor.apps[n.pid].main ELSE reactor.selected
    BY <1>1, CentreEffect
  <2>2. n \in ToSet(centre) /\ centre # << >> /\ aim' = aim
    BY <1>1, NewsInside DEF CentreTells
  <2>3. n.on => n.pid = front
    BY <2>2 DEF OneFocus, OnlyTold
  <2>4. front \in threads => reactor.apps[front].frontmost = isFront[front] /\ reactor.apps[front].main = mainSeen[front]
    BY DEF TrackerFollows
  <2>. QED  BY <2>1, <2>2, <2>3, <2>4 DEF OneFocus
<1>2. ASSUME NEW a \in App, AppHears(a) PROVE reactor'.selected = reactor.selected
  BY <1>2 DEF AppHears
<1>3. ASSUME NEW a \in App, ThreadStarts(a)
      PROVE  reactor'.selected = reactor.selected \/ reactor'.selected = aim'
  <2>1. reactor'.selected = IF a = reactor.global /\ thinks[a] THEN main[a] ELSE reactor.selected
    BY <1>3, StartsEffect
  <2>2. inbox[a] = << >> /\ aim' = aim
    BY <1>3 DEF ThreadStarts
  <2>3. thinks[a] => a = front
    BY <2>2, Settled
  <2>4. a = front => main[a] = aim
    BY <2>2 DEF UserFocusing, AimLast
  <2>. QED  BY <2>1, <2>2, <2>3, <2>4
<1>4. ASSUME NEW a \in App, HandleMainChanged(a)
      PROVE  reactor'.selected = reactor.selected \/ reactor'.selected = aim'
  <2>1. reactor'.selected = reactor.selected \/ reactor'.selected = main[a]
    BY <1>4, MainChangedEffect
  <2>2. /\ notes[a] # << >> /\ Head(notes[a]) = "main" /\ notes' = [notes EXCEPT ![a] = Tail(@)]
        /\ aim' = aim
    BY <1>4 DEF HandleMainChanged
  <2>3. "main" \in ToSet(notes[a])
    BY <2>2, NoteEffect
  <2>4. a = front
    BY <2>3 DEF OneFocus, Leaves
  <2>5. main[a] = aim
    BY <2>2, <2>4 DEF OneFocus, UserFocusing, AimLast
  <2>. QED  BY <2>1, <2>2, <2>5
<1>5. ASSUME NEW a \in App, HandleActivation(a)
      PROVE  reactor'.selected = reactor.selected \/ reactor'.selected = aim'
  <2>0. ActivationHandled(a)
    BY <1>5, ActivationFacts
  <2>1. a \in threads /\ notes[a] # << >> /\ aim' = aim
    BY <2>0 DEF ActivationHandled
  <2>2. reactor'.selected = reactor.selected \/ (reactor'.selected = main[a] /\ thinks[a])
    BY <1>5, <2>1, ActivationEffect
  <2>3. thinks[a] => a = front
    BY <2>1 DEF OneFocus, Leaves
  <2>4. a = front => main[a] = aim
    BY <2>1 DEF OneFocus, UserFocusing, AimLast
  <2>. QED  BY <2>1, <2>2, <2>3, <2>4
<1>. QED  BY <1>1, <1>2, <1>3, <1>4, <1>5 DEF NewsHandled

LEMMA OnlyAimAfterRaise ==
  ASSUME Base, NEW c \in App, Raising(c), NewsHandled
  PROVE  reactor'.selected = aim'
<1>1. \A a \in App : ~ThreadStarts(a)
  BY DEF Raising, ThreadStarts
<1>2. Raising(c)'
  BY <1>1, CentreRaise, HearsRaise, MainChangedRaise, ActivationRaise DEF NewsHandled
<1>. QED  BY <1>2 DEF Raising

LEMMA SelectionStep ==
  ASSUME FInv, [Next]_vars, ~hurry', ~doubt'
  PROVE  reactor'.selected = reactor.selected \/ reactor'.selected = aim'
<1>. Base /\ (~doubt => AimInSight)
  BY DEF FInv
<1>1. CASE UNCHANGED vars
  BY <1>1 DEF vars
<1>2. ASSUME NEW w \in Window, UserFocuses(w) PROVE reactor'.selected = reactor.selected
  BY <1>2 DEF UserFocuses
<1>3. ASSUME NEW a \in App, NEW wids \in RaiseLists(a), NEW quiet \in BOOLEAN, NEW works \in BOOLEAN,
             RaiseMakesKey(a, wids, quiet, works)
      PROVE  reactor'.selected = aim'
  BY <1>3, MakesKeyAim DEF Raising
<1>4. ASSUME NEW a \in App, NEW quiet \in BOOLEAN, RaiseRefused(a, quiet) PROVE reactor'.selected = aim'
  BY <1>4, RefusedAim DEF Raising
<1>5. ASSUME NEW a \in App, RaiseFails(a) \/ RaiseWindow(a) PROVE reactor'.selected = aim'
  BY <1>5, FailsAim, RaisesAim DEF Raising
<1>6. ASSUME NEW a \in App, RaiseCancelled(a) \/ DeadlinePasses(a) PROVE FALSE
  BY <1>6 DEF RaiseCancelled, DeadlinePasses
<1>7. CASE NewsHandled
  <2>1. ~hurry /\ ~doubt
    <3>1. CASE CentreTells
      BY <3>1 DEF CentreTells
    <3>2. ASSUME NEW a \in App, AppHears(a) PROVE ~hurry /\ ~doubt
      BY <3>2 DEF AppHears
    <3>3. ASSUME NEW a \in App, ThreadStarts(a) PROVE ~hurry /\ ~doubt
      BY <3>3 DEF ThreadStarts
    <3>4. ASSUME NEW a \in App, HandleMainChanged(a) \/ HandleActivation(a) PROVE ~hurry /\ ~doubt
      BY <3>4 DEF HandleMainChanged, HandleActivation
    <3>. QED  BY <1>7, <3>1, <3>2, <3>3, <3>4 DEF NewsHandled
  <2>2. CASE UserFocusing
    BY <1>7, <2>1, <2>2, OnlyAimSelected DEF UserFocusing
  <2>3. CASE \E c \in App : Raising(c)
    BY <1>7, <2>3, OnlyAimAfterRaise
  <2>. QED  BY <2>1, <2>2, <2>3 DEF AimInSight
<1>8. CASE Next
  BY <1>8, <1>2, <1>3, <1>4, <1>5, <1>6, <1>7 DEF Next, NewsHandled
<1>. QED  BY <1>1, <1>8

(* The selection moves only to the window that the user focused last, or    *)
(* that a raise was for: never to one on the way.                           *)
THEOREM SelectionAimedHolds == Spec => SelectionAimed
<1>1. FInv /\ [Next]_vars => [~hurry' /\ ~doubt' /\ reactor'.selected # reactor.selected =>
                                reactor'.selected = aim']_vars
  BY SelectionStep
<1>. QED  BY <1>1, FocusInvariant, PTL DEF Spec, SelectionAimed

=============================================================================
