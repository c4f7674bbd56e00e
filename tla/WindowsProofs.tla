---------------------------- MODULE WindowsProofs ----------------------------
(***************************************************************************)
(* What is proved of Windows for any apps, windows and spaces and whatever *)
(* users and apps do, however often: only windows of apps the reactor      *)
(* knows are in a layout, and only windows that it knows or knew when the  *)
(* layout was saved; and once all apps have answered the layout on screen  *)
(* has the windows there are.                                              *)
(*                                                                         *)
(* A handler may add to a layout windows of the app its event is about, so *)
(* the argument for the first (WInv) is about the order of WindowServer's  *)
(* queue: nothing of an app is before its launch, and nothing after its    *)
(* end.  That for the second (FInv) is about what each party is still to   *)
(* learn of the one before it: the threads of the world, WindowServer of   *)
(* what is on screen, the reactor of both.                                 *)
(***************************************************************************)
EXTENDS Windows, FiniteSetTheorems, TLAPS

-----------------------------------------------------------------------------
(* The reactor's handlers. *)

Shape(s) ==
  /\ DOMAIN s = {"apps", "windows", "ids", "hidden", "visible", "space", "layout", "started"}
  /\ s.space \in Space /\ DOMAIN s.layout = Space
  /\ \A sp \in Space : DOMAIN s.layout[sp] = Window

(* From s to t only windows of a that t knows have come into a layout. *)
Adds(s, t, a) ==
  /\ Shape(t)
  /\ t.started = s.started /\ s.apps \subseteq t.apps /\ s.windows \subseteq t.windows
  /\ \A sp \in Space, w \in Window :
       t.layout[sp][w] > 0 => s.layout[sp][w] > 0 \/ (w \in t.windows /\ Owner[w] = a)

LEMMA AddsNothing == ASSUME NEW s, Shape(s), NEW a PROVE Adds(s, s, a)
BY DEF Adds

LEMMA AddsBoth ==
  ASSUME NEW s, NEW t, NEW u, NEW a, Adds(s, t, a), Adds(t, u, a)
  PROVE  Adds(s, u, a)
BY DEF Adds

LEMMA SendVisibleAdds ==
  ASSUME NEW s, Shape(s), NEW a
  PROVE  Adds(s, SendVisible(s, a), a)
<1>. DEFINE row == [w \in Window |-> IF Owner[w] # a THEN s.layout[s.space][w]
                                     ELSE IF w \in s.visible \cap s.ids \cap s.windows THEN 1 ELSE 0]
            t == [s EXCEPT !.layout[s.space] = row]
<1>1. SendVisible(s, a) = t
  BY DEF SendVisible
<1>2. /\ DOMAIN t = DOMAIN s /\ t.space = s.space /\ t.started = s.started
      /\ t.apps = s.apps /\ t.windows = s.windows
      /\ t.layout = [s.layout EXCEPT ![s.space] = row]
  BY DEF Shape
<1>3. DOMAIN row = Window /\ \A w \in Window : row[w] > 0 => s.layout[s.space][w] > 0 \/ (Owner[w] = a /\ w \in s.windows)
  OBVIOUS
<1>. HIDE DEF row
<1>4. /\ DOMAIN t.layout = Space /\ t.layout[s.space] = row
      /\ \A sp \in Space : sp # s.space => t.layout[sp] = s.layout[sp]
  BY <1>2 DEF Shape
<1>. HIDE DEF t
<1>5. Shape(t)
  BY <1>2, <1>3, <1>4 DEF Shape
<1>. QED  BY <1>1, <1>2, <1>3, <1>4, <1>5 DEF Adds

LEMMA SetVisibleAdds ==
  ASSUME NEW s, Shape(s), NEW l, NEW a
  PROVE  Adds(s, SetVisible(s, l), a)
<1>. PICK x : x = Range(l) \ s.hidden
  OBVIOUS
<1>1. SetVisible(s, l) = [s EXCEPT !.visible = x]
  BY DEF SetVisible
<1>2. Adds(s, [s EXCEPT !.visible = x], a)
  BY DEF Adds, Shape
<1>. QED  BY <1>1, <1>2

LEMMA IfChangedAdds ==
  ASSUME NEW s, Shape(s), NEW a
  PROVE  Adds(s, IfChanged(s, a), a)
<1>1. Adds(s, SetVisible(s, List), a)
  BY SetVisibleAdds
<1>2. Adds(SetVisible(s, List), SendVisible(SetVisible(s, List), a), a)
  BY <1>1, SendVisibleAdds DEF Adds
<1>3. Adds(s, SendVisible(SetVisible(s, List), a), a)
  BY <1>1, <1>2, AddsBoth
<1>. QED  BY <1>3, AddsNothing DEF IfChanged

LEMMA DiscoveredAdds ==
  ASSUME NEW s, Shape(s), NEW a, NEW new, NEW seen
  PROVE  Adds(s, Discovered(s, a, new, seen), a)
<1>. PICK i, h, v :
       Discovered(s, a, new, seen)
         = SendVisible([s EXCEPT !.windows = @ \cup new, !.ids = i, !.hidden = h, !.visible = v], a)
  BY DEF Discovered
<1>. PICK t : t = [s EXCEPT !.windows = @ \cup new, !.ids = i, !.hidden = h, !.visible = v]
  OBVIOUS
<1>1. /\ DOMAIN t = DOMAIN s /\ t.space = s.space /\ t.layout = s.layout /\ t.started = s.started
      /\ t.apps = s.apps /\ t.windows = s.windows \cup new
  BY DEF Shape
<1>2. Adds(s, t, a)
  BY <1>1 DEF Adds, Shape
<1>3. Shape(t)
  BY <1>2 DEF Adds
<1>4. Adds(t, SendVisible(t, a), a)
  BY <1>3, SendVisibleAdds
<1>. QED  BY <1>2, <1>4, AddsBoth

LEMMA CreatedAdds ==
  ASSUME NEW s, Shape(s), NEW w, NEW a
  PROVE  Adds(s, Created(s, w), a) /\ w \in Created(s, w).windows
<1>. PICK t : t = Created(s, w)
  OBVIOUS
<1>1. /\ DOMAIN t = DOMAIN s /\ t.space = s.space /\ t.layout = s.layout /\ t.started = s.started
      /\ t.apps = s.apps /\ t.windows = s.windows \cup {w}
  BY DEF Shape, Created
<1>. QED  BY <1>1 DEF Adds, Shape

LEMMA BecameVisibleAdds ==
  ASSUME NEW s, Shape(s), NEW w \in s.windows, NEW a, Owner[w] = a
  PROVE  Adds(s, BecameVisible(s, w), a)
<1>. DEFINE row == [s.layout[s.space] EXCEPT ![w] = @ + 1]
            t == [s EXCEPT !.layout[s.space][w] = @ + 1]
<1>1. BecameVisible(s, w) = t
  BY DEF BecameVisible
<1>2. /\ DOMAIN t = DOMAIN s /\ t.space = s.space /\ t.started = s.started
      /\ t.apps = s.apps /\ t.windows = s.windows
      /\ t.layout = [s.layout EXCEPT ![s.space] = row]
  BY DEF Shape
<1>3. DOMAIN row = Window /\ \A x \in Window : x # w => row[x] = s.layout[s.space][x]
  BY DEF Shape
<1>. HIDE DEF row
<1>4. /\ DOMAIN t.layout = Space /\ t.layout[s.space] = row
      /\ \A sp \in Space : sp # s.space => t.layout[sp] = s.layout[sp]
  BY <1>2 DEF Shape
<1>. HIDE DEF t
<1>5. Shape(t)
  BY <1>2, <1>3, <1>4 DEF Shape
<1>. QED  BY <1>1, <1>2, <1>3, <1>4, <1>5 DEF Adds

LEMMA RemovedShape ==
  ASSUME NEW s, Shape(s), NEW ws
  PROVE  /\ Shape(Removed(s, ws))
         /\ Removed(s, ws).apps = s.apps /\ Removed(s, ws).windows = s.windows
         /\ Removed(s, ws).started = s.started
         /\ \A sp \in Space, w \in Window : Removed(s, ws).layout[sp][w] > 0 =>
              w \notin ws /\ s.layout[sp][w] > 0
<1>. DEFINE lay == [sp \in Space |-> [w \in Window |-> IF w \in ws THEN 0 ELSE s.layout[sp][w]]]
            t == [s EXCEPT !.layout = lay]
<1>1. Removed(s, ws) = t
  BY DEF Removed
<1>2. /\ DOMAIN lay = Space /\ \A sp \in Space : DOMAIN lay[sp] = Window
      /\ \A sp \in Space, w \in Window : lay[sp][w] = IF w \in ws THEN 0 ELSE s.layout[sp][w]
  OBVIOUS
<1>. HIDE DEF lay
<1>3. /\ DOMAIN t = DOMAIN s /\ t.space = s.space /\ t.layout = lay /\ t.started = s.started
      /\ t.apps = s.apps /\ t.windows = s.windows
  BY DEF Shape
<1>. HIDE DEF t
<1>4. Shape(t)
  BY <1>2, <1>3 DEF Shape
<1>. QED  BY <1>1, <1>2, <1>3, <1>4

-----------------------------------------------------------------------------
(* What comes of an event. *)

Kinds == {"created", "main", "visibility", "launched", "discovered", "destroyed", "ended", "space"}

Sound(e) ==
  /\ e.kind \in Kinds
  /\ e.kind = "created" => e.new # {} /\ e.new \subseteq WindowsOf(e.pid)

(* All that is in a layout is known, and of an app that is. *)
Tidy(s) ==
  \A sp \in Space, w \in Window :
    s.layout[sp][w] > 0 => w \in s.windows \cup saved /\ (s.started => Owner[w] \in s.apps)

LEMMA AddsTidy ==
  ASSUME NEW s, NEW t, NEW a, Adds(s, t, a), Tidy(s), a \in t.apps
  PROVE  Tidy(t)
BY DEF Adds, Tidy

(* All but ws are. *)
TidyBut(s, ws) ==
  \A sp \in Space, x \in Window \ ws :
    s.layout[sp][x] > 0 => x \in s.windows \cup saved /\ (s.started => Owner[x] \in s.apps)

LEMMA RemovedTidy ==
  ASSUME NEW s, Shape(s), NEW ws, TidyBut(s, ws)
  PROVE  Shape(Removed(s, ws)) /\ Tidy(Removed(s, ws)) /\ Removed(s, ws).apps = s.apps
<1>. PICK t : t = Removed(s, ws)
  OBVIOUS
<1>1. /\ Shape(t) /\ t.apps = s.apps /\ t.windows = s.windows /\ t.started = s.started
      /\ \A sp \in Space, x \in Window : t.layout[sp][x] > 0 => x \notin ws /\ s.layout[sp][x] > 0
  BY RemovedShape
<1>. QED  BY <1>1 DEF Tidy, TidyBut

LEMMA AfterCreated ==
  ASSUME Shape(r), NEW e, Sound(e), e.kind = "created"
  PROVE  Adds(r, After(e), e.pid)
<1>. PICK w, a : w = (CHOOSE x \in e.new : TRUE) /\ a = e.pid
  OBVIOUS
<1>1. w \in Window /\ Owner[w] = a
  BY DEF Sound, WindowsOf
<1>. PICK s, t : s = Created(r, w) /\ t = IfChanged(s, a)
  OBVIOUS
<1>2. Adds(r, s, a) /\ w \in s.windows
  BY CreatedAdds
<1>3. Shape(s)
  BY <1>2 DEF Adds
<1>4. Adds(s, t, a)
  BY <1>3, IfChangedAdds
<1>5. Shape(t) /\ w \in t.windows
  BY <1>2, <1>4 DEF Adds
<1>6. Adds(t, BecameVisible(t, w), a)
  BY <1>1, <1>5, BecameVisibleAdds
<1>7. Adds(r, BecameVisible(t, w), a)
  BY <1>2, <1>4, <1>6, AddsBoth
<1>8. After(e) = BecameVisible(t, w)
  BY DEF After
<1>. QED  BY <1>7, <1>8

LEMMA AfterLaunched ==
  ASSUME Shape(r), NEW e, e.kind = "launched"
  PROVE  Adds(r, After(e), e.pid) /\ e.pid \in After(e).apps
<1>. PICK a, s, t, u : /\ a = e.pid
                       /\ s = SetVisible(r, List) /\ t = SendVisible(s, a)
                       /\ u = [t EXCEPT !.apps = @ \cup {a}]
  OBVIOUS
<1>1. Adds(r, s, a)
  BY SetVisibleAdds
<1>2. Shape(s)
  BY <1>1 DEF Adds
<1>3. Adds(s, t, a)
  BY <1>2, SendVisibleAdds
<1>4. Shape(t)
  BY <1>3 DEF Adds
<1>5. /\ DOMAIN u = DOMAIN t /\ u.space = t.space /\ u.layout = t.layout /\ u.started = t.started
      /\ u.apps = t.apps \cup {a} /\ u.windows = t.windows
  BY <1>4 DEF Shape
<1>6. Adds(t, u, a) /\ Shape(u)
  BY <1>4, <1>5 DEF Adds, Shape
<1>7. Adds(u, Discovered(u, a, e.new, {}), a)
  BY <1>6, DiscoveredAdds
<1>8. Adds(r, Discovered(u, a, e.new, {}), a)
  BY <1>1, <1>3, <1>6, <1>7, AddsBoth
<1>9. After(e) = Discovered(u, a, e.new, {})
  BY DEF After
<1>10. a \in Discovered(u, a, e.new, {}).apps
  BY <1>5, <1>7 DEF Adds
<1>. QED  BY <1>8, <1>9, <1>10

LEMMA AfterTidy ==
  ASSUME Shape(r), Tidy(r), here \in Space, NEW e, Sound(e),
         e.kind # "space" => e.pid \in r.apps \/ e.kind = "launched"
  PROVE  /\ Shape(After(e)) /\ Tidy(After(e))
         /\ e.kind = "launched" => e.pid \in After(e).apps
         /\ \A a \in r.apps : a \in After(e).apps \/ (e.kind = "ended" /\ e.pid = a)
<1>. PICK a : a = e.pid
  OBVIOUS
<1>1. ASSUME Adds(r, After(e), a), a \in r.apps \/ a \in After(e).apps
      PROVE  Shape(After(e)) /\ Tidy(After(e)) /\ r.apps \subseteq After(e).apps
  BY <1>1, AddsTidy DEF Adds
<1>2. CASE e.kind = "created"
  BY <1>1, <1>2, AfterCreated
<1>3. CASE e.kind \in {"main", "visibility"}
  <2>1. After(e) = IfChanged(r, a)
    BY <1>3 DEF After
  <2>. QED  BY <1>1, <1>3, <2>1, IfChangedAdds
<1>4. CASE e.kind = "launched"
  BY <1>1, <1>4, AfterLaunched
<1>5. CASE e.kind = "discovered"
  <2>1. After(e) = Discovered(r, a, e.new, e.known)
    BY <1>5 DEF After
  <2>. QED  BY <1>1, <1>5, <2>1, DiscoveredAdds
<1>6. CASE e.kind = "destroyed"
  <2>. PICK w : w = CHOOSE x \in e.new : TRUE
    OBVIOUS
  <2>. PICK s : s = [r EXCEPT !.hidden = @ \ {w}, !.windows = @ \ {w}]
    OBVIOUS
  <2>1. After(e) = Removed(s, {w})
    BY <1>6 DEF After, Destroyed
  <2>2. /\ DOMAIN s = DOMAIN r /\ s.space = r.space /\ s.layout = r.layout /\ s.started = r.started
        /\ s.apps = r.apps /\ s.windows = r.windows \ {w}
    BY DEF Shape
  <2>3. Shape(s)
    BY <2>2 DEF Shape
  <2>4. \A sp \in Space, x \in Window \ {w} :
          s.layout[sp][x] > 0 => x \in s.windows \cup saved /\ (s.started => Owner[x] \in s.apps)
    BY <2>2 DEF Tidy
  <2>5. Shape(After(e)) /\ Tidy(After(e)) /\ After(e).apps = s.apps
    <3>. PICK ws : ws = {w}
      OBVIOUS
    <3>1. TidyBut(s, ws)
      BY <2>4 DEF TidyBut
    <3>2. Shape(Removed(s, ws)) /\ Tidy(Removed(s, ws)) /\ Removed(s, ws).apps = s.apps
      BY <2>3, <3>1, RemovedTidy
    <3>. QED  BY <2>1, <3>2
  <2>. QED  BY <1>6, <2>2, <2>5
<1>7. CASE e.kind = "ended"
  <2>. PICK s : s = [r EXCEPT !.apps = @ \ {a}]
    OBVIOUS
  <2>1. After(e) = Removed(s, WindowsOf(a))
    BY <1>7 DEF After, ThreadEnded
  <2>2. /\ DOMAIN s = DOMAIN r /\ s.space = r.space /\ s.layout = r.layout /\ s.started = r.started
        /\ s.apps = r.apps \ {a} /\ s.windows = r.windows
    BY DEF Shape
  <2>3. Shape(s)
    BY <2>2 DEF Shape
  <2>4. \A sp \in Space, x \in Window \ WindowsOf(a) :
          s.layout[sp][x] > 0 => x \in s.windows \cup saved /\ (s.started => Owner[x] \in s.apps)
    BY <2>2 DEF Tidy, WindowsOf
  <2>5. Shape(After(e)) /\ Tidy(After(e)) /\ After(e).apps = s.apps
    <3>. PICK ws : ws = WindowsOf(a)
      OBVIOUS
    <3>1. TidyBut(s, ws)
      BY <2>4 DEF TidyBut
    <3>2. Shape(Removed(s, ws)) /\ Tidy(Removed(s, ws)) /\ Removed(s, ws).apps = s.apps
      BY <2>3, <3>1, RemovedTidy
    <3>. QED  BY <2>1, <3>2
  <2>. QED  BY <1>7, <2>2, <2>5
<1>8. CASE e.kind = "space"
  <2>. PICK s, t : s = SetVisible(r, List) /\ t = [s EXCEPT !.space = here]
    OBVIOUS
  <2>1. After(e) = t
    BY <1>8 DEF After
  <2>2. Shape(s) /\ s.layout = r.layout /\ s.windows = r.windows /\ s.apps = r.apps /\ s.started = r.started
    BY DEF SetVisible, Shape
  <2>3. /\ DOMAIN t = DOMAIN s /\ t.space = here /\ t.layout = s.layout /\ t.started = s.started
        /\ t.apps = s.apps /\ t.windows = s.windows
    BY <2>2 DEF Shape
  <2>4. Shape(t) /\ Tidy(t) /\ t.apps = r.apps
    BY <2>2, <2>3 DEF Shape, Tidy
  <2>. QED  BY <1>8, <2>1, <2>4
<1>. QED  BY <1>2, <1>3, <1>4, <1>5, <1>6, <1>7, <1>8 DEF Sound, Kinds

-----------------------------------------------------------------------------
(* WindowServer's queue. *)

IsQueue(q) == \E S : q \in Seq(S)

Named(q, k, a) == \E j \in DOMAIN q : q[j].kind = k /\ q[j].pid = a

(* Nothing of an app is before its launch, and nothing after its end.      *)
Ordered(q, apps) ==
  /\ IsQueue(q)
  /\ \A i \in DOMAIN q :
       /\ Sound(q[i])
       /\ q[i].kind # "space" =>
            \/ q[i].pid \in apps
            \/ \E j \in DOMAIN q : j <= i /\ q[j].kind = "launched" /\ q[j].pid = q[i].pid
  /\ \A i, j \in DOMAIN q :
       i < j /\ q[i].kind = "ended" /\ q[j].kind # "space" => q[j].pid # q[i].pid

(* Threads have been launched and have not ended. *)
Runs(q, apps, on, gone) ==
  /\ \A a \in on : a \in apps \/ Named(q, "launched", a)
  /\ \A j \in DOMAIN q : q[j].kind = "ended" => q[j].pid \in gone /\ q[j].pid \notin on

LEMMA Push ==
  ASSUME NEW q, IsQueue(q), NEW e
  PROVE  /\ IsQueue(Append(q, e))
         /\ Len(q) \in Nat /\ DOMAIN q = 1..Len(q)
         /\ DOMAIN Append(q, e) = 1..Len(q) + 1
         /\ \A i \in 1..Len(q) : Append(q, e)[i] = q[i]
         /\ Append(q, e)[Len(q) + 1] = e
<1>1. PICK S : q \in Seq(S)
  BY DEF IsQueue
<1>2. PICK T : T = S \cup {e}
  OBVIOUS
<1>3. S \subseteq T /\ e \in T
  BY <1>2
<1>4. q \in Seq(T)
  BY <1>1, <1>3
<1>5. Append(q, e) \in Seq(T)
  BY <1>3, <1>4
<1>6. IsQueue(Append(q, e))
  BY <1>5 DEF IsQueue
<1>. QED  BY <1>3, <1>4, <1>6

LEMMA Pop ==
  ASSUME NEW q, IsQueue(q), q # << >>
  PROVE  /\ IsQueue(Tail(q))
         /\ Len(q) \in Nat \ {0} /\ DOMAIN q = 1..Len(q) /\ Head(q) = q[1]
         /\ DOMAIN Tail(q) = 1..Len(q) - 1
         /\ \A i \in 1..Len(q) - 1 : Tail(q)[i] = q[i + 1]
<1>1. PICK S : q \in Seq(S)
  BY DEF IsQueue
<1>2. Tail(q) \in Seq(S)
  BY <1>1
<1>3. IsQueue(Tail(q))
  BY <1>2 DEF IsQueue
<1>. QED  BY <1>1, <1>3

LEMMA JoinOne ==
  ASSUME NEW q, IsQueue(q), NEW e, NEW f
  PROVE  /\ q \o << >> = q
         /\ q \o << e >> = Append(q, e)
         /\ q \o (<< e >> \o << f >>) = Append(Append(q, e), f)
         /\ << >> \o << >> = << >> /\ << >> \o << e >> = << e >> /\ << e >> \o << >> = << e >>
<1>1. PICK S : q \in Seq(S)
  BY DEF IsQueue
<1>2. PICK T : T = S \cup {e, f}
  OBVIOUS
<1>3. q \in Seq(T) /\ e \in T /\ f \in T
  BY <1>1, <1>2
<1>. QED  BY <1>3

(* Another event of app a comes last. *)
LEMMA OrderedPush ==
  ASSUME NEW q, NEW apps, Ordered(q, apps), NEW e, Sound(e),
         e.kind # "space" => /\ e.pid \in apps \/ Named(q, "launched", e.pid) \/ e.kind = "launched"
                             /\ ~Named(q, "ended", e.pid)
  PROVE  /\ Ordered(Append(q, e), apps)
         /\ \A k, a : Named(Append(q, e), k, a) <=> Named(q, k, a) \/ (e.kind = k /\ e.pid = a)
<1>. PICK p, n : p = Append(q, e) /\ n = Len(q)
  OBVIOUS
<1>1. /\ n \in Nat /\ DOMAIN q = 1..n /\ DOMAIN p = 1..n + 1
      /\ \A i \in 1..n : p[i] = q[i] /\ i \in 1..n + 1
      /\ n + 1 \in 1..n + 1 /\ p[n + 1] = e
      /\ \A j \in 1..n + 1 : ~(j > n + 1) /\ j <= n + 1 /\ (j # n + 1 => j \in 1..n)
      /\ IsQueue(p)
  BY Push DEF Ordered
<1>2. \A k, a : Named(p, k, a) <=> Named(q, k, a) \/ (e.kind = k /\ e.pid = a)
  BY <1>1 DEF Named
<1>3. ASSUME NEW i \in DOMAIN p
      PROVE  /\ Sound(p[i])
             /\ p[i].kind # "space" =>
                  \/ p[i].pid \in apps
                  \/ \E j \in DOMAIN p : j <= i /\ p[j].kind = "launched" /\ p[j].pid = p[i].pid
  <2>1. CASE i \in 1..n
    BY <1>1, <2>1 DEF Ordered
  <2>2. CASE i = n + 1
    <3>1. Named(q, "launched", e.pid) => \E j \in DOMAIN p : j <= i /\ p[j].kind = "launched" /\ p[j].pid = e.pid
      BY <1>1, <2>2 DEF Named
    <3>. QED  BY <1>1, <2>2, <3>1
  <2>. QED  BY <1>1, <1>3, <2>1, <2>2
<1>4. ASSUME NEW i \in DOMAIN p, NEW j \in DOMAIN p, i < j, p[i].kind = "ended", p[j].kind # "space"
      PROVE  p[j].pid # p[i].pid
  <2>1. i \in 1..n /\ p[i] = q[i]
    BY <1>1, <1>4
  <2>2. CASE j \in 1..n
    BY <1>1, <1>4, <2>1, <2>2 DEF Ordered
  <2>3. CASE j = n + 1
    BY <1>1, <1>4, <2>1, <2>3 DEF Named
  <2>. QED  BY <1>1, <2>2, <2>3
<1>. QED  BY <1>1, <1>2, <1>3, <1>4 DEF Ordered

(* What event e leaves of the apps. *)
LeftBy(e, apps, left) ==
  /\ \A a \in apps : a \in left \/ (e.kind = "ended" /\ e.pid = a)
  /\ e.kind = "launched" => e.pid \in left

(* The first event is handled. *)
LEMMA OrderedPop ==
  ASSUME NEW q, NEW apps, Ordered(q, apps), q # << >>, NEW e, e = Head(q), NEW left,
         LeftBy(e, apps, left)
  PROVE  /\ Sound(e) /\ (e.kind # "space" => e.pid \in apps \/ e.kind = "launched")
         /\ Ordered(Tail(q), left)
         /\ \A k, a : Named(q, k, a) => Named(Tail(q), k, a) \/ (e.kind = k /\ e.pid = a)
         /\ \A k, a : Named(Tail(q), k, a) => Named(q, k, a)
<1>0. /\ \A a \in apps : a \in left \/ (e.kind = "ended" /\ e.pid = a)
      /\ e.kind = "launched" => e.pid \in left
  BY DEF LeftBy
<1>. PICK p, n : p = Tail(q) /\ n = Len(q)
  OBVIOUS
<1>1. /\ n \in Nat \ {0} /\ DOMAIN q = 1..n /\ DOMAIN p = 1..n - 1 /\ e = q[1] /\ IsQueue(p)
      /\ \A i \in 1..n - 1 : p[i] = q[i + 1]
  BY Pop DEF Ordered
<1>2. /\ 1 \in 1..n
      /\ \A i \in 1..n : i # 1 => i - 1 \in 1..n - 1 /\ p[i - 1] = q[i]
      /\ \A i \in 1..n - 1 : i + 1 \in 1..n /\ p[i] = q[i + 1] /\ 1 < i + 1
  <2>1. ASSUME NEW i \in 1..n, i # 1 PROVE i - 1 \in 1..n - 1 /\ p[i - 1] = q[i]
    <3>1. i - 1 \in 1..n - 1 /\ (i - 1) + 1 = i
      BY <1>1, <2>1
    <3>. QED  BY <1>1, <3>1
  <2>. QED  BY <1>1, <2>1
<1>3. Sound(e) /\ (e.kind # "space" => e.pid \in apps \/ e.kind = "launched")
  <2>1. \A j \in 1..n : j <= 1 => j = 1
    OBVIOUS
  <2>. QED  BY <1>1, <1>2, <2>1 DEF Ordered
<1>4. \A k, a : Named(q, k, a) => Named(p, k, a) \/ (e.kind = k /\ e.pid = a)
  <2>1. ASSUME NEW k, NEW a, NEW i \in 1..n, q[i].kind = k, q[i].pid = a
        PROVE  Named(p, k, a) \/ (e.kind = k /\ e.pid = a)
    BY <1>1, <1>2, <2>1 DEF Named
  <2>. QED  BY <1>1, <2>1 DEF Named
<1>5. \A k, a : Named(p, k, a) => Named(q, k, a)
  BY <1>1, <1>2 DEF Named
<1>6. ASSUME NEW i \in 1..n - 1
      PROVE  /\ Sound(p[i])
             /\ p[i].kind # "space" =>
                  \/ p[i].pid \in left
                  \/ \E j \in DOMAIN p : j <= i /\ p[j].kind = "launched" /\ p[j].pid = p[i].pid
  <2>1. i + 1 \in 1..n /\ p[i] = q[i + 1] /\ Sound(q[i + 1])
    BY <1>1, <1>2 DEF Ordered
  <2>2. ASSUME p[i].kind # "space", p[i].pid \in apps PROVE p[i].pid \in left
    <3>1. e.kind = "ended" => p[i].pid # e.pid
      BY <1>1, <1>2, <2>1, <2>2 DEF Ordered
    <3>. QED  BY <1>0, <2>2, <3>1
  <2>3. ASSUME NEW j \in 1..n, j <= i + 1, q[j].kind = "launched", q[j].pid = p[i].pid
        PROVE  \/ p[i].pid \in left
               \/ \E l \in DOMAIN p : l <= i /\ p[l].kind = "launched" /\ p[l].pid = p[i].pid
    <3>1. CASE j = 1
      BY <1>0, <1>1, <2>3, <3>1
    <3>2. CASE j # 1
      <4>1. j - 1 \in DOMAIN p /\ j - 1 <= i /\ p[j - 1] = q[j]
        BY <1>1, <1>2, <2>3, <3>2
      <4>. QED  BY <2>3, <4>1
    <3>. QED  BY <3>1, <3>2
  <2>. QED  BY <1>1, <2>1, <2>2, <2>3 DEF Ordered
<1>7. ASSUME NEW i \in 1..n - 1, NEW j \in 1..n - 1, i < j, p[i].kind = "ended", p[j].kind # "space"
      PROVE  p[j].pid # p[i].pid
  <2>1. i + 1 \in 1..n /\ j + 1 \in 1..n /\ i + 1 < j + 1 /\ p[i] = q[i + 1] /\ p[j] = q[j + 1]
    BY <1>2, <1>7
  <2>. QED  BY <1>1, <1>7, <2>1 DEF Ordered
<1>8. Ordered(p, left)
  <2>1. \A i, j \in DOMAIN p : i < j /\ p[i].kind = "ended" /\ p[j].kind # "space" => p[j].pid # p[i].pid
    BY <1>1, <1>7
  <2>2. \A i \in DOMAIN p :
          /\ Sound(p[i])
          /\ p[i].kind # "space" =>
               \/ p[i].pid \in left
               \/ \E j \in DOMAIN p : j <= i /\ p[j].kind = "launched" /\ p[j].pid = p[i].pid
    BY <1>1, <1>6
  <2>. QED  BY <1>1, <2>1, <2>2 DEF Ordered
<1>. QED  BY <1>3, <1>4, <1>5, <1>8

-----------------------------------------------------------------------------
(* The invariant. *)

NoteKinds == {"created", "main", "visibility", "destroyed"}
NoteOf(a) == [kind : NoteKinds, wid : WindowsOf(a)]
NotesType(ns) == DOMAIN ns = App /\ \A a \in App : ns[a] \in Seq(NoteOf(a))

WInv ==
  /\ here \in Space /\ threads \subseteq App /\ NotesType(notes)
  /\ Shape(r) /\ Tidy(r)
  /\ Ordered(server, r.apps) /\ Runs(server, r.apps, threads, quitting)

LEMMA WInvSound == WInv => LayoutKnown
BY DEF WInv, Tidy, LayoutKnown

LEMMA FiniteKinds ==
  ASSUME NEW K, K \subseteq NoteKinds
  PROVE  IsFiniteSet(K) /\ Cardinality(K) \in Nat
<1>1. IsFiniteSet({"created"} \cup {"main"})
  BY FS_Singleton, FS_Union
<1>2. IsFiniteSet({"visibility"} \cup {"destroyed"})
  BY FS_Singleton, FS_Union
<1>3. IsFiniteSet(({"created"} \cup {"main"}) \cup ({"visibility"} \cup {"destroyed"}))
  BY <1>1, <1>2, FS_Union
<1>4. NoteKinds = ({"created"} \cup {"main"}) \cup ({"visibility"} \cup {"destroyed"})
  BY DEF NoteKinds
<1>5. K \in SUBSET NoteKinds
  OBVIOUS
<1>6. IsFiniteSet(K)
  BY <1>3, <1>4, <1>5, FS_Subset
<1>. QED  BY <1>6, FS_CardinalityType

(* Notifications of a window go to its own app's thread. *)
LEMMA NotifiesType ==
  ASSUME NotesType(notes), NEW w \in Window, NEW K, K \subseteq NoteKinds, Notifies(w, K)
  PROVE  NotesType(notes')
<1>. PICK a : a = Owner[w]
  OBVIOUS
<1>1. CASE a \notin threads
  BY <1>1 DEF Notifies
<1>2. CASE a \in threads
  <2>1. PICK s \in SetToSeqs(K) :
          notes' = [notes EXCEPT ![a] = @ \o [i \in DOMAIN s |-> Note(s[i], w)]]
    BY <1>2 DEF Notifies
  <2>. PICK n : n = Cardinality(K)
    OBVIOUS
  <2>2. n \in Nat /\ s \in [1..n -> K]
    BY FiniteKinds DEF SetToSeqs
  <2>. PICK t : t = [i \in DOMAIN s |-> Note(s[i], w)]
    OBVIOUS
  <2>3. a \in App /\ w \in WindowsOf(a)
    BY WindowsAssumption DEF WindowsOf
  <2>4. t \in [1..n -> NoteOf(a)]
    BY <2>2, <2>3 DEF NoteOf, Note
  <2>5. t \in Seq(NoteOf(a)) /\ notes[a] \in Seq(NoteOf(a))
    BY <2>2, <2>3, <2>4 DEF NotesType
  <2>6. notes[a] \o t \in Seq(NoteOf(a))
    BY <2>5
  <2>7. notes' = [notes EXCEPT ![a] = notes[a] \o t]
    BY <2>1
  <2>. QED  BY <2>3, <2>6, <2>7 DEF NotesType
<1>. QED  BY <1>1, <1>2

LEMMA World ==
  ASSUME WInv,
         \/ \E w \in Window :
              Opens(w) \/ Focuses(w) \/ Minimizes(w) \/ Closes(w) \/ Returns(w) \/ Destroys(w)
         \/ \E a \in App : Quits(a)
  PROVE  WInv'
<1>1. /\ UNCHANGED <<here, saved, threads, server, r>> /\ quitting \subseteq quitting'
      /\ \/ notes' = notes
         \/ \E w \in Window, K \in SUBSET NoteKinds : Notifies(w, K)
  <2>0. \A w : IfMain(w, "main") \subseteq NoteKinds
    BY DEF IfMain, NoteKinds
  <2>1. ASSUME NEW w \in Window, Opens(w) \/ Focuses(w) \/ Returns(w)
        PROVE  /\ UNCHANGED <<here, saved, threads, server, r, quitting>>
               /\ \E K : K \subseteq NoteKinds /\ Notifies(w, K)
    <3>1. \E K : K \subseteq NoteKinds /\ Notifies(w, K)
      <4>1. CASE Opens(w)
        <5>1. {"created", "main"} \subseteq NoteKinds /\ Notifies(w, {"created", "main"})
          BY <4>1 DEF Opens, NoteKinds
        <5>. QED  BY <5>1
      <4>2. CASE Focuses(w)
        <5>1. {"main"} \subseteq NoteKinds /\ Notifies(w, {"main"})
          BY <4>2 DEF Focuses, NoteKinds
        <5>. QED  BY <5>1
      <4>3. CASE Returns(w)
        <5>. PICK K : K = {"main"} \cup IF stat[w] = "mini" THEN {"visibility"} ELSE {}
          OBVIOUS
        <5>1. K \subseteq NoteKinds /\ Notifies(w, K)
          BY <4>3 DEF Returns, NoteKinds
        <5>. QED  BY <5>1
      <4>. QED  BY <2>1, <4>1, <4>2, <4>3
    <3>. QED  BY <2>1, <3>1 DEF Opens, Focuses, Returns, Rest, threadVars
  <2>2. ASSUME NEW w \in Window, Minimizes(w) \/ Closes(w)
        PROVE  /\ UNCHANGED <<here, saved, threads, server, r, quitting>>
               /\ \E K : K \subseteq NoteKinds /\ Notifies(w, K)
    <3>1. CASE Minimizes(w)
      <4>1. {"visibility"} \cup IfMain(w, "main") \subseteq NoteKinds
        BY <2>0 DEF NoteKinds
      <4>. QED  BY <3>1, <4>1 DEF Minimizes, threadVars
    <3>2. CASE Closes(w)
      BY <2>0, <3>2 DEF Closes, threadVars
    <3>. QED  BY <2>2, <3>1, <3>2
  <2>3. ASSUME NEW w \in Window, Destroys(w)
        PROVE  /\ UNCHANGED <<here, saved, threads, server, r, quitting>>
               /\ \E K : K \subseteq NoteKinds /\ Notifies(w, K)
    <3>1. PICK k \in {{}, {"destroyed"}} : Notifies(w, k \cup IfMain(w, "main"))
      BY <2>3 DEF Destroys
    <3>2. k \cup IfMain(w, "main") \subseteq NoteKinds
      BY <2>0 DEF NoteKinds
    <3>. QED  BY <2>3, <3>1, <3>2 DEF Destroys, Rest, threadVars
  <2>4. ASSUME NEW a \in App, Quits(a)
        PROVE  UNCHANGED <<here, saved, threads, server, r, notes>> /\ quitting \subseteq quitting'
    BY <2>4 DEF Quits, Rest, threadVars
  <2>. QED  BY <2>1, <2>2, <2>3, <2>4
<1>2. NotesType(notes')
  BY <1>1, NotifiesType DEF WInv
<1>3. Tidy(r)' /\ Shape(r)'
  BY <1>1 DEF WInv, Tidy
<1>4. Ordered(server', r'.apps) /\ Runs(server', r'.apps, threads', quitting')
  BY <1>1 DEF WInv, Runs
<1>. QED  BY <1>1, <1>2, <1>3, <1>4 DEF WInv

LEMMA RunsNamed ==
  ASSUME NEW q, NEW apps, NEW on, NEW gone
  PROVE  Runs(q, apps, on, gone) <=>
           /\ \A a \in on : a \in apps \/ Named(q, "launched", a)
           /\ \A a : Named(q, "ended", a) => a \in gone /\ a \notin on
BY DEF Runs, Named

LEMMA SpacePush ==
  ASSUME NEW q, NEW apps, Ordered(q, apps), NEW on, NEW gone, Runs(q, apps, on, gone),
         NEW e, Sound(e), e.kind = "space"
  PROVE  Ordered(Append(q, e), apps) /\ Runs(Append(q, e), apps, on, gone)
<1>1. /\ Ordered(Append(q, e), apps)
      /\ \A k, a : Named(Append(q, e), k, a) <=> Named(q, k, a) \/ (e.kind = k /\ e.pid = a)
  BY OrderedPush
<1>. QED  BY <1>1, RunsNamed

LEMMA Switch ==
  ASSUME WInv, NEW s \in Space, SwitchesTo(s)
  PROVE  WInv'
<1>. PICK e : e = Event("space", "", {}, {})
  OBVIOUS
<1>1. /\ UNCHANGED <<saved, threads, r, notes, quitting>> /\ here' = s /\ server' = Append(server, e)
      /\ e.kind = "space" /\ Sound(e)
  BY DEF SwitchesTo, threadVars, Event, Sound, Kinds
<1>2. Ordered(server', r.apps) /\ Runs(server', r.apps, threads, quitting)
  BY <1>1, SpacePush DEF WInv
<1>3. Tidy(r)' /\ Shape(r)'
  BY <1>1 DEF WInv, Tidy
<1>. QED  BY <1>1, <1>2, <1>3 DEF WInv

(* What a thread may tell the reactor, between its launch and its end.     *)
News(a, e) == Sound(e) /\ e.pid = a /\ e.kind \notin {"space", "launched", "ended"}

LEMMA TellOne ==
  ASSUME NEW q, NEW apps, NEW on, NEW gone, Ordered(q, apps), Runs(q, apps, on, gone),
         NEW a \in on, NEW e, News(a, e)
  PROVE  Ordered(Append(q, e), apps) /\ Runs(Append(q, e), apps, on, gone)
<1>1. (a \in apps \/ Named(q, "launched", a)) /\ ~Named(q, "ended", a)
  BY DEF Runs, Named
<1>2. /\ Ordered(Append(q, e), apps)
      /\ \A k, b : Named(Append(q, e), k, b) <=> Named(q, k, b) \/ (e.kind = k /\ e.pid = b)
  BY <1>1, OrderedPush DEF News
<1>3. \A b : Named(Append(q, e), "ended", b) => b \in gone /\ b \notin on
  BY <1>2 DEF Runs, Named, News
<1>4. \A b \in on : b \in apps \/ Named(Append(q, e), "launched", b)
  BY <1>2 DEF Runs
<1>. QED  BY <1>2, <1>3, <1>4 DEF Runs, Named

Tellable(a, es) ==
  \/ es = << >>
  \/ \E e : News(a, e) /\ es = << e >>
  \/ \E e, f : News(a, e) /\ News(a, f) /\ es = << e >> \o << f >>

LEMMA TellSome ==
  ASSUME WInv, NEW a \in threads, NEW es, Tellable(a, es), Tells(es),
         UNCHANGED <<here, saved, threads, quitting, r>>, NotesType(notes')
  PROVE  WInv'
<1>1. server' = server \o es /\ IsQueue(server)
  BY DEF Tells, WInv, Ordered
<1>2. Ordered(server', r.apps) /\ Runs(server', r.apps, threads, quitting)
  <2>1. CASE es = << >>
    BY <1>1, <2>1, JoinOne DEF WInv
  <2>2. ASSUME NEW e, News(a, e), es = << e >>
        PROVE  Ordered(server', r.apps) /\ Runs(server', r.apps, threads, quitting)
    <3>1. server' = Append(server, e)
      BY <1>1, <2>2, JoinOne
    <3>. QED  BY <2>2, <3>1, TellOne DEF WInv
  <2>3. ASSUME NEW e, NEW f, News(a, e), News(a, f), es = << e >> \o << f >>
        PROVE  Ordered(server', r.apps) /\ Runs(server', r.apps, threads, quitting)
    <3>1. server' = Append(Append(server, e), f)
      <4>1. server \o (<< e >> \o << f >>) = Append(Append(server, e), f)
        BY <1>1, JoinOne
      <4>. QED  BY <1>1, <2>3, <4>1
    <3>2. Ordered(Append(server, e), r.apps) /\ Runs(Append(server, e), r.apps, threads, quitting)
      BY <2>3, TellOne DEF WInv
    <3>. QED  BY <2>3, <3>1, <3>2, TellOne
  <2>. QED  BY <2>1, <2>2, <2>3 DEF Tellable
<1>3. Tidy(r)' /\ Shape(r)'
  BY DEF WInv, Tidy
<1>. QED  BY <1>2, <1>3 DEF WInv

LEMMA EventNews ==
  ASSUME NEW a, NEW k, NEW new, NEW seen, k \in {"main", "visibility", "discovered", "destroyed", "created"},
         k = "created" => new # {} /\ new \subseteq WindowsOf(a)
  PROVE  News(a, Event(k, a, new, seen)) /\ Tellable(a, << Event(k, a, new, seen) >>)
<1>1. News(a, Event(k, a, new, seen))
  BY DEF News, Event, Sound, Kinds
<1>. QED  BY <1>1 DEF Tellable

LEMMA MainOwned == \A a : Main(a) \subseteq WindowsOf(a)
BY DEF Main

LEMMA Thread ==
  ASSUME WInv, NEW a \in App, Answers(a) \/ AnswerFails(a) \/ HearsDestroyed(a)
  PROVE  WInv'
<1>1. CASE Answers(a)
  <2>1. /\ a \in threads /\ Tells(<< Event("discovered", a, Listed(a) \ known[a], Listed(a) \cap known[a]) >>)
        /\ UNCHANGED <<here, saved, threads, quitting, r, notes>>
    BY <1>1 DEF Answers, worldVars
  <2>. QED  BY <2>1, EventNews, TellSome DEF WInv
<1>2. CASE AnswerFails(a)
  <2>1. /\ a \in threads /\ Tells(<< Event("discovered", a, {}, {}) >>)
        /\ UNCHANGED <<here, saved, threads, quitting, r, notes>>
    BY <1>2 DEF AnswerFails, worldVars, threadVars
  <2>. QED  BY <2>1, EventNews, TellSome DEF WInv
<1>3. CASE HearsDestroyed(a)
  <2>1. PICK w : /\ a \in threads /\ Forgets(a, w)
                 /\ UNCHANGED <<here, saved, threads, quitting, r, notes>>
    BY <1>3 DEF HearsDestroyed, worldVars
  <2>. PICK es : es = IF w \in known[a] THEN << Event("destroyed", a, {w}, {}) >> ELSE << >>
    OBVIOUS
  <2>2. Tells(es) /\ Tellable(a, es)
    BY <2>1, EventNews DEF Forgets, Tellable
  <2>. QED  BY <2>1, <2>2, TellSome DEF WInv
<1>. QED  BY <1>1, <1>2, <1>3

LEMMA Notified ==
  ASSUME WInv, NEW a \in App, HandleNote(a)
  PROVE  WInv'
<1>. DEFINE n == Head(notes[a])
            w == n.wid
            m == IF a \in quitting THEN {} ELSE Main(a)
            unknown == m \ known[a]
            create == IF unknown = {} THEN << >> ELSE << Event("created", a, unknown, {}) >>
            ws == IF stat[w] = "dead" THEN {} ELSE {w} \ known[a]
            es1 == IF ws = {} THEN << >> ELSE << Event("created", a, ws, {}) >>
            moved == IF m \subseteq mainSeen[a] THEN << >> ELSE << Event("main", a, {}, {}) >>
            es3 == IF w \in known[a] THEN << Event("visibility", a, {}, {}) >> ELSE << >>
            es4 == IF w \in known[a] THEN << Event("destroyed", a, {w}, {}) >> ELSE << >>
<1>1. /\ a \in threads /\ notes[a] # << >>
      /\ notes' = [notes EXCEPT ![a] = Tail(@)]
      /\ UNCHANGED <<here, saved, threads, quitting, r>>
      /\ Tells(es1) \/ Tells(create \o moved) \/ Tells(es3) \/ Tells(es4)
  BY DEF HandleNote, worldVars, Forgets
<1>2. notes[a] \in Seq(NoteOf(a))
  BY DEF WInv, NotesType
<1>3. w \in WindowsOf(a) /\ Tail(notes[a]) \in Seq(NoteOf(a))
  <2>1. Head(notes[a]) \in NoteOf(a) /\ Tail(notes[a]) \in Seq(NoteOf(a))
    BY <1>1, <1>2
  <2>. QED  BY <2>1 DEF NoteOf
<1>4. NotesType(notes')
  BY <1>1, <1>3 DEF WInv, NotesType
<1>5. Tellable(a, es1)
  <2>1. ws \subseteq WindowsOf(a)
    BY <1>3
  <2>. HIDE DEF ws
  <2>. QED  BY <2>1, EventNews DEF Tellable
<1>6. Tellable(a, create \o moved)
  <2>1. unknown \subseteq WindowsOf(a)
    BY MainOwned
  <2>. HIDE DEF unknown
  <2>2. create = << >> \/ (create = << Event("created", a, unknown, {}) >> /\ News(a, Event("created", a, unknown, {})))
    <3>1. unknown # {} => News(a, Event("created", a, unknown, {}))
      BY <2>1 DEF News, Event, Sound, Kinds
    <3>. QED  BY <3>1
  <2>3. moved = << >> \/ (moved = << Event("main", a, {}, {}) >> /\ News(a, Event("main", a, {}, {})))
    <3>1. News(a, Event("main", a, {}, {}))
      BY DEF News, Event, Sound, Kinds
    <3>. QED  BY <3>1
  <2>. HIDE DEF create, moved
  <2>. PICK e, f : e = Event("created", a, unknown, {}) /\ f = Event("main", a, {}, {})
    OBVIOUS
  <2>4. IsQueue(server)
    BY DEF WInv, Ordered
  <2>5. << >> \o << >> = << >> /\ << >> \o << f >> = << f >> /\ << e >> \o << >> = << e >>
    BY <2>4, JoinOne
  <2>. QED  BY <2>2, <2>3, <2>5 DEF Tellable
<1>7. Tellable(a, es3) /\ Tellable(a, es4)
  BY EventNews DEF Tellable
<1>. HIDE DEF es1, es3, es4, create, moved
<1>. QED  BY <1>1, <1>4, <1>5, <1>6, <1>7, TellSome

LEMMA Launch ==
  ASSUME WInv, NEW a \in App, Launches(a)
  PROVE  WInv'
<1>. PICK e : e = Event("launched", a, Listed(a), {})
  OBVIOUS
<1>1. /\ a \notin threads \cup quitting /\ threads' = threads \cup {a}
      /\ server' = server \o << e >> /\ e.kind = "launched" /\ e.pid = a /\ Sound(e)
      /\ UNCHANGED <<here, saved, quitting, r, notes>>
  BY DEF Launches, Tells, Event, Sound, Kinds, worldVars
<1>2. IsQueue(server)
  BY DEF WInv, Ordered
<1>3. server' = Append(server, e)
  BY <1>1, <1>2, JoinOne
<1>4. ~Named(server, "ended", a)
  BY <1>1 DEF WInv, Runs, Named
<1>5. /\ Ordered(server', r.apps)
      /\ \A k, b : Named(server', k, b) <=> Named(server, k, b) \/ (e.kind = k /\ e.pid = b)
  <2>1. Ordered(server, r.apps)
    BY DEF WInv
  <2>2. /\ Ordered(Append(server, e), r.apps)
        /\ \A k, b : Named(Append(server, e), k, b) <=> Named(server, k, b) \/ (e.kind = k /\ e.pid = b)
    BY <1>1, <1>4, <2>1, OrderedPush
  <2>. QED  BY <1>3, <2>2
<1>6. Runs(server', r.apps, threads', quitting)
  <2>1. \A b : Named(server', "ended", b) => b \in quitting /\ b \notin threads'
    BY <1>1, <1>5 DEF WInv, Runs, Named
  <2>2. \A b \in threads' : b \in r.apps \/ Named(server', "launched", b)
    BY <1>1, <1>5 DEF WInv, Runs
  <2>. QED  BY <2>1, <2>2 DEF Runs, Named
<1>7. Tidy(r)' /\ Shape(r)'
  BY <1>1 DEF WInv, Tidy
<1>. QED  BY <1>1, <1>5, <1>6, <1>7 DEF WInv

LEMMA End ==
  ASSUME WInv, NEW a \in App, ThreadEnds(a)
  PROVE  WInv'
<1>. PICK e : e = Event("ended", a, {}, {})
  OBVIOUS
<1>1. /\ a \in threads /\ a \in quitting /\ threads' = threads \ {a}
      /\ notes' = [notes EXCEPT ![a] = << >>]
      /\ server' = server \o << e >> /\ e.kind = "ended" /\ e.pid = a /\ Sound(e)
      /\ UNCHANGED <<here, saved, quitting, r>>
  BY DEF ThreadEnds, Tells, Event, Sound, Kinds, worldVars
<1>2. IsQueue(server)
  BY DEF WInv, Ordered
<1>3. server' = Append(server, e)
  BY <1>1, <1>2, JoinOne
<1>4. (a \in r.apps \/ Named(server, "launched", a)) /\ ~Named(server, "ended", a)
  BY <1>1 DEF WInv, Runs, Named
<1>5. /\ Ordered(server', r.apps)
      /\ \A k, b : Named(server', k, b) <=> Named(server, k, b) \/ (e.kind = k /\ e.pid = b)
  <2>1. Ordered(server, r.apps)
    BY DEF WInv
  <2>2. /\ Ordered(Append(server, e), r.apps)
        /\ \A k, b : Named(Append(server, e), k, b) <=> Named(server, k, b) \/ (e.kind = k /\ e.pid = b)
    BY <1>1, <1>4, <2>1, OrderedPush
  <2>. QED  BY <1>3, <2>2
<1>6. Runs(server', r.apps, threads', quitting)
  <2>1. \A b : Named(server', "ended", b) => b \in quitting /\ b \notin threads'
    BY <1>1, <1>5 DEF WInv, Runs, Named
  <2>2. \A b \in threads' : b \in r.apps \/ Named(server', "launched", b)
    BY <1>1, <1>5 DEF WInv, Runs
  <2>. QED  BY <2>1, <2>2 DEF Runs, Named
<1>7. Tidy(r)' /\ Shape(r)'
  BY <1>1 DEF WInv, Tidy
<1>8. NotesType(notes')
  <2>1. << >> \in Seq(NoteOf(a))
    OBVIOUS
  <2>. QED  BY <1>1, <2>1 DEF WInv, NotesType
<1>. QED  BY <1>1, <1>5, <1>6, <1>7, <1>8 DEF WInv

LEMMA Handled ==
  ASSUME WInv, ServerHandles
  PROVE  WInv'
<1>0. PICK e : e = Head(server)
  OBVIOUS
<1>1. /\ server # << >> /\ server' = Tail(server) /\ r' = After(e)
      /\ UNCHANGED <<here, saved, threads, quitting, notes>>
  BY <1>0 DEF ServerHandles, worldVars, threadVars
<1>2. Sound(e) /\ (e.kind # "space" => e.pid \in r.apps \/ e.kind = "launched")
  <2>1. PICK q, apps, left : q = server /\ apps = r.apps /\ left = r.apps \cup {e.pid}
    OBVIOUS
  <2>2. Ordered(q, apps) /\ q # << >> /\ e = Head(q)
    BY <1>0, <1>1, <2>1 DEF WInv
  <2>3. LeftBy(e, apps, left)
    BY <2>1 DEF LeftBy
  <2>. QED  BY <2>1, <2>2, <2>3, OrderedPop
<1>3. /\ Shape(r') /\ Tidy(After(e))
      /\ e.kind = "launched" => e.pid \in r'.apps
      /\ \A a \in r.apps : a \in r'.apps \/ (e.kind = "ended" /\ e.pid = a)
  BY <1>1, <1>2, AfterTidy DEF WInv
<1>4. /\ Ordered(server', r'.apps)
      /\ \A k, a : Named(server, k, a) => Named(server', k, a) \/ (e.kind = k /\ e.pid = a)
      /\ \A k, a : Named(server', k, a) => Named(server, k, a)
  <2>0. PICK left : left = r'.apps
    OBVIOUS
  <2>1. /\ Ordered(server, r.apps) /\ (e.kind = "launched" => e.pid \in left)
        /\ \A a \in r.apps : a \in left \/ (e.kind = "ended" /\ e.pid = a)
    BY <1>3, <2>0 DEF WInv
  <2>2. /\ Ordered(Tail(server), left)
        /\ \A k, a : Named(server, k, a) => Named(Tail(server), k, a) \/ (e.kind = k /\ e.pid = a)
        /\ \A k, a : Named(Tail(server), k, a) => Named(server, k, a)
    <3>1. PICK q : q = server
      OBVIOUS
    <3>2. PICK apps : apps = r.apps
      OBVIOUS
    <3>3. Ordered(q, apps) /\ q # << >> /\ e = Head(q)
      BY <1>0, <1>1, <2>1, <3>1, <3>2
    <3>4. LeftBy(e, apps, left)
      BY <2>1, <3>2 DEF LeftBy
    <3>5. /\ Ordered(Tail(q), left)
          /\ \A k, a : Named(q, k, a) => Named(Tail(q), k, a) \/ (e.kind = k /\ e.pid = a)
          /\ \A k, a : Named(Tail(q), k, a) => Named(q, k, a)
      BY <3>3, <3>4, OrderedPop
    <3>. QED  BY <3>1, <3>5
  <2>. QED  BY <1>1, <2>0, <2>2
<1>5. Runs(server', r'.apps, threads, quitting)
  <2>1. \A a : Named(server', "ended", a) => a \in quitting /\ a \notin threads
    BY <1>4 DEF WInv, Runs, Named
  <2>2. e.kind = "ended" => e.pid \notin threads
    <3>1. 1 \in DOMAIN server /\ server[1] = e
      BY <1>0, <1>1, Pop DEF WInv, Ordered
    <3>. QED  BY <3>1 DEF WInv, Runs
  <2>3. \A a \in threads : a \in r'.apps \/ Named(server', "launched", a)
    BY <1>3, <1>4, <2>2 DEF WInv, Runs
  <2>. QED  BY <2>1, <2>3 DEF Runs, Named
<1>6. Tidy(r)'
  BY <1>1, <1>3 DEF Tidy
<1>. QED  BY <1>1, <1>3, <1>4, <1>5, <1>6 DEF WInv

LEMMA Startup ==
  ASSUME WInv, StartupCompletes
  PROVE  WInv'
<1>. PICK s, ws : s = AppsRunningUpdated(r) /\ ws = {w \in Window : Owner[w] \notin r.apps}
  OBVIOUS
<1>1. /\ r' = [s EXCEPT !.started = TRUE]
      /\ UNCHANGED <<here, saved, threads, quitting, server, notes>>
  BY DEF StartupCompletes, worldVars, threadVars
<1>2. s = Removed(r, ws)
  BY DEF AppsRunningUpdated
<1>3. /\ Shape(s) /\ s.apps = r.apps /\ s.windows = r.windows
      /\ \A sp \in Space, x \in Window : s.layout[sp][x] > 0 => x \notin ws /\ r.layout[sp][x] > 0
  BY <1>2, RemovedShape DEF WInv
<1>4. Shape(r') /\ r'.apps = r.apps /\ r'.windows = r.windows /\ r'.layout = s.layout
  BY <1>1, <1>3 DEF Shape
<1>5. Tidy(r)'
  BY <1>1, <1>3, <1>4 DEF Tidy, WInv
<1>. QED  BY <1>1, <1>4, <1>5 DEF WInv

LEMMA InitWInv == Init => WInv
<1>. SUFFICES ASSUME Init PROVE WInv
  OBVIOUS
<1>1. here \in Space /\ threads \subseteq App
  BY WindowsAssumption DEF Init
<1>2. NotesType(notes)
  <2>1. \A a \in App : << >> \in Seq(NoteOf(a))
    OBVIOUS
  <2>. QED  BY <2>1 DEF Init, NotesType
<1>. PICK ws : ws = UNION {known[a] : a \in App}
  OBVIOUS
<1>. PICK visible : visible = Range(List)
  OBVIOUS
<1>3. r = [apps |-> threads, windows |-> ws, ids |-> ws, hidden |-> {},
           visible |-> visible, space |-> here, layout |-> Restored(ws \cup saved),
           started |-> threads = App]
  BY DEF Init
<1>4. /\ DOMAIN Restored(ws \cup saved) = Space
      /\ \A sp \in Space : DOMAIN Restored(ws \cup saved)[sp] = Window
      /\ \A sp \in Space, w \in Window : Restored(ws \cup saved)[sp][w] > 0 => w \in ws \cup saved
  BY DEF Restored
<1>5. Shape(r)
  BY <1>1, <1>3, <1>4 DEF Shape
<1>6. Tidy(r)
  BY <1>3, <1>4, WindowsAssumption DEF Tidy
<1>7. IsQueue(<< >>) /\ DOMAIN << >> = {}
  <2>1. << >> \in Seq({})
    OBVIOUS
  <2>. QED  BY <2>1 DEF IsQueue
<1>8. Ordered(server, r.apps) /\ Runs(server, r.apps, threads, quitting)
  BY <1>3, <1>7 DEF Init, Ordered, Runs
<1>. QED  BY <1>1, <1>2, <1>5, <1>6, <1>8 DEF WInv

LEMMA NextWInv == WInv /\ [Next]_vars => WInv'
<1>. SUFFICES ASSUME WInv, [Next]_vars PROVE WInv'
  OBVIOUS
<1>1. ASSUME Poll \/ UNCHANGED vars PROVE WInv'
  <2>1. UNCHANGED <<here, saved, threads, quitting, r, server, notes>>
    BY <1>1 DEF Poll, vars, worldVars, threadVars
  <2>. QED  BY <2>1 DEF WInv, Tidy
<1>. QED  BY <1>1, World, Switch, Thread, Notified, Launch, End, Handled, Startup DEF Next

(* Threads and queue are in order, and layouts have only known windows, in *)
(* every behaviour.                                                        *)
THEOREM WindowsInvariant == Spec => []WInv
<1>. QED  BY InitWInv, NextWInv, PTL DEF Spec

(* Windows that were destroyed and those of apps that quit are in no       *)
(* layout, whatever answers were on their way.                             *)
THEOREM LayoutKnownHolds == Spec => []LayoutKnown
<1>. QED  BY WindowsInvariant, WInvSound, PTL

-----------------------------------------------------------------------------
(* Sequences of windows. *)

LEMMA OnlyLists ==
  ASSUME NEW q, IsQueue(q), NEW S
  PROVE  Only(q, S) \in Seq(S) /\ Range(Only(q, S)) = Range(q) \cap S
<1>. DEFINE kept == {i \in DOMAIN q : q[i] \in S}
            n == Cardinality(kept)
            Before(i) == {j \in kept : j < i}
            place == [i \in kept |-> Cardinality(Before(i)) + 1]
            p == Only(q, S)
<1>1. IsFiniteSet(kept) /\ n \in Nat /\ kept \subseteq Nat
  <2>1. PICK m \in Nat : DOMAIN q = 1..m
    BY DEF IsQueue
  <2>2. IsFiniteSet(1..m) /\ kept \in SUBSET (1..m)
    BY <2>1, FS_Interval
  <2>3. kept \subseteq Nat
    BY <2>1
  <2>. HIDE DEF kept
  <2>4. IsFiniteSet(kept)
    BY <2>2, FS_Subset
  <2>. QED  BY <2>3, <2>4, FS_CardinalityType
<1>2. ASSUME NEW i \in kept
      PROVE  IsFiniteSet(Before(i)) /\ Cardinality(Before(i)) \in Nat /\ Cardinality(Before(i)) < n
  <2>1. Before(i) \in SUBSET kept /\ i \notin Before(i) /\ i \in kept
    BY <1>1
  <2>. HIDE DEF Before, kept
  <2>2. IsFiniteSet(Before(i)) /\ Cardinality(Before(i)) <= n /\ Cardinality(Before(i)) # n
    BY <1>1, <2>1, FS_Subset
  <2>. PICK B : B = Before(i)
    OBVIOUS
  <2>3. Cardinality(B) \in Nat
    BY <2>2, FS_CardinalityType
  <2>. HIDE DEF n
  <2>. QED  BY <1>1, <2>2, <2>3
<1>3. ASSUME NEW i \in kept, NEW j \in kept, i < j
      PROVE  Cardinality(Before(i)) < Cardinality(Before(j))
  <2>1. Before(i) \in SUBSET Before(j) /\ i \in Before(j) /\ i \notin Before(i)
    BY <1>1, <1>3
  <2>2. IsFiniteSet(Before(j)) /\ Cardinality(Before(i)) \in Nat /\ Cardinality(Before(j)) \in Nat
    BY <1>2
  <2>. HIDE DEF Before
  <2>3. Cardinality(Before(i)) <= Cardinality(Before(j)) /\ Cardinality(Before(i)) # Cardinality(Before(j))
    BY <2>1, <2>2, FS_Subset
  <2>. QED  BY <2>2, <2>3
<1>4. place \in [kept -> 1..n]
  <2>1. \A i \in kept : Cardinality(Before(i)) + 1 \in 1..n
    <3>. HIDE DEF Before, n, kept
    <3>. QED  BY <1>1, <1>2
  <2>. HIDE DEF Before, kept
  <2>. QED  BY <2>1
<1>5. \A i, j \in kept : place[i] = place[j] => i = j
  <2>1. ASSUME NEW i \in kept, NEW j \in kept, i # j PROVE place[i] # place[j]
    <3>1. i < j \/ j < i
      BY <1>1, <2>1
    <3>2. /\ Cardinality(Before(i)) \in Nat /\ Cardinality(Before(j)) \in Nat
          /\ \/ Cardinality(Before(i)) < Cardinality(Before(j))
             \/ Cardinality(Before(j)) < Cardinality(Before(i))
      <4>. HIDE DEF Before, kept
      <4>. QED  BY <1>2, <1>3, <3>1
    <3>. HIDE DEF Before, kept
    <3>. QED  BY <3>2
  <2>. HIDE DEF place, kept
  <2>. QED  BY <2>1
<1>6. place \in Injection(kept, 1..n)
  BY <1>4, <1>5 DEF Injection, IsInjective
<1>7. IsFiniteSet(1..n) /\ Cardinality(1..n) = n
  BY <1>1, FS_Interval
<1>8. \A k \in 1..n : \E i \in kept : place[i] = k
  <2>. HIDE DEF place, kept
  <2>1. place \in Surjection(kept, 1..n)
    BY <1>1, <1>6, <1>7, FS_Injection
  <2>. QED  BY <2>1 DEF Surjection
<1>9. p = [k \in 1..n |-> q[CHOOSE i \in kept : Cardinality(Before(i)) = k - 1]]
  BY DEF Only
<1>10. \A i \in kept : place[i] = Cardinality(Before(i)) + 1 /\ place[i] \in 1..n
  <2>. HIDE DEF Before, kept, n
  <2>. QED  BY <1>4
<1>11. ASSUME NEW k \in 1..n
       PROVE  \E i \in kept : place[i] = k /\ p[k] = q[i]
  <2>1. PICK i \in kept : place[i] = k
    BY <1>8
  <2>2. Cardinality(Before(i)) = k - 1
    <3>. HIDE DEF place, Before, kept
    <3>. QED  BY <1>2, <1>10, <2>1
  <2>. DEFINE c == CHOOSE j \in kept : Cardinality(Before(j)) = k - 1
  <2>3. c \in kept /\ Cardinality(Before(c)) = k - 1
    <3>. HIDE DEF Before, kept
    <3>. QED  BY <2>2
  <2>4. place[c] = k /\ p[k] = q[c]
    <3>1. p[k] = q[c]
      BY <1>9
    <3>. HIDE DEF Before, kept, place, c, p
    <3>. QED  BY <1>10, <2>3, <3>1
  <2>. HIDE DEF c, p, place, kept
  <2>. QED  BY <2>3, <2>4
<1>12. DOMAIN p = 1..n /\ \A k \in 1..n : p[k] \in S /\ p[k] \in Range(q)
  <2>1. \A i \in kept : q[i] \in S /\ q[i] \in Range(q)
    BY DEF Range
  <2>2. DOMAIN p = 1..n
    <3>. HIDE DEF n, kept
    <3>. QED  BY <1>9
  <2>. HIDE DEF p, place, kept, n
  <2>. QED  BY <1>11, <2>1, <2>2
<1>13. p \in Seq(S)
  <2>1. p = [k \in 1..n |-> p[k]]
    <3>. HIDE DEF n, kept, Before
    <3>. QED  BY <1>9
  <2>. HIDE DEF p, n, kept
  <2>. QED  BY <1>1, <1>12, <2>1
<1>14. ASSUME NEW x \in S, x \in Range(q) PROVE x \in Range(p)
  <2>1. PICK i \in kept : q[i] = x
    BY <1>14 DEF Range
  <2>2. place[i] \in 1..n
    <3>. HIDE DEF kept, place
    <3>. QED  BY <1>10
  <2>3. PICK j \in kept : place[j] = place[i] /\ p[place[i]] = q[j]
    <3>. HIDE DEF kept, place, p, n
    <3>. QED  BY <1>11, <2>2
  <2>4. j = i
    <3>. HIDE DEF kept, place
    <3>. QED  BY <1>5, <2>3
  <2>. HIDE DEF kept, place, p, n
  <2>. QED  BY <1>12, <2>1, <2>2, <2>3, <2>4 DEF Range
<1>. HIDE DEF p, n
<1>15. Range(p) = Range(q) \cap S
  BY <1>12, <1>14 DEF Range
<1>. QED  BY <1>13, <1>15 DEF p

LEMMA JoinRange ==
  ASSUME NEW S, NEW p \in Seq(S), NEW q \in Seq(S)
  PROVE  p \o q \in Seq(S) /\ Range(p \o q) = Range(p) \cup Range(q)
<1>. PICK m, n, t : m = Len(p) /\ n = Len(q) /\ t = p \o q
  OBVIOUS
<1>1. /\ m \in Nat /\ n \in Nat /\ DOMAIN p = 1..m /\ DOMAIN q = 1..n /\ DOMAIN t = 1..m + n
      /\ \A i \in 1..m : t[i] = p[i]
      /\ t \in Seq(S)
  OBVIOUS
<1>2. \A i \in 1..m + n : i \notin 1..m => i - m \in 1..n /\ t[i] = q[i - m]
  BY <1>1
<1>3. ASSUME NEW i \in 1..n PROVE i + m \in 1..m + n /\ t[i + m] = q[i]
  <2>1. i + m \in 1..m + n /\ i + m \notin 1..m /\ (i + m) - m = i
    BY <1>1
  <2>. QED  BY <1>2, <2>1
<1>4. \A i \in 1..m : i \in 1..m + n
  BY <1>1
<1>5. Range(t) \subseteq Range(p) \cup Range(q)
  <2>1. ASSUME NEW i \in 1..m + n PROVE t[i] \in Range(p) \cup Range(q)
    <3>1. CASE i \in 1..m
      BY <1>1, <3>1 DEF Range
    <3>2. CASE i \notin 1..m
      BY <1>1, <1>2, <3>2 DEF Range
    <3>. QED  BY <3>1, <3>2
  <2>. QED  BY <1>1, <2>1 DEF Range
<1>6. Range(p) \subseteq Range(t) /\ Range(q) \subseteq Range(t)
  <2>1. \A i \in 1..m : p[i] \in Range(t)
    BY <1>1, <1>4 DEF Range
  <2>2. \A i \in 1..n : q[i] \in Range(t)
    BY <1>1, <1>3 DEF Range
  <2>. QED  BY <1>1, <2>1, <2>2 DEF Range
<1>. QED  BY <1>1, <1>5, <1>6

LEMMA TailRange ==
  ASSUME NEW S, NEW q \in Seq(S), q # << >>
  PROVE  Tail(q) \in Seq(S) /\ Range(q) = {Head(q)} \cup Range(Tail(q))
<1>. PICK n, t : n = Len(q) /\ t = Tail(q)
  OBVIOUS
<1>1. /\ n \in Nat \ {0} /\ DOMAIN q = 1..n /\ DOMAIN t = 1..n - 1 /\ Head(q) = q[1]
      /\ \A i \in 1..n - 1 : t[i] = q[i + 1] /\ i + 1 \in 1..n
      /\ t \in Seq(S) /\ 1 \in 1..n
  OBVIOUS
<1>2. ASSUME NEW i \in 1..n, i # 1 PROVE i - 1 \in 1..n - 1 /\ t[i - 1] = q[i]
  <2>1. i - 1 \in 1..n - 1 /\ (i - 1) + 1 = i
    BY <1>1, <1>2
  <2>. QED  BY <1>1, <2>1
<1>3. Range(q) \subseteq {Head(q)} \cup Range(t)
  <2>1. ASSUME NEW i \in 1..n PROVE q[i] \in {Head(q)} \cup Range(t)
    BY <1>1, <1>2 DEF Range
  <2>. QED  BY <1>1, <2>1 DEF Range
<1>4. {Head(q)} \cup Range(t) \subseteq Range(q)
  BY <1>1 DEF Range
<1>. QED  BY <1>1, <1>3, <1>4

(* A list of a finite set has all of it. *)
LEMMA SeqsOf ==
  ASSUME NEW K, IsFiniteSet(K), NEW s \in SetToSeqs(K)
  PROVE  s \in Seq(K) /\ Range(s) = K
<1>. PICK n : n = Cardinality(K)
  OBVIOUS
<1>1. n \in Nat
  BY FS_CardinalityType
<1>2. s \in [1..n -> K] /\ \A i, j \in 1..n : i # j => s[i] # s[j]
  BY DEF SetToSeqs
<1>3. IsFiniteSet(1..n) /\ Cardinality(1..n) = n
  BY <1>1, FS_Interval
<1>4. s \in Injection(1..n, K)
  BY <1>2 DEF Injection, IsInjective
<1>5. s \in Surjection(1..n, K)
  BY <1>3, <1>4, FS_Injection
<1>. QED  BY <1>1, <1>2, <1>5 DEF Surjection, Range

-----------------------------------------------------------------------------
(* The windows and what is said of them. *)

(* The thread of its app is yet to hear this of window w.                  *)
NotedIn(ns, w, k) == Note(k, w) \in Range(ns[Owner[w]])

LEMMA NoteFields ==
  ASSUME NEW k, NEW w, NEW l, NEW x
  PROVE  /\ Note(k, w) = Note(l, x) <=> k = l /\ w = x
         /\ Note(k, w).kind = k /\ Note(k, w).wid = w
<1>1. \A j, v : Note(j, v).kind = j /\ Note(j, v).wid = v
  BY DEF Note
<1>. QED  BY <1>1

LEMMA NotifiesNoted ==
  ASSUME NotesType(notes), NEW w \in Window, NEW K, K \subseteq NoteKinds, Notifies(w, K)
  PROVE  /\ NotesType(notes')
         /\ \A x \in Window : \A k :
              NotedIn(notes', x, k) <=> NotedIn(notes, x, k) \/ (x = w /\ k \in K /\ Owner[w] \in threads)
<1>. PICK a : a = Owner[w]
  OBVIOUS
<1>0. NotesType(notes')
  BY NotifiesType
<1>1. CASE a \notin threads
  BY <1>0, <1>1 DEF Notifies
<1>2. CASE a \in threads
  <2>1. PICK s \in SetToSeqs(K) :
          notes' = [notes EXCEPT ![a] = @ \o [i \in DOMAIN s |-> Note(s[i], w)]]
    BY <1>2 DEF Notifies
  <2>2. s \in Seq(K) /\ Range(s) = K
    BY FiniteKinds, SeqsOf
  <2>. PICK t : t = [i \in DOMAIN s |-> Note(s[i], w)]
    OBVIOUS
  <2>3. a \in App /\ w \in WindowsOf(a)
    BY WindowsAssumption DEF WindowsOf
  <2>4. t \in Seq(NoteOf(a)) /\ notes[a] \in Seq(NoteOf(a))
    <3>1. \A i \in DOMAIN s : Note(s[i], w) \in NoteOf(a)
      BY <2>2, <2>3 DEF NoteOf, Note
    <3>2. Len(s) \in Nat /\ DOMAIN s = 1..Len(s)
      BY <2>2
    <3>. QED  BY <2>3, <3>1, <3>2 DEF NotesType
  <2>5. \A k, x : Note(k, x) \in Range(t) <=> k \in K /\ x = w
    <3>1. \A n : n \in Range(t) <=> \E i \in DOMAIN s : n = Note(s[i], w)
      BY DEF Range
    <3>2. \A k : k \in K <=> \E i \in DOMAIN s : s[i] = k
      BY <2>2 DEF Range
    <3>. QED  BY <3>1, <3>2, NoteFields
  <2>6. Range(notes[a] \o t) = Range(notes[a]) \cup Range(t)
    BY <2>4, JoinRange
  <2>7. notes'[a] = notes[a] \o t /\ \A b \in App : b # a => notes'[b] = notes[b]
    BY <2>1, <2>3 DEF NotesType
  <2>8. ASSUME NEW x \in Window, NEW k
        PROVE  NotedIn(notes', x, k) <=> NotedIn(notes, x, k) \/ (x = w /\ k \in K /\ a \in threads)
    <3>1. CASE Owner[x] = a
      BY <1>2, <2>5, <2>6, <2>7, <3>1 DEF NotedIn
    <3>2. CASE Owner[x] # a
      <4>1. notes'[Owner[x]] = notes[Owner[x]] /\ x # w
        BY <2>7, <3>2, WindowsAssumption
      <4>. QED  BY <4>1 DEF NotedIn
    <3>. QED  BY <3>1, <3>2
  <2>. QED  BY <1>0, <2>8
<1>. QED  BY <1>1, <1>2

-----------------------------------------------------------------------------
(* What holds of the world, the threads, the queue and the reactor, for    *)
(* the layout to follow the windows.                                       *)

AllEvents == [kind : Kinds, pid : App \cup {""}, new : SUBSET Window, known : SUBSET Window]

(* An event is about one app, and those of one window about one.           *)
Formed(e) ==
  /\ e \in AllEvents
  /\ e.kind # "space" =>
       e.pid \in App /\ e.new \subseteq WindowsOf(e.pid) /\ e.known \subseteq WindowsOf(e.pid)
  /\ e.kind \in {"created", "destroyed"} => e.known = {} /\ \E w \in Window : e.new = {w}

States == {"new", "open", "mini", "closed", "dead"}

TypesInv ==
  /\ stat \in [Window -> States] /\ at \in [Window -> Space]
  /\ order \in Seq(Window) /\ Range(order) = {w \in Window : stat[w] = "open"}
  /\ known \in [App -> SUBSET Window] /\ \A a \in App : known[a] \subseteq WindowsOf(a)
  /\ quitting \subseteq App /\ told \subseteq Window
  /\ server \in Seq(AllEvents) /\ \A e \in Range(server) : Formed(e)

(* What is dead stays dead, and its thread forgets it.                     *)
LivesInv ==
  /\ \A w \in Window : Owner[w] \in quitting => stat[w] \in {"new", "dead"}
  /\ \A a \in App : a \notin threads \cup quitting => known[a] = {}
  /\ \A w \in Window : w \in known[Owner[w]] => stat[w] # "new"
  /\ \A w \in Window : \A k : NotedIn(notes, w, k) => stat[w] # "new"
  /\ \A w \in told : stat[w] = "dead"
  /\ \A w \in Window : NotedIn(notes, w, "destroyed") => stat[w] = "dead"
  /\ \A w \in Window : stat[w] = "dead" /\ Owner[w] \notin quitting /\ w \in known[Owner[w]] =>
       w \in told \/ NotedIn(notes, w, "destroyed")
  /\ \A e \in Range(server) : e.kind = "destroyed" => \A w \in e.new : stat[w] = "dead"

EndsInv ==
  \A a \in App \ threads :
    a \in r.apps \/ Named(server, "launched", a) => Named(server, "ended", a)

(* The events that have the reactor know w, and the one that has it forget. *)
Finds(w) == {e \in AllEvents : e.kind \in {"created", "launched", "discovered"} /\ w \in e.new}
Gone(w) == Event("destroyed", Owner[w], {w}, {})

(* One of T is on its way, and nothing of S after it.                      *)
LastIn(q, T, S) == \E i \in DOMAIN q : q[i] \in T /\ \A j \in DOMAIN q : j > i => q[j] \notin S

Known(w) == w \in r.windows \/ \E e \in Range(server) : e \in Finds(w)

(* The reactor knows, or will, what the threads know. *)
BooksInv ==
  /\ r.windows \subseteq r.ids
  /\ \A w \in Window : Owner[w] \notin quitting =>
       /\ w \in known[Owner[w]] => Known(w) /\ Gone(w) \notin Range(server)
       /\ w \notin known[Owner[w]] /\ Known(w) => LastIn(server, {Gone(w)}, Finds(w))

(* WindowServer will read the list again. *)
Reads(q) == \E e \in Range(q) : ReadsList(e)

(* It will, if w has come, or has gone from, the screen since it did.      *)
WillRead(w) ==
  \/ Reads(server) \/ Owner[w] \notin threads
  \/ NotedIn(notes, w, "visibility") /\ w \in known[Owner[w]]

ScreenInv ==
  /\ r.visible \cap r.hidden = {} /\ r.hidden \subseteq strange
  /\ r.visible \subseteq Range(list)
  /\ r.space = here \/ \E e \in Range(server) : e.kind = "space"
  /\ Range(list) \subseteq Window
  /\ \A w \in Range(list) : stat[w] # "new" /\ (at[w] # here => Reads(server))
  /\ \A w \in Window \ strange :
       /\ w \in Range(list) => w \in r.visible
       /\ stat[w] # "closed" /\ (stat[w] = "mini" => w \in known[Owner[w]])
       /\ OnScreen(w) => w \in Range(list) \/ WillRead(w)
                         \/ (NotedIn(notes, w, "created") /\ w \notin known[Owner[w]])
       /\ stat[w] = "mini" /\ w \in Range(list) => WillRead(w)

(* The reactor has what the app lists. *)
Even(a) ==
  /\ \A w \in WindowsOf(a) :
       r.layout[r.space][w] = IF w \in r.visible \cap r.ids \cap r.windows THEN 1 ELSE 0
  /\ Listed(a) \cap r.hidden = {}
  /\ Listed(a) # {} => (r.ids \cap WindowsOf(a)) \ Listed(a) \subseteq r.hidden

From(a) == {e \in AllEvents : e.pid = a}

FreshInv ==
  \A a \in fresh :
    /\ Quiet /\ a \in threads /\ Listed(a) \subseteq known[a]
    /\ \/ LastIn(server, {Event("discovered", a, {}, Listed(a))}, From(a))
       \/ Range(server) \cap From(a) = {} /\ Even(a)

FInv == TypesInv /\ LivesInv /\ EndsInv /\ BooksInv /\ ScreenInv /\ FreshInv

-----------------------------------------------------------------------------
(* It is enough. *)

LEMMA FInvSound == WInv /\ FInv => LayoutFollows
<1>. SUFFICES ASSUME WInv, FInv, Settled PROVE LayoutFollows
  BY DEF LayoutFollows, GoneLeave, Arrive, HiddenHeals
<1>1. /\ r.started /\ threads = App \ quitting /\ told = {} /\ server = << >> /\ threads \subseteq fresh
      /\ \A a \in App : notes[a] = << >>
  BY DEF Settled, Quiet
<1>2. DOMAIN server = {} /\ Range(server) = {}
  BY <1>1 DEF Range
<1>3. \A a \in threads : Even(a) /\ Listed(a) \subseteq known[a]
  BY <1>1, <1>2 DEF FInv, FreshInv, LastIn
<1>4. r.space = here
  BY <1>2 DEF FInv, ScreenInv
<1>5. ASSUME NEW w \in Window, NEW k PROVE ~NotedIn(notes, w, k)
  BY <1>1, WindowsAssumption DEF NotedIn, Range
<1>6. \A w \in Window : OnScreen(w) => Owner[w] \in threads /\ w \in Listed(Owner[w])
  BY <1>1, WindowsAssumption DEF OnScreen, Listed, WindowsOf, FInv, LivesInv
<1>7. ~Reads(server)
  BY <1>2 DEF Reads
<1>8. HiddenHeals
  BY <1>3, <1>6 DEF HiddenHeals, Even
<1>9. ASSUME NEW w \in Window, OnScreen(w), w \notin strange
      PROVE  r.layout[here][w] = 1
  <2>1. w \in r.visible
    BY <1>5, <1>6, <1>7, <1>9 DEF FInv, ScreenInv, WillRead
  <2>2. w \in known[Owner[w]] /\ Owner[w] \notin quitting
    BY <1>1, <1>3, <1>6, <1>9
  <2>3. w \in r.windows \cap r.ids
    BY <1>2, <2>2 DEF FInv, BooksInv, Known
  <2>4. w \in WindowsOf(Owner[w])
    BY DEF WindowsOf
  <2>. QED  BY <1>3, <1>4, <1>6, <1>9, <2>1, <2>3, <2>4 DEF Even
<1>10. ASSUME NEW w \in Window, r.layout[here][w] > 0, ~OnScreen(w),
              ~(stat[w] = "closed" /\ Listed(Owner[w]) = {}),
              ~(stat[w] = "mini" /\ w \in strange)
       PROVE  FALSE
  <2>. PICK a \in App : a = Owner[w]
    BY WindowsAssumption
  <2>0. w \in WindowsOf(a)
    BY DEF WindowsOf
  <2>1. a \in r.apps /\ here \in Space
    BY <1>1, <1>10 DEF WInv, Tidy
  <2>2. a \in threads /\ a \notin quitting
    <3>1. ~Named(server, "ended", a)
      BY <1>2 DEF Named
    <3>. QED  BY <1>1, <2>1, <3>1 DEF FInv, EndsInv
  <2>3. w \in r.visible /\ w \in r.ids /\ w \in r.windows
    <3>1. r.layout[here][w] = IF w \in r.visible \cap r.ids \cap r.windows THEN 1 ELSE 0
      BY <1>3, <1>4, <2>0, <2>2 DEF Even
    <3>. QED  BY <1>10, <3>1
  <2>4. w \in Range(list) /\ w \notin r.hidden
    BY <2>3 DEF FInv, ScreenInv
  <2>5. at[w] = here /\ stat[w] \in {"open", "mini", "closed", "dead"}
    <3>1. stat[w] # "new" /\ (at[w] # here => Reads(server))
      BY <2>4 DEF FInv, ScreenInv
    <3>2. stat[w] \in States
      BY DEF FInv, TypesInv
    <3>. QED  BY <1>7, <3>1, <3>2 DEF States
  <2>6. CASE stat[w] = "open"
    BY <1>10, <2>5, <2>6 DEF OnScreen
  <2>7. CASE stat[w] = "mini"
    BY <1>5, <1>7, <1>10, <2>2, <2>4, <2>7 DEF FInv, ScreenInv, WillRead
  <2>8. CASE stat[w] = "closed"
    BY <1>3, <1>10, <2>0, <2>2, <2>3, <2>4, <2>8 DEF Even, Listed
  <2>9. CASE stat[w] = "dead"
    <3>1. w \in known[a]
      BY <1>2, <2>2, <2>3 DEF FInv, BooksInv, Known, LastIn
    <3>. QED  BY <1>1, <1>5, <2>2, <2>9, <3>1 DEF FInv, LivesInv
  <2>. QED  BY <2>5, <2>6, <2>7, <2>8, <2>9
<1>11. GoneLeave /\ Arrive
  BY <1>9, <1>10 DEF GoneLeave, Arrive
<1>. QED  BY <1>8, <1>11 DEF LayoutFollows

-----------------------------------------------------------------------------
(* What users and apps do. *)

(* Window w changes, and its app's thread hears of K. *)
Moves(w, K) ==
  /\ K \subseteq NoteKinds /\ Notifies(w, K)
  /\ stat' = [stat EXCEPT ![w] = stat'[w]] /\ at' = [at EXCEPT ![w] = at'[w]]
  /\ order' = IF stat'[w] = "open" THEN ToFront(w) ELSE Without({w})
  /\ fresh' = {} /\ strange \subseteq strange'
  /\ told \subseteq told' /\ told' \subseteq told \cup {w} /\ (told' # told => stat'[w] = "dead")
  /\ "destroyed" \in K => stat'[w] = "dead"
  /\ UNCHANGED <<here, quitting, threads, known, server, list, r>>

Change(w, K) ==
  \/ /\ stat[w] = "new" /\ stat'[w] = "open" /\ at'[w] = here
     /\ Owner[w] \notin quitting /\ "created" \in K
  \/ /\ at'[w] = at[w]
     /\ \/ OnScreen(w) /\ stat'[w] = "open"
        \/ /\ stat[w] = "open" /\ stat'[w] = "mini" /\ "visibility" \in K
           /\ w \in known[Owner[w]] \/ w \in strange'
        \/ stat[w] = "open" /\ stat'[w] = "closed" /\ w \in strange'
        \/ /\ stat[w] \in {"mini", "closed"} /\ at[w] = here /\ stat'[w] = "open"
           /\ stat[w] = "mini" => "visibility" \in K
        \/ /\ stat[w] \in {"open", "mini", "closed"} /\ stat'[w] = "dead"
           /\ w \in told' \/ "destroyed" \in K

LEMMA MainKind ==
  ASSUME NEW w PROVE IfMain(w, "main") \subseteq {"main"}
BY DEF IfMain

LEMMA ActMoves ==
  ASSUME TypesInv, NEW w \in Window,
         Opens(w) \/ Focuses(w) \/ Minimizes(w) \/ Closes(w) \/ Returns(w) \/ Destroys(w)
  PROVE  \E K : Moves(w, K) /\ Change(w, K)
<1>0. /\ stat[w] \in States /\ stat = [x \in Window |-> stat[x]] /\ at = [x \in Window |-> at[x]]
      /\ DOMAIN stat = Window /\ DOMAIN at = Window
  BY DEF TypesInv
<1>1. CASE Opens(w)
  <2>. PICK K : K = {"created", "main"}
    OBVIOUS
  <2>1. stat'[w] = "open" /\ at'[w] = here
    BY <1>0, <1>1 DEF Opens
  <2>2. Moves(w, K)
    BY <1>0, <1>1, <2>1 DEF Opens, Moves, Acts, Rest, threadVars, NoteKinds
  <2>. QED  BY <1>1, <2>1, <2>2 DEF Opens, Change
<1>2. CASE Focuses(w)
  <2>. PICK K : K = {"main"}
    OBVIOUS
  <2>1. stat' = stat /\ at' = at /\ stat'[w] = "open"
    BY <1>2 DEF Focuses, OnScreen
  <2>2. Moves(w, K)
    BY <1>0, <1>2, <2>1 DEF Focuses, Moves, Acts, Rest, threadVars, NoteKinds
  <2>. QED  BY <1>2, <2>1, <2>2 DEF Focuses, Change
<1>3. CASE Minimizes(w)
  <2>. PICK K : K = {"visibility"} \cup IfMain(w, "main")
    OBVIOUS
  <2>1. stat'[w] = "mini" /\ at' = at /\ stat[w] = "open"
    BY <1>0, <1>3 DEF Minimizes, OnScreen
  <2>2. K \subseteq {"visibility", "main"}
    BY MainKind
  <2>3. K \subseteq NoteKinds /\ "destroyed" \notin K
    BY <2>2 DEF NoteKinds
  <2>4. Moves(w, K)
    BY <1>0, <1>3, <2>1, <2>3 DEF Minimizes, Moves, Acts, threadVars
  <2>5. "visibility" \in K /\ (w \in known[Owner[w]] \/ w \in strange')
    BY <1>3 DEF Minimizes
  <2>. QED  BY <2>1, <2>4, <2>5 DEF Change
<1>4. CASE Closes(w)
  <2>. PICK K : K = IfMain(w, "main")
    OBVIOUS
  <2>1. stat'[w] = "closed" /\ at' = at /\ stat[w] = "open"
    BY <1>0, <1>4 DEF Closes, OnScreen
  <2>2. K \subseteq NoteKinds /\ "destroyed" \notin K
    BY MainKind DEF NoteKinds
  <2>3. Moves(w, K)
    BY <1>0, <1>4, <2>1, <2>2 DEF Closes, Moves, Acts, threadVars
  <2>4. w \in strange'
    BY <1>4 DEF Closes
  <2>. QED  BY <2>1, <2>3, <2>4 DEF Change
<1>5. CASE Returns(w)
  <2>. PICK K : K = {"main"} \cup IF stat[w] = "mini" THEN {"visibility"} ELSE {}
    OBVIOUS
  <2>1. stat'[w] = "open" /\ at' = at /\ stat[w] \in {"mini", "closed"} /\ at[w] = here
    BY <1>0, <1>5 DEF Returns
  <2>2. K \subseteq NoteKinds /\ "destroyed" \notin K /\ (stat[w] = "mini" => "visibility" \in K)
    BY DEF NoteKinds
  <2>3. Moves(w, K)
    BY <1>0, <1>5, <2>1, <2>2 DEF Returns, Moves, Acts, Rest, threadVars
  <2>. QED  BY <2>1, <2>2, <2>3 DEF Change
<1>6. CASE Destroys(w)
  <2>1. PICK k \in {{}, {"destroyed"}} :
          (k = {} => w \in tracked) /\ Notifies(w, k \cup IfMain(w, "main"))
    BY <1>6 DEF Destroys
  <2>. PICK K : K = k \cup IfMain(w, "main")
    OBVIOUS
  <2>2. stat'[w] = "dead" /\ at' = at /\ stat[w] \in {"open", "mini", "closed"}
    BY <1>0, <1>6 DEF Destroys, Rest
  <2>3. K \subseteq NoteKinds
    BY MainKind DEF NoteKinds
  <2>4. told' = told \cup (tracked \cap {w})
    BY <1>6 DEF Destroys, SkylightHears
  <2>5. Moves(w, K)
    BY <1>0, <1>6, <2>1, <2>2, <2>3, <2>4 DEF Destroys, Moves, Acts, Rest, threadVars
  <2>6. w \in told' \/ "destroyed" \in K
    BY <2>1, <2>4
  <2>. QED  BY <2>2, <2>5, <2>6 DEF Change
<1>. QED  BY <1>1, <1>2, <1>3, <1>4, <1>5, <1>6

LEMMA OrderOnly ==
  ASSUME TypesInv, NEW S, S \subseteq Window
  PROVE  Only(order, S) \in Seq(Window) /\ Range(Only(order, S)) = {w \in S : stat[w] = "open"}
<1>1. IsQueue(order)
  BY DEF TypesInv, IsQueue
<1>2. Only(order, S) \in Seq(S) /\ Range(Only(order, S)) = Range(order) \cap S
  BY <1>1, OnlyLists
<1>. PICK p : p = Only(order, S)
  OBVIOUS
<1>3. p \in Seq(Window)
  BY <1>2
<1>. QED  BY <1>2, <1>3 DEF TypesInv

LEMMA ListOnScreen ==
  ASSUME TypesInv
  PROVE  Range(List) = {w \in Window : OnScreen(w)}
<1>. PICK S : S = {w \in Window : OnScreen(w)}
  OBVIOUS
<1>1. Range(List) = {w \in S : stat[w] = "open"}
  BY OrderOnly DEF List
<1>. QED  BY <1>1 DEF OnScreen

(* What Moves says of all windows. *)
LEMMA MovesWindows ==
  ASSUME WInv, TypesInv, NEW w \in Window, NEW K, Moves(w, K)
  PROVE  /\ \A x \in Window : x # w => stat'[x] = stat[x] /\ at'[x] = at[x]
         /\ \A x \in Window : \A k :
              NotedIn(notes', x, k) <=> NotedIn(notes, x, k) \/ (x = w /\ k \in K /\ Owner[w] \in threads)
<1>1. DOMAIN stat = Window /\ DOMAIN at = Window
  BY DEF TypesInv
<1>2. \A x \in Window : x # w => stat'[x] = stat[x] /\ at'[x] = at[x]
  BY <1>1 DEF Moves
<1>3. \A x \in Window : \A k :
        NotedIn(notes', x, k) <=> NotedIn(notes, x, k) \/ (x = w /\ k \in K /\ Owner[w] \in threads)
  BY NotifiesNoted DEF WInv, Moves
<1>. QED  BY <1>2, <1>3

LEMMA MovesTypes ==
  ASSUME WInv, TypesInv, NEW w \in Window, NEW K, Moves(w, K), Change(w, K)
  PROVE  TypesInv'
<1>1. stat'[w] \in States /\ at'[w] \in Space
  BY DEF Change, States, TypesInv, WInv
<1>2. stat' \in [Window -> States] /\ at' \in [Window -> Space]
  BY <1>1 DEF TypesInv, Moves
<1>. PICK q, T : q = Without({w}) /\ T = {x \in Window \ {w} : stat[x] = "open"}
  OBVIOUS
<1>3. q \in Seq(Window) /\ Range(q) = T
  BY OrderOnly DEF Without
<1>4. \A x \in Window : x # w => (x \in T <=> stat'[x] = "open")
  BY MovesWindows
<1>5. order' \in Seq(Window) /\ Range(order') = {x \in Window : stat'[x] = "open"}
  <2>1. CASE stat'[w] = "open"
    <3>. PICK p : p = << w >>
      OBVIOUS
    <3>1. order' = p \o q
      BY <2>1 DEF Moves, ToFront
    <3>2. p \in Seq(Window)
      OBVIOUS
    <3>3. Range(p) = {w}
      BY DEF Range
    <3>4. p \o q \in Seq(Window) /\ Range(p \o q) = Range(p) \cup Range(q)
      BY <1>3, <3>2, JoinRange
    <3>5. {w} \cup T = {x \in Window : stat'[x] = "open"}
      BY <1>4, <2>1
    <3>. QED  BY <1>3, <3>1, <3>3, <3>4, <3>5
  <2>2. CASE stat'[w] # "open"
    <3>1. order' = q
      BY <2>2 DEF Moves
    <3>2. T = {x \in Window : stat'[x] = "open"}
      BY <1>4, <2>2
    <3>. QED  BY <1>3, <3>1, <3>2
  <2>. QED  BY <2>1, <2>2
<1>. QED  BY <1>2, <1>5 DEF TypesInv, Moves

LEMMA MovesLives ==
  ASSUME WInv, TypesInv, LivesInv, NEW w \in Window, NEW K, Moves(w, K), Change(w, K)
  PROVE  LivesInv'
<1>1. /\ UNCHANGED <<quitting, threads, known, server>>
      /\ told \subseteq told' /\ told' \subseteq told \cup {w} /\ (told' # told => stat'[w] = "dead")
      /\ "destroyed" \in K => stat'[w] = "dead"
  BY DEF Moves
<1>2. /\ stat'[w] # "new" /\ (stat[w] = "dead" => stat'[w] = "dead") /\ Owner[w] \notin quitting
      /\ stat'[w] = "dead" => stat[w] = "dead" \/ w \in told' \/ "destroyed" \in K
  BY DEF Change, OnScreen, LivesInv
<1>3. \A x \in Window : stat[x] = "dead" => stat'[x] = "dead"
  BY <1>2, MovesWindows
<1>4. \A x \in Window : Owner[x] \in quitting' => stat'[x] \in {"new", "dead"}
  BY <1>1, <1>2, MovesWindows DEF LivesInv
<1>5. \A x \in Window : x \in known'[Owner[x]] \/ (\E k : NotedIn(notes', x, k)) => stat'[x] # "new"
  BY <1>1, <1>2, MovesWindows DEF LivesInv
<1>6. \A x \in told' : stat'[x] = "dead"
  BY <1>1, <1>3 DEF LivesInv, TypesInv
<1>7. \A x \in Window : NotedIn(notes', x, "destroyed") => stat'[x] = "dead"
  BY <1>1, <1>3, MovesWindows DEF LivesInv
<1>8. ASSUME NEW x \in Window, stat'[x] = "dead", Owner[x] \notin quitting', x \in known'[Owner[x]]
      PROVE  x \in told' \/ NotedIn(notes', x, "destroyed")
  <2>1. CASE x # w
    <3>1. x \in told \/ NotedIn(notes, x, "destroyed")
      BY <1>1, <1>8, <2>1, MovesWindows DEF LivesInv
    <3>. QED  BY <1>1, <3>1, MovesWindows
  <2>2. CASE x = w
    <3>1. Owner[w] \in threads
      BY <1>1, <1>2, <1>8, <2>2, WindowsAssumption DEF LivesInv
    <3>2. CASE stat[w] = "dead"
      <4>1. w \in told \/ NotedIn(notes, w, "destroyed")
        BY <1>1, <1>2, <1>8, <2>2, <3>2 DEF LivesInv
      <4>. QED  BY <1>1, <2>2, <4>1, MovesWindows
    <3>3. CASE w \in told' \/ "destroyed" \in K
      BY <2>2, <3>1, <3>3, MovesWindows
    <3>. QED  BY <1>2, <1>8, <2>2, <3>2, <3>3
  <2>. QED  BY <2>1, <2>2
<1>9. \A e \in Range(server') : e.kind = "destroyed" => \A x \in e.new : stat'[x] = "dead"
  <2>1. \A e \in Range(server) : e.new \subseteq Window
    BY DEF TypesInv, Formed, AllEvents
  <2>. QED  BY <1>1, <1>3, <2>1 DEF LivesInv
<1>10. \A a \in App : a \notin threads' \cup quitting' => known'[a] = {}
  BY <1>1 DEF LivesInv
<1>. QED  BY <1>4, <1>5, <1>6, <1>7, <1>8, <1>9, <1>10 DEF LivesInv

LEMMA MovesScreen ==
  ASSUME WInv, TypesInv, LivesInv, ScreenInv, NEW w \in Window, NEW K, Moves(w, K), Change(w, K)
  PROVE  ScreenInv'
<1>1. UNCHANGED <<here, threads, known, server, list, r>> /\ strange \subseteq strange'
  BY DEF Moves
<1>2. \A x \in Window : WillRead(x) => WillRead(x)'
  BY <1>1, MovesWindows DEF WillRead, Reads, ReadsList
<1>3. ASSUME NEW x \in Range(list)
      PROVE  stat'[x] # "new" /\ (at'[x] # here => Reads(server))
  <2>1. x \in Window /\ stat[x] # "new" /\ (at[x] # here => Reads(server))
    BY DEF ScreenInv
  <2>2. stat'[w] # "new" /\ (stat[w] # "new" => at'[w] = at[w])
    BY DEF Change, OnScreen
  <2>. QED  BY <2>1, <2>2, MovesWindows
<1>4. ASSUME NEW x \in Window \ strange'
      PROVE  /\ x \in Range(list) => x \in r.visible
             /\ stat'[x] # "closed" /\ (stat'[x] = "mini" => x \in known[Owner[x]])
             /\ OnScreen(x)' => x \in Range(list) \/ WillRead(x)'
                                \/ (NotedIn(notes', x, "created") /\ x \notin known[Owner[x]])
             /\ stat'[x] = "mini" /\ x \in Range(list) => WillRead(x)'
  <2>0. x \in Window /\ x \notin strange
    BY <1>1, <1>4
  <2>1. /\ x \in Range(list) => x \in r.visible
        /\ stat[x] # "closed" /\ (stat[x] = "mini" => x \in known[Owner[x]])
        /\ OnScreen(x) => x \in Range(list) \/ WillRead(x)
                          \/ (NotedIn(notes, x, "created") /\ x \notin known[Owner[x]])
        /\ stat[x] = "mini" /\ x \in Range(list) => WillRead(x)
    BY <2>0 DEF ScreenInv
  <2>2. CASE x # w
    <3>1. stat'[x] = stat[x] /\ (OnScreen(x)' <=> OnScreen(x))
      BY <1>1, <2>0, <2>2, MovesWindows DEF OnScreen
    <3>2. NotedIn(notes, x, "created") => NotedIn(notes', x, "created")
      BY <2>0, MovesWindows
    <3>. QED  BY <1>2, <2>0, <2>1, <3>1, <3>2
  <2>3. CASE x = w
    <3>1. CASE stat[w] = "new" /\ stat'[w] = "open" /\ at'[w] = here /\ "created" \in K
      <4>1. w \notin known[Owner[w]]
        BY <3>1 DEF LivesInv
      <4>2. Owner[w] \in threads => NotedIn(notes', w, "created")
        BY <3>1, MovesWindows
      <4>3. Owner[w] \notin threads => WillRead(w)'
        BY <1>1 DEF WillRead
      <4>. QED  BY <2>1, <2>3, <3>1, <4>1, <4>2, <4>3
    <3>2. CASE at'[w] = at[w] /\ OnScreen(w) /\ stat'[w] = "open"
      <4>1. NotedIn(notes, w, "created") => NotedIn(notes', w, "created")
        BY MovesWindows
      <4>. QED  BY <1>2, <2>1, <2>3, <3>2, <4>1
    <3>3. CASE stat[w] = "open" /\ stat'[w] = "mini" /\ "visibility" \in K /\ (w \in known[Owner[w]] \/ w \in strange')
      <4>1. w \in known[Owner[w]]
        BY <2>3, <3>3, <1>4
      <4>2. WillRead(w)'
        BY <1>1, <3>3, <4>1, MovesWindows DEF WillRead
      <4>. QED  BY <2>1, <2>3, <3>3, <4>1, <4>2 DEF OnScreen
    <3>4. CASE w \in strange'
      BY <1>4, <2>3, <3>4
    <3>5. CASE stat[w] \in {"mini", "closed"} /\ stat'[w] = "open" /\ (stat[w] = "mini" => "visibility" \in K)
      <4>1. w \in known[Owner[w]] /\ "visibility" \in K
        BY <2>1, <2>3, <3>5
      <4>2. WillRead(w)'
        BY <1>1, <4>1, MovesWindows DEF WillRead
      <4>. QED  BY <2>1, <2>3, <3>5, <4>2
    <3>6. CASE stat'[w] = "dead"
      BY <2>1, <2>3, <3>6 DEF OnScreen
    <3>. QED  BY <3>1, <3>2, <3>3, <3>4, <3>5, <3>6 DEF Change
  <2>. QED  BY <2>2, <2>3
<1>5. /\ r'.visible \cap r'.hidden = {} /\ r'.hidden \subseteq strange'
      /\ r'.visible \subseteq Range(list')
      /\ r'.space = here' \/ \E e \in Range(server') : e.kind = "space"
      /\ Range(list') \subseteq Window
  BY <1>1 DEF ScreenInv
<1>. QED  BY <1>1, <1>3, <1>4, <1>5 DEF ScreenInv

LEMMA MovesF ==
  ASSUME WInv, FInv, NEW w \in Window,
         Opens(w) \/ Focuses(w) \/ Minimizes(w) \/ Closes(w) \/ Returns(w) \/ Destroys(w)
  PROVE  FInv'
<1>1. PICK K : Moves(w, K) /\ Change(w, K)
  BY ActMoves DEF FInv
<1>2. TypesInv' /\ LivesInv' /\ ScreenInv'
  BY <1>1, MovesTypes, MovesLives, MovesScreen DEF FInv
<1>3. UNCHANGED <<quitting, threads, known, server, r>> /\ fresh' = {}
  BY <1>1 DEF Moves
<1>4. EndsInv'
  BY <1>3 DEF FInv, EndsInv
<1>5. BooksInv'
  BY <1>3 DEF FInv, BooksInv, Known
<1>6. FreshInv'
  BY <1>3 DEF FreshInv
<1>. QED  BY <1>2, <1>4, <1>5, <1>6 DEF FInv

-----------------------------------------------------------------------------
(* What is last on its way. *)

LEMMA LastJoin ==
  ASSUME NEW E, NEW q \in Seq(E), NEW p \in Seq(E), NEW T, NEW S, LastIn(q, T, S),
         Range(p) \cap S = {}
  PROVE  LastIn(q \o p, T, S)
<1>. PICK m, n, t : m = Len(q) /\ n = Len(p) /\ t = q \o p
  OBVIOUS
<1>1. /\ m \in Nat /\ n \in Nat /\ DOMAIN q = 1..m /\ DOMAIN p = 1..n /\ DOMAIN t = 1..m + n
      /\ \A i \in 1..m : t[i] = q[i] /\ i \in 1..m + n
  OBVIOUS
<1>2. \A i \in 1..m + n : i \notin 1..m => i - m \in 1..n /\ t[i] = p[i - m]
  BY <1>1
<1>3. PICK i \in 1..m : q[i] \in T /\ \A j \in 1..m : j > i => q[j] \notin S
  BY <1>1 DEF LastIn
<1>4. ASSUME NEW j \in 1..m + n, j > i PROVE t[j] \notin S
  <2>1. CASE j \in 1..m
    BY <1>1, <1>3, <1>4, <2>1
  <2>2. CASE j \notin 1..m
    <3>1. t[j] \in Range(p)
      BY <1>1, <1>2, <2>2 DEF Range
    <3>. QED  BY <3>1
  <2>. QED  BY <2>1, <2>2
<1>5. i \in DOMAIN t /\ t[i] \in T /\ \A j \in DOMAIN t : j > i => t[j] \notin S
  BY <1>1, <1>3, <1>4
<1>. QED  BY <1>5 DEF LastIn

LEMMA LastNow ==
  ASSUME NEW E, NEW q \in Seq(E), NEW e \in E, NEW T, NEW S, e \in T
  PROVE  LastIn(q \o << e >>, T, S)
<1>. PICK m, t : m = Len(q) /\ t = q \o << e >>
  OBVIOUS
<1>1. m \in Nat /\ DOMAIN t = 1..m + 1 /\ t[m + 1] = e
  OBVIOUS
<1>2. m + 1 \in DOMAIN t /\ \A j \in DOMAIN t : ~(j > m + 1)
  BY <1>1
<1>. QED  BY <1>1, <1>2 DEF LastIn

LEMMA LastTail ==
  ASSUME NEW E, NEW q \in Seq(E), q # << >>, NEW T, NEW S, LastIn(q, T, S)
  PROVE  LastIn(Tail(q), T, S) \/ (Head(q) \in T /\ Range(Tail(q)) \cap S = {})
<1>. PICK n, t : n = Len(q) /\ t = Tail(q)
  OBVIOUS
<1>1. /\ n \in Nat \ {0} /\ DOMAIN q = 1..n /\ DOMAIN t = 1..n - 1 /\ Head(q) = q[1]
      /\ \A i \in 1..n - 1 : t[i] = q[i + 1] /\ i + 1 \in 1..n /\ i + 1 > 1
  OBVIOUS
<1>2. PICK i \in 1..n : q[i] \in T /\ \A j \in 1..n : j > i => q[j] \notin S
  BY <1>1 DEF LastIn
<1>3. CASE i = 1
  <2>1. \A j \in 1..n - 1 : t[j] \notin S
    BY <1>1, <1>2, <1>3
  <2>. QED  BY <1>1, <1>2, <1>3, <2>1 DEF Range
<1>4. CASE i # 1
  <2>1. i - 1 \in 1..n - 1 /\ (i - 1) + 1 = i
    BY <1>1, <1>4
  <2>2. t[i - 1] \in T
    BY <1>1, <1>2, <2>1
  <2>3. ASSUME NEW j \in 1..n - 1, j > i - 1 PROVE t[j] \notin S
    <3>1. j + 1 > i
      BY <1>1, <2>3
    <3>. QED  BY <1>1, <1>2, <3>1
  <2>. QED  BY <1>1, <2>1, <2>2, <2>3 DEF LastIn
<1>. QED  BY <1>3, <1>4

LEMMA EventFields ==
  ASSUME NEW k, NEW a, NEW new, NEW seen
  PROVE  /\ Event(k, a, new, seen).kind = k /\ Event(k, a, new, seen).pid = a
         /\ Event(k, a, new, seen).new = new /\ Event(k, a, new, seen).known = seen
BY DEF Event

LEMMA EventFormed ==
  ASSUME NEW k \in Kinds, k # "space", NEW a \in App, NEW new \in SUBSET WindowsOf(a),
         NEW seen \in SUBSET WindowsOf(a),
         k \in {"created", "destroyed"} => seen = {} /\ \E w \in Window : new = {w}
  PROVE  Formed(Event(k, a, new, seen)) /\ Event(k, a, new, seen) \in AllEvents
<1>1. new \in SUBSET Window /\ seen \in SUBSET Window /\ a \in App \cup {""}
  BY DEF WindowsOf
<1>2. Event(k, a, new, seen) \in AllEvents
  BY <1>1 DEF Event, AllEvents
<1>. QED  BY <1>2, EventFields DEF Formed

LEMMA GoneFields ==
  ASSUME NEW w
  PROVE  /\ Gone(w).kind = "destroyed" /\ Gone(w).pid = Owner[w]
         /\ Gone(w).new = {w} /\ Gone(w).known = {}
BY DEF Gone, Event

LEMMA JoinSingle ==
  ASSUME NEW E, NEW q \in Seq(E), NEW e \in E
  PROVE  /\ << e >> \in Seq(E) /\ Range(<< e >>) = {e}
         /\ q \o << e >> \in Seq(E) /\ Range(q \o << e >>) = Range(q) \cup {e}
<1>. PICK p : p = << e >>
  OBVIOUS
<1>1. p \in Seq(E)
  OBVIOUS
<1>2. Range(p) = {e}
  BY DEF Range
<1>3. \A x \in Seq(E) : q \o x \in Seq(E) /\ Range(q \o x) = Range(q) \cup Range(x)
  BY JoinRange
<1>. QED  BY <1>1, <1>2, <1>3

Pushed(q, e, t) == t = Append(q, e)

LEMMA PushRange ==
  ASSUME NEW E, NEW q \in Seq(E), NEW e \in E, NEW t, Pushed(q, e, t)
  PROVE  t \in Seq(E) /\ Range(t) = Range(q) \cup {e}
<1>. PICK n : n = Len(q)
  OBVIOUS
<1>1. /\ n \in Nat /\ DOMAIN q = 1..n /\ DOMAIN t = 1..n + 1
      /\ \A i \in 1..n : t[i] = q[i] /\ i \in 1..n + 1
      /\ t[n + 1] = e /\ n + 1 \in 1..n + 1 /\ t \in Seq(E)
  BY DEF Pushed
<1>2. \A i \in 1..n + 1 : i \in 1..n \/ i = n + 1
  BY <1>1
<1>. QED  BY <1>1, <1>2 DEF Range

LEMMA NamedRange ==
  ASSUME NEW q, NEW k, NEW a
  PROVE  Named(q, k, a) <=> \E e \in Range(q) : e.kind = k /\ e.pid = a
BY DEF Named, Range

(* What nobody notices of the reactor and the world. *)
LEMMA Unnoticed ==
  ASSUME FInv,
         UNCHANGED <<stat, at, here, order, quitting, notes, threads, known, told, server, list,
                     r, strange, fresh>>
  PROVE  FInv'
<1>1. \A q : Reads(q)' <=> Reads(q)
  BY DEF Reads, ReadsList
<1>2. \A w : (OnScreen(w)' <=> OnScreen(w)) /\ (WillRead(w)' <=> WillRead(w)) /\ (Known(w)' <=> Known(w))
  BY <1>1 DEF OnScreen, WillRead, Known
<1>3. \A a : Listed(a)' = Listed(a) /\ (Even(a)' <=> Even(a)) /\ (Quiet' <=> Quiet)
  BY DEF Listed, Even, Quiet
<1>4. TypesInv' /\ LivesInv' /\ EndsInv'
  BY DEF FInv, TypesInv, LivesInv, EndsInv
<1>5. BooksInv'
  BY <1>2 DEF FInv, BooksInv
<1>6. ScreenInv'
  BY <1>1, <1>2 DEF FInv, ScreenInv
<1>7. FreshInv'
  BY <1>3 DEF FInv, FreshInv
<1>. QED  BY <1>4, <1>5, <1>6, <1>7 DEF FInv

LEMMA PollF ==
  ASSUME FInv, Poll \/ UNCHANGED vars
  PROVE  FInv'
BY Unnoticed DEF Poll, vars, worldVars, threadVars

LEMMA StartF ==
  ASSUME WInv, FInv, StartupCompletes
  PROVE  FInv'
<1>. PICK s : s = AppsRunningUpdated(r)
  OBVIOUS
<1>1. /\ ~r.started /\ r' = [s EXCEPT !.started = TRUE]
      /\ UNCHANGED <<stat, at, here, order, quitting, notes, threads, known, told, server, list,
                     strange, fresh>>
  BY DEF StartupCompletes, worldVars, threadVars
<1>2. /\ r'.visible = r.visible /\ r'.hidden = r.hidden /\ r'.space = r.space /\ r'.apps = r.apps
      /\ r'.windows = r.windows /\ r'.ids = r.ids
  BY <1>1 DEF AppsRunningUpdated, Removed, WInv, Shape
<1>3. \A q : Reads(q)' <=> Reads(q)
  BY DEF Reads, ReadsList
<1>4. \A w : (OnScreen(w)' <=> OnScreen(w)) /\ (WillRead(w)' <=> WillRead(w)) /\ (Known(w)' <=> Known(w))
  BY <1>1, <1>2, <1>3 DEF OnScreen, WillRead, Known
<1>5. TypesInv' /\ LivesInv' /\ EndsInv'
  BY <1>1, <1>2 DEF FInv, TypesInv, LivesInv, EndsInv
<1>6. BooksInv'
  BY <1>1, <1>2, <1>4 DEF FInv, BooksInv
<1>7. ScreenInv'
  BY <1>1, <1>2, <1>3, <1>4 DEF FInv, ScreenInv
<1>8. fresh' = {}
  BY <1>1 DEF FInv, FreshInv, Quiet
<1>. QED  BY <1>5, <1>6, <1>7, <1>8 DEF FInv, FreshInv

LEMMA SwitchF ==
  ASSUME WInv, FInv, NEW s \in Space, SwitchesTo(s)
  PROVE  FInv'
<1>0. PICK e : e = Event("space", "", {}, {})
  OBVIOUS
<1>1. /\ here' = s /\ server' = Append(server, e) /\ fresh' = {}
      /\ UNCHANGED <<stat, at, order, quitting, notes, threads, known, told, list, r, strange>>
  BY <1>0 DEF SwitchesTo, threadVars, Acts
<1>2. e \in AllEvents /\ e.kind = "space" /\ e.new = {}
  BY <1>0 DEF Event, AllEvents, Kinds
<1>3. Formed(e)
  BY <1>2 DEF Formed
<1>4. server \in Seq(AllEvents) /\ IsQueue(server)
  BY DEF FInv, TypesInv, IsQueue
<1>5. server' = server \o << e >>
  BY <1>1, <1>4, JoinOne
<1>6. server' \in Seq(AllEvents) /\ Range(server') = Range(server) \cup {e}
  <2>. PICK q, t : q = server /\ t = server'
    OBVIOUS
  <2>1. q \in Seq(AllEvents) /\ Pushed(q, e, t)
    BY <1>1, <1>4 DEF Pushed
  <2>2. t \in Seq(AllEvents) /\ Range(t) = Range(q) \cup {e}
    BY <1>2, <2>1, PushRange
  <2>. QED  BY <2>2
<1>7. Reads(server)'
  BY <1>2, <1>6 DEF Reads, ReadsList
<1>8. TypesInv'
  BY <1>1, <1>3, <1>6 DEF FInv, TypesInv
<1>9. LivesInv'
  BY <1>1, <1>2, <1>6 DEF FInv, LivesInv
<1>10. EndsInv'
  BY <1>1, <1>2, <1>6, NamedRange DEF FInv, EndsInv
<1>11. BooksInv'
  <2>1. \A w : Known(w)' <=> Known(w)
    BY <1>1, <1>2, <1>6 DEF Known, Finds
  <2>2. \A w : LastIn(server, {Gone(w)}, Finds(w)) => LastIn(server', {Gone(w)}, Finds(w))
    <3>1. ASSUME NEW w, LastIn(server, {Gone(w)}, Finds(w)) PROVE LastIn(server', {Gone(w)}, Finds(w))
      <4>1. Range(<< e >>) = {e} /\ << e >> \in Seq(AllEvents)
        BY <1>2, <1>4, JoinSingle
      <4>2. Range(<< e >>) \cap Finds(w) = {}
        BY <1>2, <4>1 DEF Finds
      <4>. QED  BY <1>4, <1>5, <3>1, <4>1, <4>2, LastJoin
    <3>. QED  BY <3>1
  <2>3. \A w \in Window : Gone(w) # e
    BY <1>2, GoneFields
  <2>. QED  BY <1>1, <1>6, <2>1, <2>2, <2>3 DEF FInv, BooksInv
<1>12. ScreenInv'
  <2>1. \A w : WillRead(w)'
    BY <1>7 DEF WillRead
  <2>2. \E f \in Range(server') : f.kind = "space"
    BY <1>2, <1>6
  <2>3. /\ r'.visible \cap r'.hidden = {} /\ r'.hidden \subseteq strange'
        /\ r'.visible \subseteq Range(list') /\ Range(list') \subseteq Window
        /\ \A w \in Range(list') : stat'[w] # "new"
    BY <1>1 DEF FInv, ScreenInv
  <2>4. \A w \in Window \ strange' :
          /\ w \in Range(list') => w \in r'.visible
          /\ stat'[w] # "closed" /\ (stat'[w] = "mini" => w \in known'[Owner[w]])
    BY <1>1 DEF FInv, ScreenInv
  <2>. QED  BY <1>7, <2>1, <2>2, <2>3, <2>4 DEF ScreenInv
<1>13. FreshInv'
  BY <1>1 DEF FreshInv
<1>. QED  BY <1>8, <1>9, <1>10, <1>11, <1>12, <1>13 DEF FInv

LEMMA QuitsF ==
  ASSUME WInv, FInv, NEW a \in App, Quits(a)
  PROVE  FInv'
<1>1. /\ quitting' = quitting \cup {a} /\ fresh' = {}
      /\ stat' = [w \in Window |-> IF Owner[w] = a THEN "dead" ELSE stat[w]]
      /\ order' = Without(WindowsOf(a))
      /\ told' = told \cup (tracked \cap WindowsOf(a))
      /\ UNCHANGED <<at, here, notes, threads, known, server, list, r, strange>>
  BY DEF Quits, Acts, Rest, threadVars, SkylightHears
<1>2. \A w \in Window : stat'[w] = IF Owner[w] = a THEN "dead" ELSE stat[w]
  BY <1>1
<1>3. \A w \in WindowsOf(a) : w \in Window /\ Owner[w] = a
  BY DEF WindowsOf
<1>4. \A q : Reads(q)' <=> Reads(q)
  BY DEF Reads, ReadsList
<1>5. TypesInv'
  <2>1. stat' \in [Window -> States]
    BY <1>1 DEF FInv, TypesInv, States
  <2>. PICK q, T : q = Without(WindowsOf(a)) /\ T = {w \in Window \ WindowsOf(a) : stat[w] = "open"}
    OBVIOUS
  <2>2. q \in Seq(Window) /\ Range(q) = T
    BY OrderOnly DEF FInv, Without
  <2>3. T = {w \in Window : stat'[w] = "open"}
    BY <1>2 DEF WindowsOf
  <2>4. order' \in Seq(Window) /\ Range(order') = {w \in Window : stat'[w] = "open"}
    BY <1>1, <2>2, <2>3
  <2>. QED  BY <1>1, <1>3, <2>1, <2>4 DEF FInv, TypesInv
<1>6. LivesInv'
  <2>1. \A e \in Range(server) : e.new \subseteq Window
    BY DEF FInv, TypesInv, Formed, AllEvents
  <2>2. \A w \in Window : Owner[w] \in quitting' => stat'[w] \in {"new", "dead"}
    BY <1>1, <1>2 DEF FInv, LivesInv
  <2>3. \A w \in told' : stat'[w] = "dead"
    BY <1>1, <1>2, <1>3 DEF FInv, LivesInv, TypesInv
  <2>4. \A w \in Window : stat'[w] = "new" => stat[w] = "new"
    BY <1>2
  <2>5. \A w \in Window : stat[w] = "dead" => stat'[w] = "dead"
    BY <1>2
  <2>6. ASSUME NEW w \in Window, stat'[w] = "dead", Owner[w] \notin quitting', w \in known'[Owner[w]]
        PROVE  w \in told' \/ NotedIn(notes', w, "destroyed")
    BY <1>1, <1>2, <2>6 DEF FInv, LivesInv
  <2>7. /\ \A b \in App : b \notin threads' \cup quitting' => known'[b] = {}
        /\ \A w \in Window : w \in known'[Owner[w]] => stat'[w] # "new"
        /\ \A w \in Window : \A k : NotedIn(notes', w, k) => stat'[w] # "new"
        /\ \A w \in Window : NotedIn(notes', w, "destroyed") => stat'[w] = "dead"
    BY <1>1, <2>4, <2>5 DEF FInv, LivesInv
  <2>8. \A e \in Range(server') : e.kind = "destroyed" => \A w \in e.new : stat'[w] = "dead"
    BY <1>1, <2>1, <2>5 DEF FInv, LivesInv
  <2>. QED  BY <2>2, <2>3, <2>6, <2>7, <2>8 DEF LivesInv
<1>7. EndsInv'
  BY <1>1 DEF FInv, EndsInv
<1>8. BooksInv'
  BY <1>1 DEF FInv, BooksInv, Known
<1>9. ScreenInv'
  <2>1. \A w \in Window : OnScreen(w)' => OnScreen(w)
    BY <1>1, <1>2 DEF OnScreen
  <2>2. \A w : WillRead(w) => WillRead(w)'
    BY <1>1, <1>4 DEF WillRead
  <2>3. /\ r'.visible \cap r'.hidden = {} /\ r'.hidden \subseteq strange'
        /\ r'.visible \subseteq Range(list') /\ Range(list') \subseteq Window
        /\ (r'.space = here' \/ \E e \in Range(server') : e.kind = "space")
        /\ \A w \in Range(list') : stat'[w] # "new" /\ (at'[w] # here' => Reads(server)')
    BY <1>1, <1>2, <1>4 DEF FInv, ScreenInv
  <2>4. ASSUME NEW w \in Window \ strange'
        PROVE  /\ w \in Range(list') => w \in r'.visible
               /\ stat'[w] # "closed" /\ (stat'[w] = "mini" => w \in known'[Owner[w]])
               /\ OnScreen(w)' => w \in Range(list') \/ WillRead(w)'
                                  \/ (NotedIn(notes', w, "created") /\ w \notin known'[Owner[w]])
               /\ stat'[w] = "mini" /\ w \in Range(list') => WillRead(w)'
    <3>1. stat'[w] \in {"closed", "mini"} => stat'[w] = stat[w]
      BY <1>2
    <3>. QED  BY <1>1, <2>1, <2>2, <3>1 DEF FInv, ScreenInv
  <2>. QED  BY <2>3, <2>4 DEF ScreenInv
<1>10. FreshInv'
  BY <1>1 DEF FreshInv
<1>. QED  BY <1>5, <1>6, <1>7, <1>8, <1>9, <1>10 DEF FInv

-----------------------------------------------------------------------------
(* What threads do. *)

(* The thread of a registers the windows `new`, forgets those `gone` and   *)
(* tells the reactor es.                                                   *)
Learns(a, es, new, gone) ==
  /\ a \in App /\ es \in Seq(AllEvents) /\ server' = server \o es
  /\ \A e \in Range(es) : Formed(e) /\ e.pid = a /\ e.kind \notin {"space", "ended"}
  /\ known' = [known EXCEPT ![a] = (@ \cup new) \ gone]
  /\ new \subseteq WindowsOf(a) /\ \A w \in new : stat[w] \notin {"new", "dead"}
  /\ gone \subseteq WindowsOf(a) /\ \A w \in gone : stat[w] = "dead"
  /\ \A w \in new : \E e \in Range(es) : e \in Finds(w) /\ (ReadsList(e) \/ w \in strange')
  /\ \A w \in Window : \A e \in Range(es) : e \in Finds(w) => w \in new
  /\ \A e \in Range(es) : e.kind = "destroyed" => \E w \in gone : e = Gone(w)
  /\ \A w \in gone : w \in known[a] => es = << Gone(w) >>
  /\ threads \subseteq threads' /\ threads' \subseteq threads \cup {a} /\ a \in threads'
  /\ a \notin threads => a \notin quitting /\ Reads(es)
  /\ told' \subseteq told /\ \A w \in told : w \in told' \/ w \in gone
  /\ \A w \in Window :
       /\ \A k : NotedIn(notes', w, k) => NotedIn(notes, w, k)
       /\ NotedIn(notes, w, "created") =>
            NotedIn(notes', w, "created") \/ stat[w] = "dead" \/ w \in known'[Owner[w]]
       /\ NotedIn(notes, w, "visibility") =>
            NotedIn(notes', w, "visibility") \/ w \notin known[Owner[w]] \/ Reads(es)
       /\ NotedIn(notes, w, "destroyed") => NotedIn(notes', w, "destroyed") \/ w \in gone
  /\ strange \subseteq strange'
  /\ UNCHANGED <<stat, at, here, order, quitting, list, r>>

(* What Learns says of the queue and of what is known. *)
LEMMA LearnsQueue ==
  ASSUME TypesInv, NEW a, NEW es, NEW new, NEW gone, Learns(a, es, new, gone)
  PROVE  /\ server' \in Seq(AllEvents) /\ Range(server') = Range(server) \cup Range(es)
         /\ \A b \in App : b # a => known'[b] = known[b]
         /\ known'[a] = (known[a] \cup new) \ gone
         /\ DOMAIN known = App /\ a \in App
<1>1. server \in Seq(AllEvents) /\ es \in Seq(AllEvents) /\ server' = server \o es
  BY DEF TypesInv, Learns
<1>. PICK q : q = server
  OBVIOUS
<1>2. q \o es \in Seq(AllEvents) /\ Range(q \o es) = Range(q) \cup Range(es)
  BY <1>1, JoinRange
<1>3. /\ \A b \in App : b # a => known'[b] = known[b]
      /\ known'[a] = (known[a] \cup new) \ gone
      /\ DOMAIN known = App /\ a \in App
  BY DEF Learns, TypesInv
<1>. QED  BY <1>1, <1>2, <1>3

LEMMA LearnsTypes ==
  ASSUME TypesInv, NEW a, NEW es, NEW new, NEW gone, Learns(a, es, new, gone)
  PROVE  TypesInv'
<1>1. known' \in [App -> SUBSET Window] /\ \A b \in App : known'[b] \subseteq WindowsOf(b)
  <2>1. \A b \in App : known'[b] \subseteq WindowsOf(b)
    BY LearnsQueue DEF Learns, TypesInv
  <2>2. \A b : WindowsOf(b) \subseteq Window
    BY DEF WindowsOf
  <2>3. known' = [b \in App |-> known'[b]]
    BY DEF Learns, TypesInv
  <2>. QED  BY <2>1, <2>2, <2>3
<1>2. \A e \in Range(server') : Formed(e)
  <2>1. \A e \in Range(server) \cup Range(es) : Formed(e)
    BY DEF Learns, TypesInv
  <2>2. Range(server') = Range(server) \cup Range(es)
    BY LearnsQueue
  <2>. QED  BY <2>1, <2>2
<1>3. UNCHANGED <<stat, at, order, quitting>> /\ told' \subseteq told
  BY DEF Learns
<1>4. server' \in Seq(AllEvents)
  BY LearnsQueue
<1>. QED  BY <1>1, <1>2, <1>3, <1>4 DEF TypesInv

LEMMA LearnsLives ==
  ASSUME TypesInv, LivesInv, NEW a, NEW es, NEW new, NEW gone, Learns(a, es, new, gone)
  PROVE  LivesInv'
<1>1. UNCHANGED <<stat, quitting>>
  BY DEF Learns
<1>2. ASSUME NEW b \in App, b \notin threads' \cup quitting PROVE known'[b] = {}
  BY <1>2, LearnsQueue DEF Learns, LivesInv
<1>3. ASSUME NEW w \in Window, w \in known'[Owner[w]]
      PROVE  /\ stat[w] # "new"
             /\ w \in known[Owner[w]] \/ stat[w] # "dead"
             /\ w \notin gone
  <2>1. Owner[w] \in App
    BY WindowsAssumption
  <2>2. CASE Owner[w] = a
    <3>1. w \notin gone /\ (w \in known[a] \/ w \in new)
      BY <1>3, <2>2, LearnsQueue
    <3>. QED  BY <2>2, <3>1 DEF Learns, LivesInv
  <2>3. CASE Owner[w] # a
    <3>1. w \notin gone
      BY <2>3 DEF Learns, WindowsOf
    <3>. QED  BY <1>3, <2>1, <2>3, <3>1, LearnsQueue DEF LivesInv
  <2>. QED  BY <2>2, <2>3
<1>4. ASSUME NEW w \in Window, stat[w] = "dead", Owner[w] \notin quitting, w \in known'[Owner[w]]
      PROVE  w \in told' \/ NotedIn(notes', w, "destroyed")
  <2>1. w \in known[Owner[w]] /\ w \notin gone
    BY <1>3, <1>4
  <2>2. w \in told \/ NotedIn(notes, w, "destroyed")
    BY <1>4, <2>1 DEF LivesInv
  <2>. QED  BY <2>1, <2>2 DEF Learns
<1>5. \A e \in Range(server') : e.kind = "destroyed" => \A w \in e.new : stat[w] = "dead"
  <2>1. \A e \in Range(es) : e.kind = "destroyed" => \A w \in e.new : stat[w] = "dead"
    <3>1. ASSUME NEW e \in Range(es), e.kind = "destroyed" PROVE \A w \in e.new : stat[w] = "dead"
      <4>1. PICK v \in gone : e = Gone(v)
        BY <3>1 DEF Learns
      <4>2. e.new = {v}
        BY <4>1, GoneFields
      <4>. QED  BY <4>2 DEF Learns
    <3>. QED  BY <3>1
  <2>. QED  BY <2>1, LearnsQueue DEF LivesInv
<1>6. \A w \in told' : stat[w] = "dead"
  BY DEF Learns, LivesInv
<1>7. \A w \in Window : \A k : NotedIn(notes', w, k) => stat[w] # "new" /\ (k = "destroyed" => stat[w] = "dead")
  BY DEF Learns, LivesInv
<1>8. \A w \in Window : Owner[w] \in quitting => stat[w] \in {"new", "dead"}
  BY DEF LivesInv
<1>. QED  BY <1>1, <1>2, <1>3, <1>4, <1>5, <1>6, <1>7, <1>8 DEF LivesInv

LEMMA LearnsEnds ==
  ASSUME TypesInv, EndsInv, NEW a, NEW es, NEW new, NEW gone, Learns(a, es, new, gone)
  PROVE  EndsInv'
<1>1. ASSUME NEW b \in App \ threads', b \in r'.apps \/ Named(server', "launched", b)
      PROVE  Named(server', "ended", b)
  <2>1. b \in App \ threads /\ b # a /\ r' = r
    BY <1>1 DEF Learns
  <2>2. \A e \in Range(es) : e.pid # b
    BY <2>1 DEF Learns
  <2>3. b \in r.apps \/ Named(server, "launched", b)
    BY <1>1, <2>1, <2>2, NamedRange, LearnsQueue
  <2>4. Named(server, "ended", b)
    BY <2>1, <2>3 DEF EndsInv
  <2>. QED  BY <2>4, NamedRange, LearnsQueue
<1>. QED  BY <1>1 DEF EndsInv

LEMMA LearnsBooks ==
  ASSUME TypesInv, LivesInv, BooksInv, NEW a, NEW es, NEW new, NEW gone, Learns(a, es, new, gone)
  PROVE  BooksInv'
<1>1. /\ UNCHANGED <<quitting, r>> /\ server \in Seq(AllEvents) /\ es \in Seq(AllEvents)
      /\ server' = server \o es
  BY DEF Learns, TypesInv
<1>. PICK queue : queue = Range(server)
  OBVIOUS
<1>2. Range(server') = queue \cup Range(es)
  BY LearnsQueue
<1>3. ASSUME NEW w \in Window
      PROVE  /\ Known(w)' <=> Known(w) \/ w \in new
             /\ w \notin new => Range(es) \cap Finds(w) = {}
  <2>1. w \in new <=> \E e \in Range(es) : e \in Finds(w)
    BY DEF Learns
  <2>. QED  BY <1>1, <1>2, <2>1 DEF Known
<1>4. ASSUME NEW w \in Window, Gone(w) \in Range(es) PROVE w \in gone
  <2>1. PICK v \in gone : Gone(w) = Gone(v)
    BY <1>4, GoneFields DEF Learns
  <2>2. {w} = {v}
    BY <2>1, GoneFields
  <2>. QED  BY <2>2
<1>5. ASSUME NEW w \in Window, stat[w] # "dead" PROVE Gone(w) \notin queue
  BY <1>5, GoneFields DEF LivesInv
<1>6. ASSUME NEW w \in Window, Owner[w] \notin quitting, w \in known'[Owner[w]]
      PROVE  Known(w)' /\ Gone(w) \notin Range(server')
  <2>1. Owner[w] \in App
    BY WindowsAssumption
  <2>2. w \notin gone /\ (w \in known[Owner[w]] \/ w \in new)
    <3>1. CASE Owner[w] = a
      BY <1>6, <3>1, LearnsQueue
    <3>2. CASE Owner[w] # a
      BY <1>6, <2>1, <3>2, LearnsQueue DEF Learns, WindowsOf
    <3>. QED  BY <3>1, <3>2
  <2>3. Gone(w) \notin queue
    <3>1. CASE w \in known[Owner[w]]
      BY <1>6, <3>1 DEF BooksInv
    <3>2. CASE w \in new
      BY <1>5, <3>2 DEF Learns
    <3>. QED  BY <2>2, <3>1, <3>2
  <2>4. Known(w)'
    BY <1>3, <1>6, <2>2 DEF BooksInv
  <2>. QED  BY <1>2, <1>4, <2>2, <2>3, <2>4
<1>7. ASSUME NEW w \in Window, Owner[w] \notin quitting, w \notin known'[Owner[w]], Known(w)'
      PROVE  LastIn(server', {Gone(w)}, Finds(w))
  <2>1. Owner[w] \in App
    BY WindowsAssumption
  <2>2. w \notin new
    <3>1. ASSUME w \in new PROVE FALSE
      <4>1. Owner[w] = a /\ stat[w] # "dead"
        BY <3>1 DEF Learns, WindowsOf
      <4>2. w \in gone
        BY <1>7, <3>1, <4>1, LearnsQueue
      <4>. QED  BY <4>1, <4>2 DEF Learns
    <3>. QED  BY <3>1
  <2>3. Known(w)
    BY <1>3, <1>7, <2>2
  <2>4. CASE w \notin known[Owner[w]]
    <3>1. LastIn(server, {Gone(w)}, Finds(w))
      BY <1>7, <2>3, <2>4 DEF BooksInv
    <3>2. Range(es) \cap Finds(w) = {}
      BY <1>3, <2>2
    <3>. QED  BY <1>1, <3>1, <3>2, LastJoin
  <2>5. CASE w \in known[Owner[w]]
    <3>1. Owner[w] = a /\ w \in gone
      BY <1>7, <2>1, <2>5, LearnsQueue
    <3>2. es = << Gone(w) >>
      BY <2>5, <3>1 DEF Learns
    <3>3. Gone(w) \in AllEvents
      <4>1. Gone(w) \in Range(es)
        BY <3>2 DEF Range
      <4>. QED  BY <4>1 DEF Learns, Formed
    <3>. QED  BY <1>1, <3>2, <3>3, LastNow
  <2>. QED  BY <2>4, <2>5
<1>. QED  BY <1>1, <1>6, <1>7 DEF BooksInv

LEMMA LearnsScreen ==
  ASSUME TypesInv, LivesInv, ScreenInv, NEW a, NEW es, NEW new, NEW gone, Learns(a, es, new, gone)
  PROVE  ScreenInv'
<1>1. UNCHANGED <<stat, at, here, list, r>> /\ strange \subseteq strange' /\ threads \subseteq threads'
  BY DEF Learns
<1>2. \A q : Reads(q)' <=> Reads(q)
  BY DEF Reads, ReadsList
<1>3. Reads(server) \/ Reads(es) => Reads(server)'
  BY LearnsQueue DEF Reads, ReadsList
<1>4. ASSUME NEW w \in Window, stat[w] # "dead", w \in known[Owner[w]] PROVE w \in known'[Owner[w]]
  <2>1. Owner[w] \in App /\ w \notin gone
    BY <1>4, WindowsAssumption DEF Learns
  <2>. QED  BY <1>4, <2>1, LearnsQueue
<1>5. ASSUME NEW w \in Window, stat[w] # "dead", WillRead(w) PROVE WillRead(w)'
  <2>1. CASE Reads(server)
    BY <1>3, <2>1 DEF WillRead
  <2>2. CASE Owner[w] \notin threads
    <3>1. CASE Owner[w] = a
      BY <1>3, <2>2, <3>1 DEF Learns, WillRead
    <3>2. CASE Owner[w] # a
      BY <2>2, <3>2 DEF Learns, WillRead
    <3>. QED  BY <3>1, <3>2
  <2>3. CASE NotedIn(notes, w, "visibility") /\ w \in known[Owner[w]]
    <3>1. NotedIn(notes', w, "visibility") \/ Reads(es)
      BY <2>3 DEF Learns
    <3>. QED  BY <1>3, <1>4, <1>5, <2>3, <3>1 DEF WillRead
  <2>. QED  BY <1>5, <2>1, <2>2, <2>3 DEF WillRead
<1>6. ASSUME NEW w \in Window \ strange', w \in known'[Owner[w]], w \notin known[Owner[w]]
      PROVE  WillRead(w)'
  <2>1. w \in new
    <3>1. Owner[w] \in App
      BY WindowsAssumption
    <3>. QED  BY <1>6, <3>1, LearnsQueue
  <2>2. PICK e \in Range(es) : ReadsList(e)
    BY <1>6, <2>1 DEF Learns
  <2>3. Reads(es)
    BY <2>2 DEF Reads
  <2>. QED  BY <1>3, <2>3 DEF WillRead
<1>7. ASSUME NEW w \in Window \ strange'
      PROVE  /\ w \in Range(list) => w \in r.visible
             /\ stat[w] # "closed" /\ (stat[w] = "mini" => w \in known'[Owner[w]])
             /\ OnScreen(w) => w \in Range(list) \/ WillRead(w)'
                                \/ (NotedIn(notes', w, "created") /\ w \notin known'[Owner[w]])
             /\ stat[w] = "mini" /\ w \in Range(list) => WillRead(w)'
  <2>0. w \in Window /\ w \notin strange
    BY <1>1, <1>7
  <2>1. /\ w \in Range(list) => w \in r.visible
        /\ stat[w] # "closed" /\ (stat[w] = "mini" => w \in known[Owner[w]])
        /\ OnScreen(w) => w \in Range(list) \/ WillRead(w)
                          \/ (NotedIn(notes, w, "created") /\ w \notin known[Owner[w]])
        /\ stat[w] = "mini" /\ w \in Range(list) => WillRead(w)
    BY <2>0 DEF ScreenInv
  <2>2. OnScreen(w) => stat[w] # "dead"
    BY DEF OnScreen
  <2>3. ASSUME OnScreen(w), NotedIn(notes, w, "created"), w \notin known[Owner[w]]
        PROVE  WillRead(w)' \/ (NotedIn(notes', w, "created") /\ w \notin known'[Owner[w]])
    <3>1. CASE w \in known'[Owner[w]]
      BY <1>6, <1>7, <2>3, <3>1
    <3>2. CASE w \notin known'[Owner[w]]
      <4>1. NotedIn(notes', w, "created")
        BY <2>0, <2>2, <2>3, <3>2 DEF Learns
      <4>. QED  BY <3>2, <4>1
    <3>. QED  BY <3>1, <3>2
  <2>. QED  BY <1>4, <1>5, <2>0, <2>1, <2>2, <2>3
<1>8. \A w : OnScreen(w)' <=> OnScreen(w)
  BY <1>1 DEF OnScreen
<1>9. \A w \in Range(list) : stat[w] # "new" /\ (at[w] # here => Reads(server)')
  BY <1>3 DEF ScreenInv
<1>10. /\ r.visible \cap r.hidden = {} /\ r.hidden \subseteq strange'
       /\ r.visible \subseteq Range(list) /\ Range(list) \subseteq Window
       /\ r.space = here \/ \E e \in Range(server') : e.kind = "space"
  BY <1>1, LearnsQueue DEF ScreenInv
<1>. QED  BY <1>1, <1>7, <1>8, <1>9, <1>10 DEF ScreenInv

LEMMA LearnsF ==
  ASSUME FInv, NEW a, NEW es, NEW new, NEW gone, Learns(a, es, new, gone), FreshInv'
  PROVE  FInv'
BY LearnsTypes, LearnsLives, LearnsEnds, LearnsBooks, LearnsScreen DEF FInv

LEMMA MainOne ==
  ASSUME TypesInv, NEW a
  PROVE  /\ \A x, y \in Main(a) : x = y
         /\ \A x \in Main(a) : x \in Window /\ Owner[x] = a /\ OnScreen(x)
<1>1. List \in Seq(Window)
  <2>. PICK S : S = {w \in Window : OnScreen(w)}
    OBVIOUS
  <2>. QED  BY OrderOnly DEF List
<1>2. DOMAIN List \subseteq Nat /\ DOMAIN List = 1..Len(List)
  BY <1>1
<1>3. ASSUME NEW x \in Main(a), NEW y \in Main(a) PROVE x = y
  <2>1. PICK i \in DOMAIN List : List[i] = x /\ \A k \in 1..i - 1 : Owner[List[k]] # a
    BY DEF Main
  <2>2. PICK j \in DOMAIN List : List[j] = y /\ \A k \in 1..j - 1 : Owner[List[k]] # a
    BY DEF Main
  <2>3. Owner[x] = a /\ Owner[y] = a
    BY DEF Main, WindowsOf
  <2>4. ~(i < j) /\ ~(j < i)
    <3>1. ASSUME i < j PROVE FALSE
      <4>1. i \in 1..j - 1
        BY <1>2, <3>1
      <4>. QED  BY <2>1, <2>2, <2>3, <4>1
    <3>2. ASSUME j < i PROVE FALSE
      <4>1. j \in 1..i - 1
        BY <1>2, <3>2
      <4>. QED  BY <2>1, <2>2, <2>3, <4>1
    <3>. QED  BY <3>1, <3>2
  <2>5. i = j
    BY <1>2, <2>4
  <2>. QED  BY <2>1, <2>2, <2>5
<1>4. ASSUME NEW x \in Main(a) PROVE x \in Window /\ Owner[x] = a /\ OnScreen(x)
  <2>1. x \in Range(List) /\ x \in Window /\ Owner[x] = a
    BY DEF Main, WindowsOf, Range
  <2>. QED  BY <2>1, ListOnScreen
<1>. QED  BY <1>3, <1>4

LEMMA ListedKnown ==
  ASSUME NEW a
  PROVE  Listed(a) \subseteq WindowsOf(a) /\ \A w \in Listed(a) : stat[w] \notin {"new", "dead"}
BY DEF Listed

(* What an event of the queue says. *)
LEMMA FindsOne ==
  ASSUME NEW e \in AllEvents, NEW w
  PROVE  e \in Finds(w) <=> e.kind \in {"created", "launched", "discovered"} /\ w \in e.new
BY DEF Finds

(* Nothing is said to be new but in a single event. *)
LEMMA LearnsOne ==
  ASSUME TypesInv, NEW a \in App, NEW e, Formed(e), e.pid = a, e.kind \in {"created", "launched", "discovered"},
         NEW es, es = << e >>, server' = server \o es,
         known' = [known EXCEPT ![a] = @ \cup e.new],
         \A w \in e.new : stat[w] \notin {"new", "dead"},
         ReadsList(e) \/ e.new \subseteq strange',
         threads \subseteq threads', threads' \subseteq threads \cup {a}, a \in threads',
         a \notin threads => a \notin quitting /\ ReadsList(e),
         told' = told, strange \subseteq strange',
         \A w \in Window :
           /\ \A k : NotedIn(notes', w, k) => NotedIn(notes, w, k)
           /\ NotedIn(notes, w, "created") =>
                NotedIn(notes', w, "created") \/ stat[w] = "dead" \/ w \in known'[Owner[w]]
           /\ NotedIn(notes, w, "visibility") => NotedIn(notes', w, "visibility")
           /\ NotedIn(notes, w, "destroyed") => NotedIn(notes', w, "destroyed"),
         UNCHANGED <<stat, at, here, order, quitting, list, r>>
  PROVE  Learns(a, es, e.new, {})
<1>. PICK new : new = e.new
  OBVIOUS
<1>1. e \in AllEvents /\ new \subseteq WindowsOf(a) /\ new \subseteq Window
  BY DEF Formed, AllEvents
<1>2. es \in Seq(AllEvents) /\ Range(es) = {e}
  BY <1>1, JoinSingle DEF TypesInv
<1>3. known' = [known EXCEPT ![a] = (@ \cup new) \ {}]
  <2>1. \A S : S \ {} = S
    OBVIOUS
  <2>2. (known[a] \cup new) \ {} = known[a] \cup new
    BY <2>1
  <2>. QED  BY <2>2
<1>4. \A w \in new : \E f \in Range(es) : f \in Finds(w) /\ (ReadsList(f) \/ w \in strange')
  BY <1>1, <1>2, FindsOne
<1>5. \A w \in Window : \A f \in Range(es) : f \in Finds(w) => w \in new
  BY <1>1, <1>2, FindsOne
<1>6. \A f \in Range(es) : Formed(f) /\ f.pid = a /\ f.kind \notin {"space", "ended"} /\ f.kind # "destroyed"
  BY <1>2
<1>7. a \notin threads => a \notin quitting /\ Reads(es)
  BY <1>2 DEF Reads
<1>8. Learns(a, es, new, {})
  BY <1>1, <1>2, <1>3, <1>4, <1>5, <1>6, <1>7 DEF Learns
<1>. QED  BY <1>8

(* Or nothing is. *)
LEMMA LearnsNone ==
  ASSUME TypesInv, NEW a \in App, NEW es, es \in Seq(AllEvents), server' = server \o es,
         \A e \in Range(es) : Formed(e) /\ e.pid = a /\ e.new = {} /\ e.kind \notin {"space", "ended", "destroyed"},
         known' = known, threads' = threads, a \in threads,
         told' = told, strange \subseteq strange',
         \A w \in Window :
           /\ \A k : NotedIn(notes', w, k) => NotedIn(notes, w, k)
           /\ NotedIn(notes, w, "created") =>
                NotedIn(notes', w, "created") \/ stat[w] = "dead" \/ w \in known'[Owner[w]]
           /\ NotedIn(notes, w, "visibility") =>
                NotedIn(notes', w, "visibility") \/ w \notin known[Owner[w]] \/ Reads(es)
           /\ NotedIn(notes, w, "destroyed") => NotedIn(notes', w, "destroyed"),
         UNCHANGED <<stat, at, here, order, quitting, list, r>>
  PROVE  Learns(a, es, {}, {})
<1>1. known' = [known EXCEPT ![a] = (@ \cup {}) \ {}]
  <2>1. (known[a] \cup {}) \ {} = known[a]
    OBVIOUS
  <2>. QED  BY <2>1 DEF TypesInv
<1>2. \A w \in Window : \A e \in Range(es) : e \notin Finds(w)
  BY DEF Finds
<1>. QED  BY <1>1, <1>2 DEF Learns

(* A window is gone. *)
LEMMA LearnsGone ==
  ASSUME TypesInv, NEW a \in App, NEW w \in WindowsOf(a), stat[w] = "dead", Forgets(a, w),
         threads' = threads, a \in threads,
         told' = told \/ told' = told \ {w}, strange \subseteq strange',
         \A x \in Window :
           /\ \A k : NotedIn(notes', x, k) => NotedIn(notes, x, k)
           /\ \A k : NotedIn(notes, x, k) => NotedIn(notes', x, k) \/ (k = "destroyed" /\ x = w),
         UNCHANGED <<stat, at, here, order, quitting, list, r>>
  PROVE  \E es : Learns(a, es, {}, {w})
<1>. PICK es : es = IF w \in known[a] THEN << Gone(w) >> ELSE << >>
  OBVIOUS
<1>0. Owner[w] = a /\ w \in Window
  BY DEF WindowsOf
<1>1. server' = server \o es /\ known' = [known EXCEPT ![a] = @ \ {w}]
  BY <1>0 DEF Forgets, Tells, Gone
<1>2. known' = [known EXCEPT ![a] = (@ \cup {}) \ {w}]
  <2>1. (known[a] \cup {}) \ {w} = known[a] \ {w}
    OBVIOUS
  <2>. QED  BY <1>1, <2>1
<1>3. Formed(Gone(w)) /\ Gone(w) \in AllEvents
  BY <1>0, EventFormed DEF Gone, Kinds
<1>4. es \in Seq(AllEvents) /\ \A e \in Range(es) : e = Gone(w)
  <2>1. CASE w \in known[a]
    BY <1>3, <2>1, JoinSingle DEF TypesInv
  <2>2. CASE w \notin known[a]
    BY <2>2 DEF Range
  <2>. QED  BY <2>1, <2>2
<1>5. \A e \in Range(es) : Formed(e) /\ e.pid = a /\ e.kind = "destroyed" /\ \A x : e \notin Finds(x)
  BY <1>0, <1>3, <1>4, GoneFields DEF Finds
<1>6. Learns(a, es, {}, {w})
  <2>1. \A x \in told : x \in told' \/ x \in {w}
    OBVIOUS
  <2>2. told' \subseteq told
    OBVIOUS
  <2>. QED  BY <1>0, <1>1, <1>2, <1>4, <1>5, <2>1, <2>2 DEF Learns
<1>. QED  BY <1>6

LEMMA NotQuiet ==
  ASSUME FInv, ~Quiet, fresh' = fresh
  PROVE  FreshInv'
BY DEF FInv, FreshInv

LEMMA LaunchF ==
  ASSUME WInv, FInv, NEW a \in App, Launches(a)
  PROVE  FInv'
<1>. PICK e, es : e = Event("launched", a, Listed(a), {}) /\ es = << e >>
  OBVIOUS
<1>1. /\ a \notin threads /\ a \notin quitting /\ threads' = threads \cup {a}
      /\ known' = [known EXCEPT ![a] = Listed(a)]
      /\ server' = server \o es /\ fresh' = fresh
      /\ UNCHANGED <<stat, at, here, order, quitting, told, list, r, strange, notes>>
  BY DEF Launches, Tells, worldVars
<1>2. e.kind = "launched" /\ e.pid = a /\ e.new = Listed(a) /\ ReadsList(e)
  BY EventFields DEF ReadsList
<1>3. Formed(e)
  BY ListedKnown, EventFormed DEF Kinds
<1>4. known' = [known EXCEPT ![a] = @ \cup e.new]
  <2>1. known[a] \cup e.new = Listed(a)
    BY <1>1, <1>2 DEF FInv, LivesInv
  <2>. QED  BY <1>1, <2>1
<1>5. ~Quiet
  BY <1>1 DEF Quiet
<1>6. \A w \in e.new : stat[w] \notin {"new", "dead"}
  BY <1>2, ListedKnown
<1>7. Learns(a, es, e.new, {})
  BY <1>1, <1>2, <1>3, <1>4, <1>6, LearnsOne DEF FInv
<1>. QED  BY <1>1, <1>5, <1>7, LearnsF, NotQuiet

LEMMA AnswersLearn ==
  ASSUME WInv, FInv, NEW a \in App, Answers(a)
  PROVE  \E es, new : Learns(a, es, new, {})
<1>. PICK new, seen : new = Listed(a) \ known[a] /\ seen = Listed(a) \cap known[a]
  OBVIOUS
<1>. PICK e, es : e = Event("discovered", a, new, seen) /\ es = << e >>
  OBVIOUS
<1>1. /\ a \in threads /\ threads' = threads
      /\ known' = [known EXCEPT ![a] = @ \cup new]
      /\ server' = server \o es /\ strange' = strange \cup new
      /\ UNCHANGED <<stat, at, here, order, quitting, told, list, r, notes>>
  BY DEF Answers, Registers, Tells, worldVars
<1>2. e.kind = "discovered" /\ e.pid = a /\ e.new = new
  BY EventFields
<1>3. Formed(e)
  BY ListedKnown, EventFormed DEF Kinds
<1>4. \A w \in e.new : stat[w] \notin {"new", "dead"}
  BY <1>2, ListedKnown
<1>5. Learns(a, es, e.new, {})
  BY <1>1, <1>2, <1>3, <1>4, LearnsOne DEF FInv
<1>. QED  BY <1>5

(* An answer to the last question about what is there still. *)
LEMMA AnswersFresh ==
  ASSUME WInv, FInv, NEW a \in App, Answers(a)
  PROVE  FreshInv'
<1>. PICK new, seen : new = Listed(a) \ known[a] /\ seen = Listed(a) \cap known[a]
  OBVIOUS
<1>. PICK e, es : e = Event("discovered", a, new, seen) /\ es = << e >>
  OBVIOUS
<1>1. /\ a \in threads /\ threads' = threads
      /\ known' = [known EXCEPT ![a] = @ \cup new]
      /\ server' = server \o es
      /\ fresh' = IF Quiet /\ Listed(a) \subseteq known[a] THEN fresh \cup {a} ELSE fresh \ {a}
      /\ UNCHANGED <<stat, at, here, order, quitting, told, list, r, notes>>
  BY DEF Answers, Registers, Tells, worldVars
<1>2. e.kind = "discovered" /\ e.pid = a
  BY EventFields
<1>3. e \in AllEvents /\ server \in Seq(AllEvents)
  BY ListedKnown, EventFormed DEF Kinds, FInv, TypesInv
<1>4. es \in Seq(AllEvents) /\ Range(es) = {e}
  BY <1>3, JoinSingle
<1>. PICK q : q = server
  OBVIOUS
<1>5. Range(server') = Range(q) \cup {e} /\ server' \in Seq(AllEvents)
  <2>1. \A x \in Seq(AllEvents) : q \o x \in Seq(AllEvents) /\ Range(q \o x) = Range(q) \cup Range(x)
    BY <1>3, JoinRange
  <2>. QED  BY <1>1, <1>4, <2>1
<1>6. \A b : Listed(b)' = Listed(b) /\ (Even(b)' <=> Even(b))
  BY <1>1 DEF Listed, Even
<1>7. \A b \in App : known[b] \subseteq known'[b]
  BY <1>1 DEF FInv, TypesInv
<1>8. Quiet => Quiet'
  <2>1. ASSUME \A i \in DOMAIN server : server[i].kind = "discovered"
        PROVE  \A i \in DOMAIN server' : server'[i].kind = "discovered"
    <3>1. \A f \in Range(server') : f.kind = "discovered"
      BY <1>2, <1>5, <2>1 DEF Range
    <3>. QED  BY <3>1 DEF Range
  <2>. QED  BY <1>1, <2>1 DEF Quiet
<1>9. ASSUME NEW b \in fresh, b # a
      PROVE  /\ Quiet' /\ b \in threads' /\ Listed(b)' \subseteq known'[b]
             /\ \/ LastIn(server', {Event("discovered", b, {}, Listed(b)')}, From(b))
                \/ Range(server') \cap From(b) = {} /\ Even(b)'
  <2>1. /\ Quiet /\ b \in threads /\ Listed(b) \subseteq known[b]
        /\ \/ LastIn(server, {Event("discovered", b, {}, Listed(b))}, From(b))
           \/ Range(server) \cap From(b) = {} /\ Even(b)
    BY DEF FInv, FreshInv
  <2>2. e \notin From(b)
    BY <1>2, <1>9 DEF From
  <2>. PICK T : T = {Event("discovered", b, {}, Listed(b))}
    OBVIOUS
  <2>3. LastIn(server, T, From(b)) => LastIn(server', T, From(b))
    BY <1>1, <1>3, <1>4, <2>2, LastJoin
  <2>4. b \in App
    BY <2>1 DEF WInv
  <2>5. Listed(b)' \subseteq known'[b]
    BY <1>6, <1>7, <2>1, <2>4
  <2>6. LastIn(server', {Event("discovered", b, {}, Listed(b)')}, From(b)) <=> LastIn(server', T, From(b))
    BY <1>6
  <2>. QED  BY <1>1, <1>5, <1>6, <1>8, <2>1, <2>2, <2>3, <2>5, <2>6
<1>10. CASE Quiet /\ Listed(a) \subseteq known[a]
  <2>1. new = {} /\ seen = Listed(a)
    BY <1>10
  <2>2. e = Event("discovered", a, {}, Listed(a)')
    BY <1>6, <2>1
  <2>3. LastIn(server', {Event("discovered", a, {}, Listed(a)')}, From(a))
    <3>1. e \in {Event("discovered", a, {}, Listed(a)')}
      BY <2>2
    <3>. QED  BY <1>1, <1>3, <3>1, LastNow
  <2>4. Quiet' /\ a \in threads' /\ Listed(a)' \subseteq known'[a]
    BY <1>1, <1>6, <1>7, <1>8, <1>10
  <2>. QED  BY <1>1, <1>9, <1>10, <2>3, <2>4 DEF FreshInv
<1>11. CASE ~(Quiet /\ Listed(a) \subseteq known[a])
  BY <1>1, <1>9, <1>11 DEF FreshInv
<1>. QED  BY <1>10, <1>11

LEMMA AnswerF ==
  ASSUME WInv, FInv, NEW a \in App, Answers(a) \/ AnswerFails(a) \/ HearsDestroyed(a)
  PROVE  FInv'
<1>1. CASE Answers(a)
  <2>1. PICK es, new : Learns(a, es, new, {})
    BY <1>1, AnswersLearn
  <2>. QED  BY <1>1, <2>1, AnswersFresh, LearnsF
<1>2. CASE AnswerFails(a)
  <2>. PICK e, es : e = Event("discovered", a, {}, {}) /\ es = << e >>
    OBVIOUS
  <2>1. /\ a \in threads /\ fresh' = {} /\ server' = server \o es
        /\ UNCHANGED <<stat, at, here, order, quitting, threads, known, told, list, r, notes, strange>>
    BY <1>2 DEF AnswerFails, Acts, Tells, worldVars, threadVars
  <2>2. Formed(e) /\ e \in AllEvents
    BY EventFormed DEF Kinds
  <2>3. e.kind = "discovered" /\ e.pid = a /\ e.new = {}
    BY EventFields
  <2>4. es \in Seq(AllEvents) /\ Range(es) = {e}
    BY <2>2, JoinSingle DEF FInv, TypesInv
  <2>5. Learns(a, es, {}, {})
    BY <2>1, <2>2, <2>3, <2>4, LearnsNone DEF FInv
  <2>6. FreshInv'
    BY <2>1 DEF FreshInv
  <2>. QED  BY <2>5, <2>6, LearnsF
<1>3. CASE HearsDestroyed(a)
  <2>1. PICK w \in told \cap WindowsOf(a) :
          /\ a \in threads /\ told' = told \ {w} /\ Forgets(a, w) /\ fresh' = fresh
          /\ UNCHANGED <<stat, at, here, order, quitting, threads, list, r, notes, strange>>
    BY <1>3 DEF HearsDestroyed, worldVars
  <2>2. stat[w] = "dead"
    BY DEF FInv, LivesInv
  <2>3. PICK es : Learns(a, es, {}, {w})
    BY <2>1, <2>2, LearnsGone DEF FInv
  <2>4. ~Quiet
    BY DEF Quiet
  <2>. QED  BY <2>1, <2>3, <2>4, LearnsF, NotQuiet
<1>. QED  BY <1>1, <1>2, <1>3

(* The first notification is taken. *)
LEMMA NoteTaken ==
  ASSUME WInv, NEW a \in App, notes[a] # << >>, notes' = [notes EXCEPT ![a] = Tail(@)],
         NEW n, n = Head(notes[a])
  PROVE  /\ n.wid \in WindowsOf(a) /\ NotedIn(notes, n.wid, n.kind)
         /\ \A x \in Window :
              /\ \A k : NotedIn(notes', x, k) => NotedIn(notes, x, k)
              /\ \A k : NotedIn(notes, x, k) => NotedIn(notes', x, k) \/ (k = n.kind /\ x = n.wid)
<1>1. notes[a] \in Seq(NoteOf(a)) /\ DOMAIN notes = App
  BY DEF WInv, NotesType
<1>. PICK q : q = notes[a]
  OBVIOUS
<1>2. Tail(q) \in Seq(NoteOf(a)) /\ Range(q) = {n} \cup Range(Tail(q))
  BY <1>1, TailRange
<1>3. n \in NoteOf(a)
  BY <1>1
<1>4. n.wid \in WindowsOf(a) /\ n = Note(n.kind, n.wid)
  BY <1>3 DEF NoteOf, Note
<1>5. notes'[a] = Tail(q) /\ \A b \in App : b # a => notes'[b] = notes[b]
  BY <1>1
<1>6. Owner[n.wid] = a
  BY <1>4 DEF WindowsOf
<1>7. NotedIn(notes, n.wid, n.kind)
  BY <1>2, <1>4, <1>6 DEF NotedIn
<1>8. ASSUME NEW x \in Window, NEW k
      PROVE  /\ NotedIn(notes', x, k) => NotedIn(notes, x, k)
             /\ NotedIn(notes, x, k) => NotedIn(notes', x, k) \/ (k = n.kind /\ x = n.wid)
  <2>1. CASE Owner[x] = a
    <3>1. Note(k, x) = n => k = n.kind /\ x = n.wid
      BY <1>4, NoteFields
    <3>. QED  BY <1>2, <1>5, <2>1, <3>1 DEF NotedIn
  <2>2. CASE Owner[x] # a
    <3>1. Owner[x] \in App
      BY WindowsAssumption
    <3>. QED  BY <1>5, <2>2, <3>1 DEF NotedIn
  <2>. QED  BY <2>1, <2>2
<1>. QED  BY <1>4, <1>7, <1>8

LEMMA HandleCreated ==
  ASSUME WInv, FInv, NEW a \in App, HandleNote(a), NEW n, n = Head(notes[a]), n.kind = "created",
         NEW ws, ws = IF stat[n.wid] = "dead" THEN {} ELSE {n.wid} \ known[a],
         Registers(a, ws), Tells(IF ws = {} THEN << >> ELSE << Event("created", a, ws, {}) >>)
  PROVE  \E es, new : Learns(a, es, new, {})
<1>. PICK w : w = n.wid
  OBVIOUS
<1>1. /\ notes[a] # << >> /\ notes' = [notes EXCEPT ![a] = Tail(@)] /\ a \in threads
      /\ UNCHANGED <<stat, at, here, order, quitting, threads, told, list, r, strange>>
  BY DEF HandleNote, worldVars
<1>2. /\ w \in WindowsOf(a) /\ NotedIn(notes, w, "created")
      /\ \A x \in Window :
           /\ \A k : NotedIn(notes', x, k) => NotedIn(notes, x, k)
           /\ \A k : NotedIn(notes, x, k) => NotedIn(notes', x, k) \/ (k = "created" /\ x = w)
  BY <1>1, NoteTaken
<1>3. w \in Window /\ Owner[w] = a /\ stat[w] # "new"
  BY <1>2 DEF WindowsOf, FInv, LivesInv
<1>4. known' = [known EXCEPT ![a] = @ \cup ws]
  BY DEF Registers
<1>5. stat[w] = "dead" \/ w \in known'[a]
  <2>1. known'[a] = known[a] \cup ws
    BY <1>4 DEF FInv, TypesInv
  <2>. QED  BY <2>1
<1>6. \A x \in Window :
        /\ \A k : NotedIn(notes', x, k) => NotedIn(notes, x, k)
        /\ NotedIn(notes, x, "created") =>
             NotedIn(notes', x, "created") \/ stat[x] = "dead" \/ x \in known'[Owner[x]]
        /\ NotedIn(notes, x, "visibility") => NotedIn(notes', x, "visibility")
        /\ NotedIn(notes, x, "destroyed") => NotedIn(notes', x, "destroyed")
  BY <1>2, <1>3, <1>5
<1>7. CASE ws = {}
  <2>1. known' = known
    <3>1. known[a] \cup ws = known[a]
      BY <1>7
    <3>. QED  BY <1>4, <3>1 DEF FInv, TypesInv
  <2>2. server' = server \o << >>
    BY <1>7 DEF Tells
  <2>3. << >> \in Seq(AllEvents) /\ Range(<< >>) = {}
    BY DEF Range
  <2>. PICK es : es = << >>
    OBVIOUS
  <2>4. es \in Seq(AllEvents) /\ server' = server \o es /\ Range(es) = {}
    BY <2>2, <2>3
  <2>5. Learns(a, es, {}, {})
    BY <1>1, <1>6, <2>1, <2>4, LearnsNone DEF FInv
  <2>. QED  BY <2>5
<1>8. CASE ws # {}
  <2>1. ws = {w} /\ stat[w] # "dead"
    BY <1>8
  <2>. PICK e, es : e = Event("created", a, ws, {}) /\ es = << e >>
    OBVIOUS
  <2>2. server' = server \o es
    BY <1>8 DEF Tells
  <2>3. e.kind = "created" /\ e.pid = a /\ e.new = ws /\ ReadsList(e)
    <3>1. e.kind = "created" /\ e.pid = a /\ e.new = ws
      BY EventFields
    <3>. QED  BY <3>1 DEF ReadsList
  <2>4. Formed(e)
    BY <1>2, <1>3, <2>1, EventFormed DEF Kinds
  <2>5. \A x \in e.new : stat[x] \notin {"new", "dead"}
    BY <1>3, <2>1, <2>3
  <2>6. known' = [known EXCEPT ![a] = @ \cup e.new]
    BY <1>4, <2>3
  <2>7. Learns(a, es, e.new, {})
    BY <1>1, <1>6, <2>2, <2>3, <2>4, <2>5, <2>6, LearnsOne DEF FInv
  <2>. QED  BY <2>7
<1>. QED  BY <1>7, <1>8

LEMMA HandleMain ==
  ASSUME WInv, FInv, NEW a \in App, HandleNote(a), NEW n, n = Head(notes[a]), n.kind = "main",
         NEW unknown, unknown = (IF a \in quitting THEN {} ELSE Main(a)) \ known[a],
         NEW es, es = (IF unknown = {} THEN << >> ELSE << Event("created", a, unknown, {}) >>)
                      \o (IF (IF a \in quitting THEN {} ELSE Main(a)) \subseteq mainSeen[a] THEN << >>
                          ELSE << Event("main", a, {}, {}) >>),
         Registers(a, unknown), Tells(es)
  PROVE  \E p, new : Learns(a, p, new, {})
<1>1. /\ notes[a] # << >> /\ notes' = [notes EXCEPT ![a] = Tail(@)] /\ a \in threads
      /\ UNCHANGED <<stat, at, here, order, quitting, threads, told, list, r, strange>>
  BY DEF HandleNote, worldVars
<1>2. \A x \in Window :
        /\ \A k : NotedIn(notes', x, k) => NotedIn(notes, x, k)
        /\ \A k : NotedIn(notes, x, k) => NotedIn(notes', x, k) \/ k = "main"
  BY <1>1, NoteTaken
<1>3. known' = [known EXCEPT ![a] = @ \cup unknown] /\ server' = server \o es
  BY DEF Registers, Tells
<1>. PICK m, c : m = Event("main", a, {}, {}) /\ c = Event("created", a, unknown, {})
  OBVIOUS
<1>4. /\ c.kind = "created" /\ c.pid = a /\ c.new = unknown /\ ReadsList(c)
      /\ m.kind = "main" /\ m.pid = a /\ m.new = {}
  BY EventFields DEF ReadsList
<1>5. Formed(m) /\ m \in AllEvents
  BY EventFormed DEF Kinds
<1>. PICK create, moved :
       /\ create = IF unknown = {} THEN << >> ELSE << c >>
       /\ moved = IF (IF a \in quitting THEN {} ELSE Main(a)) \subseteq mainSeen[a] THEN << >> ELSE << m >>
  OBVIOUS
<1>6. es = create \o moved
  OBVIOUS
<1>7. /\ unknown \subseteq WindowsOf(a) /\ unknown \subseteq Window
      /\ \A x \in unknown : stat[x] \notin {"new", "dead"}
      /\ unknown # {} => \E x \in Window : unknown = {x}
  <2>1. \A x, y \in unknown : x = y
    BY MainOne DEF FInv
  <2>2. \A x \in unknown : x \in Window /\ Owner[x] = a /\ OnScreen(x)
    BY MainOne DEF FInv
  <2>3. unknown # {} => \E x \in Window : unknown = {x}
    BY <2>1, <2>2
  <2>4. \A x \in unknown : stat[x] \notin {"new", "dead"}
    BY <2>2 DEF OnScreen
  <2>5. unknown \subseteq WindowsOf(a) /\ unknown \subseteq Window
    BY <2>2 DEF WindowsOf
  <2>. QED  BY <2>3, <2>4, <2>5
<1>8. unknown # {} => Formed(c) /\ c \in AllEvents
  BY <1>7, EventFormed DEF Kinds
<1>9. create \in Seq(AllEvents) /\ Range(create) = IF unknown = {} THEN {} ELSE {c}
  <2>1. CASE unknown = {}
    BY <2>1 DEF Range
  <2>2. CASE unknown # {}
    BY <1>8, <2>2, JoinSingle DEF FInv, TypesInv
  <2>. QED  BY <2>1, <2>2
<1>10. moved \in Seq(AllEvents) /\ Range(moved) \subseteq {m}
  <2>1. CASE moved = << >>
    BY <2>1 DEF Range
  <2>2. CASE moved = << m >>
    BY <1>5, <2>2, JoinSingle DEF FInv, TypesInv
  <2>. QED  BY <2>1, <2>2
<1>11. es \in Seq(AllEvents) /\ Range(es) = Range(create) \cup Range(moved)
  <2>1. \A x, y \in Seq(AllEvents) : x \o y \in Seq(AllEvents) /\ Range(x \o y) = Range(x) \cup Range(y)
    BY JoinRange
  <2>. PICK p : p = create \o moved
    OBVIOUS
  <2>2. create \in Seq(AllEvents) /\ moved \in Seq(AllEvents)
    BY <1>9, <1>10
  <2>3. p \in Seq(AllEvents) /\ Range(p) = Range(create) \cup Range(moved)
    BY <2>1, <2>2
  <2>. QED  BY <1>6, <2>3
<1>12. known' = [known EXCEPT ![a] = (@ \cup unknown) \ {}]
  <2>1. (known[a] \cup unknown) \ {} = known[a] \cup unknown
    OBVIOUS
  <2>. QED  BY <1>3, <2>1
<1>13. \A e \in Range(es) : (e = c /\ unknown # {}) \/ e = m
  BY <1>9, <1>10, <1>11
<1>14. \A e \in Range(es) : Formed(e) /\ e.pid = a /\ e.kind \notin {"space", "ended", "destroyed"}
  BY <1>4, <1>5, <1>8, <1>13
<1>15. \A w \in unknown : \E e \in Range(es) : e \in Finds(w) /\ ReadsList(e)
  <2>1. unknown # {} => c \in Range(es)
    BY <1>9, <1>11
  <2>. QED  BY <1>4, <1>8, <2>1, FindsOne
<1>16. \A w \in Window : \A e \in Range(es) : e \in Finds(w) => w \in unknown
  <2>1. \A w : m \notin Finds(w)
    BY <1>4 DEF Finds
  <2>2. \A w : c \in Finds(w) => w \in unknown
    BY <1>4 DEF Finds
  <2>. QED  BY <1>13, <2>1, <2>2
<1>17. Learns(a, es, unknown, {})
  BY <1>1, <1>2, <1>3, <1>7, <1>11, <1>12, <1>14, <1>15, <1>16 DEF Learns
<1>. QED  BY <1>17

LEMMA HandleVisibility ==
  ASSUME WInv, FInv, NEW a \in App, HandleNote(a), NEW n, n = Head(notes[a]), n.kind = "visibility",
         Tells(IF n.wid \in known[a] THEN << Event("visibility", a, {}, {}) >> ELSE << >>),
         known' = known
  PROVE  \E es, new : Learns(a, es, new, {})
<1>. PICK w : w = n.wid
  OBVIOUS
<1>1. /\ notes[a] # << >> /\ notes' = [notes EXCEPT ![a] = Tail(@)] /\ a \in threads
      /\ UNCHANGED <<stat, at, here, order, quitting, threads, told, list, r, strange>>
  BY DEF HandleNote, worldVars
<1>2. /\ w \in WindowsOf(a)
      /\ \A x \in Window :
           /\ \A k : NotedIn(notes', x, k) => NotedIn(notes, x, k)
           /\ \A k : NotedIn(notes, x, k) => NotedIn(notes', x, k) \/ (k = "visibility" /\ x = w)
  BY <1>1, NoteTaken
<1>3. Owner[w] = a
  BY <1>2 DEF WindowsOf
<1>. PICK e, es : /\ e = Event("visibility", a, {}, {})
                  /\ es = IF w \in known[a] THEN << e >> ELSE << >>
  OBVIOUS
<1>4. e.kind = "visibility" /\ e.pid = a /\ e.new = {} /\ ReadsList(e)
  BY EventFields DEF ReadsList
<1>5. Formed(e) /\ e \in AllEvents
  BY EventFormed DEF Kinds
<1>6. /\ es \in Seq(AllEvents) /\ \A f \in Range(es) : f = e
      /\ w \in known[a] => Reads(es)
  <2>1. CASE w \in known[a]
    <3>1. es \in Seq(AllEvents) /\ Range(es) = {e}
      BY <1>5, <2>1, JoinSingle DEF FInv, TypesInv
    <3>. QED  BY <1>4, <3>1 DEF Reads
  <2>2. CASE w \notin known[a]
    BY <2>2 DEF Range
  <2>. QED  BY <2>1, <2>2
<1>7. server' = server \o es
  BY DEF Tells
<1>8. \A x \in Window :
        /\ \A k : NotedIn(notes', x, k) => NotedIn(notes, x, k)
        /\ NotedIn(notes, x, "created") => NotedIn(notes', x, "created")
        /\ NotedIn(notes, x, "visibility") =>
             NotedIn(notes', x, "visibility") \/ x \notin known[Owner[x]] \/ Reads(es)
        /\ NotedIn(notes, x, "destroyed") => NotedIn(notes', x, "destroyed")
  BY <1>2, <1>3, <1>6
<1>9. \A f \in Range(es) : Formed(f) /\ f.pid = a /\ f.new = {} /\ f.kind \notin {"space", "ended", "destroyed"}
  BY <1>4, <1>5, <1>6
<1>10. Learns(a, es, {}, {})
  BY <1>1, <1>6, <1>7, <1>8, <1>9, LearnsNone DEF FInv
<1>. QED  BY <1>10

LEMMA HandleF ==
  ASSUME WInv, FInv, NEW a \in App, HandleNote(a)
  PROVE  FInv'
<1>. PICK n : n = Head(notes[a])
  OBVIOUS
<1>1. notes[a] # << >> /\ notes' = [notes EXCEPT ![a] = Tail(@)] /\ a \in threads /\ fresh' = fresh
  BY DEF HandleNote
<1>2. ~Quiet
  BY <1>1 DEF Quiet
<1>3. \E es, new, gone : Learns(a, es, new, gone)
  <2>1. CASE n.kind = "created"
    <3>. PICK ws : ws = IF stat[n.wid] = "dead" THEN {} ELSE {n.wid} \ known[a]
      OBVIOUS
    <3>1. Registers(a, ws) /\ Tells(IF ws = {} THEN << >> ELSE << Event("created", a, ws, {}) >>)
      BY <2>1 DEF HandleNote
    <3>. QED  BY <2>1, <3>1, HandleCreated
  <2>2. CASE n.kind = "main"
    <3>. PICK unknown : unknown = (IF a \in quitting THEN {} ELSE Main(a)) \ known[a]
      OBVIOUS
    <3>. PICK es : es = (IF unknown = {} THEN << >> ELSE << Event("created", a, unknown, {}) >>)
                        \o (IF (IF a \in quitting THEN {} ELSE Main(a)) \subseteq mainSeen[a] THEN << >>
                            ELSE << Event("main", a, {}, {}) >>)
      OBVIOUS
    <3>1. Registers(a, unknown) /\ Tells(es)
      BY <2>2 DEF HandleNote
    <3>2. \E p, new : Learns(a, p, new, {})
      BY <2>2, <3>1, HandleMain
    <3>. QED  BY <3>2
  <2>3. CASE n.kind = "visibility"
    <3>1. /\ Tells(IF n.wid \in known[a] THEN << Event("visibility", a, {}, {}) >> ELSE << >>)
          /\ known' = known
      BY <2>3 DEF HandleNote
    <3>. QED  BY <2>3, <3>1, HandleVisibility
  <2>4. CASE n.kind = "destroyed"
    <3>1. Forgets(a, n.wid)
      BY <2>4 DEF HandleNote
    <3>2. UNCHANGED <<stat, at, here, order, quitting, threads, told, list, r, strange>>
      BY DEF HandleNote, worldVars
    <3>3. /\ n.wid \in WindowsOf(a) /\ NotedIn(notes, n.wid, "destroyed")
          /\ \A x \in Window :
               /\ \A k : NotedIn(notes', x, k) => NotedIn(notes, x, k)
               /\ \A k : NotedIn(notes, x, k) => NotedIn(notes', x, k) \/ (k = "destroyed" /\ x = n.wid)
      BY <1>1, <2>4, NoteTaken
    <3>4. stat[n.wid] = "dead"
      BY <3>3 DEF FInv, LivesInv, WindowsOf
    <3>5. \E es : Learns(a, es, {}, {n.wid})
      <4>. PICK w : w = n.wid
        OBVIOUS
      <4>. QED  BY <1>1, <3>1, <3>2, <3>3, <3>4, LearnsGone DEF FInv
    <3>. QED  BY <3>5
  <2>. QED  BY <2>1, <2>2, <2>3, <2>4 DEF HandleNote
<1>. QED  BY <1>1, <1>2, <1>3, LearnsF, NotQuiet

LEMMA EndF ==
  ASSUME WInv, FInv, NEW a \in App, ThreadEnds(a)
  PROVE  FInv'
<1>. PICK e, es : e = Event("ended", a, {}, {}) /\ es = << e >>
  OBVIOUS
<1>1. /\ a \in threads /\ a \in quitting /\ threads' = threads \ {a}
      /\ notes' = [notes EXCEPT ![a] = << >>]
      /\ told' = told \ WindowsOf(a) /\ server' = server \o es /\ fresh' = fresh
      /\ UNCHANGED <<stat, at, here, order, quitting, known, list, r, strange>>
  BY DEF ThreadEnds, Tells, worldVars
<1>2. e.kind = "ended" /\ e.pid = a /\ e.new = {}
  BY EventFields
<1>3. Formed(e) /\ e \in AllEvents /\ server \in Seq(AllEvents)
  BY EventFormed DEF Kinds, FInv, TypesInv
<1>4. es \in Seq(AllEvents) /\ Range(es) = {e}
  BY <1>3, JoinSingle
<1>. PICK q : q = server
  OBVIOUS
<1>5. server' \in Seq(AllEvents) /\ Range(server') = Range(q) \cup {e}
  <2>1. \A x \in Seq(AllEvents) : q \o x \in Seq(AllEvents) /\ Range(q \o x) = Range(q) \cup Range(x)
    BY <1>3, JoinRange
  <2>. QED  BY <1>1, <1>4, <2>1
<1>6. \A w \in Window : \A k : NotedIn(notes', w, k) <=> NotedIn(notes, w, k) /\ Owner[w] # a
  <2>1. notes'[a] = << >> /\ \A b \in App : b # a => notes'[b] = notes[b]
    BY <1>1 DEF WInv, NotesType
  <2>2. Range(<< >>) = {}
    BY DEF Range
  <2>. QED  BY <2>1, <2>2, WindowsAssumption DEF NotedIn
<1>7. TypesInv'
  BY <1>1, <1>3, <1>5 DEF FInv, TypesInv
<1>8. LivesInv'
  <2>1. ASSUME NEW w \in Window, stat[w] = "dead", Owner[w] \notin quitting, w \in known[Owner[w]]
        PROVE  w \in told' \/ NotedIn(notes', w, "destroyed")
    <3>1. w \in told \/ NotedIn(notes, w, "destroyed")
      BY <2>1 DEF FInv, LivesInv
    <3>. QED  BY <1>1, <1>6, <2>1, <3>1 DEF WindowsOf
  <2>2. \A w \in Window : \A k : NotedIn(notes', w, k) => stat[w] # "new" /\ (k = "destroyed" => stat[w] = "dead")
    BY <1>6 DEF FInv, LivesInv
  <2>3. \A b \in App : b \notin threads' \cup quitting => known[b] = {}
    BY <1>1 DEF FInv, LivesInv
  <2>4. \A f \in Range(server') : f.kind = "destroyed" => \A w \in f.new : stat[w] = "dead"
    BY <1>2, <1>5 DEF FInv, LivesInv
  <2>. QED  BY <1>1, <2>1, <2>2, <2>3, <2>4 DEF FInv, LivesInv
<1>9. EndsInv'
  <2>1. ASSUME NEW b \in App \ threads', b \in r'.apps \/ Named(server', "launched", b)
        PROVE  Named(server', "ended", b)
    <3>1. CASE b = a
      BY <1>2, <1>5, <3>1, NamedRange
    <3>2. CASE b # a
      <4>1. b \in App \ threads /\ (b \in r.apps \/ Named(server, "launched", b))
        BY <1>1, <1>2, <1>5, <2>1, <3>2, NamedRange
      <4>2. Named(server, "ended", b)
        BY <4>1 DEF FInv, EndsInv
      <4>. QED  BY <1>5, <4>2, NamedRange
    <3>. QED  BY <3>1, <3>2
  <2>. QED  BY <2>1 DEF EndsInv
<1>10. BooksInv'
  <2>1. \A w : Known(w)' <=> Known(w)
    <3>1. \A w : e \notin Finds(w)
      BY <1>2 DEF Finds
    <3>. QED  BY <1>1, <1>5, <3>1 DEF Known
  <2>2. ASSUME NEW w, LastIn(server, {Gone(w)}, Finds(w)) PROVE LastIn(server', {Gone(w)}, Finds(w))
    <3>1. Range(es) \cap Finds(w) = {}
      BY <1>2, <1>4 DEF Finds
    <3>. QED  BY <1>1, <1>3, <1>4, <2>2, <3>1, LastJoin
  <2>3. \A w : Gone(w) # e
    BY <1>2, GoneFields
  <2>. QED  BY <1>1, <1>5, <2>1, <2>2, <2>3 DEF FInv, BooksInv
<1>11. ScreenInv'
  <2>1. \A w : OnScreen(w)' <=> OnScreen(w)
    BY <1>1 DEF OnScreen
  <2>2. Reads(server) => Reads(server)'
    BY <1>5 DEF Reads, ReadsList
  <2>3. \A w \in Window : WillRead(w) => WillRead(w)'
    BY <1>1, <1>6, <2>2 DEF WillRead
  <2>4. \A w \in Window : NotedIn(notes, w, "created") => NotedIn(notes', w, "created") \/ WillRead(w)'
    BY <1>1, <1>6 DEF WillRead
  <2>5. /\ r'.visible \cap r'.hidden = {} /\ r'.hidden \subseteq strange'
        /\ r'.visible \subseteq Range(list') /\ Range(list') \subseteq Window
        /\ (r'.space = here' \/ \E f \in Range(server') : f.kind = "space")
        /\ \A w \in Range(list') : stat'[w] # "new" /\ (at'[w] # here' => Reads(server)')
    BY <1>1, <1>5, <2>2 DEF FInv, ScreenInv
  <2>6. ASSUME NEW w \in Window \ strange'
        PROVE  /\ w \in Range(list') => w \in r'.visible
               /\ stat'[w] # "closed" /\ (stat'[w] = "mini" => w \in known'[Owner[w]])
               /\ OnScreen(w)' => w \in Range(list') \/ WillRead(w)'
                                  \/ (NotedIn(notes', w, "created") /\ w \notin known'[Owner[w]])
               /\ stat'[w] = "mini" /\ w \in Range(list') => WillRead(w)'
    BY <1>1, <2>1, <2>3, <2>4 DEF FInv, ScreenInv
  <2>. QED  BY <2>5, <2>6 DEF ScreenInv
<1>12. ~Quiet
  BY <1>1 DEF Quiet
<1>. QED  BY <1>1, <1>7, <1>8, <1>9, <1>10, <1>11, <1>12, NotQuiet DEF FInv

-----------------------------------------------------------------------------
(* What the reactor makes of an event. *)

(* The windows of a in the layout are those t has on screen. *)
Shows(s, t, a) ==
  \A w \in Window : t.layout[s.space][w] =
    IF Owner[w] # a THEN s.layout[s.space][w]
    ELSE IF w \in t.visible \cap t.ids \cap t.windows THEN 1 ELSE 0

(* Only the layout changes. *)
LEMMA SendVisibleRest ==
  ASSUME NEW s, Shape(s), NEW a, NEW t, t = SendVisible(s, a)
  PROVE  /\ Shape(t)
         /\ t.apps = s.apps /\ t.windows = s.windows /\ t.ids = s.ids /\ t.hidden = s.hidden
         /\ t.visible = s.visible /\ t.space = s.space /\ t.started = s.started
         /\ Shows(s, t, a)
<1>. DEFINE row == [w \in Window |-> IF Owner[w] # a THEN s.layout[s.space][w]
                                     ELSE IF w \in s.visible \cap s.ids \cap s.windows THEN 1 ELSE 0]
<1>1. t = [s EXCEPT !.layout[s.space] = row]
  BY DEF SendVisible
<1>2. \A w \in Window : row[w] = IF Owner[w] # a THEN s.layout[s.space][w]
                                 ELSE IF w \in s.visible \cap s.ids \cap s.windows THEN 1 ELSE 0
  OBVIOUS
<1>. HIDE DEF row
<1>3. /\ t.apps = s.apps /\ t.windows = s.windows /\ t.ids = s.ids /\ t.hidden = s.hidden
      /\ t.visible = s.visible /\ t.space = s.space /\ t.started = s.started
      /\ t.layout[s.space] = row
  BY <1>1 DEF Shape
<1>4. Shape(t)
  BY SendVisibleAdds DEF Adds
<1>5. Shows(s, t, a)
  BY <1>2, <1>3 DEF Shows
<1>. QED  BY <1>3, <1>4, <1>5

LEMMA SetVisibleRest ==
  ASSUME NEW s, Shape(s), NEW l, NEW t, t = SetVisible(s, l)
  PROVE  /\ Shape(t)
         /\ t.apps = s.apps /\ t.windows = s.windows /\ t.ids = s.ids /\ t.hidden = s.hidden
         /\ t.visible = Range(l) \ s.hidden /\ t.space = s.space /\ t.started = s.started
         /\ t.layout = s.layout
<1>. PICK x : x = Range(l) \ s.hidden
  OBVIOUS
<1>1. t = [s EXCEPT !.visible = x]
  BY DEF SetVisible
<1>. QED  BY <1>1 DEF Shape

LEMMA IfChangedRest ==
  ASSUME NEW s, Shape(s), NEW a, NEW t, t = IfChanged(s, a)
  PROVE  /\ Shape(t)
         /\ t.apps = s.apps /\ t.windows = s.windows /\ t.ids = s.ids /\ t.hidden = s.hidden
         /\ t.visible = (IF List = list THEN s.visible ELSE Range(List) \ s.hidden)
         /\ t.space = s.space /\ t.started = s.started
<1>1. CASE List = list
  BY <1>1 DEF IfChanged
<1>2. CASE List # list
  <2>. PICK u : u = SetVisible(s, List)
    OBVIOUS
  <2>1. t = SendVisible(u, a)
    BY <1>2 DEF IfChanged
  <2>2. Shape(u)
    BY SetVisibleRest
  <2>. QED  BY <1>2, <2>1, <2>2, SetVisibleRest, SendVisibleRest
<1>. QED  BY <1>1, <1>2

(* What is hidden, and visible, after a list of what an app has. *)
Hides(s, ids, a, seen) ==
  IF seen = {} THEN s.hidden ELSE (s.hidden \ seen) \cup ((ids \cap WindowsOf(a)) \ seen)
Sees(s, hidden, seen) == IF seen = {} THEN s.visible ELSE s.visible \ hidden

LEMMA DiscoveredRest ==
  ASSUME NEW s, Shape(s), NEW a, NEW new, NEW seen, NEW t, t = Discovered(s, a, new, seen)
  PROVE  /\ Shape(t)
         /\ t.apps = s.apps /\ t.windows = s.windows \cup new /\ t.ids = s.ids \cup new
         /\ t.hidden = Hides(s, t.ids, a, seen) /\ t.visible = Sees(s, t.hidden, seen)
         /\ t.space = s.space /\ t.started = s.started
         /\ Shows(s, t, a)
<1>. PICK ids : ids = s.ids \cup new
  OBVIOUS
<1>. PICK hidden : hidden = Hides(s, ids, a, seen)
  OBVIOUS
<1>. PICK visible : visible = Sees(s, hidden, seen)
  OBVIOUS
<1>1. PICK u :
        /\ t = SendVisible(u, a)
        /\ DOMAIN u = DOMAIN s /\ u.space = s.space /\ u.layout = s.layout /\ u.started = s.started
        /\ u.apps = s.apps /\ u.windows = s.windows \cup new /\ u.ids = ids /\ u.hidden = hidden
        /\ u.visible = visible
  <2>. PICK u : u = [s EXCEPT !.windows = @ \cup new, !.ids = ids, !.hidden = hidden, !.visible = visible]
    OBVIOUS
  <2>1. t = SendVisible(u, a)
    BY DEF Discovered, Hides, Sees, Shape
  <2>2. /\ DOMAIN u = DOMAIN s /\ u.space = s.space /\ u.layout = s.layout /\ u.started = s.started
        /\ u.apps = s.apps /\ u.windows = s.windows \cup new /\ u.ids = ids /\ u.hidden = hidden
        /\ u.visible = visible
    BY DEF Shape
  <2>. QED  BY <2>1, <2>2
<1>3. Shape(u)
  BY <1>1 DEF Shape
<1>4. /\ Shape(t)
      /\ t.apps = u.apps /\ t.windows = u.windows /\ t.ids = u.ids /\ t.hidden = u.hidden
      /\ t.visible = u.visible /\ t.space = u.space /\ t.started = u.started
      /\ Shows(u, t, a)
  BY <1>1, <1>3, SendVisibleRest
<1>5. Shows(s, t, a)
  BY <1>1, <1>4 DEF Shows
<1>. QED  BY <1>1, <1>4, <1>5

FindsKinds == {"created", "launched", "discovered"}

LEMMA AfterRest ==
  ASSUME Shape(r), here \in Space, NEW e, Formed(e), NEW t, t = After(e)
  PROVE  /\ t.windows = (IF e.kind \in FindsKinds THEN r.windows \cup e.new
                         ELSE IF e.kind = "destroyed" THEN r.windows \ e.new ELSE r.windows)
         /\ t.ids = (IF e.kind \in FindsKinds THEN r.ids \cup e.new ELSE r.ids)
         /\ t.apps = (IF e.kind = "launched" THEN r.apps \cup {e.pid}
                      ELSE IF e.kind = "ended" THEN r.apps \ {e.pid} ELSE r.apps)
         /\ t.space = (IF e.kind = "space" THEN here ELSE r.space)
         /\ t.started = r.started
         /\ e.kind \notin {"discovered", "destroyed"} => t.hidden = r.hidden
         /\ e.kind = "destroyed" => t.hidden = r.hidden \ e.new
         /\ ReadsList(e) => t.visible = Range(List) \ r.hidden \/ (List = list /\ t.visible = r.visible)
         /\ e.kind \in {"destroyed", "ended"} => t.visible = r.visible
<1>. PICK a : a = e.pid
  OBVIOUS
<1>0. e.kind \in Kinds
  BY DEF Formed, AllEvents
<1>1. CASE e.kind = "created"
  <2>1. PICK w \in Window : e.new = {w}
    BY <1>1 DEF Formed
  <2>2. (CHOOSE x \in e.new : TRUE) = w
    BY <2>1
  <2>. PICK s, u : s = Created(r, w) /\ u = IfChanged(s, a)
    OBVIOUS
  <2>3. t = BecameVisible(u, w)
    BY <1>1, <2>2 DEF After
  <2>4. /\ Shape(s) /\ s.apps = r.apps /\ s.windows = r.windows \cup {w} /\ s.ids = r.ids \cup {w}
        /\ s.hidden = r.hidden /\ s.visible = r.visible /\ s.space = r.space /\ s.started = r.started
    BY CreatedAdds DEF Created, Shape, Adds
  <2>5. /\ Shape(u)
        /\ u.apps = s.apps /\ u.windows = s.windows /\ u.ids = s.ids /\ u.hidden = s.hidden
        /\ u.visible = (IF List = list THEN s.visible ELSE Range(List) \ s.hidden)
        /\ u.space = s.space /\ u.started = s.started
    BY <2>4, IfChangedRest
  <2>6. /\ t.apps = u.apps /\ t.windows = u.windows /\ t.ids = u.ids /\ t.hidden = u.hidden
        /\ t.visible = u.visible /\ t.space = u.space /\ t.started = u.started
    BY <2>3, <2>5 DEF BecameVisible, Shape
  <2>. QED  BY <1>1, <2>1, <2>4, <2>5, <2>6 DEF FindsKinds
<1>2. CASE e.kind \in {"main", "visibility"}
  <2>1. t = IfChanged(r, a)
    BY <1>2 DEF After
  <2>2. /\ t.apps = r.apps /\ t.windows = r.windows /\ t.ids = r.ids /\ t.hidden = r.hidden
        /\ t.visible = (IF List = list THEN r.visible ELSE Range(List) \ r.hidden)
        /\ t.space = r.space /\ t.started = r.started
    BY <2>1, IfChangedRest
  <2>. QED  BY <1>2, <2>2 DEF FindsKinds
<1>3. CASE e.kind = "launched"
  <2>. PICK s, u : s = SetVisible(r, List) /\ u = SendVisible(s, a)
    OBVIOUS
  <2>2. Shape(s) /\ Shape(u)
    BY SetVisibleRest, SendVisibleRest
  <2>3. PICK v :
          /\ Shape(v) /\ v.apps = u.apps \cup {a} /\ v.windows = u.windows /\ v.ids = u.ids
          /\ v.hidden = u.hidden /\ v.visible = u.visible /\ v.space = u.space /\ v.started = u.started
          /\ t = Discovered(v, a, e.new, {})
    <3>. PICK v : v = [u EXCEPT !.apps = @ \cup {a}]
      OBVIOUS
    <3>1. t = Discovered(v, a, e.new, {})
      BY <1>3 DEF After
    <3>2. /\ Shape(v) /\ v.apps = u.apps \cup {a} /\ v.windows = u.windows /\ v.ids = u.ids
          /\ v.hidden = u.hidden /\ v.visible = u.visible /\ v.space = u.space /\ v.started = u.started
      BY <2>2 DEF Shape
    <3>. QED  BY <3>1, <3>2
  <2>4. /\ u.apps = r.apps /\ u.windows = r.windows /\ u.ids = r.ids /\ u.hidden = r.hidden
        /\ u.visible = Range(List) \ r.hidden /\ u.space = r.space /\ u.started = r.started
    BY <2>2, SetVisibleRest, SendVisibleRest
  <2>5. /\ t.apps = v.apps /\ t.windows = v.windows \cup e.new /\ t.ids = v.ids \cup e.new
        /\ t.hidden = v.hidden /\ t.visible = v.visible /\ t.space = v.space /\ t.started = v.started
    <3>. PICK new : new = e.new
      OBVIOUS
    <3>1. Shape(v) /\ t = Discovered(v, a, new, {})
      BY <2>3
    <3>2. Hides(v, t.ids, a, {}) = v.hidden /\ Sees(v, t.hidden, {}) = v.visible
      BY DEF Hides, Sees
    <3>. QED  BY <3>1, <3>2, DiscoveredRest
  <2>. QED  BY <1>3, <2>3, <2>4, <2>5 DEF FindsKinds
<1>4. CASE e.kind = "discovered"
  <2>1. t = Discovered(r, a, e.new, e.known)
    BY <1>4 DEF After
  <2>2. /\ t.apps = r.apps /\ t.windows = r.windows \cup e.new /\ t.ids = r.ids \cup e.new
        /\ t.space = r.space /\ t.started = r.started
    <3>. PICK new, seen : new = e.new /\ seen = e.known
      OBVIOUS
    <3>1. t = Discovered(r, a, new, seen)
      BY <2>1
    <3>. QED  BY <3>1, DiscoveredRest
  <2>. QED  BY <1>4, <2>2 DEF FindsKinds, ReadsList
<1>5. CASE e.kind = "destroyed"
  <2>1. PICK w \in Window : e.new = {w}
    BY <1>5 DEF Formed
  <2>2. (CHOOSE x \in e.new : TRUE) = w
    BY <2>1
  <2>. PICK s, ws : s = [r EXCEPT !.hidden = @ \ {w}, !.windows = @ \ {w}] /\ ws = {w}
    OBVIOUS
  <2>3. t = Removed(s, ws)
    BY <1>5, <2>2 DEF After, Destroyed
  <2>4. /\ DOMAIN s = DOMAIN r /\ s.apps = r.apps /\ s.windows = r.windows \ {w} /\ s.ids = r.ids
        /\ s.hidden = r.hidden \ {w} /\ s.visible = r.visible /\ s.space = r.space /\ s.started = r.started
    BY DEF Shape
  <2>5. /\ t.apps = s.apps /\ t.windows = s.windows /\ t.ids = s.ids /\ t.hidden = s.hidden
        /\ t.visible = s.visible /\ t.space = s.space /\ t.started = s.started
    BY <2>3, <2>4 DEF Removed, Shape
  <2>. QED  BY <1>5, <2>1, <2>4, <2>5 DEF FindsKinds, ReadsList
<1>6. CASE e.kind = "ended"
  <2>. PICK s, ws : s = [r EXCEPT !.apps = @ \ {a}] /\ ws = WindowsOf(a)
    OBVIOUS
  <2>1. t = Removed(s, ws)
    BY <1>6 DEF After, ThreadEnded
  <2>2. /\ DOMAIN s = DOMAIN r /\ s.apps = r.apps \ {a} /\ s.windows = r.windows /\ s.ids = r.ids
        /\ s.hidden = r.hidden /\ s.visible = r.visible /\ s.space = r.space /\ s.started = r.started
    BY DEF Shape
  <2>3. /\ t.apps = s.apps /\ t.windows = s.windows /\ t.ids = s.ids /\ t.hidden = s.hidden
        /\ t.visible = s.visible /\ t.space = s.space /\ t.started = s.started
    BY <2>1, <2>2 DEF Removed, Shape
  <2>. QED  BY <1>6, <2>2, <2>3 DEF FindsKinds, ReadsList
<1>7. CASE e.kind = "space"
  <2>. PICK s : s = SetVisible(r, List)
    OBVIOUS
  <2>1. t = [s EXCEPT !.space = here]
    BY <1>7 DEF After
  <2>2. /\ Shape(s) /\ s.apps = r.apps /\ s.windows = r.windows /\ s.ids = r.ids
        /\ s.hidden = r.hidden /\ s.visible = Range(List) \ r.hidden /\ s.started = r.started
    BY SetVisibleRest
  <2>3. /\ t.apps = s.apps /\ t.windows = s.windows /\ t.ids = s.ids /\ t.hidden = s.hidden
        /\ t.visible = s.visible /\ t.space = here /\ t.started = s.started
    BY <2>1, <2>2 DEF Shape
  <2>. QED  BY <1>7, <2>2, <2>3 DEF FindsKinds
<1>. QED  BY <1>0, <1>1, <1>2, <1>3, <1>4, <1>5, <1>6, <1>7 DEF Kinds

-----------------------------------------------------------------------------
(* The first event of the queue is handled. *)

(* What is known of the first event, and of the others. *)
LEMMA First ==
  ASSUME WInv, FInv, ServerHandles, NEW e, e = Head(server)
  PROVE  /\ server # << >> /\ Formed(e) /\ e \in AllEvents /\ e.kind \in Kinds
         /\ server' = Tail(server) /\ r' = After(e) /\ list' = (IF ReadsList(e) THEN List ELSE list)
         /\ strange' = strange \cup r'.hidden
         /\ UNCHANGED <<stat, at, here, order, quitting, notes, threads, known, told, fresh>>
         /\ server' \in Seq(AllEvents) /\ Range(server) = {e} \cup Range(server')
         /\ e.kind = "ended" => \A f \in Range(server') : f.kind # "space" => f.pid # e.pid
<1>. PICK q : q = server
  OBVIOUS
<1>1. /\ q # << >> /\ server' = Tail(q) /\ r' = After(e) /\ list' = IF ReadsList(e) THEN List ELSE list
      /\ strange' = strange \cup r'.hidden
      /\ UNCHANGED <<stat, at, here, order, quitting, notes, threads, known, told, fresh>>
  BY DEF ServerHandles, worldVars, threadVars
<1>2. q \in Seq(AllEvents)
  BY DEF FInv, TypesInv
<1>3. server' \in Seq(AllEvents) /\ Range(q) = {e} \cup Range(server')
  <2>1. \A x \in Seq(AllEvents) : x # << >> =>
          Tail(x) \in Seq(AllEvents) /\ Range(x) = {Head(x)} \cup Range(Tail(x))
    BY TailRange
  <2>. QED  BY <1>1, <1>2, <2>1
<1>4. Formed(e) /\ e \in AllEvents /\ e.kind \in Kinds
  <2>1. Formed(e)
    BY <1>3 DEF FInv, TypesInv
  <2>. QED  BY <2>1 DEF Formed, AllEvents
<1>5. ASSUME e.kind = "ended", NEW f \in Range(server'), f.kind # "space" PROVE f.pid # e.pid
  <2>1. Ordered(q, r.apps)
    BY DEF WInv
  <2>2. /\ Len(q) \in Nat \ {0} /\ DOMAIN q = 1..Len(q) /\ e = q[1]
        /\ DOMAIN Tail(q) = 1..Len(q) - 1 /\ \A i \in 1..Len(q) - 1 : Tail(q)[i] = q[i + 1]
    BY <1>1, <2>1, Pop DEF Ordered
  <2>3. PICK i \in 1..Len(q) - 1 : f = q[i + 1]
    BY <1>1, <1>5, <2>2 DEF Range
  <2>4. 1 \in DOMAIN q /\ i + 1 \in DOMAIN q /\ 1 < i + 1
    BY <2>2, <2>3
  <2>. QED  BY <1>5, <2>1, <2>2, <2>3, <2>4 DEF Ordered
<1>. QED  BY <1>1, <1>3, <1>4, <1>5

(* What becomes of windows and apps. *)
LEMMA FirstBooks ==
  ASSUME WInv, FInv, ServerHandles, NEW e, e = Head(server)
  PROVE  /\ r'.windows = (IF e.kind \in FindsKinds THEN r.windows \cup e.new
                          ELSE IF e.kind = "destroyed" THEN r.windows \ e.new ELSE r.windows)
         /\ r'.ids = (IF e.kind \in FindsKinds THEN r.ids \cup e.new ELSE r.ids)
         /\ r'.apps = (IF e.kind = "launched" THEN r.apps \cup {e.pid}
                       ELSE IF e.kind = "ended" THEN r.apps \ {e.pid} ELSE r.apps)
         /\ r'.space = (IF e.kind = "space" THEN here ELSE r.space)
         /\ r'.started = r.started
<1>. PICK t : t = After(e)
  OBVIOUS
<1>1. Formed(e) /\ r' = t
  BY First
<1>2. Shape(r) /\ here \in Space
  BY DEF WInv
<1>. QED  BY <1>1, <1>2, AfterRest

(* What becomes of what is hidden, visible and listed. *)
LEMMA FirstScreen ==
  ASSUME WInv, FInv, ServerHandles, NEW e, e = Head(server)
  PROVE  \/ /\ ReadsList(e) /\ list' = List /\ r'.hidden = r.hidden
            /\ r'.visible = Range(List) \ r.hidden \/ (List = list /\ r'.visible = r.visible)
         \/ /\ ~ReadsList(e) /\ list' = list /\ e.kind \in {"destroyed", "ended"}
            /\ r'.hidden \subseteq r.hidden /\ r'.visible = r.visible
         \/ /\ ~ReadsList(e) /\ list' = list /\ e.kind = "discovered"
            /\ r'.hidden = Hides(r, r'.ids, e.pid, e.known) /\ r'.visible = Sees(r, r'.hidden, e.known)
            /\ Shows(r, r', e.pid)
<1>. PICK t : t = After(e)
  OBVIOUS
<1>1. Formed(e) /\ r' = t /\ e.kind \in Kinds /\ list' = (IF ReadsList(e) THEN List ELSE list)
  BY First
<1>2. Shape(r) /\ here \in Space
  BY DEF WInv
<1>3. /\ e.kind \notin {"discovered", "destroyed"} => t.hidden = r.hidden
      /\ e.kind = "destroyed" => t.hidden = r.hidden \ e.new
      /\ ReadsList(e) => t.visible = Range(List) \ r.hidden \/ (List = list /\ t.visible = r.visible)
      /\ e.kind \in {"destroyed", "ended"} => t.visible = r.visible
  BY <1>1, <1>2, AfterRest
<1>4. CASE ReadsList(e)
  BY <1>1, <1>3, <1>4 DEF ReadsList
<1>5. CASE e.kind \in {"destroyed", "ended"}
  BY <1>1, <1>3, <1>5 DEF ReadsList
<1>6. CASE e.kind = "discovered"
  <2>. PICK a, new, seen : a = e.pid /\ new = e.new /\ seen = e.known
    OBVIOUS
  <2>1. t = Discovered(r, a, new, seen)
    BY <1>6 DEF After
  <2>2. t.hidden = Hides(r, t.ids, a, seen) /\ t.visible = Sees(r, t.hidden, seen) /\ Shows(r, t, a)
    BY <1>2, <2>1, DiscoveredRest
  <2>3. ~ReadsList(e)
    BY <1>6 DEF ReadsList
  <2>. QED  BY <1>1, <1>6, <2>2, <2>3
<1>. QED  BY <1>1, <1>4, <1>5, <1>6 DEF Kinds, ReadsList

LEMMA FirstTypes ==
  ASSUME WInv, FInv, ServerHandles
  PROVE  TypesInv' /\ LivesInv'
<1>. PICK e : e = Head(server)
  OBVIOUS
<1>1. /\ UNCHANGED <<stat, at, here, order, quitting, notes, threads, known, told, fresh>>
      /\ server' \in Seq(AllEvents) /\ Range(server') \subseteq Range(server)
  BY First
<1>2. TypesInv'
  BY <1>1 DEF FInv, TypesInv
<1>3. \A w, k : NotedIn(notes', w, k) <=> NotedIn(notes, w, k)
  BY <1>1
<1>4. LivesInv'
  BY <1>1, <1>3 DEF FInv, LivesInv
<1>. QED  BY <1>2, <1>4

LEMMA FirstEnds ==
  ASSUME WInv, FInv, ServerHandles
  PROVE  EndsInv'
<1>. PICK e : e = Head(server)
  OBVIOUS
<1>1. /\ threads' = threads /\ Range(server) = {e} \cup Range(server')
      /\ e.kind = "ended" => \A f \in Range(server') : f.kind # "space" => f.pid # e.pid
  BY First
<1>2. r'.apps = (IF e.kind = "launched" THEN r.apps \cup {e.pid}
                 ELSE IF e.kind = "ended" THEN r.apps \ {e.pid} ELSE r.apps)
  BY FirstBooks
<1>. SUFFICES ASSUME NEW b \in App \ threads, b \in r'.apps \/ Named(server', "launched", b)
              PROVE  Named(server', "ended", b)
  BY <1>1 DEF EndsInv
<1>3. b \in r.apps \/ Named(server, "launched", b)
  BY <1>1, <1>2, NamedRange
<1>4. Named(server, "ended", b)
  BY <1>3 DEF FInv, EndsInv
<1>5. CASE ~(e.kind = "ended" /\ e.pid = b)
  BY <1>1, <1>4, <1>5, NamedRange
<1>6. CASE e.kind = "ended" /\ e.pid = b
  <2>1. b \notin r'.apps
    BY <1>2, <1>6
  <2>2. ~Named(server', "launched", b)
    BY <1>1, <1>6, NamedRange
  <2>. QED  BY <2>1, <2>2
<1>. QED  BY <1>5, <1>6

LEMMA FirstKnown ==
  ASSUME WInv, FInv, ServerHandles
  PROVE  BooksInv'
<1>. PICK e : e = Head(server)
  OBVIOUS
<1>. PICK q, p : q = server /\ p = server'
  OBVIOUS
<1>1. /\ q # << >> /\ p = Tail(q) /\ UNCHANGED <<quitting, known>> /\ e = Head(q)
      /\ Range(q) = {e} \cup Range(p) /\ Formed(e) /\ e \in AllEvents /\ e.kind \in Kinds
  BY First
<1>2. /\ r'.windows = (IF e.kind \in FindsKinds THEN r.windows \cup e.new
                       ELSE IF e.kind = "destroyed" THEN r.windows \ e.new ELSE r.windows)
      /\ r'.ids = (IF e.kind \in FindsKinds THEN r.ids \cup e.new ELSE r.ids)
  BY FirstBooks
<1>3. q \in Seq(AllEvents)
  BY DEF FInv, TypesInv
<1>4. \A w : e \in Finds(w) <=> e.kind \in FindsKinds /\ w \in e.new
  BY <1>1, FindsOne DEF FindsKinds
<1>5. ASSUME NEW w \in Window, e.kind = "destroyed", w \in e.new PROVE e = Gone(w)
  <2>1. e.new = {w} /\ e.pid = Owner[w] /\ e.known = {}
    BY <1>1, <1>5 DEF Formed, WindowsOf
  <2>2. e = [kind |-> "destroyed", pid |-> Owner[w], new |-> {w}, known |-> {}]
    BY <1>1, <1>5, <2>1 DEF AllEvents
  <2>. QED  BY <2>2 DEF Gone, Event
<1>6. \A w : Gone(w).kind = "destroyed" /\ Gone(w).new = {w}
  BY GoneFields
<1>7. r'.windows \subseteq r'.ids
  BY <1>2 DEF FInv, BooksInv
<1>8. \A w : Known(w) <=> w \in r.windows \/ Range(q) \cap Finds(w) # {}
  BY DEF Known
<1>9. \A w : Known(w)' <=> w \in r'.windows \/ Range(p) \cap Finds(w) # {}
  BY DEF Known, Finds
<1>10. ASSUME NEW w \in Window, Owner[w] \notin quitting, w \in known[Owner[w]]
       PROVE  Known(w)' /\ Gone(w) \notin Range(p)
  <2>1. Known(w) /\ Gone(w) \notin Range(q)
    BY <1>10 DEF FInv, BooksInv
  <2>2. ~(e.kind = "destroyed" /\ w \in e.new)
    BY <1>1, <1>5, <2>1
  <2>. QED  BY <1>1, <1>2, <1>4, <1>8, <1>9, <2>1, <2>2
<1>11. ASSUME NEW w \in Window, Owner[w] \notin quitting, w \notin known[Owner[w]], Known(w)'
       PROVE  LastIn(p, {Gone(w)}, Finds(w))
  <2>1. Known(w)
    BY <1>1, <1>2, <1>4, <1>8, <1>9, <1>11
  <2>. PICK T, S : T = {Gone(w)} /\ S = Finds(w)
    OBVIOUS
  <2>2. LastIn(q, T, S)
    BY <1>11, <2>1 DEF FInv, BooksInv
  <2>3. LastIn(p, T, S) \/ (e \in T /\ Range(p) \cap S = {})
    BY <1>1, <1>3, <2>2, LastTail
  <2>4. ASSUME e \in T, Range(p) \cap S = {} PROVE FALSE
    <3>1. e.kind = "destroyed" /\ e.new = {w}
      BY <1>6, <2>4
    <3>2. w \notin r'.windows
      BY <1>2, <3>1 DEF FindsKinds
    <3>. QED  BY <1>9, <1>11, <2>4, <3>2
  <2>. QED  BY <2>3, <2>4
<1>. QED  BY <1>1, <1>7, <1>10, <1>11 DEF BooksInv

LEMMA FirstSeen ==
  ASSUME WInv, FInv, ServerHandles
  PROVE  ScreenInv'
<1>. PICK e : e = Head(server)
  OBVIOUS
<1>. PICK p, reads : p = server' /\ (reads <=> ReadsList(e))
  OBVIOUS
<1>1. /\ UNCHANGED <<stat, at, here, notes, threads, known>> /\ strange' = strange \cup r'.hidden
      /\ Range(server) = {e} \cup Range(p) /\ Formed(e)
  BY First
<1>2. \/ /\ reads /\ list' = List /\ r'.hidden = r.hidden
         /\ r'.visible = Range(List) \ r.hidden \/ (List = list /\ r'.visible = r.visible)
      \/ /\ ~reads /\ list' = list /\ r'.hidden \subseteq r.hidden /\ r'.visible = r.visible
      \/ /\ ~reads /\ list' = list /\ r'.visible \subseteq r.visible /\ r'.visible \cap r'.hidden = {}
         /\ \A w \in r.visible : w \in r'.visible \/ w \in r'.hidden
  <2>1. ASSUME r'.visible = Sees(r, r'.hidden, e.known), r'.hidden = Hides(r, r'.ids, e.pid, e.known)
        PROVE  /\ r'.visible \subseteq r.visible /\ r'.visible \cap r'.hidden = {}
               /\ \A w \in r.visible : w \in r'.visible \/ w \in r'.hidden
    <3>1. r.visible \cap r.hidden = {}
      BY DEF FInv, ScreenInv
    <3>. QED  BY <2>1, <3>1 DEF Sees, Hides
  <2>. QED  BY <2>1, FirstScreen
<1>3. Range(List) = {w \in Window : OnScreen(w)}
  BY ListOnScreen DEF FInv
<1>4. \A w : OnScreen(w)' <=> OnScreen(w)
  BY <1>1 DEF OnScreen
<1>5. ~reads => (Reads(server) => Reads(server)')
  BY <1>1 DEF Reads, ReadsList
<1>6. ~reads => \A w \in Window : WillRead(w) => WillRead(w)'
  BY <1>1, <1>5 DEF WillRead, NotedIn
<1>7. r'.visible \cap r'.hidden = {} /\ r'.visible \subseteq Range(list') /\ Range(list') \subseteq Window
  BY <1>2, <1>3 DEF FInv, ScreenInv
<1>8. r'.space = here' \/ \E f \in Range(server') : f.kind = "space"
  BY <1>1, FirstBooks DEF FInv, ScreenInv
<1>9. \A w \in Range(list') : stat'[w] # "new" /\ (at'[w] # here' => Reads(server)')
  BY <1>1, <1>2, <1>3, <1>5 DEF FInv, ScreenInv, OnScreen
<1>10. ASSUME NEW w \in Window \ strange'
       PROVE  /\ w \in Range(list') => w \in r'.visible
              /\ stat'[w] # "closed" /\ (stat'[w] = "mini" => w \in known'[Owner[w]])
              /\ OnScreen(w)' => w \in Range(list') \/ WillRead(w)'
                                 \/ (NotedIn(notes', w, "created") /\ w \notin known'[Owner[w]])
              /\ stat'[w] = "mini" /\ w \in Range(list') => WillRead(w)'
  <2>1. w \in Window \ strange /\ w \notin r'.hidden
    BY <1>1, <1>10
  <2>2. /\ w \in Range(list) => w \in r.visible
        /\ stat[w] # "closed" /\ (stat[w] = "mini" => w \in known[Owner[w]])
        /\ OnScreen(w) => w \in Range(list) \/ WillRead(w)
                           \/ (NotedIn(notes, w, "created") /\ w \notin known[Owner[w]])
        /\ stat[w] = "mini" /\ w \in Range(list) => WillRead(w)
    BY <2>1 DEF FInv, ScreenInv
  <2>3. w \in Range(list') => w \in r'.visible
    BY <1>2, <2>1, <2>2
  <2>4. OnScreen(w)' => w \in Range(list') \/ WillRead(w)'
                        \/ (NotedIn(notes', w, "created") /\ w \notin known'[Owner[w]])
    BY <1>1, <1>2, <1>3, <1>4, <1>6, <2>1, <2>2
  <2>5. stat'[w] = "mini" /\ w \in Range(list') => WillRead(w)'
    BY <1>1, <1>2, <1>3, <1>6, <2>1, <2>2 DEF OnScreen
  <2>. QED  BY <1>1, <2>2, <2>3, <2>4, <2>5
<1>11. r'.hidden \subseteq strange'
  BY <1>1
<1>. QED  BY <1>7, <1>8, <1>9, <1>10, <1>11 DEF ScreenInv

(* An answer that was the last word of its app makes the reactor even with *)
(* it, and leaves it so with the others.                                   *)
LEMMA EvenNow ==
  ASSUME WInv, NEW a \in App, NEW t, t.hidden = Hides(r, t.ids, a, Listed(a)),
         t.visible = Sees(r, t.hidden, Listed(a)), Shows(r, t, a), t.space = r.space, r' = t,
         UNCHANGED <<stat, at, here>>
  PROVE  Even(a)'
<1>1. Listed(a)' = Listed(a) /\ WindowsOf(a) \subseteq Window /\ Listed(a) \subseteq WindowsOf(a)
  BY DEF Listed, WindowsOf
<1>2. \A w \in WindowsOf(a) :
        t.layout[t.space][w] = IF w \in t.visible \cap t.ids \cap t.windows THEN 1 ELSE 0
  BY <1>1 DEF Shows, WindowsOf
<1>3. Listed(a) \cap t.hidden = {} /\ (Listed(a) # {} => (t.ids \cap WindowsOf(a)) \ Listed(a) \subseteq t.hidden)
  <2>. PICK seen : seen = Listed(a)
    OBVIOUS
  <2>1. CASE seen = {}
    BY <2>1
  <2>2. CASE seen # {}
    BY <2>2 DEF Hides
  <2>. QED  BY <2>1, <2>2
<1>. QED  BY <1>1, <1>2, <1>3 DEF Even

LEMMA EvenStill ==
  ASSUME WInv, ScreenInv, NEW a \in App, Even(a), NEW b \in App, b # a, NEW seen, seen \subseteq WindowsOf(b),
         NEW new, new \subseteq WindowsOf(b), NEW t,
         t.ids = r.ids \cup new, t.windows = r.windows \cup new, t.hidden = Hides(r, t.ids, b, seen),
         t.visible = Sees(r, t.hidden, seen), Shows(r, t, b), t.space = r.space, r' = t,
         UNCHANGED <<stat, at, here>>
  PROVE  Even(a)'
<1>1. Listed(a)' = Listed(a) /\ Listed(a) \subseteq WindowsOf(a)
  BY DEF Listed, WindowsOf
<1>2. \A w \in WindowsOf(a) : w \in Window /\ Owner[w] # b /\ w \notin WindowsOf(b)
  BY DEF WindowsOf
<1>3. \A w \in WindowsOf(a) : (w \in t.hidden <=> w \in r.hidden) /\ (w \in t.ids <=> w \in r.ids)
                              /\ (w \in t.windows <=> w \in r.windows)
  BY <1>2 DEF Hides
<1>4. \A w \in WindowsOf(a) : w \in t.visible <=> w \in r.visible
  <2>1. r.visible \cap r.hidden = {}
    BY DEF ScreenInv
  <2>. QED  BY <1>3, <2>1 DEF Sees
<1>5. \A w \in WindowsOf(a) : t.layout[t.space][w] = r.layout[r.space][w]
  BY <1>2 DEF Shows
<1>6. \A w \in WindowsOf(a) :
        t.layout[t.space][w] = IF w \in t.visible \cap t.ids \cap t.windows THEN 1 ELSE 0
  BY <1>3, <1>4, <1>5 DEF Even
<1>7. Listed(a) \cap t.hidden = {} /\ (Listed(a) # {} => (t.ids \cap WindowsOf(a)) \ Listed(a) \subseteq t.hidden)
  BY <1>1, <1>3 DEF Even
<1>. QED  BY <1>1, <1>6, <1>7 DEF Even

LEMMA FirstFresh ==
  ASSUME WInv, FInv, ServerHandles
  PROVE  FreshInv'
<1>. PICK e : e = Head(server)
  OBVIOUS
<1>. PICK q, p : q = server /\ p = server'
  OBVIOUS
<1>1. /\ q # << >> /\ p = Tail(q) /\ e = Head(q) /\ Range(q) = {e} \cup Range(p) /\ Formed(e)
      /\ e \in AllEvents /\ p \in Seq(AllEvents)
      /\ UNCHANGED <<stat, at, here, quitting, notes, threads, known, told, fresh>>
  BY First
<1>2. q \in Seq(AllEvents)
  BY DEF FInv, TypesInv
<1>. SUFFICES ASSUME NEW a \in fresh
              PROVE  /\ Quiet' /\ a \in threads' /\ Listed(a)' \subseteq known'[a]
                     /\ \/ LastIn(server, {Event("discovered", a, {}, Listed(a))}, From(a))'
                        \/ Range(server') \cap From(a) = {} /\ Even(a)'
  BY <1>1 DEF FreshInv, From
<1>3. /\ Quiet /\ a \in threads /\ Listed(a) \subseteq known[a]
      /\ \/ LastIn(q, {Event("discovered", a, {}, Listed(a))}, From(a))
         \/ Range(q) \cap From(a) = {} /\ Even(a)
  BY DEF FInv, FreshInv
<1>4. Listed(a)' = Listed(a) /\ a \in App
  BY <1>1, <1>3 DEF Listed, WInv
<1>5. e.kind = "discovered" /\ \A f \in Range(p) : f.kind = "discovered"
  BY <1>1, <1>3 DEF Quiet, Range
<1>6. r'.started = r.started /\ r'.windows = r.windows \cup e.new /\ r'.ids = r.ids \cup e.new
      /\ r'.space = r.space
  BY <1>5, FirstBooks DEF FindsKinds
<1>7. Quiet'
  BY <1>1, <1>3, <1>5, <1>6 DEF Quiet, Range
<1>8. /\ r'.hidden = Hides(r, r'.ids, e.pid, e.known) /\ r'.visible = Sees(r, r'.hidden, e.known)
      /\ Shows(r, r', e.pid)
  BY <1>5, FirstScreen DEF ReadsList
<1>. PICK D, S : D = Event("discovered", a, {}, Listed(a)) /\ S = From(a)
  OBVIOUS
<1>9. CASE LastIn(q, {D}, S)
  <2>1. LastIn(p, {D}, S) \/ (e \in {D} /\ Range(p) \cap S = {})
    <3>. PICK T : T = {D}
      OBVIOUS
    <3>1. LastIn(q, T, S)
      BY <1>9
    <3>2. LastIn(p, T, S) \/ (e \in T /\ Range(p) \cap S = {})
      BY <1>1, <1>2, <3>1, LastTail
    <3>. QED  BY <3>2
  <2>2. ASSUME e = D PROVE Even(a)'
    <3>1. e.pid = a /\ e.known = Listed(a)
      BY <2>2, EventFields
    <3>. QED  BY <1>1, <1>4, <1>6, <1>8, <3>1, EvenNow
  <2>. QED  BY <1>1, <1>3, <1>4, <1>7, <2>1, <2>2
<1>10. CASE Range(q) \cap S = {} /\ Even(a)
  <2>1. e.pid # a /\ Range(p) \cap S = {}
    BY <1>1, <1>10 DEF From
  <2>. PICK b, new, seen : b = e.pid /\ new = e.new /\ seen = e.known
    OBVIOUS
  <2>2. b \in App /\ b # a /\ seen \subseteq WindowsOf(b) /\ new \subseteq WindowsOf(b)
    BY <1>1, <1>5, <2>1 DEF Formed
  <2>3. Even(a)'
    BY <1>1, <1>4, <1>6, <1>8, <1>10, <2>2, EvenStill DEF FInv
  <2>. QED  BY <1>1, <1>3, <1>4, <1>7, <2>1, <2>3
<1>. QED  BY <1>3, <1>9, <1>10

LEMMA ServeF ==
  ASSUME WInv, FInv, ServerHandles
  PROVE  FInv'
BY FirstTypes, FirstEnds, FirstKnown, FirstSeen, FirstFresh DEF FInv

-----------------------------------------------------------------------------
(* All together. *)

LEMMA InitF == Init => FInv
<1>. SUFFICES ASSUME Init PROVE FInv
  OBVIOUS
<1>. PICK ws, visible : ws = UNION {known[a] : a \in App} /\ visible = Range(List)
  OBVIOUS
<1>1. /\ r.apps = threads /\ r.windows = ws /\ r.ids = ws /\ r.hidden = {} /\ r.visible = visible
      /\ r.space = here
  BY DEF Init
<1>2. /\ threads \in {{}, App} /\ stat \in [Window -> {"new", "open", "dead"}] /\ at \in [Window -> Space]
      /\ order \in SetToSeqs({w \in Window : stat[w] = "open"})
      /\ saved \subseteq Window /\ quitting \subseteq {Owner[w] : w \in saved}
      /\ \A w \in Window : Owner[w] \in quitting => stat[w] # "open"
      /\ notes = [a \in App |-> << >>] /\ known = [a \in App |-> IF a \in threads THEN Listed(a) ELSE {}]
      /\ told = {} /\ server = << >> /\ list = List /\ strange = {} /\ fresh = {}
  BY DEF Init
<1>3. Range(server) = {} /\ server \in Seq(AllEvents)
  BY <1>2 DEF Range
<1>4. order \in Seq(Window) /\ Range(order) = {w \in Window : stat[w] = "open"}
  <2>. PICK K : K = {w \in Window : stat[w] = "open"}
    OBVIOUS
  <2>1. IsFiniteSet(K) /\ K \subseteq Window
    BY WindowsAssumption, FS_Subset
  <2>2. order \in Seq(K) /\ Range(order) = K
    BY <1>2, <2>1, SeqsOf
  <2>. QED  BY <2>1, <2>2
<1>5. \A a \in App : known[a] \subseteq Listed(a) /\ Listed(a) \subseteq WindowsOf(a) /\ (a \in threads => known[a] = Listed(a))
                     /\ (a \notin threads => known[a] = {})
  BY <1>2 DEF Listed
<1>6. TypesInv
  <2>1. stat \in [Window -> States]
    BY <1>2 DEF States
  <2>2. \A a : WindowsOf(a) \subseteq Window
    BY DEF WindowsOf
  <2>3. known \in [App -> SUBSET Window]
    BY <1>2, <1>5, <2>2
  <2>4. quitting \subseteq App
    BY <1>2, WindowsAssumption
  <2>. QED  BY <1>2, <1>3, <1>4, <1>5, <2>1, <2>3, <2>4 DEF TypesInv
<1>7. \A w \in Window : \A k : ~NotedIn(notes, w, k)
  BY <1>2, WindowsAssumption DEF NotedIn, Range
<1>8. \A w \in Window : w \in known[Owner[w]] => stat[w] = "open"
  BY <1>2, <1>5, WindowsAssumption DEF Listed
<1>9. LivesInv
  BY <1>2, <1>3, <1>5, <1>7, <1>8 DEF LivesInv
<1>10. EndsInv
  BY <1>1, <1>3, NamedRange DEF EndsInv
<1>11. BooksInv
  <2>1. \A w \in Window : w \in ws <=> w \in known[Owner[w]]
    <3>1. \A w \in Window : \A a \in App : w \in known[a] => Owner[w] = a
      BY <1>5 DEF WindowsOf
    <3>2. \A w \in Window : Owner[w] \in App
      BY WindowsAssumption
    <3>. QED  BY <3>1, <3>2
  <2>2. \A w : Known(w) <=> w \in ws
    BY <1>1, <1>3 DEF Known
  <2>. QED  BY <1>1, <1>3, <2>1, <2>2 DEF BooksInv
<1>12. ScreenInv
  <2>1. visible = {w \in Window : OnScreen(w)}
    BY <1>6, ListOnScreen
  <2>. QED  BY <1>1, <1>2, <2>1 DEF ScreenInv, OnScreen
<1>13. FreshInv
  BY <1>2 DEF FreshInv
<1>. QED  BY <1>6, <1>9, <1>10, <1>11, <1>12, <1>13 DEF FInv

LEMMA NextF == WInv /\ FInv /\ [Next]_vars => FInv'
<1>. SUFFICES ASSUME WInv, FInv, [Next]_vars PROVE FInv'
  OBVIOUS
<1>. QED  BY MovesF, SwitchF, QuitsF, LaunchF, AnswerF, HandleF, EndF, StartF, ServeF, PollF DEF Next

(* What the app threads know of their windows, or are about to hear, the   *)
(* reactor knows or has in its queue; what came or went since WindowServer *)
(* read the list has it read again; and of an app that has answered since  *)
(* the last act the reactor has what it lists, or the answer is the last   *)
(* of it in the queue.                                                     *)
THEOREM FollowsInvariant == Spec => []FInv
<1>. QED  BY InitF, NextF, WindowsInvariant, PTL DEF Spec

(* Once every app has answered the layout on screen has the windows there  *)
(* are: those gone have left it, those announced are in it once, and none  *)
(* is taken for closed for good.                                           *)
THEOREM LayoutFollowsHolds == Spec => []LayoutFollows
<1>. QED  BY FollowsInvariant, WindowsInvariant, FInvSound, PTL

=============================================================================
