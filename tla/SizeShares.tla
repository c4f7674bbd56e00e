----------------------------- MODULE SizeShares -----------------------------
(***************************************************************************)
(* The frames of the windows of one space: the commands and the dragging   *)
(* that change them (src/actor/layout.rs), how the reactor has apps apply  *)
(* them, and what it learns from what apps make of them                    *)
(* (src/actor/reactor.rs).                                                 *)
(*                                                                         *)
(* An app may refuse to make a window smaller than it accepts, which it    *)
(* does not tell, and may move a window back to its home.  Requests that   *)
(* a later one overtakes are left out, as their answers are ignored (see   *)
(* FrameSync), and the answer to one is handled as it is given.            *)
(***************************************************************************)
EXTENDS Sizes

CONSTANTS
  Window,         \* the windows, all of the space
  NoWindow,
  Handled,        \* the windows that the user does something with
  NoFrame,        \* nothing is asked for
  Shapes,         \* the forests to start with
  Natures,        \* what apps may be like: the least size they accept of each
                  \* window, and where they insist that some windows are
  Shares, Deltas, Percents,   \* arguments of commands and of dragging
  MaxAttempts,    \* MAX_FRAME_ATTEMPTS
  MaxWrites,      \* how many frames of a window may be written for one thing
                  \* the user does
  MaxActs         \* bound: how often the user does something

ASSUME SizeSharesAssumption ==
  /\ Handled \subseteq Window /\ Window \subseteq Nat /\ NoWindow \notin Window
  /\ Shares \subseteq 1..Unit - 1 /\ {MaxAttempts, MaxWrites, MaxActs} \subseteq Nat

VARIABLES
  t,          \* the forest, with the layout of the space
  mono,       \* frame_monotonic of each window
  tries,      \* frame_attempts
  resizing, inDrag,   \* resizing_window and in_drag
  grabbed,    \* the window an edge of which the user drags
  real,       \* the frame each window has
  asked,      \* the frame its app was last asked for, if it has yet to answer
  restless,   \* windows that their apps are about to move back
  accepts, home,    \* the nature of the apps
  acts,       \* what the user has done
  writes      \* history: frames of each window written since then, or since
              \* FRAME_ATTEMPT_RESET went by without a try

reactorVars == <<t, mono, tries, resizing, inDrag, asked, writes>>
vars == <<reactorVars, grabbed, real, restless, accepts, home, acts>>

TheLayout == 1
NoWrites == [w \in Window |-> 0]
Node(u, w) == WindowNode(u, TheLayout, w)
Shown(u) == TiledIn(u, TheLayout)
Size(r) == [w |-> r.w, h |-> r.h]
Fullscreen(u) == \E n \in Nodes(u) : u.info[n].full

(* fit_frame_to_screen *)
FitFrameToScreen(u, w, f) ==
  LET least == IF w \in DOMAIN u.least THEN u.least[w] ELSE [w |-> 0, h |-> 0]
      width == Least(Most(f.w, least.w), Screen.w)
      height == Least(Most(f.h, least.h), Screen.h)
  IN Rect(Most(Least(f.x, Right(Screen) - width), Screen.x),
          Most(Least(f.y, Bottom(Screen) - height), Screen.y), width, height)

Targets(u) ==
  LET Fitted(f) == [w \in DOMAIN f |-> FitFrameToScreen(u, w, f[w])]
  IN Fitted(CalculateLayout(u, TheLayout))

(* What an app makes of a request. *)
Accepted(w, f) == [f EXCEPT !.w = Most(@, accepts[w].w), !.h = Most(@, accepts[w].h)]

Init ==
  /\ t \in Shapes
  /\ \E nature \in Natures : accepts = nature.accepts /\ home = nature.home
  /\ mono = Targets(t) /\ asked = mono /\ real = mono
  /\ tries = [w \in Window |-> [target |-> mono[w], count |-> 1]]
  /\ resizing = NoWindow /\ inDrag = FALSE /\ grabbed = NoWindow
  /\ restless = {} /\ acts = 0 /\ writes = NoWrites

-----------------------------------------------------------------------------
(* The reactor. *)

(* A bug: attempts are not counted. *)
AttemptAnew(target, old, late) == [target |-> target, count |-> 1]

(* Another try to write a frame; late if the one before is longer ago than *)
(* FRAME_ATTEMPT_RESET.                                                    *)
Attempt(target, old, late) ==
  [target |-> target, count |-> IF old.target = target /\ ~late THEN old.count + 1 ELSE 1]

(* The windows that are not where they should be, when the reactor takes   *)
(* them to have the frames f.                                              *)
Displaced(goal, f, held) == {w \in DOMAIN goal \ {held} : goal[w] # f[w]}

(* update_layout, with the forest u, what apps have yet to answer, whether *)
(* a window is resized or dragged, and how much was written before.  Time  *)
(* goes by as it will, whether apps have answered or not.                  *)
UpdateLayout(u, f, waiting, held, drag, before) ==
  \E forest \in {u} : \E goal \in {Targets(forest)} :
  \E changed \in {IF drag THEN {} ELSE Displaced(goal, f, held)} :
  \E late \in SUBSET {w \in changed : tries[w].target = goal[w]} :
  \E attempts \in {[w \in changed |-> Attempt(goal[w], tries[w], w \in late)]} :
    LET written == {w \in changed : attempts[w].count <= MaxAttempts}
        since(w) == IF w \in late THEN 0 ELSE before[w]
    IN
    /\ t' = forest /\ resizing' = held /\ inDrag' = drag
    /\ tries' = [w \in Window |-> IF w \in changed
                                  THEN [attempts[w] EXCEPT !.count = Least(@, MaxAttempts + 1)]
                                  ELSE tries[w]]
    /\ mono' = [w \in Window |-> IF w \in written THEN goal[w] ELSE f[w]]
    /\ asked' = [w \in Window |-> IF w \in written THEN goal[w] ELSE waiting[w]]
    /\ writes' = [w \in Window |-> IF w \in written THEN Least(since(w) + 1, MaxWrites + 1)
                                   ELSE since(w)]

(* LayoutEvent::WindowResized *)
WindowResized(u, w, old, new) ==
  LET n == Node(u, w) IN
  IF n = NoNode \/ ~AsLarge(Screen, old) \/ ~AsLarge(Screen, new) THEN u
  ELSE IF new = Screen THEN [u EXCEPT !.info[n].full = TRUE]
  ELSE IF u.info[n].full THEN [u EXCEPT !.info[n].full = FALSE]
  ELSE SetFrameFromResize(u, n, old, new)

(* WindowFrameChanged, for a change nobody asked the app for, with what    *)
(* its thread says of the mouse button.  While it is down it is taken to   *)
(* be the user who changes the frame.                                      *)
FrameChanged(w, new, down, before) ==
  LET n == Node(t, w)
      old == mono[w]
      relaxed == RelaxMinSize(t, w, Size(new))
      resized == Size(old) # Size(new)
      released == IF down /\ n # NoNode THEN ClearEstateSizeLockAndBake(relaxed, n) ELSE relaxed
      held == IF ~down THEN NoWindow ELSE IF resized THEN w ELSE resizing
      drag == inDrag \/ (down /\ ~resized)
  IN IF old = new
     THEN t' = relaxed /\ resizing' = held /\ writes' = before /\ UNCHANGED <<mono, tries, inDrag, asked>>
     ELSE UpdateLayout(IF resized THEN WindowResized(released, w, old, new) ELSE relaxed,
                       [mono EXCEPT ![w] = new], asked, held, drag, before)

(* WindowFrameChanged, for a frame that was asked for: what the app would  *)
(* not make smaller is kept as the least size, and room made for it.       *)
Refused(w, new) ==
  [w |-> IF new.w > mono[w].w + 1 THEN new.w ELSE 0, h |-> IF new.h > mono[w].h + 1 THEN new.h ELSE 0]

RequestAnswered(w, new) ==
  LET before == RelaxMinSize(t, w, Size(new))
      after == NoteMinSize(before, w, Refused(w, new))
      waiting == [asked EXCEPT ![w] = NoFrame]
  IN IF Refused(w, new) # [w |-> 0, h |-> 0] /\ after # before
     THEN UpdateLayout(after, mono, waiting, resizing, inDrag, writes)
     ELSE t' = before /\ asked' = waiting /\ UNCHANGED <<mono, tries, resizing, inDrag, writes>>

-----------------------------------------------------------------------------
(* Apps. *)

AppAnswers(w) ==
  /\ asked[w] # NoFrame
  /\ LET new == Accepted(w, asked[w]) IN
     /\ real' = [real EXCEPT ![w] = new]
     /\ RequestAnswered(w, new)
     /\ restless' = IF w \in DOMAIN home /\ new # home[w] THEN restless \cup {w} ELSE restless \ {w}
  /\ UNCHANGED <<grabbed, accepts, home, acts>>

AppMovesBack(w) ==
  /\ w \in restless /\ asked[w] = NoFrame
  /\ real' = [real EXCEPT ![w] = home[w]]
  /\ FrameChanged(w, home[w], grabbed # NoWindow, writes)
  /\ restless' = restless \ {w}
  /\ UNCHANGED <<grabbed, accepts, home, acts>>

-----------------------------------------------------------------------------
(* The user.  A command first finds its window focused. *)

Command(u) ==
  UpdateLayout(u, mono, asked, resizing, inDrag, NoWrites) /\ UNCHANGED <<grabbed, real, restless>>

Focused(w) == Select(t, Node(t, w))

(* set_size_share, refusing what does not fit *)
SetSizeShare(w, share) ==
  LET n == Node(t, w)
      current == EstateSizeLock(t, n)
      clear == ClearEstateSizeLock(Focused(w), n)
  IN /\ n # NoNode
     /\ IF current = share THEN Command(clear)
        ELSE IF LockedShareTotal(t, TheLayout) - current + share > Unit THEN Command(Focused(w))
        ELSE Command(SetSizeLock(ClearFullscreenFor(clear, n), w, share))

(* toggle_size_lock *)
ToggleSizeLock(w) ==
  LET n == Node(t, w)
      share == EstateShare(t, n)
  IN /\ n # NoNode
     /\ IF EstateSizeLock(t, n) # 0 THEN Command(ClearEstateSizeLock(Focused(w), n))
        ELSE IF share <= 0 \/ share >= Unit THEN Command(Focused(w))
        ELSE Command(SetSizeLock(ClearFullscreenFor(Focused(w), n), w, share))

ToggleFullscreen(w) ==
  LET n == Node(t, w) IN
  n # NoNode /\ Command([Focused(w) EXCEPT !.info[n].full = ~@])

Resize(w, d, percent) ==
  LET n == Node(t, w) IN
  n # NoNode /\ Command(ResizeBy(ClearEstateSizeLock(Focused(w), n), n, d, percent))

CleanUpSpace == Command([WeightsReset(t, TheLayout) EXCEPT !.lock = << >>])

(* WindowDestroyed: any resize or drag is taken to be over, though the     *)
(* button may still be down.                                               *)
Close(w) ==
  LET gone == RemoveWindows(t, {w}) IN
  /\ Node(t, w) # NoNode
  /\ UpdateLayout([gone EXCEPT !.least = [v \in DOMAIN @ \ {w} |-> @[v]]], mono,
                  [asked EXCEPT ![w] = NoFrame], NoWindow, FALSE, NoWrites)
  /\ restless' = restless \ {w}
  /\ UNCHANGED <<grabbed, real>>

(* An edge of a window that is where it should be is dragged. *)
Dragged(f, d, delta) ==
  CASE d = "left" -> [f EXCEPT !.x = @ - delta, !.w = @ + delta]
    [] d = "right" -> [f EXCEPT !.w = @ + delta]
    [] d = "up" -> [f EXCEPT !.y = @ - delta, !.h = @ + delta]
    [] d = "down" -> [f EXCEPT !.h = @ + delta]
Within(f) == f.x >= Screen.x /\ f.y >= Screen.y /\ Right(f) <= Right(Screen) /\ Bottom(f) <= Bottom(Screen)

Changes(w, new, down) ==
  /\ Node(t, w) # NoNode /\ asked[w] = NoFrame /\ w \notin restless
  /\ AsLarge(new, accepts[w])
  /\ real' = [real EXCEPT ![w] = new]
  /\ FrameChanged(w, new, down, NoWrites)
  /\ UNCHANGED restless

DragEdge(w, d, delta) ==
  /\ grabbed \in {NoWindow, w} /\ grabbed' = w
  /\ Within(Dragged(real[w], d, delta))
  /\ Changes(w, Dragged(real[w], d, delta), TRUE)

(* The title bar is double clicked. *)
Clicks(w, frame) == grabbed = NoWindow /\ grabbed' = NoWindow /\ Changes(w, frame, FALSE)
Zoom(w) == real[w] # Screen /\ Clicks(w, Screen)
Unzoom(w) == real[w] = Screen /\ Clicks(w, Inset(Screen, 5))

MouseUp ==
  /\ grabbed # NoWindow /\ grabbed' = NoWindow
  /\ UpdateLayout(t, mono, asked, NoWindow, FALSE, NoWrites)
  /\ UNCHANGED <<real, restless, accepts, home, acts>>

UserActs ==
  /\ acts < MaxActs /\ acts' = acts + 1 /\ UNCHANGED <<accepts, home>>
  /\ \/ \E w \in Handled :
          \/ \E share \in Shares : SetSizeShare(w, share)
          \/ ToggleSizeLock(w) \/ ToggleFullscreen(w) \/ Close(w) \/ Zoom(w) \/ Unzoom(w)
          \/ \E d \in Directions : \/ \E percent \in Percents : Resize(w, d, percent)
                                   \/ \E delta \in Deltas : DragEdge(w, d, delta)
     \/ CleanUpSpace

AppActs == \E w \in Window : AppAnswers(w) \/ AppMovesBack(w)

Next == UserActs \/ MouseUp \/ AppActs

Spec == Init /\ [][Next]_vars

-----------------------------------------------------------------------------
(* Properties. *)

Overlap(a, b) == a.x < Right(b) /\ b.x < Right(a) /\ a.y < Bottom(b) /\ b.y < Bottom(a)
Estate(u, w) == EstateNode(u, Node(u, w))
(* A frame less what rounding adds to it. *)
Shrunk(f) == Rect(f.x + 1, f.y + 1, f.w - 2, f.h - 2)
Top(u) == u.root[TheLayout]
MinimaFit(u) == \A o \in Orientations : MinExtent(u, Top(u), o) <= Extent(Tiled, o)
Apart(u, f) ==
  \A v, w \in Shown(u) :
    Estate(u, v) # Estate(u, w) => ~Overlap(Shrunk(f[v]), Shrunk(f[w]))

BarsFree(u, f) ==
  \A bar \in Indicators(u, Top(u), Frames(u, Top(u))) :
    \A w \in Shown(u) : ~Overlap(bar, Shrunk(f[w]))

(* What the layout gives windows lies on the screen, is no less than what  *)
(* they can do with, and where all of that fits, windows that do not share *)
(* a group do not overlap, and no bar of a group covers a window.          *)
FramesFit ==
  LET f == Targets(t) IN
  /\ \A w \in Shown(t) : Within(f[w])
  /\ ~Fullscreen(t) /\ MinimaFit(t) => Apart(t, f) /\ BarsFree(t, f)

Quiet == restless = {} /\ grabbed = NoWindow /\ \A w \in Window : asked[w] = NoFrame

(* Once apps have answered, no windows overlap, if what they accept allows *)
(* for it.                                                                 *)
RoomMade ==
  LET known == [t EXCEPT !.least = [w \in Shown(t) |-> accepts[w]]] IN
  Quiet /\ home = << >> /\ ~Fullscreen(t) /\ MinimaFit(known) => Apart(t, real)

(* There is room for all: at once for what is known, in the end for what   *)
(* apps accept.                                                            *)
RoomForAll == FramesFit /\ RoomMade

(* Locks leave the others at least the share they are guaranteed, and      *)
(* nothing has less than the weight that frames are computed with.         *)
LocksFit(u) ==
  LET ms == Masses(u, Top(u))
      units == DOMAIN ms
      open == {n \in units : LockAt(u, n) = 0}
  IN /\ LockedShareTotal(u, TheLayout) + (Unit \div 10) * Cardinality(open) <= Unit
     /\ \A n \in units : ms[n] >= Unit \div 10

(* A window or group with a lock has that share of the area, up to gaps    *)
(* and rounding.                                                           *)
LocksHonoured ==
  LET frames == Frames(t, Top(t))
      area == Tiled.w * Tiled.h
      Off(n) == frames[n].w * frames[n].h - RDiv(LockAt(t, n) * area, Unit)
  IN t.least = << >> /\ ~Fullscreen(t) /\ LocksFit(t) =>
       \A n \in Nodes(t) :
         IsEstateUnit(t, n) /\ EstateNode(t, n) = n /\ LockAt(t, n) # 0 =>
           Off(n) \in -(area \div 20)..area \div 20

(* The edge that is at d of a frame. *)
EdgeOf(f, d) ==
  CASE d = "left" -> f.x [] d = "right" -> Right(f) [] d = "up" -> f.y [] d = "down" -> Bottom(f)

(* A dragged edge stays where the user has it, if there is a window to     *)
(* take the room from that is not squeezed, and the window had no lock     *)
(* inside another split.                                                   *)
Followed(w, d) ==
  LET m == ResizeTarget(t, Node(t, w), d)
      from == MoveOver(t, m, d)
      o == Along(d)
      after == Frames(t', Top(t'))
      Roomy(n) == Extent(after[n], o) > Extent(after[Parent(t, n)], o) \div 8
  IN /\ m # NoNode /\ t.least = << >> /\ ~Fullscreen(t) /\ ~Fullscreen(t')
     /\ EstateSizeLock(t, Node(t, w)) = 0 \/ Parent(t, Estate(t, w)) = Top(t)
     /\ Roomy(m) /\ Roomy(from)
     => EdgeOf(Targets(t')[w], d) - EdgeOf(real'[w], d) \in -1..1
ResizeTracks ==
  [][\A w \in Window, d \in Directions :
       (grabbed' = w /\ acts' # acts /\ EdgeOf(real'[w], d) # EdgeOf(real[w], d)) => Followed(w, d)]_vars

(* The reactor and the apps do not answer each other for ever: it writes   *)
(* a bounded number of frames for what the user does, even for an app that *)
(* moves its window back each time, unless that app takes longer than      *)
(* FRAME_ATTEMPT_RESET to do so.                                           *)
WritesBounded == \A w \in Window : writes[w] <= MaxWrites

=============================================================================
