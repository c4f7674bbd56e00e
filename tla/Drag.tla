-------------------------------- MODULE Drag --------------------------------
(***************************************************************************)
(* Dragging a window by its title bar to another place in the layout: the  *)
(* system moves the window, the reactor (src/actor/reactor.rs) moves the   *)
(* other windows to where they would land, and lets go of the layout again *)
(* when the button is released (src/actor/layout.rs).                      *)
(*                                                                         *)
(* Mouse events and the frame changes that apps report come to the reactor *)
(* on different ways.  An app writes the frames it is asked for at once;   *)
(* see FrameSync for when it does not.                                     *)
(***************************************************************************)
EXTENDS Sizes

CONSTANTS
  Window, NoWindow,
  Shapes,        \* the forests to start with, with the layouts of the space
  Points,        \* where the mouse may be
  EdgePercent,   \* drag_drop.edge_zone_ratio, in percent
  LivePreview,   \* drag_drop.live_preview
  Minimum,       \* what an app refuses to go below
  MaxActs        \* bound: how often the user and apps do something

ASSUME DragAssumption ==
  /\ Window \subseteq Nat /\ NoWindow \notin Window /\ LivePreview \in BOOLEAN
  /\ EdgePercent \in 5..40 /\ MaxActs \in Nat

VARIABLES
  t,         \* the forest
  active,    \* the active layout of the space
  shared,    \* the layouts that are also used at another size
  floats,    \* the windows that float
  mono,      \* frame_monotonic
  drag,      \* title_bar_drag
  inDrag,    \* in_drag
  held,      \* the window the system moves as the button is down, where the
             \* mouse is, and whether the window has moved since it was seen to
  moving,    \* a window whose frame change, with the button down, is on its way
  overtaken, \* history: whether that came after the release it preceded
  current,   \* history: whether the layouts are as they were at the preview
  acts

vars == <<t, active, shared, floats, mono, drag, inDrag, held, moving, overtaken, current, acts>>

NoDrag == [window |-> NoWindow]
NoAction == [does |-> "nothing"]
NotHeld == [window |-> NoWindow, down |-> FALSE]

Node(w) == WindowNode(t, active, w)
Present == TiledIn(t, active) \cup floats

-----------------------------------------------------------------------------
(* What is dropped where. *)

(* DropZoneRegion::from_point *)
Zone(p, f) ==
  LET dx == p.x - f.x
      dy == p.y - f.y
      left == 100 * dx < EdgePercent * f.w
      right == 100 * (f.w - dx) < EdgePercent * f.w
      bottom == 3 * dy > 2 * f.h
      \* how far from the left edge, or from where the right zone begins,
      \* against how far into the bottom zone
      leftLess == 100 * dx * f.h < EdgePercent * f.w * (3 * dy - 2 * f.h)
      rightLess == (100 * dx - (100 - EdgePercent) * f.w) * f.h < EdgePercent * f.w * (3 * dy - 2 * f.h)
  IN IF left /\ (~bottom \/ leftLess) THEN "left"
     ELSE IF ~left /\ right /\ (~bottom \/ rightLess) THEN "right"
     ELSE IF bottom THEN "bottom" ELSE "center"

(* to_action *)
ActionAt(zone, target, along) ==
  LET axis == IF zone = "bottom" THEN "vertical" ELSE "horizontal" IN
  IF zone = "center" THEN [does |-> "swap", target |-> target]
  ELSE IF along = axis THEN [does |-> "insert", target |-> target, before |-> zone = "left"]
  ELSE [does |-> "split", target |-> target, kind |-> axis]

Encloses(f, p) == p.x \in f.x..Right(f) /\ p.y \in f.y..Bottom(f)

(* The first window at a point in the order of the layout, but not some. *)
WindowAt(f, p, but) ==
  LET n == First(WindowsIn(t, t.root[active]), LAMBDA m : t.win[m] # but /\ Encloses(f[t.win[m]], p))
  IN IF n = NoNode THEN NoWindow ELSE t.win[n]

(* compute_titlebar_drag_action *)
DropAction(w, p) ==
  LET Over(f, over, n) == IF over = NoWindow THEN NoAction
                          ELSE ActionAt(Zone(p, f[over]), n, OrientationOf(t.info[Parent(t, n)].kind))
      AtWindow(f, over) == Over(f, over, Node(over))
      AmongFrames(f) == AtWindow(f, WindowAt(f, p, w))
  IN AmongFrames(CalculateLayout(t, active))

(* What an action does to a forest. *)
Acted(u, l, n, action) ==
  CASE action.does = "swap" -> SwapWindows(u, n, action.target)
    [] action.does = "insert" -> IF action.before THEN MoveNodeBefore(u, action.target, n)
                                 ELSE MoveNodeAfter(u, action.target, n)
    [] action.does = "split" -> MoveNodeAfter(Nested(u, l, action.target, action.kind), action.target, n)

(* calculate_preview_frames: the action is tried on a clone of the layout. *)
PreviewFrames(w, action) ==
  LET temp == CHOOSE l \in 1..Cardinality(DOMAIN t.root) + 1 : l \notin DOMAIN t.root
      u == ClonedLayout(t, active, temp)
      there == [action EXCEPT !.target = WindowNode(u, temp, t.win[@])]
  IN IF Node(w) = NoNode THEN << >>
     ELSE CalculateLayout(Acted(u, temp, WindowNode(u, temp, w), there), temp)

(* A bug: dropped before what it was shown to go after. *)
DroppedBefore(u, l, n, action) ==
  IF ~{n, action.target} \subseteq Nodes(u) THEN u
  ELSE Acted(u, l, n, IF action.does = "insert" THEN [action EXCEPT !.before = TRUE] ELSE action)

(* apply_drop_action *)
Dropped(u, l, n, action) ==
  IF ~{n, action.target} \subseteq Nodes(u) THEN u
  ELSE LET moved == {n} \cup (IF action.does = "insert" THEN {} ELSE {action.target})
           freed == {u.win[m] : m \in moved}
       IN Acted([u EXCEPT !.least = [w \in DOMAIN @ \ freed |-> @[w]]], l, n, action)

-----------------------------------------------------------------------------
(* The reactor. *)

(* A drag knows its windows by their nodes, which no later node is taken for. *)
Gone(u, n) == n \notin DOMAIN u.win \/ u.win[n] # t.win[n]
Known(u, d) ==
  IF d = NoDrag THEN d
  ELSE [d EXCEPT !.node = IF @ = NoNode \/ Gone(u, @) THEN NoNode ELSE @,
                 !.action = IF @ # NoAction /\ (@.target = NoNode \/ Gone(u, @.target))
                            THEN [@ EXCEPT !.target = NoNode] ELSE @]

(* The end of an event that leaves the forest u, with layout a active:     *)
(* nothing while in_drag holds, else update_layout, which ends a drag and  *)
(* writes frames; a frame change from before a write is ignored.           *)
Laid(u, a, m) ==
  LET f == CalculateLayout(u, a) IN [w \in Window |-> IF w \in DOMAIN f THEN f[w] ELSE m[w]]
Handled(u, a, d, down, m, coming) ==
  \E forest \in {u} : \E laid \in {IF down THEN m ELSE Laid(forest, a, m)} :
    /\ t' = forest /\ active' = a /\ inDrag' = down /\ mono' = laid
    /\ drag' = (IF down THEN Known(u, d) ELSE NoDrag)
    /\ moving' = (IF coming # NoWindow /\ laid[coming] # m[coming] THEN NoWindow ELSE coming)
    /\ overtaken' = (overtaken /\ down)
    /\ current' = (current /\ forest = t /\ a = active)

(* LeftMouseDown, with the window that is seen at the point, if any. *)
Press(p, w) ==
  LET ignored == w \in floats
      Begins(frames, hit) ==
        LET begun == [window |-> hit, node |-> Node(hit), moved |-> FALSE, action |-> NoAction,
                      from |-> frames]
        IN Handled(t, active, IF hit = NoWindow THEN drag ELSE begun, inDrag \/ hit # NoWindow,
                   mono, moving)
  IN /\ ~held.down /\ (w # NoWindow => w \in Present /\ Encloses(mono[w], p))
     /\ held' = [window |-> w, down |-> TRUE, at |-> p, moved |-> FALSE]
     /\ IF ignored THEN UNCHANGED <<t, active, mono, drag, inDrag, moving, overtaken, current>>
        ELSE \E frames \in {CalculateLayout(t, active)} :
               Begins(frames, WindowAt(frames, p, NoWindow))
     /\ UNCHANGED <<shared, floats>>

(* LeftMouseDragged *)
DragTo(p) ==
  /\ held.down /\ p # held.at /\ held' = [held EXCEPT !.at = p, !.moved = TRUE]
  /\ Handled(t, active, drag, inDrag, mono, moving)
  /\ UNCHANGED <<shared, floats>>

(* The app of the window that is moved sees that it moved. *)
Observe ==
  /\ held.down /\ held.moved /\ held.window # NoWindow /\ moving = NoWindow
  /\ moving' = held.window /\ held' = [held EXCEPT !.moved = FALSE]
  /\ UNCHANGED <<t, active, shared, floats, mono, drag, inDrag, overtaken, current>>

(* Where the drag's windows are put for an action: animate_to_preview. *)
PutTo(frames, w, m) == [v \in Window |-> IF v \in DOMAIN frames \ {w} THEN frames[v] ELSE m[v]]

(* WindowFrameChanged of the window whose title bar is dragged: others are *)
(* moved, if what a drop would do is another thing now.                    *)
Previewed(w, m) ==
  \E action \in {DropAction(w, held.at)} :
  IF ~LivePreview \/ action = drag.action
  THEN mono' = m /\ drag' = [drag EXCEPT !.moved = TRUE] /\ UNCHANGED current
  ELSE /\ drag' = [drag EXCEPT !.moved = TRUE, !.action = action]
       /\ mono' = PutTo(IF action = NoAction THEN drag.from ELSE PreviewFrames(w, action), w, m)
       /\ current' = (action # NoAction)

(* WindowFrameChanged, with the button down, of a window that moved. *)
FrameChanged ==
  LET w == moving
      m == [mono EXCEPT ![w].x = @ + 1]
  IN /\ moving # NoWindow /\ moving' = NoWindow
     /\ IF drag.window = w THEN Previewed(w, m)
        ELSE mono' = m /\ UNCHANGED <<drag, current>>
     /\ inDrag' = TRUE /\ overtaken' = (overtaken \/ ~held.down)
     /\ UNCHANGED <<t, active, shared, floats, held>>

(* The button is released: what was dragged is dropped. *)
Released(down) ==
  LET Does(action) == IF action = NoAction THEN t ELSE Dropped(t, active, drag.node, action)
      u == IF drag = NoDrag \/ ~drag.moved THEN t
           ELSE Does(IF drag.action # NoAction THEN drag.action ELSE DropAction(drag.window, held.at))
  IN /\ held.down /\ held' = NotHeld
     /\ Handled(u, active, NoDrag, down, mono, moving)
     /\ UNCHANGED <<shared, floats>>

(* A bug: in_drag is only reset by the end of a title bar drag.            *)
MouseUpOfDrag == Released(inDrag /\ drag = NoDrag)

(* MouseUp *)
MouseUp == Released(FALSE)

-----------------------------------------------------------------------------
(* What else may happen, during a drag or not. *)

(* Nothing but the forest changes. *)
Changes(u, a, down) == Handled(u, a, drag, down, mono, moving) /\ UNCHANGED held

(* The system moves a window no more that is not there. *)
LetGo(w) == held' = (IF held.window = w THEN [held EXCEPT !.window = NoWindow] ELSE held)

(* WindowDestroyed, also of the window that is held, ends what in_drag     *)
(* holds up; the drag ends with the update of the layout.  It is reported  *)
(* by the thread that reports frames, and after these.                     *)
Close(w) ==
  /\ w \in Present /\ w # moving
  /\ Handled(RemoveWindows(t, {w}), active, drag, FALSE, mono, moving)
  /\ floats' = floats \ {w} /\ LetGo(w) /\ UNCHANGED shared

(* The window's app ends, or the window leaves the space. *)
Leave(w) ==
  /\ w \in TiledIn(t, active)
  /\ Handled(RemoveWindows(t, {w}), active, drag, inDrag, mono, IF moving = w THEN NoWindow ELSE moving)
  /\ LetGo(w) /\ UNCHANGED <<shared, floats>>

(* WindowFocused *)
Focus(w) ==
  /\ w \in TiledIn(t, active) /\ Node(w) # Selection(t, active)
  /\ Changes(Select(t, Node(w)), active, inDrag) /\ UNCHANGED <<shared, floats>>

(* MoveNode, of what is selected: prepare_modify clones a shared layout. *)
MoveWindow(d) ==
  LET new == 1 + Cardinality(DOMAIN t.root)
      u == IF active \in shared THEN ClonedLayout(t, active, new) ELSE t
      a == IF active \in shared THEN new ELSE active
      n == Selection(u, a)
  IN /\ Changes(IF CanMove(u, a, n, d) THEN MoveNode(u, a, n, d) ELSE u, a, inDrag)
     /\ shared' = shared \ {active} /\ UNCHANGED floats

(* NextLayout *)
NextLayout ==
  LET later == {l \in DOMAIN t.root : l > active}
      next == CHOOSE l \in (IF later = {} THEN DOMAIN t.root ELSE later) :
                \A k \in (IF later = {} THEN DOMAIN t.root ELSE later) : l <= k
  IN Cardinality(DOMAIN t.root) > 1 /\ Changes(t, next, inDrag) /\ UNCHANGED <<shared, floats>>

(* ToggleWindowFloating, of a tiled window that is focused. *)
Float(w) ==
  /\ w \in TiledIn(t, active) /\ floats' = floats \cup {w} /\ UNCHANGED shared
  /\ Changes(RemoveWindows(t, {w}), active, inDrag)

(* An app answers that a window can not be as small as it was asked to be. *)
Refuse(w) ==
  /\ w \in TiledIn(t, active) /\ w \notin DOMAIN t.least /\ ~AsLarge(mono[w], Minimum)
  /\ \E u \in {NoteMinSize(t, w, [w |-> IF mono[w].w < Minimum.w THEN Minimum.w ELSE 0,
                                  h |-> IF mono[w].h < Minimum.h THEN Minimum.h ELSE 0])} :
       Changes(u, active, inDrag)
  /\ UNCHANGED <<shared, floats>>

-----------------------------------------------------------------------------

Init ==
  /\ t \in Shapes /\ active = 1 /\ shared \in {{}, {1}} /\ floats = {}
  /\ mono = Laid(t, active, [w \in Window |-> Screen])
  /\ drag = NoDrag /\ inDrag = FALSE /\ held = NotHeld /\ moving = NoWindow
  /\ overtaken = FALSE /\ current = FALSE /\ acts = 0

UserActs ==
  \/ \E p \in Points : DragTo(p) \/ \E w \in Window \cup {NoWindow} : Press(p, w)
  \/ \E d \in Directions : MoveWindow(d)
  \/ \E w \in Window : Close(w) \/ Leave(w) \/ Focus(w) \/ Float(w) \/ Refuse(w)
  \/ NextLayout

(* What follows when a layout has come to hold a window twice is left out. *)
Doubled == \E l \in DOMAIN t.root : Len(WindowsIn(t, t.root[l])) > Cardinality(TiledIn(t, l))

NextStep ==
  \/ acts < MaxActs /\ acts' = acts + 1 /\ UserActs
  \/ (Observe \/ FrameChanged) /\ UNCHANGED acts
  \/ MouseUp /\ UNCHANGED acts
Next == ~Doubled /\ NextStep

Spec == Init /\ [][Next]_vars

-----------------------------------------------------------------------------
(* Properties. *)

(* Without a drag tiled windows are where the layout wants them, whatever  *)
(* was previewed before.                                                   *)
AtRestAsLaidOut ==
  ~inDrag => drag = NoDrag /\ mono = Laid(t, active, mono)

(* The layout is held up only as long as the button is down, but for a     *)
(* frame change that came after the release.                               *)
HeldUpByButton == inDrag => held.down \/ overtaken

(* A drag leaves nothing behind when it ends.                              *)
DragEnds == AtRestAsLaidOut /\ HeldUpByButton

(* The drop moves none of the others: they are where they were shown to    *)
(* land, if layouts are still as they were and no least sizes are known.   *)
DropAsShown ==
  held.down /\ ~held'.down /\ drag # NoDrag /\ drag.moved /\ LivePreview /\ current
  /\ t.least = << >>
  /\ drag.node \in Range(WindowsIn(t, t.root[active])) =>
    \A w \in TiledIn(t', active') \ {drag.window} : mono'[w] = mono[w]
DropAsPreviewed == [][DropAsShown]_vars
=============================================================================
