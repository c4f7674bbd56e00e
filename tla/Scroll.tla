------------------------------- MODULE Scroll -------------------------------
(***************************************************************************)
(* A space whose layout scrolls: columns in a strip that is wider than the *)
(* screen, and a viewport over it that follows the selection               *)
(* (src/model/scroll_viewport.rs, src/actor/layout.rs), moved by a timer   *)
(* while it animates, and the dragging of windows with the mouse           *)
(* (src/actor/reactor.rs).                                                 *)
(*                                                                         *)
(* The spring that moves the viewport is a value that moves towards its    *)
(* target at a time of its own; whether it has arrived is found by looking *)
(* at the clock, not told.                                                 *)
(***************************************************************************)
EXTENDS Sizes

CONSTANTS
  Window,        \* the windows
  Elsewhere,     \* what is focused when no window of the layout is
  Starts,        \* the forests to start with, and each with what is configured:
                 \* center_focused_column, infinite_loop, new_window_in_column
  VisibleColumns, Presets,    \* visible_columns, column_width_presets
  FirstSeen,     \* the x position each window was first seen at
  Points,        \* where the mouse may be
  Edge, Threshold,            \* RESIZE_EDGE_THRESHOLD, MOVE_DRAG_THRESHOLD
  Deltas,        \* of the scroll wheel
  HalfWay,       \* bound: a spring nearer to its target is not looked at before
                 \* it has arrived
  MaxActs        \* bound: how often the user and apps do something

ASSUME ScrollAssumption ==
  /\ Window \subseteq Nat /\ Elsewhere \notin Window
  /\ {VisibleColumns, Edge, Threshold, MaxActs} \subseteq Nat /\ VisibleColumns > 0
  /\ Deltas \subseteq Int \ {0}

VARIABLES
  t,          \* the forest
  enabled,    \* scroll_enabled
  config,     \* the rest of the scroll configuration
  focused,    \* focused_window
  view,       \* the viewport of the layout: at its offset, and a target
  shown,      \* the frames that update_layout last gave windows
  ticking,    \* whether the reactor waits for its tick timer
  drag,       \* interactive_resize or interactive_move; history: the pointer
  inDrag,     \* in_drag
  orphaned,   \* whether the drag holds on to nodes that are gone
  acts

vars == <<t, enabled, config, focused, view, shown, ticking, drag, inDrag, orphaned, acts>>

TheLayout == 1
Root(u) == u.root[TheLayout]
Node(u, w) == WindowNode(u, TheLayout, w)
Sel(u) == Selection(u, TheLayout)
Scrolls(u) == TheLayout \in u.scroll
ColumnOf(u, n) == First(Ancestors(u, n), LAMBDA a : HasChild(u, Root(u), a))

-----------------------------------------------------------------------------
(* The viewport. *)

NewView == [at |-> 0, to |-> 0, arrived |-> TRUE, progress |-> 0]

(* A bug: a column that is out of view at the right is put at the left. *)
EdgeFitOneSided(f, current) == IF f.x >= current THEN current ELSE f.x

(* compute_edge_fit *)
EdgeFit(f, current) ==
  LET padding == Most(Least((Screen.w - f.w) \div 2, Gap), 0) IN
  IF f.x >= current /\ Right(f) <= current + Screen.w THEN current
  ELSE IF f.x < current THEN f.x - padding ELSE Right(f) + padding - Screen.w

(* ensure_column_visible *)
EnsureColumnVisible(v, f) ==
  LET centred == (2 * f.x + f.w - Screen.w) \div 2
      new == IF config.center = "always" \/ (config.center = "on_overflow" /\ f.w > Screen.w)
             THEN centred ELSE EdgeFit(f, v.to)
  IN IF new = v.to THEN v ELSE [v EXCEPT !.to = new, !.arrived = FALSE]

(* update_viewport_for_focus *)
UpdateViewport(u, on, v) ==
  LET n == Sel(u) IN
  IF ~on \/ ~Scrolls(u) \/ n \notin DOMAIN u.win THEN v
  ELSE EnsureColumnVisible(v, CalculateLayout(u, TheLayout)[u.win[n]])

(* apply_viewport_to_frames: what is out of view is put beside the screen. *)
InView(f, at) == Right(f) > at /\ f.x < at + Screen.w
ThroughView(f, at) ==
  [f EXCEPT !.x = IF InView(f, at) THEN @ - at
                  ELSE IF Right(f) <= at THEN Screen.x - f.w ELSE Right(Screen)]
FramesShown(u, on, v) ==
  LET Seen(f) == IF on /\ Scrolls(u) THEN [w \in DOMAIN f |-> ThroughView(f[w], v.at)] ELSE f
  IN Seen(CalculateLayout(u, TheLayout))

-----------------------------------------------------------------------------
(* The layout. *)

(* A window in a new column. *)
InColumn(u, d, w) ==
  LET c == Fresh(u) IN
  WindowPut(SetSize(SetKind(Added(u, d), c, "vertical"), c, RDiv(Unit, VisibleColumns)),
            LastUnder(c), w)

(* add_window_to_scroll_column_with_visible *)
AddScrollWindow(u, w) ==
  LET column == ColumnOf(u, Sel(u)) IN
  IF column = NoNode THEN InColumn(u, LastUnder(Root(u)), w)
  ELSE IF config.newColumn THEN InColumn(u, After(column), w)
  ELSE WindowPut(u, After(Sel(u)), w)

AddWindow(u, w) == IF Scrolls(u) THEN AddScrollWindow(u, w) ELSE AddWindowAfter(u, Sel(u), w)

(* The windows move to a new layout, side by side or each in a column. *)
Rebuilt(u) ==
  LET leaves == WindowsIn(u, Root(u))
      order == [i \in DOMAIN leaves |-> u.win[leaves[i]]]
      empty == CreatedLayout(RemovedLayout(RemoveWindows(u, Range(order)), TheLayout), TheLayout)
      Put(v, w) == IF Scrolls(u) THEN AddWindowUnder(v, Root(v), w)
                   ELSE InColumn(v, LastUnder(Root(v)), w)
  IN [FoldLeft(Put, empty, order) EXCEPT !.scroll = IF Scrolls(u) THEN {} ELSE {TheLayout}]

(* A bug: what was selected is forgotten. *)
ConvertedUnselected(u) == Rebuilt(u)

(* convert_layout_kind, to the other kind *)
Converted(u) ==
  LET selected == IF Sel(u) \in DOMAIN u.win THEN u.win[Sel(u)] ELSE Elsewhere
      target == IF focused # Elsewhere THEN focused ELSE selected
      Selected(new) ==
        IF target \in TiledIn(new, TheLayout) THEN Select(new, Node(new, target)) ELSE new
  IN Selected(Rebuilt(u))

(* traverse_scroll_wrapping, left or right *)
TraverseWrapping(u, n, d) ==
  LET columns == u.kids[Root(u)]
      i == Position(columns, ColumnOf(u, n)) - 1
      j == (i + (IF Forward(d) THEN 1 ELSE -1)) % Len(columns)
      Chain[c \in Nodes(u)] == IF u.kids[c] = << >> THEN c ELSE Chain[Towards(u, c)]
  IN IF columns = << >> \/ ColumnOf(u, n) = NoNode \/ i = j THEN NoNode ELSE Chain[columns[j + 1]]

Neighbour(u, n, d) ==
  IF enabled /\ Scrolls(u) /\ config.wraps /\ Along(d) = "horizontal"
  THEN TraverseWrapping(u, n, d) ELSE Traverse(u, n, d)

RECURSIVE Walk(_, _, _, _)
Walk(u, n, d, steps) ==
  IF steps = 0 \/ Neighbour(u, n, d) = NoNode THEN n
  ELSE Walk(u, Neighbour(u, n, d), d, steps - 1)

(* The first preset that is wider than a column's part of all columns. *)
NextPreset(current) ==
  LET wider == SelectSeq(Presets, LAMBDA p : 100 * p > 100 * current + Unit) IN
  IF wider = << >> THEN Presets[1] ELSE wider[1]

CycledColumn(u) ==
  LET column == ColumnOf(u, Sel(u))
      current == IF u.info[Root(u)].total <= 0 THEN Unit
                 ELSE RDiv(Unit * u.info[column].size, u.info[Root(u)].total)
  IN IF column = NoNode THEN u ELSE ResizeBy(u, column, "right", NextPreset(current) - current)

TabbedColumn(u) ==
  LET column == ColumnOf(u, Sel(u))
      other == [vertical |-> "tabbed", tabbed |-> "vertical"]
  IN IF column = NoNode \/ u.info[column].kind \notin DOMAIN other THEN u
     ELSE SetKind(u, column, other[u.info[column].kind])

-----------------------------------------------------------------------------
(* The mouse. *)

NoDrag == [kind |-> "none"]

Encloses(f, p) == p.x \in f.x..Right(f) /\ p.y \in f.y..Bottom(f)

(* detect_edges *)
EdgesAt(p, f) ==
  LET near == {d \in Directions :
        CASE d = "left" -> p.x < f.x + Edge [] d = "right" -> p.x > Right(f) - Edge
          [] d = "up" -> p.y < f.y + Edge [] d = "down" -> p.y > Bottom(f) - Edge}
      Opposite(a, b) == IF {a, b} \subseteq near THEN {a, b} ELSE {}
  IN IF ~Encloses(Inset(f, -Edge), p) THEN {}
     ELSE near \ (Opposite("left", "right") \cup Opposite("up", "down"))

(* The first of some windows in the order of the layout. *)
FirstWindow(u, ws) ==
  LET n == First(WindowsIn(u, Root(u)), LAMBDA m : u.win[m] \in ws) IN
  IF n = NoNode THEN Elsewhere ELSE u.win[n]

(* What a press at p begins, of what is shown: hit_test_scroll_edges,      *)
(* hit_test_scroll_window                                                  *)
DragAmong(f, p) ==
  LET Begun(edge, body) ==
        IF edge # Elsewhere
        THEN [kind |-> "resize", window |-> edge, node |-> Node(t, edge), mouse |-> p, pointer |-> p,
              column |-> ColumnOf(t, Node(t, edge)), edges |-> EdgesAt(p, f[edge])]
        ELSE IF body # Elsewhere
        THEN [kind |-> "move", window |-> body, node |-> Node(t, body), mouse |-> p, active |-> FALSE]
        ELSE NoDrag
  IN Begun(FirstWindow(t, {w \in DOMAIN f : EdgesAt(p, f[w]) # {}}),
           FirstWindow(t, {w \in DOMAIN f : Encloses(f[w], p)}))
DragBegun(p) == DragAmong(FramesShown(t, TRUE, view), p)

Far(p, q) == (p.x - q.x) * (p.x - q.x) + (p.y - q.y) * (p.y - q.y) >= Threshold * Threshold

(* The resize that a move of the mouse to p makes of the column, and of    *)
(* the window in it.                                                       *)
Pulled(u, p) ==
  LET across == RDiv(Unit * (p.x - drag.mouse.x), Screen.w)
      down == RDiv(Unit * (p.y - drag.mouse.y), Screen.h)
      Pull(v, d) == IF d \notin drag.edges THEN v
                    ELSE IF Along(d) = "horizontal" THEN ResizeBy(v, drag.column, d, across)
                    ELSE ResizeBy(v, drag.node, d, down)
  IN FoldLeft(Pull, u, <<"left", "right", "up", "down">>)

(* The window that the dragged one is over, in view. *)
Under(p) ==
  LET Hit(f) == {w \in DOMAIN f : /\ w # drag.window /\ InView(f[w], view.at)
                                  /\ Encloses([f[w] EXCEPT !.x = @ - view.at], p)}
  IN FirstWindow(t, Hit(CalculateLayout(t, TheLayout)))

(* The nodes the drag holds on to. *)
Held == IF drag.kind = "none" THEN {} ELSE IF drag.kind = "move" THEN {drag.node}
        ELSE {drag.node, drag.column}

-----------------------------------------------------------------------------
(* The reactor. *)

(* update_layout after an event that leaves the forest u, if no drag holds *)
(* it up.  After each event the reactor looks whether to wait for a tick.  *)
Handled(u, on, v, d, down) ==
  \E forest \in {u} : \E now \in {IF down THEN v ELSE UpdateViewport(forest, on, v)} :
    /\ t' = forest /\ enabled' = on /\ view' = now /\ drag' = d /\ inDrag' = down
    /\ shown' = IF down THEN shown ELSE FramesShown(forest, on, now)
    /\ ticking' = ~now.arrived
    /\ UNCHANGED config

(* An event that says nothing of the drag, and one that may remove the     *)
(* nodes it holds on to.                                                   *)
Changed(u) == Handled(u, enabled, view, drag, inDrag) /\ UNCHANGED orphaned
ChangedBelow(u) ==
  /\ Handled(u, enabled, view, drag, inDrag)
  /\ orphaned' = (orphaned \/ ~Held \subseteq Nodes(t'))

Init ==
  /\ \E start \in Starts : t = start.forest /\ config = start.config
  /\ enabled = TRUE
  /\ focused = (IF Sel(t) \in DOMAIN t.win THEN t.win[Sel(t)] ELSE Elsewhere)
  /\ view = [NewView EXCEPT !.at = UpdateViewport(t, TRUE, NewView).to, !.to = UpdateViewport(t, TRUE, NewView).to]
  /\ shown = FramesShown(t, TRUE, view)
  /\ ticking = FALSE /\ drag = NoDrag /\ inDrag = FALSE /\ orphaned = FALSE /\ acts = 0

(* The spring moves on, part of the way or all of it. *)
Elapse ==
  /\ ~view.arrived
  /\ \/ /\ view.to - view.at \notin -HalfWay..HalfWay
        /\ view' = [view EXCEPT !.at = @ + (view.to - @) \div 2]
     \/ view' = [view EXCEPT !.at = view.to, !.arrived = TRUE]
  /\ UNCHANGED <<t, enabled, config, focused, shown, ticking, drag, inDrag, orphaned, acts>>

(* The tick timer fires, where the reactor waits for it.  The spring may   *)
(* arrive after the frames are made and before the next look at the clock. *)
Tick ==
  /\ ticking
  /\ shown' = FramesShown(t, enabled, view)
  /\ \/ view' = view
     \/ ~view.arrived /\ view' = [view EXCEPT !.at = view.to, !.arrived = TRUE]
  /\ ticking' = ~view'.arrived
  /\ UNCHANGED <<t, enabled, config, focused, drag, inDrag, orphaned, acts>>

(* visibility_timer: what it asks for comes as an event. *)
Poll == Changed(t) /\ UNCHANGED <<focused, acts>>

-----------------------------------------------------------------------------
(* Windows. *)

Gone == Window \ TiledIn(t, TheLayout)

Open(w) == w \in Gone \ {focused} /\ Changed(AddWindow(t, w)) /\ UNCHANGED focused

(* WindowsOnScreenUpdated finds a window, and puts columns in the order    *)
(* that their windows were first seen in.                                  *)
Discover(w) ==
  LET u == IF Scrolls(t) THEN AddScrollWindow(t, w) ELSE AddWindowUnder(t, Root(t), w) IN
  /\ w \in Gone \ {focused}
  /\ Changed(ReorderColumns(u, TheLayout, FirstSeen)) /\ UNCHANGED focused

(* WindowDestroyed *)
Close(w) ==
  /\ w \notin Gone
  /\ Handled(RemoveWindows(t, {w}), enabled, view, NoDrag, FALSE)
  /\ orphaned' = FALSE /\ UNCHANGED focused

(* The app of a window ends, or the window is no longer on the space. *)
Leave(w) == w \notin Gone /\ ChangedBelow(RemoveWindows(t, {w})) /\ UNCHANGED focused

(* WindowFocused, of a window of the layout or another one. *)
Focus(w) ==
  /\ w \in (Window \ Gone) \cup {Elsewhere} /\ w # focused
  /\ Changed(IF w = Elsewhere THEN t ELSE Select(t, Node(t, w))) /\ focused' = w

-----------------------------------------------------------------------------
(* Commands. *)

MoveFocus(d) ==
  LET n == Neighbour(t, Sel(t), d) IN
  Changed(IF n = NoNode THEN t ELSE Surface(t, n))

MoveWindow(d) ==
  ChangedBelow(IF CanMove(t, TheLayout, Sel(t), d) THEN MoveNode(t, TheLayout, Sel(t), d) ELSE t)

CycleColumnWidth == enabled /\ Scrolls(t) /\ Changed(CycledColumn(t))
ToggleColumnTabbed == enabled /\ Scrolls(t) /\ Changed(TabbedColumn(t))

(* The viewport is of the layout that is replaced. *)
ChangeLayoutKind ==
  /\ enabled
  /\ Handled(Converted(t), enabled, NewView, drag, inDrag)
  /\ orphaned' = (drag # NoDrag)

Command ==
  /\ focused # Elsewhere /\ UNCHANGED focused
  /\ \/ \E d \in Directions : MoveFocus(d) \/ MoveWindow(d)
     \/ CycleColumnWidth \/ ToggleColumnTabbed \/ ChangeLayoutKind

(* ConfigChanged, with experimental.scroll.enable off *)
DisableScroll ==
  /\ enabled
  /\ Handled(IF Scrolls(t) THEN Converted(t) ELSE t, FALSE, NewView, drag, inDrag)
  /\ orphaned' = (drag # NoDrag /\ (orphaned \/ Scrolls(t))) /\ UNCHANGED focused

(* handle_scroll_wheel, with the delta scaled *)
Wheel(delta) ==
  LET step == Screen.w \div Least(Len(t.kids[Root(t)]), 3)
      sum == view.progress + delta
      steps == (IF sum < 0 THEN -sum ELSE sum) \div step
      left == IF sum < 0 THEN sum + steps * step ELSE sum - steps * step
      n == Walk(t, Sel(t), IF sum < 0 THEN "right" ELSE "left", Least(steps, 16))
  IN /\ enabled /\ Scrolls(t) /\ t.kids[Root(t)] # << >>
     /\ Handled(IF n = Sel(t) THEN t ELSE Surface(t, n), enabled, [view EXCEPT !.progress = left],
                drag, inDrag)
     /\ UNCHANGED <<orphaned, focused>>

-----------------------------------------------------------------------------
(* Dragging. *)

(* LeftMouseDown.  If a release was missed the drag before it goes on. *)
Press(p) ==
  LET Hit(begun) ==
        begun # NoDrag
        \/ \E w \in TiledIn(t, TheLayout) : Encloses(CalculateLayout(t, TheLayout)[w], p)
  IN /\ enabled /\ Scrolls(t)
     /\ \E begun \in {DragBegun(p)} :
          Handled(t, enabled, view, IF drag = NoDrag THEN begun ELSE drag, inDrag \/ Hit(begun))
     /\ UNCHANGED <<focused, orphaned>>

(* A bug: the pointer is taken to come from where the drag began. *)
DragResizeAnew(p) ==
  /\ drag.kind = "resize" /\ ~orphaned
  /\ drag' = [drag EXCEPT !.pointer = p]
  /\ \E u \in {Pulled(t, p)} :
       t' = u /\ shown' = (IF u = t THEN shown ELSE FramesShown(u, enabled, view))
  /\ UNCHANGED <<enabled, config, focused, view, ticking, inDrag, orphaned>>

(* update_interactive_resize; the viewport stays.  With nodes that are     *)
(* gone the code panics.                                                   *)
DragResize(p) ==
  /\ drag.kind = "resize" /\ ~orphaned
  /\ drag' = [drag EXCEPT !.mouse = p, !.pointer = p]
  /\ \E u \in {Pulled(t, p)} :
       t' = u /\ shown' = (IF u = t THEN shown ELSE FramesShown(u, enabled, view))
  /\ UNCHANGED <<enabled, config, focused, view, ticking, inDrag, orphaned>>

(* update_interactive_move: the window changes places with one it is over. *)
DragMove(p) ==
  /\ drag.kind = "move" /\ ~orphaned
  /\ drag.active \/ Far(p, drag.mouse)
  /\ \E w \in {Under(p)} :
     IF w = Elsewhere
     THEN drag' = [drag EXCEPT !.active = TRUE] /\ UNCHANGED <<t, view, shown>>
     ELSE /\ t' = SwapWindows(t, drag.node, Node(t, w))
          /\ drag' = [drag EXCEPT !.active = TRUE, !.node = Node(t, w)]
          /\ view' = UpdateViewport(t', enabled, view)
          /\ shown' = FramesShown(t', enabled, view')
  /\ ticking' = ~view'.arrived
  /\ UNCHANGED <<enabled, config, focused, inDrag, orphaned>>

MouseUp ==
  /\ inDrag
  /\ Handled(t, enabled, view, NoDrag, FALSE)
  /\ orphaned' = FALSE /\ UNCHANGED <<focused, acts>>

Acts ==
  /\ acts < MaxActs /\ acts' = acts + 1
  /\ \/ \E w \in Window : Open(w) \/ Discover(w) \/ Close(w) \/ Leave(w)
     \/ \E w \in Window \cup {Elsewhere} : Focus(w)
     \/ Command \/ DisableScroll
     \/ \E delta \in Deltas : Wheel(delta)
     \/ \E p \in Points : Press(p) \/ DragResize(p) \/ DragMove(p)

Next == Acts \/ Elapse \/ Tick \/ Poll \/ MouseUp

Spec == Init /\ [][Next]_vars

-----------------------------------------------------------------------------
(* Properties. *)

(* Where the viewport goes, the selected window is on the screen, or fills *)
(* it.                                                                     *)
FocusedInView ==
  enabled /\ Scrolls(t) /\ ~inDrag /\ Sel(t) \in DOMAIN t.win =>
    \E f \in {CalculateLayout(t, TheLayout)[t.win[Sel(t)]]} :
      LET left == f.x - view.to
      IN \/ left >= Screen.x /\ left + f.w <= Right(Screen)
         \/ left <= Screen.x /\ left + f.w >= Right(Screen)

(* A dragged window stays the one that is dragged, and what is dragged is  *)
(* in the layout, unless it left in a way the drag is not ended by.        *)
DragHolds ==
  drag # NoDrag /\ ~orphaned =>
    /\ Held \subseteq Nodes(t)
    /\ t.win[drag.node] = drag.window

(* Turning a layout into one of the other kind keeps its windows, in their *)
(* order, and what is selected if that has the focus.                      *)
Order(u) == LET ns == WindowsIn(u, Root(u)) IN [i \in DOMAIN ns |-> u.win[ns[i]]]
KindChangeKeeps ==
  [][Scrolls(t) # Scrolls(t)' =>
       /\ Order(t') = Order(t)
       /\ Sel(t) \in DOMAIN t.win /\ t.win[Sel(t)] = focused =>
            Sel(t') \in DOMAIN t'.win /\ t'.win[Sel(t')] = focused]_vars

(* The right edge, and the bottom edge, that is dragged stays with the     *)
(* pointer, but for what the gaps of the strip take, if its column is in   *)
(* the strip.                                                              *)
EdgeFollows ==
  [][drag.kind = "resize" /\ drag'.kind = "resize" /\ drag'.window = drag.window
       /\ drag'.pointer # drag.pointer /\ drag.edges = {"right"} /\ t' # t
       /\ HasChild(t, Root(t), drag.column) /\ t.info[Root(t)].kind = "horizontal" =>
       LET f == CalculateLayout(t, TheLayout)[drag.window]
           g == CalculateLayout(t', TheLayout)[drag.window]
           moved == drag'.pointer.x - drag.pointer.x
       IN f.w > MinColumn + Gap /\ g.w > MinColumn + Gap => (Right(g) - Right(f)) - moved \in -2..2]_vars

(* A drag goes on with the window it began with, and follows the pointer.  *)
DragFollows == []DragHolds /\ EdgeFollows
=============================================================================
