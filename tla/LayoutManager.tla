---------------------------- MODULE LayoutManager ----------------------------
(***************************************************************************)
(* The layout manager (src/actor/layout.rs): which windows are tiled in    *)
(* the layout tree and which float, what events about windows and spaces   *)
(* do to them, and the commands that rearrange a layout.                   *)
(*                                                                         *)
(* It is driven by the reactor.  Spaces are numbers, in the order of their *)
(* screens, and all that were exposed are visible; windows are numbers, in *)
(* the order of their ids.  Scroll layouts are off (the default), so the   *)
(* commands about them are ignored; fullscreen, size locks and the         *)
(* responses to the reactor are left out.                                  *)
(***************************************************************************)
EXTENDS LayoutTree, LayoutMapping

CONSTANTS
  App,            \* apps, each the set of its windows
  Floats,         \* windows that float by default (classify_window)
  X,              \* the x position of each window when it is first seen
  NoWindow,       \* not a window
  Deltas,         \* weights by which windows are resized, in halves
  MaxEvents, MaxCommands, MaxSteps    \* bounds: events, commands, and both

Window == UNION App

ASSUME ManagerAssumption ==
  /\ Space \subseteq Nat /\ Window \subseteq Nat /\ Floats \subseteq Window
  /\ \A a, b \in App : a # b => a \cap b = {}
  /\ \A v, w \in Window : v # w => X[v] # X[w]
  /\ NoWindow \notin Window

VARIABLES
  tree,       \* the forest of all layouts
  floating,   \* floating_windows
  active,     \* active_floating_windows, of each space
  focused,    \* focused_window
  place,      \* the windows that exist, and the space each is on
  events, commands,    \* how often something happened
  swapped     \* history: windows of two containers changed places

vars == <<mapping, tree, floating, active, focused, place, events, commands, swapped>>

Init ==
  /\ MappingInit
  /\ tree = [kids |-> << >>, info |-> << >>, sel |-> << >>, win |-> << >>, root |-> << >>]
  /\ floating = {} /\ active = [s \in Space |-> {}]
  /\ focused = NoWindow
  /\ place = << >>
  /\ events = 0 /\ commands = 0
  /\ swapped = FALSE

Windows == DOMAIN place
On(s) == {w \in Windows : place[w] = s}
ActiveLayout(s) == mapping[s].active
FreshLayout == IF Owned = {} THEN 1 ELSE Max(Owned) + 1
Placed(ws, s) == [w \in Windows \cup ws |-> IF w \in ws THEN s ELSE place[w]]

Happens == events < MaxEvents /\ events + commands < MaxSteps /\ events' = events + 1
Event == Happens /\ UNCHANGED <<commands, swapped>>

-----------------------------------------------------------------------------
(* Events. *)

(* A bug: the layouts of a space are forgotten when its screen changes. *)
SpaceExposedAnew(s, z) ==
  /\ Event
  /\ FreshLayout \in Layout
  /\ Becomes(s, NewMapping(z, FreshLayout))
  /\ tree' = CreatedLayout(tree, FreshLayout)
  /\ UNCHANGED <<floating, active, focused, place>>

SpaceExposed(s, z) ==
  LET new == FreshLayout
      known == s \in Exposed
      before == IF known THEN Loaded(Saved(mapping[s]), z) ELSE NewMapping(z, new)
      made == IF known THEN tree ELSE CreatedLayout(tree, new)
  IN /\ Event
     /\ known \/ new \in Layout
     /\ Becomes(s, IF known THEN Activated(mapping[s], z) ELSE Activated(before, z))
     /\ tree' = FoldSet(LAMBDA l, t : RemovedLayout(t, l), made, Unused(before))
     /\ UNCHANGED <<floating, active, focused, place>>

(* A bug: windows that float are tiled again. *)
TileableAgain(l, ws) == {w \in ws : w \notin Floats \/ WindowNode(tree, l, w) # NoNode}

(* Of some windows, those to be tiled: neither floating nor new and        *)
(* floating by default.                                                    *)
Tileable(l, ws) ==
  {w \in ws \ floating : w \notin Floats \/ WindowNode(tree, l, w) # NoNode}

(* Of each space, by app, the windows that float there. *)
ResetApp(s, app, ws) == active' = [active EXCEPT ![s] = (@ \ app) \cup ws]

(* WindowsOnScreenUpdated: the windows of an app on a space, some of which *)
(* may have appeared.                                                      *)
WindowsOnScreen(s, app, appeared) ==
  LET l == ActiveLayout(s)
      here == (On(s) \cup appeared) \cap app
      tiled == Tileable(l, here)
      toFloat == here \ (floating \cup tiled)
      set == SetWindows(tree, l, app, tiled)
      anyNew == \E w \in tiled : WindowNode(tree, l, w) = NoNode
  IN /\ Event
     /\ s \in Exposed /\ appeared \subseteq app \ Windows
     /\ place' = Placed(appeared, s)
     /\ tree' = IF anyNew THEN ReorderColumns(set, l, X) ELSE set
     /\ floating' = floating \cup toFloat
     /\ ResetApp(s, app, (here \cap floating) \cup toFloat)
     /\ UNCHANGED <<mapping, focused>>

Adds(t, s, w) == LET l == ActiveLayout(s) IN AddWindowAfter(t, Selection(t, l), w)
Float(w, s) ==
  /\ floating' = floating \cup {w}
  /\ active' = [active EXCEPT ![s] = @ \cup {w}]

WindowAdded(s, w) ==
  /\ Event
  /\ s \in Exposed /\ w \notin Windows
  /\ place' = Placed({w}, s)
  /\ IF w \in Floats THEN Float(w, s) /\ UNCHANGED tree
     ELSE tree' = Adds(tree, s, w) /\ UNCHANGED <<floating, active>>
  /\ UNCHANGED <<mapping, focused>>

Gone(ws) ==
  /\ tree' = RemoveWindows(tree, ws)
  /\ floating' = floating \ ws
  /\ place' = [w \in Windows \ ws |-> place[w]]
  /\ UNCHANGED <<mapping, active, focused>>

WindowRemoved(w) == Event /\ w \in Windows /\ Gone({w})
AppClosed(app) == Event /\ app \cap Windows # {} /\ Gone(app)

(* WindowSpaceChanged: the user moves a window to another screen. *)
WindowSpaceChanged(w, s) ==
  /\ Event
  /\ w \in Windows /\ s \in Exposed /\ place[w] \in Exposed \ {s}
  /\ place' = Placed({w}, s)
  /\ UNCHANGED <<mapping, focused>>
  /\ LET Leaves(t) == RemoveWindowFrom(t, ActiveLayout(place[w]), w)
         known == \E n \in DOMAIN tree.win : tree.win[n] = w
     IN IF w \in floating
        THEN /\ active' = [active EXCEPT ![s] = @ \cup {w}, ![place[w]] = @ \ {w}]
             /\ UNCHANGED <<tree, floating>>
        ELSE IF known \/ w \notin Floats
        THEN tree' = Leaves(Adds(tree, s, w)) /\ UNCHANGED <<floating, active>>
        ELSE Float(w, s) /\ tree' = Leaves(tree)

WindowFocused(w) ==
  /\ Event
  /\ w \in Windows /\ focused' = w
  /\ LET nodes == {WindowNode(tree, ActiveLayout(s), w) : s \in Exposed} \ {NoNode}
     IN tree' = IF w \in floating THEN tree ELSE FoldSet(LAMBDA n, t : Select(t, n), tree, nodes)
  /\ UNCHANGED <<mapping, floating, active, place>>

(* WindowResized, by the user, at one edge. *)
WindowResized(w, d, delta) ==
  LET nodes == {WindowNode(tree, ActiveLayout(s), w) : s \in Exposed} \ {NoNode}
  IN /\ Event
     /\ w \in Windows /\ nodes # {}
     /\ tree' = FoldSet(LAMBDA n, t : Resized(t, n, d, delta), tree, nodes)
     /\ UNCHANGED <<mapping, floating, active, focused, place>>

(* apply_drop_action: one window is dropped on another of the layout, in   *)
(* the middle or at the edge in some direction (DropZoneRegion::to_action).*)
Drop(s, from, to, zone) ==
  LET l == ActiveLayout(s)
      m == WindowNode(tree, l, from)
      n == WindowNode(tree, l, to)
      inLine == OrientationOf(tree.info[Parent(tree, n)].kind) = Along(zone)
  IN /\ Happens
     /\ s \in Exposed /\ from # to /\ m # NoNode /\ n # NoNode
     /\ tree' = IF zone = "center" THEN SwapWindows(tree, m, n)
                ELSE IF ~inLine THEN MoveNodeAfter(Nested(tree, l, n, Along(zone)), n, m)
                ELSE IF Forward(zone) THEN MoveNodeAfter(tree, n, m)
                ELSE MoveNodeBefore(tree, n, m)
     /\ swapped' = (swapped \/ (zone = "center" /\ Parent(tree, m) # Parent(tree, n)))
     /\ UNCHANGED <<mapping, floating, active, focused, place, commands>>

-----------------------------------------------------------------------------
(* Commands.  A command is for the space of the focused window or, if that *)
(* is gone, of the active screen.                                          *)

IsFloating == focused \in floating
CommandSpace(s) == s \in Exposed /\ (focused \in Windows => s = place[focused])

Command(s) ==
  /\ commands < MaxCommands /\ events + commands < MaxSteps /\ commands' = commands + 1
  /\ CommandSpace(s)
  /\ UNCHANGED <<events, swapped, focused>>

ToggleWindowFloating(s) ==
  /\ Command(s)
  /\ focused # NoWindow
  /\ UNCHANGED <<mapping, place>>
  /\ IF IsFloating
     THEN /\ LET t == Adds(tree, s, focused)
             IN tree' = Select(t, WindowNode(t, ActiveLayout(s), focused))
          /\ active' = [active EXCEPT ![s] = @ \ {focused}]
          /\ floating' = floating \ {focused}
     ELSE Float(focused, s) /\ tree' = RemoveWindows(tree, {focused})

(* The screen next to a space, round about. *)
NextSpace(s, d) ==
  LET order == SetToSortSeq(Exposed, <)
      k == Position(order, s) - 1 + (IF Forward(d) THEN 1 ELSE -1)
  IN order[(k % Len(order)) + 1]
OtherSpace(s, d) == IF Cardinality(Exposed) > 1 THEN NextSpace(s, d) ELSE s

(* Commands that leave the layouts as they are, and change a selection.    *)
Focus(s, to(_)) ==
  /\ Command(s)
  /\ ~IsFloating
  /\ tree' = to(ActiveLayout(s))
  /\ UNCHANGED <<mapping, floating, active, place>>

SurfaceIfAny(n) == IF n = NoNode THEN tree ELSE Surface(tree, n)
FocusTarget(s, l, d) ==
  LET n == Traverse(tree, Selection(tree, l), d) IN
  IF n # NoNode \/ OtherSpace(s, d) = s THEN n
  ELSE Selection(tree, ActiveLayout(OtherSpace(s, d)))
MoveFocus(s, d) == Focus(s, LAMBDA l : SurfaceIfAny(FocusTarget(s, l, d)))
FocusNext(s) == Focus(s, LAMBDA l : SurfaceIfAny(FocusBy(tree, l, 1)))
FocusPrev(s) == Focus(s, LAMBDA l : SurfaceIfAny(FocusBy(tree, l, -1)))
Ascend(s) == Focus(s, LAMBDA l : AscendSelection(tree, l))
Descend_(s) == Focus(s, LAMBDA l : DescendSelection(tree, l))

(* NextLayout and PrevLayout. *)
ChangeLayout(s, forward) ==
  /\ Command(s)
  /\ ~IsFloating
  /\ Becomes(s, Cycled(mapping[s], forward))
  /\ LET n == WindowNode(tree, mapping'[s].active, focused)
     IN tree' = IF n = NoNode THEN tree ELSE Select(tree, n)
  /\ UNCHANGED <<floating, active, place>>

(* Split pulls an only sibling into the new container. *)
Halved(t, l, o) ==
  LET n == Selection(t, l)
      sibs == IF IsRoot(t, n) THEN << >> ELSE t.kids[Parent(t, n)]
      nested == Nested(t, l, n, o)
  IN IF Len(sibs) # 2 THEN nested
     ELSE MoveNodeAfter(nested, n, Or(NextSibling(t, n), PrevSibling(t, n)))
Split(s, o) == Focus(s, LAMBDA l : Halved(tree, l, o))

(* Commands that change the layout: the space gets one of its own first,   *)
(* even if nothing is changed then because a floating window has the focus.*)
Modify(s, Change(_, _)) ==
  LET new == FreshLayout
      shared == Shared(mapping[s])
      t == IF shared THEN ClonedLayout(tree, ActiveLayout(s), new) ELSE tree
  IN /\ Command(s)
     /\ shared => new \in Layout
     /\ Becomes(s, Prepared(mapping[s], new))
     /\ tree' = IF IsFloating THEN t ELSE Change(t, IF shared THEN new ELSE ActiveLayout(s))
     /\ UNCHANGED <<floating, active>>

WithKind(t, l, K(_)) ==
  LET n == Selection(t, l) IN
  IF IsRoot(t, n) THEN t ELSE SetKind(t, Parent(t, n), K(t.info[Parent(t, n)]))
ToggleOrientation(s) ==
  Modify(s, LAMBDA t, l : WithKind(t, l, LAMBDA i : Flip(i.kind))) /\ UNCHANGED place
Group(s, o) ==
  Modify(s, LAMBDA t, l : WithKind(t, l, LAMBDA i : GroupOf(o))) /\ UNCHANGED place
Ungroup(s) ==
  /\ Modify(s, LAMBDA t, l : WithKind(t, l, LAMBDA i : IF IsGroup(i.kind) THEN i.ungrouped ELSE i.kind))
  /\ UNCHANGED place
Resize(s, d, delta) ==
  Modify(s, LAMBDA t, l : Resized(t, Selection(t, l), d, delta)) /\ UNCHANGED place
CleanUpSpace(s) == Modify(s, WeightsReset) /\ UNCHANGED place

(* MoveNode: a node that is at the edge of its layout goes to the next     *)
(* screen, and its windows with it.                                        *)
MoveSelection(s, d) ==
  LET next == OtherSpace(s, d)
      n == Selection(tree, ActiveLayout(s))
      stays == IsFloating \/ next = s \/ CanMove(tree, ActiveLayout(s), n, d) \/ IsRoot(tree, n)
  IN /\ Modify(s, LAMBDA t, l :
          IF CanMove(t, l, Selection(t, l), d) THEN MoveNode(t, l, Selection(t, l), d)
          ELSE IF next = s THEN t
          ELSE MoveNodeAfter(t, Selection(t, ActiveLayout(next)), Selection(t, l)))
     /\ place' = IF stays THEN place
                 ELSE [w \in Windows |-> IF \E m \in Range(WindowsIn(tree, n)) : tree.win[m] = w
                                         THEN next ELSE place[w]]

-----------------------------------------------------------------------------
HappensToWindows ==
  \/ \E s \in Exposed, w \in Window : WindowAdded(s, w) \/ WindowSpaceChanged(w, s)
  \/ \E s \in Exposed, app \in App : \E new \in SUBSET app : WindowsOnScreen(s, app, new)
  \/ \E w \in Windows : WindowRemoved(w) \/ WindowFocused(w)
  \/ \E app \in App : AppClosed(app)

Pointer ==
  \/ \E w \in Windows, d \in Directions, delta \in Deltas : WindowResized(w, d, delta)
  \/ \E s \in Exposed, v, w \in Windows, zone \in {"center"} \cup Directions :
       Drop(s, v, w, zone)

Looking ==
  \E s \in Exposed :
    \/ FocusNext(s) \/ FocusPrev(s) \/ Ascend(s) \/ Descend_(s)
    \/ \E d \in Directions : MoveFocus(s, d)
    \/ \E forward \in BOOLEAN : ChangeLayout(s, forward)

Rearranging ==
  \E s \in Exposed :
    \/ ToggleOrientation(s) \/ Ungroup(s) \/ CleanUpSpace(s)
    \/ \E o \in Orientations : Group(s, o)
    \/ \E d \in Directions : MoveSelection(s, d) \/ \E delta \in Deltas : Resize(s, d, delta)

Splitting == \E s \in Exposed, o \in Orientations : Split(s, o)

Next ==
  \/ \E s \in Space, z \in Size : SpaceExposed(s, z)
  \/ HappensToWindows
  \/ Pointer
  \/ Looking
  \/ Rearranging
  \/ \E s \in Exposed : ToggleWindowFloating(s)
  \/ Splitting

Spec == Init /\ [][Next]_vars

-----------------------------------------------------------------------------
(* Types of the variables; layouts and windows named in them exist. *)
TypeOK ==
  /\ Exposed \subseteq Space
  /\ \A s \in Exposed : LET m == mapping[s] IN
       /\ m.size \in Size /\ m.active \in Layout /\ m.retained \in BOOLEAN
       /\ DOMAIN m.memory \subseteq Size /\ DOMAIN m.refs \subseteq Layout
  /\ DOMAIN tree.info = Nodes(tree)
  /\ \A n \in Nodes(tree) :
       /\ Range(tree.kids[n]) \subseteq Nodes(tree)
       /\ {tree.info[n].kind, tree.info[n].ungrouped} \subseteq Kinds
       /\ tree.info[n].size \in Nat /\ ~IsGroup(tree.info[n].ungrouped)
  /\ floating \subseteq Window /\ focused \in Window \cup {NoWindow}
  /\ active \in [Space -> SUBSET Window]
  /\ Windows \subseteq Window /\ Range(place) \subseteq Exposed

(* Every layout of a space has its tree, and there are no others: none is  *)
(* leaked when layouts are cloned, forgotten or collected, and none is     *)
(* removed that a screen size still remembers.                             *)
LayoutsHaveTrees == DOMAIN tree.root = Owned

(* Whatever is moved, nested, culled or promoted, the layouts are trees:   *)
(* every node is in exactly one place of one layout, and windows have no   *)
(* children.                                                               *)
LayoutsAreTrees ==
  LET reached == FoldSet(LAMBDA l, ns : ns \o Preorder(tree, tree.root[l]), << >>, DOMAIN tree.root)
  IN /\ Len(reached) = Cardinality(Nodes(tree)) /\ Range(reached) = Nodes(tree)
     /\ \A n \in DOMAIN tree.win : tree.kids[n] = << >>

(* A container that loses children is left with two or more, or removed;   *)
(* only a root may have fewer (removed_child).                             *)
CullsContainers ==
  [][\A n \in (Nodes(tree) \cap Nodes(tree')) \ DOMAIN tree'.win :
       Len(tree'.kids[n]) < Len(tree.kids[n]) => Len(tree'.kids[n]) > 1 \/ IsRoot(tree', n)]_vars

(* The selection follows all changes of the tree (selection.rs asserts it):*)
(* what is selected in a container is a child of it.                       *)
SelectionInTree ==
  \A n \in DOMAIN tree.sel : n \in Nodes(tree) /\ tree.sel[n].child \in Range(tree.kids[n])

(* LayoutInfo.total is "The total size of all children". *)
TotalIsSum(n) ==
  tree.info[n].total = MapThenSumSet(LAMBDA m : tree.info[m].size, Range(tree.kids[n]))

(* Weights are conserved by all surgery on the tree: a container's total   *)
(* is that of its children.  Only swapping windows of two containers gives *)
(* them each other's weights and leaves the totals (swap_weights).         *)
TotalsKept == swapped \/ \A n \in Nodes(tree) : TotalIsSum(n)

(* The layouts stay sound through every event and command. *)
LayoutsSound == TypeOK /\ LayoutsHaveTrees /\ LayoutsAreTrees /\ SelectionInTree /\ TotalsKept

(* A window is tiled or floats, never both, in no layout of any size. *)
FloatingNotTiled == \A l \in DOMAIN tree.root : TiledIn(tree, l) \cap floating = {}

(* What a layout looks like, but for selections. *)
LayoutOf(t, l) ==
  LET ns == Preorder(t, t.root[l]) IN
  [i \in DOMAIN ns |-> [kids |-> Len(t.kids[ns[i]]), info |-> t.info[ns[i]],
                        win |-> IF ns[i] \in DOMAIN t.win THEN t.win[ns[i]] ELSE NoWindow]]

(* A command that rearranges the layout of one space: it neither moves     *)
(* anything to another screen nor has a window float.                      *)
Rearranges ==
  /\ commands' # commands /\ floating' = floating
  /\ <<tree'.kids, tree'.info>> # <<tree.kids, tree.info>>
  /\ Cardinality({s \in Exposed :
       LayoutOf(tree', mapping'[s].active) # LayoutOf(tree, ActiveLayout(s))}) <= 1

(* Rearranging a layout neither loses a window nor adds one, there or in   *)
(* any other layout; a clone has the windows of the original.              *)
KeepsWindows ==
  [][Rearranges =>
     /\ \A l \in DOMAIN tree.root : TiledIn(tree', l) = TiledIn(tree, l)
     /\ \A s \in Exposed : TiledIn(tree', mapping'[s].active) = TiledIn(tree, ActiveLayout(s))]_vars

(* What was selected before a layout is rearranged is selected after it.   *)
SelectedIn(t, l) == {t.win[n] : n \in Range(WindowsIn(t, Selection(t, l)))}
KeepsSelection ==
  [][Rearranges =>
     \A s \in Exposed : SelectedIn(tree', mapping'[s].active) = SelectedIn(tree, ActiveLayout(s))]_vars

(* Rearranging does just that: the same windows, the same selection, and   *)
(* no container without need.                                              *)
RearrangesOnly == CullsContainers /\ KeepsWindows /\ KeepsSelection

(* A command that changes the layout of a screen size leaves alone what    *)
(* the space remembers for other sizes (prepare_modify).                   *)
OtherSizesUntouched ==
  \A s \in Exposed : \A z \in DOMAIN mapping[s].memory \ {mapping[s].size} :
    LET l == mapping[s].memory[z] IN
    mapping'[s].memory[z] = l /\ LayoutOf(tree', l) = LayoutOf(tree, l)
ModifiesItsOwn ==
  [][Rearranges => OtherSizesUntouched \/ Splitting]_vars
=============================================================================
