----------------------------- MODULE LayoutTree -----------------------------
(***************************************************************************)
(* The layout tree (src/model/layout_tree.rs, tree.rs) with what hangs on  *)
(* its nodes: selection (selection.rs), weights and kinds (size.rs) and    *)
(* windows (window.rs).  All layouts live in one forest.                   *)
(*                                                                         *)
(* A forest t has the fields                                               *)
(*   kids   the children of each node, in order                            *)
(*   info   size, total, kind, last ungrouped kind and fullscreen of nodes *)
(*   sel    on some nodes: the selected child, and stop_here               *)
(*   win    on some nodes: the window                                      *)
(*   root   the root of each layout                                        *)
(* Nodes and layouts are numbers, and windows too, in the order of their   *)
(* ids.  A number may be used again once the node is gone, as no node is   *)
(* kept across operations.  Weights are whole numbers of 1/Unit.           *)
(* Every operation of the code is an operator from a forest to a forest.   *)
(***************************************************************************)
EXTENDS Integers, Sequences, FiniteSets, SequencesExt

CONSTANT Unit   \* the weight 1.0

ASSUME UnitAssumption == Unit \in Nat \ {0}

NoNode == 0

Kinds == {"horizontal", "vertical", "tabbed", "stacked"}
Orientations == {"horizontal", "vertical"}
Directions == {"left", "right", "up", "down"}

OrientationOf(k) == IF k \in {"horizontal", "tabbed"} THEN "horizontal" ELSE "vertical"
IsGroup(k) == k \in {"tabbed", "stacked"}
GroupOf(o) == IF o = "horizontal" THEN "tabbed" ELSE "stacked"
Flip(k) == CASE k = "horizontal" -> "vertical" [] k = "vertical" -> "horizontal"
             [] k = "tabbed" -> "stacked" [] k = "stacked" -> "tabbed"
Along(d) == IF d \in {"left", "right"} THEN "horizontal" ELSE "vertical"
Forward(d) == d \in {"right", "down"}

-----------------------------------------------------------------------------
(* Looking around. *)

Nodes(t) == DOMAIN t.kids
HasChild(t, p, n) == \E i \in DOMAIN t.kids[p] : t.kids[p][i] = n
IsRoot(t, n) == ~\E p \in Nodes(t) : HasChild(t, p, n)
Parent(t, n) == CHOOSE p \in Nodes(t) : HasChild(t, p, n)

Position(s, x) == CHOOSE i \in DOMAIN s : s[i] = x
At(s, i) == IF i \in DOMAIN s THEN s[i] ELSE NoNode
Step(t, n, k) == LET sibs == t.kids[Parent(t, n)] IN At(sibs, Position(sibs, n) + k)
NextSibling(t, n) == Step(t, n, 1)
PrevSibling(t, n) == Step(t, n, -1)
Or(m, n) == IF m # NoNode THEN m ELSE n

(* From n to its root. *)
RECURSIVE Ancestors(_, _)
Ancestors(t, n) == IF IsRoot(t, n) THEN <<n>> ELSE <<n>> \o Ancestors(t, Parent(t, n))

(* The nodes below some nodes, and those, each before what is below it. *)
RECURSIVE Visited(_, _)
Visited(t, ns) ==
  IF ns = << >> THEN << >> ELSE <<Head(ns)>> \o Visited(t, t.kids[Head(ns)] \o Tail(ns))
Preorder(t, n) == Visited(t, <<n>>)

(* The first of a sequence of nodes that is as wanted. *)
First(s, Wanted(_)) == LET found == SelectSeq(s, Wanted) IN At(found, 1)

WindowsIn(t, n) == SelectSeq(Preorder(t, n), LAMBDA m : m \in DOMAIN t.win)
WindowNode(t, l, w) == First(Preorder(t, t.root[l]), LAMBDA n : n \in DOMAIN t.win /\ t.win[n] = w)
TiledIn(t, l) == {t.win[n] : n \in Range(WindowsIn(t, t.root[l]))}

-----------------------------------------------------------------------------
(* Selection. *)

LocalSelection(t, n) == IF n \in DOMAIN t.sel /\ ~t.sel[n].stop THEN t.sel[n].child ELSE NoNode
LastSelection(t, n) == IF n \in DOMAIN t.sel THEN t.sel[n].child ELSE NoNode
IsLocalSelection(t, n) == ~IsRoot(t, n) /\ LocalSelection(t, Parent(t, n)) = n
Towards(t, n) == Or(LocalSelection(t, n), At(t.kids[n], 1))

RECURSIVE SelectionFrom(_, _)
SelectionFrom(t, n) ==
  IF LocalSelection(t, n) = NoNode THEN n ELSE SelectionFrom(t, LocalSelection(t, n))
Selection(t, l) == SelectionFrom(t, t.root[l])

(* select_locally, for each of some nodes that have different parents. *)
SelectLocally(t, ns) ==
  LET above == {p \in Nodes(t) : \E i \in DOMAIN t.kids[p] : t.kids[p][i] \in ns} IN
  [t EXCEPT !.sel = [p \in DOMAIN t.sel \cup above |->
     IF p \in above THEN [child |-> First(t.kids[p], LAMBDA n : n \in ns), stop |-> FALSE]
     ELSE t.sel[p]]]

Select(t, n) ==
  SelectLocally(IF n \in DOMAIN t.sel THEN [t EXCEPT !.sel[n].stop = TRUE] ELSE t,
                Range(Ancestors(t, n)))

AscendSelection(t, l) ==
  LET n == Selection(t, l) IN IF IsRoot(t, n) THEN t ELSE Select(t, Parent(t, n))
DescendSelection(t, l) ==
  LET n == LastSelection(t, Selection(t, l)) IN IF n = NoNode THEN t ELSE Select(t, n)

-----------------------------------------------------------------------------
(* Making, linking and removing nodes, with what the components do when    *)
(* they are told (TreeEvent).                                              *)

NewInfo == [size |-> 0, total |-> 0, kind |-> "horizontal", ungrouped |-> "horizontal",
            full |-> FALSE]
Fresh(t) == CHOOSE n \in 1..Cardinality(Nodes(t)) + 1 : n \notin Nodes(t)

Made(t) ==
  LET n == Fresh(t) IN
  [t EXCEPT !.kids = @ @@ (n :> << >>), !.info = @ @@ (n :> NewInfo)]

(* Where a node goes: beside a node, or first or last under one. *)
Before(n) == [at |-> "before", of |-> n]
After(n) == [at |-> "after", of |-> n]
FirstUnder(n) == [at |-> "front", of |-> n]
LastUnder(n) == [at |-> "back", of |-> n]
ParentAt(t, d) == IF d.at \in {"before", "after"} THEN Parent(t, d.of) ELSE d.of

Linked(t, n, d) ==
  LET p == ParentAt(t, d)
      sibs == t.kids[p]
      i == CASE d.at = "front" -> 1
             [] d.at = "back" -> Len(sibs) + 1
             [] d.at = "before" -> Position(sibs, d.of)
             [] d.at = "after" -> Position(sibs, d.of) + 1
  IN [t EXCEPT !.kids[p] = InsertAt(sibs, i, n)]
Unlinked(t, n) == [t EXCEPT !.kids[Parent(t, n)] = SelectSeq(@, LAMBDA m : m # n)]

(* AddedToParent. *)
Entered(t, n) ==
  [t EXCEPT !.info[n].size = Unit, !.info[Parent(t, n)].total = @ + Unit]

(* A bug: the selection stays on a child that leaves. *)
LeavingSelected(t, n) == [t EXCEPT !.info[Parent(t, n)].total = @ - t.info[n].size]

(* RemovingFromParent: the selection goes to a sibling. *)
Leaving(t, n) ==
  LET p == Parent(t, n)
      heir == Or(NextSibling(t, n), PrevSibling(t, n))
      lighter == [t EXCEPT !.info[p].total = @ - t.info[n].size]
  IN IF LastSelection(t, p) # n THEN lighter
     ELSE IF heir # NoNode THEN [lighter EXCEPT !.sel[p].child = heir]
     ELSE [lighter EXCEPT !.sel = [m \in DOMAIN t.sel \ {p} |-> t.sel[m]]]

(* RemovedFromForest, for a node and all below it. *)
Deleted(t, n) ==
  LET gone == Range(Preorder(t, n))
      Kept(f) == [m \in DOMAIN f \ gone |-> f[m]]
  IN [t EXCEPT !.kids = Kept(@), !.info = Kept(@), !.sel = Kept(@), !.win = Kept(@)]

(* A node made and put in its place. *)
Added(t, d) == LET n == Fresh(t) IN Entered(Linked(Made(t), n, d), n)

(* DetachedNode::attach_with: nothing is told within the same parent. *)
Reattached(t, n, d) ==
  IF ParentAt(t, d) = Parent(t, n) THEN Linked(Unlinked(t, n), n, d)
  ELSE Entered(Linked(Unlinked(Leaving(t, n), n), n, d), n)

(* assume_size_of *)
AssumeSize(t, new, old) ==
  [t EXCEPT !.info[Parent(t, new)].total = @ - t.info[new].size,
            !.info[new].size = t.info[old].size, !.info[old].size = 0]

RECURSIVE RemovedChild(_, _), Removed(_, _)

(* A bug: an only child goes with its container. *)
RemovedChildToo(t, p) == IF IsRoot(t, p) \/ Len(t.kids[p]) > 1 THEN t ELSE Removed(t, p)

(* removed_child: a container that is left empty is removed, and one with  *)
(* a single child is replaced by it.                                       *)
RemovedChild(t, p) ==
  IF IsRoot(t, p) \/ Len(t.kids[p]) > 1 THEN t
  ELSE IF t.kids[p] = << >> THEN Removed(t, p)
  ELSE LET child == t.kids[p][1]
       IN RemovedChild(AssumeSize(Reattached(t, child, After(p)), child, p), p)

Removed(t, n) ==
  Deleted(RemovedChild(Unlinked(Leaving(t, n), n), Parent(t, n)), n)

(* ReattachedNode, when it is dropped. *)
LeftBehind(t, n, old) == IF Parent(t, n) = old THEN t ELSE RemovedChild(t, old)
Moved(t, n, d) == LeftBehind(Reattached(t, n, d), n, Parent(t, n))

SetKind(t, n, k) ==
  [t EXCEPT !.info[n].kind = k, !.info[n].ungrouped = IF IsGroup(k) THEN @ ELSE k]

-----------------------------------------------------------------------------
(* Layouts. *)

CreatedLayout(t, l) ==
  [Made(t) EXCEPT !.root = @ @@ (l :> Fresh(t))]

RemovedLayout(t, l) ==
  [Deleted(t, t.root[l]) EXCEPT !.root = [m \in DOMAIN t.root \ {l} |-> t.root[m]]]

(* deep_copy: the new node for each node of a subtree, in preorder. *)
DeepCopy(t, n) ==
  LET old == Preorder(t, n)
      fresh == 1..(Cardinality(Nodes(t)) + Len(old)) \ Nodes(t)
  IN [m \in Range(old) |->
        CHOOSE c \in fresh : Cardinality({d \in fresh : d <= c}) = Position(old, m)]

(* clone_layout: with the nodes all that hangs on them is copied           *)
(* (TreeEvent::Copied).                                                    *)
ClonedLayout(t, l, new) ==
  LET copy == DeepCopy(t, t.root[l])
      With(f, Of(_)) ==
        f @@ [c \in {copy[n] : n \in DOMAIN copy \cap DOMAIN f} |->
                Of(f[CHOOSE n \in DOMAIN copy : copy[n] = c])]
      same(x) == x
  IN [t EXCEPT !.kids = With(@, LAMBDA s : [i \in DOMAIN s |-> copy[s[i]]]),
               !.info = With(@, same), !.win = With(@, same),
               !.sel = With(@, LAMBDA e : [e EXCEPT !.child = copy[e.child]]),
               !.root = @ @@ (new :> copy[t.root[l]])]

-----------------------------------------------------------------------------
(* Windows. *)

WindowPut(t, d, w) == [Added(t, d) EXCEPT !.win = @ @@ (Fresh(t) :> w)]
AddWindowUnder(t, p, w) == WindowPut(t, LastUnder(p), w)
AddWindowAfter(t, n, w) == IF IsRoot(t, n) THEN AddWindowUnder(t, n, w) ELSE WindowPut(t, After(n), w)

RemoveWindowFrom(t, l, w) ==
  LET n == WindowNode(t, l, w) IN IF n = NoNode THEN t ELSE Removed(t, n)

AllRemoved(t, ns) == FoldSet(LAMBDA n, u : Removed(u, n), t, ns)

(* remove_window, of each of some windows, from every layout. *)
RemoveWindows(t, ws) ==
  LET ofOne(u, w) == AllRemoved(u, {n \in DOMAIN u.win : u.win[n] = w})
  IN FoldLeft(ofOne, t, SetToSortSeq(ws, <))

(* set_windows_for_app, for the windows of an app: those to be in the      *)
(* layout are added to its root, the others removed, in order of their     *)
(* ids; of a window that is there twice one node is kept.                  *)
SetWindows(t, l, app, wanted) ==
  LET root == t.root[l]
      nodesOf(u, w) == {n \in Range(WindowsIn(u, root)) : u.win[n] = w}
      one(u, w) ==
        LET ns == nodesOf(u, w)
        IN IF w \in wanted /\ ns = {} THEN AddWindowUnder(u, root, w)
           ELSE AllRemoved(u, IF w \in wanted THEN ns \ {Min(ns)} ELSE ns)
  IN FoldLeft(one, t, SetToSortSeq(app, <))

(* reorder_columns_by_position, with the x position of each window. *)
ReorderColumns(t, l, x) ==
  LET root == t.root[l]
      xOf(n) == x[t.win[WindowsIn(t, n)[1]]]
  IN IF \E n \in Range(t.kids[root]) : WindowsIn(t, n) = << >> THEN t
     ELSE [t EXCEPT !.kids[root] = SortSeq(@, LAMBDA m, n : xOf(m) < xOf(n))]

(* The weights go with the windows; the totals of the parents stay. *)
SwapWindows(t, a, b) ==
  [t EXCEPT !.win[a] = t.win[b], !.win[b] = t.win[a],
            !.info[a].size = t.info[b].size, !.info[b].size = t.info[a].size]

-----------------------------------------------------------------------------
(* Containers. *)

(* nest_in_container; what it returns is the parent of n afterwards. *)
Nested(t, l, n, k) ==
  LET new == Fresh(t)
      atRoot == LET u == [Made(t) EXCEPT !.root[l] = new]
                IN Entered(Linked(u, n, LastUnder(new)), n)
      inside == LET u == AssumeSize(Added(t, Before(n)), new, n)
                    v == Moved(u, n, LastUnder(new))
                IN SelectLocally(v, IF IsLocalSelection(t, n) THEN {new} ELSE {})
      OfKind(u) == SetKind(u, Parent(u, n), k)
  IN OfKind(IF IsRoot(t, n) THEN SelectLocally(atRoot, {n})
            ELSE IF t.kids[Parent(t, n)] = <<n>> THEN t
            ELSE SelectLocally(inside, {n}))

(* The selection follows a node that moved from under a container. *)
SelectPath(t, n, from) ==
  LET up == Ancestors(t, n)
      way == SelectSeq(up, LAMBDA m : m # from /\ ~\E i \in 1..Position(up, m) : up[i] = from)
  IN SelectLocally(t, Range(way))
SelectMoved(t, u, n) == IF IsLocalSelection(t, n) THEN SelectPath(u, n, Parent(t, n)) ELSE u

(* move_node_after and move_node_before: d is beside the sibling, or       *)
(* under it if it is a root.                                               *)
MoveNodeTo(t, n, d) ==
  IF IsRoot(t, n) THEN t ELSE SelectMoved(t, Moved(t, n, d), n)
MoveNodeAfter(t, sib, n) == MoveNodeTo(t, n, IF IsRoot(t, sib) THEN LastUnder(sib) ELSE After(sib))
MoveNodeBefore(t, sib, n) == MoveNodeTo(t, n, IF IsRoot(t, sib) THEN FirstUnder(sib) ELSE Before(sib))

MoveOver(t, n, d) ==
  IF IsRoot(t, n) \/ OrientationOf(t.info[Parent(t, n)].kind) # Along(d) THEN NoNode
  ELSE IF Forward(d) THEN NextSibling(t, n) ELSE PrevSibling(t, n)

(* Down into a sibling, to the first node beside which to move along d. *)
RECURSIVE Landing(_, _, _)
Landing(t, n, d) ==
  IF t.kids[n] = << >> THEN n
  ELSE IF OrientationOf(t.info[n].kind) = Along(d) THEN Towards(t, n)
  ELSE Landing(t, Towards(t, n), d)

Ahead(n, d) == IF Forward(d) THEN After(n) ELSE Before(n)
Behind(n, d) == IF Forward(d) THEN Before(n) ELSE After(n)

(* Whether move_node can move n; if not, n is at the edge of its layout.   *)
Outward(t, n, d) ==
  First(Tail(Ancestors(t, n)),
        LAMBDA m : ~IsRoot(t, m) /\ OrientationOf(t.info[Parent(t, m)].kind) = Along(d))
CanMove(t, l, n, d) ==
  /\ ~IsRoot(t, n)
  /\ \/ MoveOver(t, n, d) # NoNode
     \/ Outward(t, n, d) # NoNode
     \/ OrientationOf(t.info[t.root[l]].kind) # Along(d)

(* move_node: past a sibling or into it; else out of its container; else   *)
(* beside all there is, in a new root.                                     *)
MoveNode(t, l, n, d) ==
  LET sib == MoveOver(t, n, d)
      land == Landing(t, sib, d)
      out == Outward(t, n, d)
      top == t.root[l]
      place == IF sib = NoNode THEN Ahead(Or(out, top), d)
               ELSE IF land = sib THEN Ahead(sib, d) ELSE Behind(land, d)
      u == IF sib = NoNode /\ out = NoNode THEN Nested(t, l, top, Along(d)) ELSE t
  IN SelectMoved(t, Moved(u, n, place), n)

-----------------------------------------------------------------------------
(* Focus and size. *)

RECURSIVE Descend(_, _, _)
Descend(t, n, d) ==
  IF n = NoNode \/ t.kids[n] = << >> THEN n
  ELSE Descend(t, IF OrientationOf(t.info[n].kind) # Along(d) THEN Towards(t, n)
                  ELSE IF Forward(d) THEN t.kids[n][1] ELSE Last(t.kids[n]), d)

(* traverse *)
Traverse(t, n, d) ==
  LET m == First(Ancestors(t, n), LAMBDA a : MoveOver(t, a, d) # NoNode)
  IN IF m = NoNode THEN NoNode ELSE Descend(t, MoveOver(t, m, d), d)

(* focus_next and focus_prev, with k = 1 and k = -1. *)
FocusBy(t, l, k) ==
  LET order == WindowsIn(t, t.root[l])
      n == Selection(t, l)
      i == IF n \in Range(order) THEN Position(order, n) - 1
           ELSE IF k = 1 THEN -1 ELSE 0
  IN IF order = << >> THEN NoNode ELSE order[((i + k) % Len(order)) + 1]

(* select_returning_surfaced_windows *)
Surface(t, n) == SelectLocally(t, Range(Ancestors(t, n)))

(* resize, where delta is the share taken of what lies in direction d. *)
Resized(t, n, d, delta) ==
  LET m == First(Ancestors(t, n), LAMBDA a : MoveOver(t, a, d) # NoNode /\
                                             ~IsGroup(t.info[Parent(t, a)].kind))
      from == MoveOver(t, m, d)
      most == IF delta < t.info[from].size THEN delta ELSE t.info[from].size
      share == IF most > -t.info[m].size THEN most ELSE -t.info[m].size
  IN IF m = NoNode THEN t
     ELSE [t EXCEPT !.info[from].size = @ - share, !.info[m].size = @ + share]

(* reset_weights *)
WeightsReset(t, l) ==
  LET below == Range(Tail(Preorder(t, t.root[l]))) IN
  [t EXCEPT !.info = [n \in Nodes(t) |->
     [t.info[n] EXCEPT !.size = IF n \in below THEN Unit ELSE @,
                       !.total = @ + MapThenSumSet(LAMBDA m : Unit - t.info[m].size,
                                                   Range(t.kids[n]) \cap below)]]]

=============================================================================
