------------------------------- MODULE Sizes -------------------------------
(***************************************************************************)
(* From a layout tree to frames (src/model/size.rs, scroll_constraints.rs) *)
(* and back: locks on the share of the area a window has, the least sizes  *)
(* apps were seen to insist on, and what a resize does to the weights      *)
(* (src/model/layout_tree.rs).                                             *)
(*                                                                         *)
(* A forest t has, besides the fields of LayoutTree,                       *)
(*   lock    on some windows: the share it is frozen at                    *)
(*   least   on some windows: the least width and height                   *)
(*   scroll  the layouts that scroll                                       *)
(* The code computes with floating point numbers.  Here weights and shares *)
(* are whole numbers of 1/Unit, and lengths whole pixels: the code rounds  *)
(* every frame to pixels once it has placed it.                            *)
(***************************************************************************)
EXTENDS LayoutTree

CONSTANTS
  Screen,      \* the frame of the screen
  Gap,         \* inner_gap
  OuterGap,    \* outer_gap
  Bar,         \* the thickness of group bars, 0 if there are none
  Aspect,      \* the width of an only column in percent of its height, or 0
  MinColumn    \* MIN_WINDOW_SIZE in a layout that scrolls

ASSUME SizesAssumption ==
  /\ {Gap, OuterGap, Bar, Aspect} \subseteq Nat /\ MinColumn \in Nat \ {0}
  /\ Screen \in [x : Nat, y : Nat, w : Nat \ {0}, h : Nat \ {0}]

Least(a, b) == IF a < b THEN a ELSE b
Most(a, b) == IF a < b THEN b ELSE a

(* The sum, and the largest, of the first n of a sequence. *)
RECURSIVE SumTo(_, _), MostTo(_, _)
SumTo(s, n) == IF n = 0 THEN 0 ELSE s[n] + SumTo(s, n - 1)
MostTo(s, n) == IF n = 0 THEN 0 ELSE Most(s[n], MostTo(s, n - 1))
Total(s) == SumTo(s, Len(s))

(* The nearest whole number to a/c. *)
RDiv(a, c) == (2 * a + c) \div (2 * c)

Rect(x, y, w, h) == [x |-> x, y |-> y, w |-> w, h |-> h]
Inset(r, k) == Rect(r.x + k, r.y + k, r.w - 2 * k, r.h - 2 * k)
Right(r) == r.x + r.w
Bottom(r) == r.y + r.h
Extent(r, o) == IF o = "horizontal" THEN r.w ELSE r.h
AsLarge(outer, inner) == outer.w >= inner.w /\ outer.h >= inner.h
Tiled == Inset(Screen, OuterGap)

-----------------------------------------------------------------------------
(* solve_sizes: how a length is shared.                                    *)

(* A bug: what is short is given its minimum, and the others what they had. *)
AtMinimumOnce(ws, mins, usable, done) == {}

(* Those that get their minimum, as their share would be less: one at a    *)
(* time, the first each time, as it leaves less to the others.             *)
RECURSIVE AtMinimum(_, _, _, _)
AtMinimum(ws, mins, usable, done) ==
  LET open == DOMAIN ws \ done
      rest == usable - Total([i \in DOMAIN ws |-> IF i \in done THEN mins[i] ELSE 0])
      all == Total([i \in DOMAIN ws |-> IF i \in open THEN ws[i] ELSE 0])
      short == {i \in open : rest * ws[i] < mins[i] * all}
  IN IF short = {} THEN done ELSE AtMinimum(ws, mins, usable, done \cup {Min(short)})

Usable(room, count) == room - Gap * Most(count - 1, 0)

(* most limits an only child; the code limits no other. *)
SolveSizes(weights, mins, room, most) ==
  LET n == Len(weights)
      usable == Usable(room, n)
      ws == [i \in 1..n |-> Most(weights[i], Unit \div 10)]
      fixed == AtMinimum(ws, mins, usable, {})
      rest == usable - Total([i \in 1..n |-> IF i \in fixed THEN mins[i] ELSE 0])
      all == Total([i \in 1..n |-> IF i \in fixed THEN 0 ELSE ws[i]])
      cramped == usable <= 0 \/ usable < Total(mins)
      Share(i) == IF cramped THEN Most(RDiv(Most(usable, 0) * ws[i], Total(ws)), mins[i])
                  ELSE IF i \in fixed THEN mins[i]
                  ELSE IF most = 0 THEN RDiv(rest * ws[i], all)
                  ELSE Least(RDiv(rest * ws[i], all), Most(most, mins[i]))
  IN [i \in 1..n |-> Most(Share(i), 1)]

(* min_extent: the least that a node can do with. *)
RECURSIVE MinExtent(_, _, _)
MinExtent(t, n, o) ==
  LET each == [i \in DOMAIN t.kids[n] |-> MinExtent(t, t.kids[n][i], o)]
      most == MostTo(each, Len(each))
      along == OrientationOf(t.info[n].kind) = o
      w == t.win[n]
  IN IF t.info[n].full THEN 0
     ELSE IF n \in DOMAIN t.win
          THEN IF w \in DOMAIN t.least THEN Extent(t.least[w], o) ELSE 0
     ELSE IF each = << >> THEN 0
     ELSE IF IsGroup(t.info[n].kind) /\ ~along THEN most + Bar
     ELSE IF ~IsGroup(t.info[n].kind) /\ along THEN Total(each) + Gap * (Len(each) - 1)
     ELSE most

(* note_min_size, relax_min_size *)
NoteMinSize(t, w, s) ==
  LET old == IF w \in DOMAIN t.least THEN t.least[w] ELSE [w |-> 0, h |-> 0] IN
  [t EXCEPT !.least = (w :> [w |-> Most(old.w, s.w), h |-> Most(old.h, s.h)]) @@ @]
RelaxMinSize(t, w, s) ==
  IF w \notin DOMAIN t.least THEN t
  ELSE [t EXCEPT !.least[w] = [w |-> Least(@.w, s.w), h |-> Least(@.h, s.h)]]

-----------------------------------------------------------------------------
(* Size locks.  An estate is what has a rectangle of its own: a window or  *)
(* an outermost group.                                                     *)

IsEstateUnit(t, n) == n \in DOMAIN t.win \/ IsGroup(t.info[n].kind)

EstateNode(t, n) ==
  LET groups == SelectSeq(Ancestors(t, n), LAMBDA a : IsGroup(t.info[a].kind))
  IN IF groups = << >> THEN n ELSE Last(groups)

WindowsAt(t, n) == {t.win[m] : m \in Range(WindowsIn(t, n))}

(* The largest lock of its windows, or 0. *)
LockAt(t, n) ==
  LET locks == {t.lock[w] : w \in WindowsAt(t, n) \cap DOMAIN t.lock} IN
  IF locks = {} THEN 0 ELSE CHOOSE k \in locks : \A m \in locks : m <= k
EstateSizeLock(t, n) == LockAt(t, EstateNode(t, n))

(* Each with the share that its weights give it, and its lock. *)
RECURSIVE EstateUnits(_, _, _), UnitsTo(_, _, _, _)
UnitsTo(t, n, share, i) ==
  IF i = 0 THEN << >>
  ELSE UnitsTo(t, n, share, i - 1) \o
       EstateUnits(t, t.kids[n][i], IF t.info[n].total <= 0 THEN 0
                                    ELSE RDiv(share * t.info[t.kids[n][i]].size, t.info[n].total))
EstateUnits(t, n, share) ==
  IF IsEstateUnit(t, n) THEN <<[node |-> n, share |-> share, lock |-> LockAt(t, n)]>>
  ELSE UnitsTo(t, n, share, Len(t.kids[n]))

NoMasses == << >>

(* A bug: windows without a lock keep what their weights give them. *)
MassesUnshared(t, top) ==
  LET units == EstateUnits(t, top, Unit)
      n == Len(units)
      Mass(u) == IF u.lock # 0 THEN u.lock ELSE u.share
  IN IF \A i \in 1..n : units[i].lock = 0 THEN NoMasses
     ELSE [m \in {units[i].node : i \in 1..n} |->
             Mass(units[CHOOSE i \in 1..n : units[i].node = m])]

(* Locks give way if they leave the others less than a minimum; the others *)
(* share what is left by their weights.                                    *)
MassOfUnits(units) ==
  LET n == Len(units)
      open == Cardinality({i \in 1..n : units[i].lock = 0})
      held == Total([i \in 1..n |-> units[i].lock])
      shares == Total([i \in 1..n |-> IF units[i].lock = 0 THEN units[i].share ELSE 0])
      minimum == Least(Unit \div 10, Unit \div n) * open
      free == IF open = 0 THEN 0 ELSE Least(Most(Most(Unit - held, 0), minimum), Unit)
      Mass(u) == IF u.lock # 0 THEN Least(u.lock, RDiv((Unit - free) * u.lock, held))
                 ELSE IF shares = 0 THEN 0 ELSE RDiv(free * u.share, shares)
      IndexOf(m) == CHOOSE i \in 1..n : units[i].node = m
  IN IF held = 0 THEN NoMasses
     ELSE [m \in {units[i].node : i \in 1..n} |-> Mass(units[IndexOf(m)])]

(* masses: the share of the area that each estate is to have; none if      *)
(* there are no locks or the layout scrolls.                               *)
Masses(t, top) ==
  IF DOMAIN t.lock = {} \/ \E l \in t.scroll : t.root[l] = top THEN NoMasses
  ELSE MassOfUnits(EstateUnits(t, top, Unit))

MassTotal(t, ms, n) ==
  LET below == Preorder(t, n) IN
  Total([i \in DOMAIN below |-> IF below[i] \in DOMAIN ms THEN ms[below[i]] ELSE 0])
MassLocked(t, ms, n) ==
  LET below == Preorder(t, n)
      Held(m) == m \in DOMAIN ms /\ LockAt(t, m) # 0
  IN Total([i \in DOMAIN below |-> IF Held(below[i]) THEN ms[below[i]] ELSE 0])

-----------------------------------------------------------------------------
(* Frames.                                                                 *)

(* size_with_group_indicator, with bars at the top and at the left. *)
GroupFrame(r, k) ==
  IF k = "tabbed" THEN Rect(r.x, r.y + Bar, r.w, r.h - Bar)
  ELSE Rect(r.x + Bar, r.y, r.w - Bar, r.h)
IndicatorFrame(r, k) ==
  IF k = "tabbed" THEN Rect(r.x, r.y, r.w, Bar) ELSE Rect(r.x, r.y, Bar, r.h)

Weight(t, ms, n) == IF ms = NoMasses THEN t.info[n].size ELSE MassTotal(t, ms, n)

(* Parts of some sizes, one after the other along a frame. *)
InRow(r, o, sizes) ==
  LET From(i) == Total(SubSeq(sizes, 1, i - 1)) + Gap * (i - 1) IN
  [i \in DOMAIN sizes |->
     IF o = "horizontal" THEN Rect(r.x + From(i), r.y, sizes[i], r.h)
     ELSE Rect(r.x, r.y + From(i), r.w, sizes[i])]

(* How a split divides its frame. *)
Slots(t, ms, scrolls, n, r) ==
  LET o == OrientationOf(t.info[n].kind)
      weights == [i \in DOMAIN t.kids[n] |-> Weight(t, ms, t.kids[n][i])]
      mins == [i \in DOMAIN t.kids[n] |->
                 IF scrolls THEN MinColumn ELSE Most(MinExtent(t, t.kids[n][i], o), 1)]
      room == IF scrolls /\ o = "horizontal" THEN RDiv(Total(weights) * r.w, Unit) ELSE Extent(r, o)
      most == IF Len(weights) = 1 /\ o = "horizontal" THEN (r.h * Aspect) \div 100 ELSE 0
  IN InRow(r, o, SolveSizes(weights, mins, room, most))

(* visit_node: the frame of a node and of all nodes below it. *)
RECURSIVE VisitNode(_, _, _, _, _), VisitTo(_, _, _, _, _, _)
VisitTo(t, ms, scrolls, kids, slots, n) ==
  IF n = 0 THEN << >>
  ELSE VisitNode(t, ms, scrolls, kids[n], slots[n]) @@ VisitTo(t, ms, scrolls, kids, slots, n - 1)
VisitNode(t, ms, scrolls, n, slot) ==
  LET r == IF t.info[n].full THEN Tiled ELSE slot
      below == IF IsGroup(t.info[n].kind)
               THEN [i \in DOMAIN t.kids[n] |-> GroupFrame(r, t.info[n].kind)]
               ELSE Slots(t, ms, scrolls, n, r)
  IN (n :> r) @@ VisitTo(t, ms, scrolls, t.kids[n], below, Len(t.kids[n]))

(* visit: what locks leave unused stays empty. *)
FramesOf(t, top, ms) ==
  LET all == IF ms = NoMasses THEN Unit ELSE MassTotal(t, ms, top)
      slot == IF all >= Unit THEN Tiled
              ELSE IF OrientationOf(t.info[top].kind) = "horizontal"
              THEN [Tiled EXCEPT !.w = RDiv(@ * all, Unit)]
              ELSE [Tiled EXCEPT !.h = RDiv(@ * all, Unit)]
  IN VisitNode(t, ms, \E l \in t.scroll : t.root[l] = top, top, slot)
Frames(t, top) == FramesOf(t, top, Masses(t, top))

(* calculate_layout: the frames of the windows. *)
CalculateLayout(t, l) ==
  LET frames == Frames(t, t.root[l]) IN
  [w \in TiledIn(t, l) |-> frames[WindowNode(t, l, w)]]

(* The bars that are shown: of groups that no group hides. *)
RECURSIVE Indicators(_, _, _)
Indicators(t, n, frames) ==
  LET k == t.info[n].kind
      below == {c \in Range(t.kids[n]) : IsGroup(k) => c = LastSelection(t, n)}
  IN (IF IsGroup(k) THEN {IndicatorFrame(frames[n], k)} ELSE {})
     \cup UNION {Indicators(t, c, frames) : c \in below}

-----------------------------------------------------------------------------
(* Locking and resizing.                                                   *)

SetSize(t, n, s) ==
  IF IsRoot(t, n) THEN [t EXCEPT !.info[n].size = s]
  ELSE [t EXCEPT !.info[n].size = s, !.info[Parent(t, n)].total = @ + s - t.info[n].size]

(* bake_estate_share: the estate gets a share of its parent. *)
BakeEstateShare(t, n, share) ==
  LET p == Parent(t, n)
      target == RDiv(share * t.info[p].total, Unit)
      delta == target - t.info[n].size
      others == SelectSeq(t.kids[p], LAMBDA c : c # n)
      all == Total([i \in DOMAIN others |-> t.info[others[i]].size])
      Lighter(u, c) == SetSize(u, c, Most(t.info[c].size - RDiv(delta * t.info[c].size, all),
                                          Unit \div 10))
  IN IF IsRoot(t, n) \/ t.info[p].total <= 0 \/ delta = 0 THEN t
     ELSE IF others = << >> THEN SetSize(t, n, target)
     ELSE IF all <= 0 THEN t
     ELSE SetSize(FoldLeft(Lighter, t, others), n, target)

ClearEstateSizeLock(t, n) ==
  LET ws == WindowsAt(t, EstateNode(t, n)) IN
  [t EXCEPT !.lock = [w \in DOMAIN t.lock \ ws |-> t.lock[w]]]
ClearEstateSizeLockAndBake(t, n) ==
  LET lock == EstateSizeLock(t, n) IN
  ClearEstateSizeLock(IF lock = 0 THEN t ELSE BakeEstateShare(t, EstateNode(t, n), lock), n)

SetSizeLock(t, w, share) == [t EXCEPT !.lock = (w :> share) @@ @]

ClearFullscreenFor(t, n) ==
  [t EXCEPT !.info = [m \in Nodes(t) |-> IF m \in Range(Ancestors(t, n))
                                         THEN [t.info[m] EXCEPT !.full = FALSE] ELSE t.info[m]]]

(* Of its parent; 0 if it has none. *)
EstateShare(t, n) ==
  LET e == EstateNode(t, n) IN
  IF IsRoot(t, e) \/ t.info[Parent(t, e)].total <= 0 THEN 0
  ELSE RDiv(Unit * t.info[e].size, t.info[Parent(t, e)].total)

LockedShareTotal(t, l) ==
  MapThenSumSet(LAMBDA e : LockAt(t, e),
                {EstateNode(t, n) : n \in Range(WindowsIn(t, t.root[l]))})

IsScrollRoot(t, n) == \E l \in t.scroll : t.root[l] = n

(* resize_target: the node to resize, and the sibling that gives; a locked *)
(* sibling gives nothing.                                                  *)
CanResize(t, n, d) ==
  /\ MoveOver(t, n, d) # NoNode
  /\ ~IsGroup(t.info[Parent(t, n)].kind)
  /\ EstateSizeLock(t, MoveOver(t, n, d)) = 0
ResizeTarget(t, n, d) == First(Ancestors(t, n), LAMBDA a : CanResize(t, a, d))

(* take_share, or in a scrolling layout just a change of weight. *)
ApplyResize(t, n, d, delta) ==
  LET from == MoveOver(t, n, d)
      share == Most(Least(delta, t.info[from].size), -t.info[n].size)
  IN IF IsScrollRoot(t, Parent(t, n)) THEN SetSize(t, n, t.info[n].size + delta)
     ELSE [t EXCEPT !.info[from].size = @ - share, !.info[n].size = @ + share]

(* resize, by a part of the screen. *)
ResizeBy(t, n, d, ratio) ==
  LET Counts(a) == ~IsRoot(t, a) /\ OrientationOf(t.info[Parent(t, a)].kind) = Along(d)
                   /\ ~IsGroup(t.info[Parent(t, a)].kind)
      Enlarged(r, a) == RDiv(r * t.info[Parent(t, a)].total, t.info[a].size)
      Part(p) ==
        FoldLeft(Enlarged, IF IsScrollRoot(t, p) THEN ratio ELSE RDiv(ratio * t.info[p].total, Unit),
                 SelectSeq(Ancestors(t, p), Counts))
      Target(m) == IF m = NoNode THEN t ELSE ApplyResize(t, m, d, Part(Parent(t, m)))
  IN Target(ResizeTarget(t, n, d))

(* get_node_rect *)
NodeRect(t, top, n) == Frames(t, top)[n]

(* pixels_per_weight: the pixels that all the weight of a split is worth. *)
PixelsForTotal(t, p, r) ==
  LET extent == Extent(r, OrientationOf(t.info[p].kind))
      room == IF IsScrollRoot(t, p) THEN RDiv(t.info[p].total * extent, Unit) ELSE extent
  IN Usable(room, Len(t.kids[p]))

(* A bug: locks are not thought of. *)
ResizeByPixelsUnlocked(t, n, d, delta) ==
  LET m == ResizeTarget(t, n, d)
      p == Parent(t, m)
      usable == PixelsForTotal(t, p, NodeRect(t, Last(Ancestors(t, n)), p))
  IN IF m = NoNode THEN t ELSE ApplyResize(t, m, d, RDiv(delta * t.info[p].total, usable))

(* What pixels weigh where a split has usable ones, and with locks, what   *)
(* the weights that are not locked weigh.                                  *)
PixelWeight(t, ms, p, delta, usable) ==
  LET all == t.info[p].total
      plain == RDiv(delta * all, usable)
      mass == MassTotal(t, ms, p)
      free == mass - MassLocked(t, ms, p)
      Open(c) == MassTotal(t, ms, c) > MassLocked(t, ms, c)
      pool == Total([i \in DOMAIN t.kids[p] |->
                       IF Open(t.kids[p][i]) THEN t.info[t.kids[p][i]].size ELSE 0])
  IN IF ms = NoMasses \/ free <= 0 \/ pool <= 0 THEN plain
     ELSE RDiv(RDiv(plain * mass, free) * pool, all)

(* resize_by_pixels *)
ResizeByPixels(t, n, d, delta) ==
  LET top == Last(Ancestors(t, n))
      Weighed(m, p, usable) ==
        IF t.info[p].total <= 0 \/ usable <= 0 THEN t
        ELSE ApplyResize(t, m, d, PixelWeight(t, Masses(t, top), p, delta, usable))
      Inside(m, p) == Weighed(m, p, PixelsForTotal(t, p, NodeRect(t, top, p)))
      Target(m) == IF m = NoNode THEN t ELSE Inside(m, Parent(t, m))
  IN Target(ResizeTarget(t, n, d))

(* set_frame_from_resize: one edge or one corner. *)
SetFrameFromResize(t, n, old, new) ==
  LET by == [left |-> old.x - new.x, right |-> Right(new) - Right(old),
             up |-> old.y - new.y, down |-> Bottom(new) - Bottom(old)]
      Moves(u, d) == IF by[d] = 0 THEN u ELSE ResizeByPixels(u, n, d, by[d])
  IN IF 0 \notin {by.left, by.right} \/ 0 \notin {by.up, by.down} THEN t
     ELSE FoldLeft(Moves, t, <<"left", "right", "up", "down">>)

=============================================================================
