------------------------------ MODULE MCScroll ------------------------------
(* A screen on which two columns are seen at once, with three windows: in  *)
(* columns of their own, or the last two in one column.                    *)
EXTENDS Scroll

MCScreen == Rect(0, 0, 60, 40)

Empty == [kids |-> << >>, info |-> << >>, sel |-> << >>, win |-> << >>, root |-> << >>,
          lock |-> << >>, least |-> << >>, scroll |-> {1}]
One == InColumn(CreatedLayout(Empty, 1), LastUnder(1), 1)
Two == InColumn(One, LastUnder(1), 2)
Three == InColumn(Two, LastUnder(1), 3)
Beside == WindowPut(Two, After(Node(Two, 2)), 3)
MCStarts ==
  {[forest |-> Select(Three, Node(Three, 1)),
    config |-> [center |-> "on_overflow", wraps |-> FALSE, newColumn |-> TRUE]],
   [forest |-> Select(Beside, Node(Beside, 2)),
    config |-> [center |-> "always", wraps |-> TRUE, newColumn |-> FALSE]]}

MCDeltas == {-20, 45}
MCPresets == <<20, 30, 40, 60>>
MCFirstSeen == (1 :> 30) @@ (2 :> 0) @@ (3 :> 45)
MCPoints == {[x |-> 15, y |-> 10], [x |-> 30, y |-> 10], [x |-> 45, y |-> 10], [x |-> 40, y |-> 30]}

=============================================================================
