------------------------------- MODULE MCDrag -------------------------------
(* Three windows in a row, or the last two over each other, in two layouts *)
(* of the space.                                                           *)
EXTENDS Drag

MCScreen == Rect(0, 0, 62, 41)

Empty == [kids |-> << >>, info |-> << >>, sel |-> << >>, win |-> << >>, root |-> << >>,
          lock |-> << >>, least |-> << >>, scroll |-> {}]
Row(u, l) == FoldLeft(LAMBDA v, w : AddWindowUnder(v, v.root[l], w), CreatedLayout(u, l), <<1, 2, 3>>)
Column(u, l) ==
  LET two == FoldLeft(LAMBDA v, w : AddWindowUnder(v, v.root[l], w), CreatedLayout(u, l), <<1, 2>>)
      nested == Nested(two, l, WindowNode(two, l, 2), "vertical")
  IN AddWindowAfter(nested, WindowNode(nested, l, 2), 3)
MCShapes == {Row(Empty, 1), Row(Column(Empty, 1), 2)}

MCPoints == {[x |-> 10, y |-> 10], [x |-> 31, y |-> 10], [x |-> 59, y |-> 35], [x |-> 38, y |-> 36]}
MCMinimum == [w |-> 24, h |-> 3]
=============================================================================
