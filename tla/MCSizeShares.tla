---------------------------- MODULE MCSizeShares ----------------------------
(* Three windows on a small screen: side by side, the last two over each   *)
(* other, or the last two in a group.                                      *)
EXTENDS SizeShares

MCScreen == Rect(0, 0, 62, 41)
MCNoFrame == Rect(0, 0, 0, 0)

Empty == [kids |-> << >>, info |-> << >>, sel |-> << >>, win |-> << >>, root |-> << >>,
          lock |-> << >>, least |-> << >>, scroll |-> {}]
Row == FoldLeft(LAMBDA u, w : AddWindowUnder(u, u.root[1], w), CreatedLayout(Empty, 1), <<1, 2, 3>>)
Beside(k) ==
  LET two == FoldLeft(LAMBDA u, w : AddWindowUnder(u, u.root[1], w), CreatedLayout(Empty, 1), <<1, 2>>)
      nested == Nested(two, 1, WindowNode(two, 1, 2), k)
  IN AddWindowAfter(nested, WindowNode(nested, 1, 2), 3)
MCShapes == {Row, Beside("vertical"), Beside("tabbed")}

Small == [w |-> 1, h |-> 1]
Modest == (1 :> Small) @@ (2 :> Small) @@ (3 :> Small)
MCNatures == {[accepts |-> Modest, home |-> << >>],
              [accepts |-> [Modest EXCEPT ![2] = [w |-> 34, h |-> 24]], home |-> << >>],
              [accepts |-> Modest, home |-> 3 :> Rect(30, 1, 19, 39)]}

=============================================================================
