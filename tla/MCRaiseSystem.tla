--------------------------- MODULE MCRaiseSystem ----------------------------
(* A small instance of RaiseSystem: two apps with three windows on the one  *)
(* space that is shown, and a fourth on another.                            *)
EXTENDS RaiseSystem, RaiseRequests

CONSTANTS a1, a2, w1, w2, w3, w4, s1, s2

MCApp == {a1, a2}
MCWindow == {w1, w2, w3}
MCOwner == [w \in MCWindow |-> IF w = w3 THEN a2 ELSE a1]

(* w4 is still in the layout that is shown, but was assigned to another space. *)
MCAll == MCWindow \cup {w4}
MCReactor ==
  [screens |-> <<s1>>, overlap |-> [w \in MCAll |-> <<IF w = w4 THEN 0 ELSE 1>>],
   middle |-> [w \in MCAll |-> 0], assigned |-> [w \in {w1, w4} |-> IF w = w4 THEN s2 ELSE s1],
   apps |-> MCApp, numbered |-> MCAll, layerZero |-> MCAll, main |-> w1,
   tiled |-> (s1 :> MCAll), visible |-> (s1 :> <<w1, w4, w2, w3>>), selected |-> (s1 :> w1),
   floats |-> (s1 :> << >>), lastFloating |-> NoWindow, floatingFocused |-> TRUE]

(* A command brings up all the tiled windows of both apps, or windows that  *)
(* are on top already; or the mouse takes the focus to the other app.       *)
MCCommanded ==
  { ToggleFocusFloating(MCReactor, s1),
    Filtered(MCReactor, [raise |-> <<w2>>, focus |-> w1], <<w1, w2, w3>>) }
MCMoved == { MouseMovedOverWindow(MCReactor, w3, {}) }

MCRequests ==
  { [raise |-> {<<w1, w2>>, <<w3>>}, focus |-> w1, warp |-> TRUE, handles |-> MCApp],
    [raise |-> {}, focus |-> w3, warp |-> FALSE, handles |-> {a2}] }

(* They are what the Reactor makes of these. *)
ASSUME MCRequestsAreMade ==
  MCRequests = UNION ({RequestFor(MCReactor, p, TRUE, FALSE) : p \in MCCommanded}
                      \cup {RequestFor(MCReactor, p, TRUE, TRUE) : p \in MCMoved})
=============================================================================
