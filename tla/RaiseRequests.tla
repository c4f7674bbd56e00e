--------------------------- MODULE RaiseRequests ----------------------------
(***************************************************************************)
(* How the Reactor turns a response of the layout manager into a raise     *)
(* request (handle_layout_response_with_context in src/actor/reactor.rs):  *)
(* windows of spaces that are not shown are left out, a request that would *)
(* change nothing is not made, and the windows are grouped by app and      *)
(* space.  A response has the windows to raise, in order, and the window   *)
(* to focus.                                                               *)
(*                                                                         *)
(* A state r of the Reactor has the space of each screen, how much each    *)
(* window overlaps each screen and which screen has its middle, the space  *)
(* each window was assigned to, if it was, the apps it knows, the windows  *)
(* that have an id of the window server and are on layer zero, and the     *)
(* main window.  Of the layout manager it has, for each space, the tiled   *)
(* windows, those of them that can be seen, the selected one and the       *)
(* floating ones, and whether the focus is on a floating window and which  *)
(* one last had it.                                                        *)
(***************************************************************************)
EXTENDS RaiseManager, SequencesExt

CONSTANT NoSpace   \* a screen whose space is not managed

Known(r) == DOMAIN r.overlap
NoResponse == [raise |-> << >>, focus |-> NoWindow]

(* The screen a window overlaps most, the last of several; one without     *)
(* area is on the screen with its middle.  0 if there is none.             *)
BestScreen(r, w) ==
  LET on == {i \in DOMAIN r.screens : r.overlap[w][i] > 0}
      most == {i \in on : \A j \in on : r.overlap[w][j] <= r.overlap[w][i]}
  IN IF on = {} THEN r.middle[w] ELSE CHOOSE i \in most : \A j \in most : j <= i

BestSpace(r, w) ==
  LET i == BestScreen(r, w) IN IF i = 0 THEN NoSpace ELSE r.screens[i]

-----------------------------------------------------------------------------
(* Two responses of the layout manager.                                    *)

(* One of the windows is focused if none is given. *)
WithFocus(ws, w) ==
  IF w # NoWindow \/ ws = << >> THEN [raise |-> ws, focus |-> w]
  ELSE [raise |-> Front(ws), focus |-> Last(ws)]

(* ToggleFocusFloating: the focus goes to the tiled windows of a space, or  *)
(* to the floating ones.                                                   *)
ToggleFocusFloating(r, s) ==
  IF r.floatingFocused THEN WithFocus(r.visible[s], r.selected[s])
  ELSE WithFocus(SelectSeq(r.floats[s], LAMBDA w : w # r.lastFloating), r.lastFloating)

(* The focus follows the mouse between tiled windows that can be seen. *)
FollowMouse(r, cur, new) ==
  IF cur \in r.tiled[BestSpace(r, cur)] /\ new \in ToSet(r.visible[BestSpace(r, new)])
  THEN [raise |-> << >>, focus |-> new] ELSE NoResponse

(* The mouse is over a window.  The app that is known to have the keyboard, *)
(* if there is one, may be another than the active one; it is not taken    *)
(* from it.                                                                *)
MouseMovedOverWindow(r, w, keyFocus) ==
  IF /\ w \in Known(r) /\ BestSpace(r, w) # NoSpace
     /\ r.main \in Known(r) /\ BestSpace(r, r.main) # NoSpace
     /\ keyFocus \subseteq {Owner[r.main]}
  THEN FollowMouse(r, r.main, w) ELSE NoResponse

-----------------------------------------------------------------------------
(* What becomes of a response.                                             *)

(* Windows the order of the window server is compared for. *)
Comparable(r, w) ==
  /\ w \in r.layerZero
  /\ \E i \in DOMAIN r.screens : r.screens[i] # NoSpace /\ r.overlap[w][i] > 0

(* The first n of an order that are compared. *)
OnTop(r, order, n) ==
  LET compared == SelectSeq(order, LAMBDA w : Comparable(r, w))
  IN {compared[i] : i \in DOMAIN compared \cap 1..n}

(* filter_response: nothing is left of a response whose windows are on top *)
(* already; a window to focus must be the very top one.                    *)
Filtered(r, response, order) ==
  LET desired == ToSet(response.raise) \cap r.numbered
      focused == response.focus # NoWindow
      rest    == IF focused THEN Tail(order) ELSE order
  IN IF /\ focused => order # << >> /\ Head(order) = response.focus
        /\ OnTop(r, rest, Cardinality(desired)) = desired
     THEN NoResponse ELSE response

(* Windows of a space that is not shown would switch the user back to it.  *)
Shown(r, w) == w \in DOMAIN r.assigned => \E i \in DOMAIN r.screens : r.screens[i] = r.assigned[w]

(* Windows the Reactor does not know are not raised, but may be focused.   *)
Group(r, w) == <<Owner[w], BestSpace(r, w)>>

Batches(r, ws) ==
  LET known == SelectSeq(ws, LAMBDA w : w \in Known(r))
  IN {SelectSeq(known, LAMBDA v : Group(r, v) = Group(r, w)) : w \in ToSet(known)}

(* The requests made for a response: one or none.  The mouse follows the   *)
(* focus unless it was the mouse that moved it.                            *)
RequestFor(r, response, follows, fromMouse) ==
  LET ws == SelectSeq(response.raise, LAMBDA w : Shown(r, w))
      focus == IF response.focus # NoWindow /\ Shown(r, response.focus)
               THEN response.focus ELSE NoWindow
  IN IF ws = << >> /\ focus = NoWindow THEN {}
     ELSE {[raise |-> Batches(r, ws), focus |-> focus,
            warp |-> follows /\ ~fromMouse /\ focus \in Known(r),
            handles |-> {Owner[w] : w \in (ToSet(ws) \cup {focus}) \ {NoWindow}} \cap r.apps]}
=============================================================================
