---------------------------- MODULE MCMainWindow ----------------------------
(* A small instance of MainWindow: one app with two windows, one with one. *)
EXTENDS MainWindow

CONSTANTS a1, a2, w1, w2, w3

MCApp == {a1, a2}
MCWindow == {w1, w2, w3}
MCOwner == [w \in MCWindow |-> IF w = w3 THEN a2 ELSE a1]
MCNonStandard == {w2}
=============================================================================
