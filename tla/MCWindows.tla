----------------------------- MODULE MCWindows -----------------------------
(* A small instance of Windows: an app with two windows and one with one.  *)
EXTENDS Windows

CONSTANTS a1, a2, w1, w2, w3

MCApp == {a1, a2}
MCWindow == {w1, w2, w3}
MCOwner == [w \in MCWindow |-> IF w = w3 THEN a2 ELSE a1]
MCBegun == {w1, w3}
=============================================================================
