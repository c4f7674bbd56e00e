------------------------------ MODULE MCSpaces ------------------------------
(* A small instance of Spaces: a display with two spaces and one with one,  *)
(* either or both of which may be connected.                                *)
EXTENDS Spaces

CONSTANTS d1, d2, s1, s2, s3

MCDisplay == {d1, d2}
MCSpace == {s1, s2, s3}
MCSpacesOf == [d \in MCDisplay |-> IF d = d1 THEN {s1, s2} ELSE {s3}]
MCArrangements == {<<d1>>, <<d2>>, <<d1, d2>>}
MCCommands == {"focus", "toggleSpace", "toggleGlobal", "enable", "disable", "login",
               "loginExit", "expose", "exposeExit", "reload", "flip"}
=============================================================================
