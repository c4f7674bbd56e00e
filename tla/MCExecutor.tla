----------------------------- MODULE MCExecutor -----------------------------
(* The thread of the reactor, with the raise manager it sends to. *)
EXTENDS Executor

MCForwards == {<<"reactor", "raise">>}
=============================================================================
