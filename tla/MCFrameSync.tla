---------------------------- MODULE MCFrameSync -----------------------------
(* Small instances of FrameSync. *)
EXTENDS FrameSync
CONSTANTS w1, w2
MCLayouts == 0..1
=============================================================================
