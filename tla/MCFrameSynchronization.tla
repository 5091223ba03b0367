----------------------- MODULE MCFrameSynchronization -----------------------
(***************************************************************************)
(* FrameSynchronization for TLC.  The ratios 0 .. 4 lie in the five        *)
(* intervals between the thresholds: not detected, detected, and above the *)
(* thresholds of the idle, of the synchronized and of the garbled receiver.*)
(***************************************************************************)
EXTENDS FrameSynchronization
=============================================================================
