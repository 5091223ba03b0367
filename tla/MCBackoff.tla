------------------------------ MODULE MCBackoff ------------------------------
(***************************************************************************)
(* Backoff for TLC: a window of 1 to 3 slots and an EIFS longer than the   *)
(* AIFS, so that draws, doubled windows and both interframe spaces occur.  *)
(***************************************************************************)
EXTENDS Backoff
=============================================================================
