---------------------------- MODULE MCConvergence ----------------------------
(***************************************************************************)
(* Convergence for TLC.  The ratios 1 .. 3 lie in the intervals between    *)
(* the thresholds: detected, and above those of the idle and of the        *)
(* synchronized receiver.  A frame of two ticks leaves time for another    *)
(* one to begin within it; a rest of 0 is below, one of 2 above SIFS.      *)
(***************************************************************************)
EXTENDS Convergence
=============================================================================
