--------------------------- MODULE MCDRPScheduler ---------------------------
(***************************************************************************)
(* DRPScheduler for TLC: two receivers, three compounds, two of them for   *)
(* the same receiver and of different lengths.  The times are such that a  *)
(* long gap holds a TXOP of two frames, a short gap and a reservation one  *)
(* frame and the beginning of its retransmission.                          *)
(***************************************************************************)
EXTENDS DRPScheduler

CONSTANTS c1, c2, c3

\* As configured by default; with drops, reserved access only and both.
Default == [usePCAchannelAccess |-> TRUE, isDroppingAfterRetr |-> -1]
Drops == [usePCAchannelAccess |-> FALSE, isDroppingAfterRetr |-> 1]
NoRetransmission == [usePCAchannelAccess |-> TRUE, isDroppingAfterRetr |-> 0]

TwoConfigs == {Default, Drops}
OneConfig == {NoRetransmission}

MCDest == [c \in Compounds |-> IF c = c3 THEN 2 ELSE 1]
MCFT == [c \in Compounds |-> IF c = c2 THEN 14 ELSE 10]
=============================================================================
