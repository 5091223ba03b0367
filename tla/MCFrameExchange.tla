---------------------------- MODULE MCFrameExchange ----------------------------
(***************************************************************************)
(* FrameExchange for TLC: three stations in a row, so that the two at the  *)
(* ends do not hear each other. Both ends send one compound to the station *)
(* in the middle, which sends two to one of them.                          *)
(***************************************************************************)
EXTENDS FrameExchange

Row == [s \in Stations |-> {r \in Stations : r = s + 1 \/ s = r + 1}]
MCTraffic == [l \in Links |-> IF l = <<2, 3>> THEN 2
                              ELSE IF l \in {<<1, 2>>, <<3, 2>>} THEN 1 ELSE 0]
=============================================================================
