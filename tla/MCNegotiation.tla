--------------------------- MODULE MCNegotiation ---------------------------
(***************************************************************************)
(* Four stations: two links have the same target, station 3 is the owner   *)
(* of one and the target of another, and two have no station in common.    *)
(***************************************************************************)
EXTENDS Negotiation

MCLinks == {<<1, 2>>, <<3, 2>>, <<4, 3>>}
=============================================================================
