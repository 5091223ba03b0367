--------------------------- MODULE MCReservation ---------------------------
(***************************************************************************)
(* Three phy modes: a frame takes two slots in the first and second, in    *)
(* the third one.                                                          *)
(***************************************************************************)
EXTENDS Reservation

MCFTDuration == <<7, 5, 3>>
=============================================================================
