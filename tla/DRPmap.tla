------------------------------- MODULE DRPmap -------------------------------
(***************************************************************************)
(* What a station knows of the slots of the superframe (drp/DRPmap.cpp),   *)
(* as operators on a record m:                                             *)
(*   hard, soft    reserved slots; slots of own proposals                  *)
(*   pending       proposals overheard, one per link                       *)
(* The code keeps a deque of the maps of the last mMaxLostBeacons          *)
(* superframes and the union of them; here each entry has the number of    *)
(* beacon periods it is still seen for, 0: not any more.  An entry is      *)
(* in the union until it is in none of the maps when a beacon period       *)
(* begins: Fresh periods after it was received.  The slots of the beacon   *)
(* period, put into every new map, are left out of Slots.                  *)
(***************************************************************************)
EXTENDS Integers

CONSTANTS
    Slots,              \* the medium access slots after the beacon period
    Links,              \* <<owner, target>> of every connection
    MaxLostBeacons

ASSUME SlotsAssumption == MaxLostBeacons \in Nat \ {0}

Fresh == MaxLostBeacons + 1     \* received since this beacon period began

NoPending == [map |-> {}, left |-> 0]

InitialMap ==
    [hard |-> [s \in Slots |-> 0],
     soft |-> [s \in Slots |-> 0],
     pending |-> [l \in Links |-> NoPending]]

Refreshed(ages, map) == [s \in Slots |-> IF s \in map THEN Fresh ELSE ages[s]]
Older(age) == IF age = 0 THEN 0 ELSE age - 1
Seen(ages) == {s \in Slots : ages[s] > 0}

UpdateHardDRPmap(m, map) == [m EXCEPT !.hard = Refreshed(@, map)]
UpdateSoftDRPmap(m, map) == [m EXCEPT !.soft = Refreshed(@, map)]

\* A proposal that differs from the earlier ones replaces them.
UpdatePendingDRPMap(m, l, map) ==
    [m EXCEPT !.pending[l] = [map |-> map, left |-> Fresh]]

ReleasePendingDRPMap(m, l) == [m EXCEPT !.pending[l] = NoPending]

onBPStarted(m) ==
    [hard |-> [s \in Slots |-> Older(m.hard[s])],
     soft |-> [s \in Slots |-> Older(m.soft[s])],
     pending |-> [l \in Links |->
                    IF m.pending[l].left <= 1 THEN NoPending
                    ELSE [m.pending[l] EXCEPT !.left = Older(@)]]]

GetPendingDRPmap(m) == UNION {m.pending[l].map : l \in Links}

GetGlobalPattern(m) == Seen(m.hard) \cup Seen(m.soft) \cup GetPendingDRPmap(m)

PossiblePattern(m, map) == map \cap GetGlobalPattern(m) = {}
=============================================================================
