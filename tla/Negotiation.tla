---------------------------- MODULE Negotiation ----------------------------
(***************************************************************************)
(* The negotiation of reservations by beacons (management/BeaconBuilder    *)
(* and BeaconEvaluator).  The stations are numbered by their beacon slot;  *)
(* in each superframe every station wakes up in its slot, answers what it  *)
(* was asked, proposes what it misses and sends all this in one beacon,    *)
(* which each of the others receives or loses.  When the beacon period is  *)
(* over the owners register their reservations.                            *)
(*                                                                         *)
(* Traffic is measured in slots.  Where an assertion of the code fails the *)
(* model goes on as a build without assertions does; failed holds what     *)
(* happened in the last step.                                              *)
(***************************************************************************)
EXTENDS DRPmap, FiniteSets, FiniteSetsExt, Sequences

CONSTANTS
    NumStations,
    MaxDemand,          \* bound on the slots a connection asks for
    MaxTotal,           \* bound on the slots all of them ask for
    MaxLosses           \* bound on the receptions of beacons that fail

Stations == 1 .. NumStations

ASSUME LinksAssumption ==
    /\ NumStations \in Nat
    /\ Links \subseteq {l \in Stations \X Stations : l[1] # l[2]}

VARIABLES
    turn,               \* the next beacon slot; after the last: the end of the BP
    outgoing,           \* at the owner of a link
    incoming,           \* at its target
    map,                \* of each station
    availability,       \* beacons that will carry the availability IE
    bitmap,             \* of a link: slots its target told its owner are not free
    demand,
    registered,         \* what the owner of a link uses in this superframe
    losses,
    failed

INSTANCE DRPManager

vars == <<turn, outgoing, incoming, map, availability, bitmap, demand,
          registered, losses, failed>>

Owner(l) == l[1]
Target(l) == l[2]

TotalDemand == MapThenSumSet(LAMBDA l : demand[l], Links)

Missing(c, l) == demand[l] - Cardinality(c.alloc)

Init ==
    /\ turn = 1
    /\ outgoing = [l \in Links |-> NoManager]
    /\ incoming = [l \in Links |-> NoManager]
    /\ map = [s \in Stations |-> InitialMap]
    /\ availability = [s \in Stations |-> 0]
    /\ bitmap = [l \in Links |-> {}]
    /\ demand = [l \in Links |-> 0]
    /\ registered = [l \in Links |-> {}]
    /\ losses = 0
    /\ failed = {}

(***************************************************************************)
(* The traffic of a link becomes known, grows, or needs more slots because *)
(* the owner has lowered its phy mode.                                     *)
(***************************************************************************)
CreateDRPManager(l) ==
    /\ ~outgoing[l].known
    /\ TotalDemand < MaxTotal
    /\ outgoing' = [outgoing EXCEPT ![l] = NewManager("Accept", {})]
    /\ demand' = [demand EXCEPT ![l] = 1]
    /\ failed' = {}
    /\ UNCHANGED <<turn, incoming, map, availability, bitmap, registered, losses>>

UpdateDRPManager(l) ==
    /\ outgoing[l].known
    /\ demand[l] < MaxDemand
    /\ TotalDemand < MaxTotal
    /\ demand' = [demand EXCEPT ![l] = @ + 1]
    /\ failed' = {}
    /\ UNCHANGED <<turn, outgoing, incoming, map, availability, bitmap, registered,
                   losses>>

(***************************************************************************)
(* The stages of a wake-up, on x: the connections, and the map and the     *)
(* availability counter of the station.                                    *)
(***************************************************************************)
EvaluatePattern(m, c) ==
    IF c.status \/ c.reason = "Conflict" THEN c
    ELSE IF PossiblePattern(m, c.alloc)
    THEN [c EXCEPT !.status = TRUE, !.reason = "Accept"]
    ELSE [c EXCEPT !.reason = "Conflict"]

EvaluateMerge(m, c) ==
    IF ~HasPendingDRPMerge(c) \/ c.mergeStatus \/ c.mergeReason = "Conflict" THEN c
    ELSE IF PossiblePattern(m, c.merge)
    THEN [c EXCEPT !.mergeStatus = TRUE, !.mergeReason = "Accept"]
    ELSE [c EXCEPT !.mergeReason = "Conflict"]

ReservedSlots(c) ==
    (IF IsReserved(c) THEN c.alloc ELSE {})
        \cup (IF IsMergeReserved(c) THEN c.merge ELSE {})

FaultyEvaluateIncoming(x, l) ==     \* what was accepted is not put into the map
    LET c == x.incoming[l]
        d == EvaluateMerge(x.map, EvaluatePattern(x.map, c))
    IN  [x EXCEPT !.incoming[l] = AfterHasPending(d)]

EvaluateIncoming(x, l) ==
    LET c == x.incoming[l]
        d == EvaluateMerge(x.map, EvaluatePattern(x.map, c))
        conflict == \/ d.reason = "Conflict" /\ c.reason # "Conflict"
                    \/ d.mergeReason = "Conflict" /\ c.mergeReason # "Conflict"
    IN  [x EXCEPT !.incoming[l] = AfterHasPending(d),
                  !.map = UpdateHardDRPmap(@, ReservedSlots(d)),
                  !.availability = IF conflict THEN 3 ELSE @]

FaultyEvaluateOutgoing(c) == c      \* conflicts are not resolved

EvaluateOutgoing(c) ==
    LET d == IF c.reason = "Conflict" THEN ResolveConflict(c) ELSE c
    IN  IF d.mergeReason = "Conflict" THEN ResolveMergeConflict(d) ELSE d

EvaluateConnection(x, s) ==
    LET Evaluated[o \in 0 .. NumStations] ==
            IF o = 0 THEN x
            ELSE IF <<o, s>> \in Links /\ Evaluated[o-1].incoming[<<o, s>>].known
            THEN EvaluateIncoming(Evaluated[o-1], <<o, s>>)
            ELSE Evaluated[o-1]
        y == Evaluated[NumStations]
    IN  [y EXCEPT
            !.outgoing = [l \in Links |-> IF Owner(l) = s /\ y.outgoing[l].known
                                          THEN EvaluateOutgoing(y.outgoing[l])
                                          ELSE y.outgoing[l]]]

(***************************************************************************)
(* A new pattern has the slots that are missing, or all that are free.     *)
(* Which ones the pattern creator prefers is left open here.               *)
(***************************************************************************)
Patterns(free, missing) ==
    kSubset(IF missing <= Cardinality(free) THEN missing ELSE Cardinality(free), free)

WithNewPattern(x, l, free) ==
    LET c == x.outgoing[l]
    IN  IF IsMapCreated(c) THEN {x}
        ELSE {[x EXCEPT !.outgoing[l] = FindNewPattern(c, p),
                        !.map = UpdateSoftDRPmap(@, p)] :
                p \in Patterns(free, Missing(c, l))}

WithAdditionalPattern(x, l, free) ==
    LET c == x.outgoing[l]
    IN  IF ~NeedsAdditionalPattern(c, Missing(c, l)) THEN {x}
        ELSE {[x EXCEPT !.outgoing[l] = CreateAdditionalPattern(c, p),
                        !.map = UpdateSoftDRPmap(@, p)] :
                p \in Patterns(free \ c.alloc, Missing(c, l))}

UpdateMapWithPeerAvailabilityMap(global, l) == global \cup bitmap[l]

\* A bitmap is used in the superframe of its reception only.
ClearAvailabilityBitmap(s) == [l \in Links |-> IF Owner(l) = s THEN {} ELSE bitmap[l]]

areMASsAvailable(global) == Slots \ global # {}

CreateDRPMap(x, l) ==
    LET global == UpdateMapWithPeerAvailabilityMap(GetGlobalPattern(x.map), l)
        free == Slots \ global
    IN  IF ~areMASsAvailable(global) THEN {x}
        ELSE UNION {WithAdditionalPattern(y, l, free) : y \in WithNewPattern(x, l, free)}

CreateDRPMaps(x, s) ==
    LET Created[t \in 0 .. NumStations] ==
            IF t = 0 THEN {x}
            ELSE IF <<s, t>> \in Links /\ outgoing[<<s, t>>].known
            THEN UNION {CreateDRPMap(y, <<s, t>>) : y \in Created[t-1]}
            ELSE Created[t-1]
    IN  Created[NumStations]

(***************************************************************************)
(* The beacon: of each connection of the station the reservation and, if   *)
(* there are slots to be merged into it, these.  A target that accepts     *)
(* them says so once and merges.                                           *)
(***************************************************************************)
DRPIEs(c) ==
    IF ~c.known \/ ~IsMapCreated(c) THEN <<>>
    ELSE LET base == [reason |-> c.reason, status |-> c.status, alloc |-> c.alloc]
         IN  IF ~HasPendingDRPMerge(c) THEN <<base>>
             ELSE <<base, [reason |-> c.mergeReason, status |-> c.mergeStatus,
                           alloc |-> c.merge]>>

CreateDRPIE(x, s) ==
    [l \in {l \in Links : s \in {Owner(l), Target(l)}} |->
        DRPIEs(IF s = Owner(l) THEN x.outgoing[l] ELSE x.incoming[l])]

FaultySent(c) == AfterHasPending(c)     \* the accepted slots are not merged

SentAsTarget(c) ==
    IF IsMapCreated(c) /\ IsMergeReserved(c) THEN MergePatterns(c) ELSE AfterHasPending(c)

SentAsOwner(c) == IF IsMapCreated(c) THEN AfterHasPending(c) ELSE c

AfterBeacon(x, s) ==
    LET out == [l \in Links |-> IF Owner(l) = s THEN SentAsOwner(x.outgoing[l])
                                ELSE x.outgoing[l]]
        in == [l \in Links |-> IF Target(l) = s THEN SentAsTarget(x.incoming[l])
                               ELSE x.incoming[l]]
        own == UNION ({out[l].alloc : l \in {k \in Links : Owner(k) = s
                                                        /\ IsReserved(out[k])}}
                 \cup {ReservedSlots(in[l]) : l \in {k \in Links : Target(k) = s}})
    IN  [x EXCEPT !.outgoing = out, !.incoming = in,
                  !.map = UpdateHardDRPmap(@, own),
                  !.availability = IF @ > 0 THEN @ - 1 ELSE @]

\* The availability element, if there is one, has the slots that are not free,
\* those that were put into the map with the DRP elements included.
CreateBeacon(x, s) ==
    [drpIEs |-> CreateDRPIE(x, s),
     HasAvailabilityIE |-> x.availability > 0,
     availabilityBitmap |-> GetGlobalPattern(AfterBeacon(x, s).map)]

(***************************************************************************)
(* Receiving the elements of a link: as its target from the owner, as its  *)
(* owner from the target, or from a connection of others.                  *)
(***************************************************************************)
FromOwner(c, ie) ==
    IF ~c.known THEN NewManager(ie.reason, ie.alloc)
    ELSE IF ie.reason = "Accept" THEN c
    ELSE [c EXCEPT !.reason = ie.reason,
                   !.status = @ /\ ie.status,
                   !.alloc = IF ie.reason = "Modified" THEN ie.alloc ELSE @]

MergeFromOwner(c, ie) ==
    IF ~HasPendingDRPMerge(c) THEN AddReservation(c, ie.reason, ie.alloc)
    ELSE IF ie.reason = "Accept" THEN c
    ELSE [c EXCEPT !.mergeReason = ie.reason,
                   !.mergeStatus = @ /\ ie.status,
                   !.merge = IF ie.reason = "Modified" THEN ie.alloc ELSE @]

FromTarget(c, ie) == [c EXCEPT !.reason = ie.reason, !.status = ie.status]

MergeFromTarget(c, ie) ==
    LET d == [c EXCEPT !.mergeReason = ie.reason, !.mergeStatus = ie.status]
    IN  IF ie.status /\ ie.reason = "Accept" THEN MergePatterns(d) ELSE d

Examined(c, ies, First(_, _), Second(_, _)) ==
    CASE Len(ies) = 0 -> c
      [] Len(ies) = 1 -> First(c, ies[1])
      [] OTHER -> Second(First(c, ies[1]), ies[2])

FaultyUpdateMap(m, r, l, ie) ==     \* others' reservations are not respected
    IF r \in {Owner(l), Target(l)} THEN
        IF ie.status THEN UpdateHardDRPmap(m, ie.alloc) ELSE m
    ELSE IF ie.reason = "Conflict" THEN ReleasePendingDRPMap(m, l)
    ELSE UpdatePendingDRPMap(m, l, ie.alloc)

UpdateMap(m, r, l, ie) ==
    IF ie.status THEN UpdateHardDRPmap(m, ie.alloc)
    ELSE IF r \in {Owner(l), Target(l)} THEN m
    ELSE IF ie.reason = "Conflict" THEN ReleasePendingDRPMap(m, l)
    ELSE UpdatePendingDRPMap(m, l, ie.alloc)

\* The elements of different links do not depend on each other.
MapAfter(r, beacon) ==
    LET After(l) == Examined(map[r], beacon[l], LAMBDA m, ie : UpdateMap(m, r, l, ie),
                                                LAMBDA m, ie : UpdateMap(m, r, l, ie))
    IN  [map[r] EXCEPT
            !.hard = [s \in Slots |->
                IF \E l \in DOMAIN beacon : After(l).hard[s] = Fresh THEN Fresh
                ELSE map[r].hard[s]],
            !.pending = [l \in Links |->
                IF l \in DOMAIN beacon THEN After(l).pending[l]
                ELSE map[r].pending[l]]]

\* The assertions of DRPmap.cpp:90 and BeaconEvaluator.cpp:209, and the
\* comment of BeaconEvaluator.cpp:183 that a merge is not known yet.
DiffersAt(r, l, ies) ==
    /\ r \notin {Owner(l), Target(l)}
    /\ Len(ies) = 2
    /\ \A i \in 1 .. 2 : ~ies[i].status /\ ies[i].reason # "Conflict"
    /\ ies[1].alloc # ies[2].alloc

MergeDiffers(l, ies) ==
    /\ Len(ies) = 2
    /\ ies[2].status /\ ies[2].reason = "Accept"
    /\ ies[2].alloc # outgoing[l].merge

MergeIsKnown(l, ies) ==
    /\ Len(ies) = 2
    /\ incoming[l].known
    /\ ~HasPendingDRPMerge(incoming[l])
    /\ ies[2].alloc \cap incoming[l].alloc # {}

FailedWith(s, heard, beacon) ==
    {f \in {"pending", "merge", "unknown"} :
        \E l \in DOMAIN beacon :
            \/ f = "pending" /\ \E r \in heard : DiffersAt(r, l, beacon[l])
            \/ f = "merge" /\ s = Target(l) /\ Owner(l) \in heard
                           /\ MergeDiffers(l, beacon[l])
            \/ f = "unknown" /\ s = Owner(l) /\ Target(l) \in heard
                             /\ MergeIsKnown(l, beacon[l])}

(***************************************************************************)
(* The wake-up of station s, whose beacon the stations heard receive.      *)
(***************************************************************************)
Beacon(s, heard) ==
    /\ turn = s
    /\ losses + Cardinality(Stations \ ({s} \cup heard)) <= MaxLosses
    /\ \E x \in CreateDRPMaps(
                    EvaluateConnection([outgoing |-> outgoing, incoming |-> incoming,
                                        map |-> onBPStarted(map[s]),
                                        availability |-> availability[s]], s), s) :
        LET beacon == CreateBeacon(x, s)
            ies == beacon.drpIEs
            y == AfterBeacon(x, s)
        IN  /\ outgoing' = [l \in Links |->
                    IF s = Target(l) /\ Owner(l) \in heard /\ outgoing[l].known
                    THEN Examined(outgoing[l], ies[l], FromTarget, MergeFromTarget)
                    ELSE y.outgoing[l]]
            /\ incoming' = [l \in Links |->
                    IF s = Owner(l) /\ Target(l) \in heard
                    THEN Examined(incoming[l], ies[l], FromOwner, MergeFromOwner)
                    ELSE y.incoming[l]]
            /\ map' = [r \in Stations |->
                    IF r = s THEN y.map
                    ELSE IF r \in heard THEN MapAfter(r, ies) ELSE map[r]]
            /\ availability' = [availability EXCEPT ![s] = y.availability]
            /\ bitmap' = [l \in Links |->
                    IF Target(l) = s /\ Owner(l) \in heard /\ beacon.HasAvailabilityIE
                    THEN beacon.availabilityBitmap
                    ELSE ClearAvailabilityBitmap(s)[l]]
            /\ failed' = FailedWith(s, heard, ies)
    /\ turn' = turn + 1
    /\ losses' = losses + Cardinality(Stations \ ({s} \cup heard))
    /\ UNCHANGED <<demand, registered>>

\* What BuildDTPmap hands to the scheduler of station s: slots in which it keeps
\* away from contention access.
currentDRPMap(s) == Seen(map[s].hard)

CollectDRPmaps ==
    /\ turn = NumStations + 1
    /\ turn' = 1
    /\ registered' = [l \in Links |->
            IF outgoing[l].known /\ IsReserved(outgoing[l]) THEN outgoing[l].alloc ELSE {}]
    /\ failed' = {}
    /\ UNCHANGED <<outgoing, incoming, map, availability, bitmap, demand, losses>>

BeaconPeriod ==
    \/ \E s \in Stations : \E heard \in SUBSET (Stations \ {s}) : Beacon(s, heard)
    \/ CollectDRPmaps

Next ==
    \/ \E l \in Links : CreateDRPManager(l) \/ UpdateDRPManager(l)
    \/ BeaconPeriod

Spec == Init /\ [][Next]_vars

(***************************************************************************)
(* The beacon slots are timers of the simulator, and a wake-up never       *)
(* waits: the turn always passes on.                                       *)
(***************************************************************************)
NextTurn == turn' = (turn % (NumStations + 1)) + 1

FairSpec == Spec /\ WF_turn(NextTurn)
-----------------------------------------------------------------------------
\* What an owner takes for reserved its target has accepted, although each
\* learns of the other only by beacons that may be lost.
OwnerWithinTarget ==
    \A l \in Links : IsReserved(outgoing[l]) =>
        /\ IsReserved(incoming[l])
        /\ outgoing[l].alloc \subseteq incoming[l].alloc

\* A target has not accepted a slot from two owners, also when neither of them
\* has heard of the other's proposal (PossiblePattern in EvaluateConnection).
TargetsExclusive ==
    \A k, l \in Links :
        (/\ k # l /\ Target(k) = Target(l)
         /\ IsReserved(incoming[k]) /\ IsReserved(incoming[l]))
            => incoming[k].alloc \cap incoming[l].alloc = {}

\* No slot is registered by two owners in one superframe, while no more
\* receptions fail than DRPmap tolerates.
NoSlotTwice ==
    \A k, l \in Links : k # l => registered[k] \cap registered[l] = {}

\* When an owner registers its slots, no station takes one of them for contention
\* access: its own map and its target's have them, also after lost beacons, and
\* those of all others as long as every beacon is received.
KeptFree ==
    [][turn = NumStations + 1 /\ turn' = 1 =>
        \A l \in Links, s \in Stations :
            losses = 0 \/ s \in {Owner(l), Target(l)}
                => registered'[l] \subseteq currentDRPMap(s)]_vars

\* The assertion of BeaconEvaluator.cpp:209: the additional slots a target
\* accepts are those its owner means to merge.
MergeAgreed == "merge" \notin failed

\* The assertion of DRPmap.cpp:90: the proposals of one link that a third
\* station receives in one superframe do not differ.
PendingAgreed == "pending" \notin failed

\* The comment of BeaconEvaluator.cpp:183: additional slots a target takes for
\* new ("DRP merge is unknown") are not already part of its reservation.
UnknownMerge == "unknown" \notin failed

\* Every connection gets a reservation at last, conflicts, expiring proposals
\* and a lost beacon notwithstanding, if there are slots for all.
Established == \A l \in Links : outgoing[l].known ~> registered[l] # {}

\* When all beacons are received, at last every connection has the slots it
\* asked for, those added later included, and owner and target the same ones.
Satisfied ==
    <>[](\/ losses > 0
         \/ \A l \in Links : /\ Cardinality(registered[l]) >= demand[l]
                             /\ registered[l] = incoming[l].alloc)
=============================================================================
