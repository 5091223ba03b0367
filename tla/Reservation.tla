----------------------------- MODULE Reservation -----------------------------
(***************************************************************************)
(* One connection from its traffic to its slots, superframe by superframe: *)
(* upperMAC/TrafficEstimation_mean measures the compounds of a superframe  *)
(* and announces their mean, the owner's drp/DRPManager chooses slots for  *)
(* it at every wake-up, and the target answers in its beacon, which may be *)
(* lost.  Frames sent in reserved slots are samples for the packet error   *)
(* rate (management/PERInformationBase), which lowers the phy mode.        *)
(* Module Negotiation has the exchange of beacons in full; here the        *)
(* target's answer and the slots of others are inputs.                     *)
(***************************************************************************)
EXTENDS DRPPatternCreator, Sequences

CONSTANTS
    averageOverSFs,
    WindowSize,         \* superframes for which a sample counts
    MinSamples,
    MaxPER,             \* desired packet error rate, in percent
    RandomUse,          \* what getRandomUse may return
    MaxRate,            \* bound on the compounds per superframe
    MaxChanges          \* bound on what the surroundings do

VARIABLES
    phase,
    rate,               \* compounds per superframe
    window,             \* of each superframe measured; <<>>: address not known
    needsNewEstimate,
    lastSet,            \* the last estimate, 0: none
    manager,            \* the DRPManager of the owner
    traffic,            \* its traffic characteristic
    occupied,           \* slots that are not free at the owner or the target
    created,            \* what the last wake-up has created
    registered,         \* its transmissions in this superframe
    samples,            \* of each superframe: 0 for success, 1 for failure
    failures,           \* history: superframes in which a frame failed
    changes

estimation == <<window, needsNewEstimate, lastSet>>
vars == <<phase, rate, estimation, manager, traffic, occupied, created,
          registered, samples, failures, changes>>

M == INSTANCE DRPManager

ASSUME EstimationAssumption ==
    /\ {averageOverSFs, WindowSize, MinSamples} \subseteq Nat \ {0}
    /\ MaxPER \in 0 .. 100
    /\ MaxRate \in Nat
    /\ RandomUse \subseteq BOOLEAN
    /\ FTDuration \in Seq(Nat \ {0})
    /\ FTDuration # <<>>

\* The modes, ordered by the signal they need: from the slowest to the fastest.
Modes == DOMAIN FTDuration
DefaultMode == Len(FTDuration)
mcsDown(mode) == IF mode - 1 \in Modes THEN mode - 1 ELSE mode

NoTraffic == [packets |-> 0, area |-> 0, adj |-> 0, gap |-> 1, mode |-> DefaultMode,
              random |-> FALSE]

Init ==
    /\ phase = "superframe"
    /\ rate = 0
    /\ window = <<>>
    /\ needsNewEstimate = FALSE
    /\ lastSet = 0
    /\ manager = M!NoManager
    /\ traffic = NoTraffic
    /\ occupied \in SUBSET DataSlots
    /\ created = "nothing"
    /\ registered = {}
    /\ samples = <<>>
    /\ failures = 0
    /\ changes = 0

Changed(n) ==
    /\ changes + n <= MaxChanges
    /\ changes' = changes + n

-----------------------------------------------------------------------------
(***************************************************************************)
(* A superframe with n compounds for the connection, and the evaluation at *)
(* its end.  The first superframe counted may have begun without traffic   *)
(* and is left out.  After an estimate only the last superframe is looked  *)
(* at until the next: the code keeps the others, the model does not.       *)
(***************************************************************************)
doSendData(n) ==
    IF window = <<>> THEN IF n = 0 THEN <<>> ELSE <<n>>
    ELSE [window EXCEPT ![Len(window)] = n]

\* The compounds measured in a window: the n-th of superframe i is <<i, n>>.
SentCompounds(w) == {x \in (DOMAIN w) \X (1 .. MaxRate) : x[2] <= w[x[1]]}

Mean(w) == Ceil(Cardinality(SentCompounds(w)), Len(w))

prepareDRPConnection(compounds) ==
    /\ manager' = M!NewManager("Accept", {})
    /\ \E random \in RandomUse : traffic' = SetTrafficChar(DefaultMode, random, compounds)

updateDRPConnection(compounds) ==
    /\ traffic' = UpdateTrafficChar(traffic, compounds)
    /\ UNCHANGED manager

FirstEvaluation(w) ==
    /\ lastSet = 0 /\ ~needsNewEstimate
    /\ window' = <<0>>
    /\ needsNewEstimate' = TRUE
    /\ UNCHANGED <<lastSet, manager, traffic>>

Measure(w) ==
    /\ needsNewEstimate
    /\ Len(w) < averageOverSFs
    /\ window' = Append(w, 0)
    /\ UNCHANGED <<needsNewEstimate, lastSet, manager, traffic>>

Estimate(w) ==
    /\ needsNewEstimate
    /\ Len(w) >= averageOverSFs
    /\ IF Mean(w) > 0
       THEN /\ IF lastSet = 0 THEN prepareDRPConnection(Mean(w))
                              ELSE updateDRPConnection(Mean(w))
            /\ lastSet' = Mean(w)
            /\ needsNewEstimate' = FALSE
            /\ window' = <<0>>
       ELSE \* an assertion; without it:
            /\ window' = Append(Tail(w), 0)
            /\ UNCHANGED <<needsNewEstimate, lastSet, manager, traffic>>

FaultyCompareTraffic(w) ==          \* superframes without a measurement stay in the window
    /\ lastSet > 0 /\ ~needsNewEstimate
    /\ needsNewEstimate' = (100 * w[Len(w)] > 105 * lastSet)
    /\ window' = [i \in 1 .. averageOverSFs |-> 0]
    /\ UNCHANGED <<lastSet, manager, traffic>>

CompareTraffic(w) ==
    /\ lastSet > 0 /\ ~needsNewEstimate
    /\ needsNewEstimate' = (100 * w[Len(w)] > 105 * lastSet)
    /\ window' = <<0>>
    /\ UNCHANGED <<lastSet, manager, traffic>>

(***************************************************************************)
(* The frames sent in the reserved slots: some are acknowledged (0), some  *)
(* are not (1).  At most one sample of each kind is kept of a superframe.  *)
(***************************************************************************)
TransmittedPackets ==
    MapThenSumSet(LAMBDA t : (t.duration - GuardDuration) \div FTDuration[traffic.mode],
                  registered)

Outcomes(n) ==
    IF TransmittedPackets = 0 THEN {{}}
    ELSE IF n = 0 THEN {{}, {0}, {1}, {0, 1}} ELSE {{0}, {1}, {0, 1}}

putSamples(outcome) ==
    IF samples = <<>> /\ outcome = {} THEN <<>>
    ELSE IF Len(samples) < WindowSize THEN Append(samples, outcome)
    ELSE Append(Tail(samples), outcome)

Superframe(n, outcome) ==
    /\ phase = "superframe"
    /\ phase' = "wakeup"
    /\ rate' = n
    /\ outcome \in Outcomes(n)
    /\ samples' = putSamples(outcome)
    /\ failures' = IF 1 \in outcome THEN failures + 1 ELSE failures
    /\ Changed((IF n = rate THEN 0 ELSE 1) + (IF 1 \in outcome THEN 1 ELSE 0))
    /\ LET w == doSendData(n) IN
       IF w = <<>> THEN UNCHANGED <<estimation, manager, traffic>>
       ELSE FirstEvaluation(w) \/ Measure(w) \/ Estimate(w) \/ CompareTraffic(w)
    /\ created' = "nothing"
    /\ registered' = {}
    /\ UNCHANGED occupied

-----------------------------------------------------------------------------
(***************************************************************************)
(* The wake-up: the phy mode is lowered if too many packets got lost, what *)
(* the target refused is given up, and slots are chosen for what is        *)
(* missing.                                                                *)
(***************************************************************************)
NumSamples == Cardinality({x \in (DOMAIN samples) \X {0, 1} : x[2] \in samples[x[1]]})
Failed == Cardinality({i \in DOMAIN samples : 1 \in samples[i]})

knowsPER == NumSamples >= MinSamples
adjustMCSdown == knowsPER /\ 100 * Failed > MaxPER * NumSamples

UpdatePhyModeDown ==
    IF mcsDown(traffic.mode) < traffic.mode
    THEN SetPhyMode(traffic, mcsDown(traffic.mode)) ELSE traffic

reset == samples' = <<>>

FaultyEvaluatePER ==                \* the samples of the faster mode are kept
    /\ traffic' = IF manager.known /\ adjustMCSdown THEN UpdatePhyModeDown ELSE traffic
    /\ UNCHANGED samples

evaluatePER ==
    IF manager.known /\ adjustMCSdown
    THEN traffic' = UpdatePhyModeDown /\ reset
    ELSE UNCHANGED <<traffic, samples>>

FaultyEvaluateConnection(c) == c            \* conflicts are not resolved

EvaluateConnection(c) ==
    LET d == IF c.reason = "Conflict" THEN M!ResolveConflict(c) ELSE c
    IN  IF d.mergeReason = "Conflict" THEN M!ResolveMergeConflict(d) ELSE d

CreateDRPMaps(c, t, occ) ==
    LET global == (0 .. NumberOfBPSlots - 1) \cup occ
        Additional(d) ==
            IF ~(M!IsMapCreated(d) /\ M!NeedsAdditionalPattern(d, CalcMissingPackets(t, d.alloc)))
            THEN {d}
            ELSE {M!CreateAdditionalPattern(d, p) : p \in AddPattern(t, d.alloc, global)}
        Found == IF M!IsMapCreated(c) THEN {c}
                 ELSE {M!FindNewPattern(c, p) : p \in GetPattern(t, global)}
    IN  IF DataSlots \subseteq occ \cup c.alloc THEN {c}
        ELSE UNION {Additional(d) : d \in Found}

Wakeup(occ) ==
    /\ phase = "wakeup"
    /\ phase' = "answer"
    /\ occupied' = occ
    /\ Changed(IF occ = occupied THEN 0 ELSE 1)
    /\ evaluatePER
    /\ IF manager.known
       THEN \E d \in CreateDRPMaps(EvaluateConnection(manager), traffic', occ) :
                /\ manager' = IF M!IsMapCreated(d) THEN M!AfterHasPending(d) ELSE d
                /\ created' = IF d.merge # manager.merge /\ d.merge # {} THEN "merge"
                              ELSE IF d.alloc # manager.alloc /\ d.alloc # {} THEN "pattern"
                              ELSE "nothing"
       ELSE UNCHANGED <<manager, created>>
    /\ UNCHANGED <<rate, estimation, registered, failures>>

-----------------------------------------------------------------------------
(***************************************************************************)
(* The beacon of the target answers the reservation and the slots to be    *)
(* merged into it separately.  It does not know the latter if it has lost  *)
(* the owner's beacon; what was refused it refuses until the owner sends   *)
(* something else, which it may have lost as well.  Of an owner without    *)
(* slots, which sends nothing, it accepts nothing.  Then the beacon period *)
(* is over, and every block of reserved slots gets a timer, which runs     *)
(* from the end of the beacon period (BPDuration).                         *)
(***************************************************************************)
RegisterReservation(c) ==
    IF M!IsReserved(c)
    THEN {[start |-> i * SlotDuration - BPDuration,
           duration |-> Cardinality(BlockAt(c.alloc, i)) * SlotDuration] :
            i \in BlockStarts(c.alloc)}
    ELSE {}

Verdicts == {"Accept", "Conflict"}

BaseAnswered(c, base) ==
    IF c.status \/ c.reason = "Conflict" \/ ~M!IsMapCreated(c) THEN c
    ELSE [c EXCEPT !.status = (base = "Accept"), !.reason = base]

Answered(c, base, merge) ==
    LET d == BaseAnswered(c, base)
    IN  CASE ~M!HasPendingDRPMerge(d) \/ d.mergeReason = "Conflict" -> d
          [] merge = "Conflict" -> [d EXCEPT !.mergeReason = "Conflict"]
          [] merge = "Accept" /\ M!IsMapCreated(d) -> M!MergePatterns(d)
          [] OTHER -> d

Answer(base, merge) ==
    /\ phase = "answer"
    /\ phase' = "superframe"
    /\ Changed(IF base = "Accept" /\ merge = "Accept" THEN 0 ELSE 1)
    /\ manager' = Answered(manager, base, merge)
    /\ registered' = RegisterReservation(manager')
    /\ created' = "nothing"
    /\ UNCHANGED <<rate, estimation, traffic, occupied, samples, failures>>

BeaconLost ==
    /\ phase = "answer"
    /\ phase' = "superframe"
    /\ Changed(1)
    /\ registered' = RegisterReservation(manager)
    /\ created' = "nothing"
    /\ UNCHANGED <<rate, estimation, manager, traffic, occupied, samples, failures>>

Next ==
    \/ \E n \in 0 .. MaxRate, outcome \in SUBSET {0, 1} : Superframe(n, outcome)
    \/ \E occ \in SUBSET DataSlots : Wakeup(occ)
    \/ \E base \in Verdicts, merge \in Verdicts \cup {"unknown"} : Answer(base, merge)
    \/ BeaconLost

Spec == Init /\ [][Next]_vars

(***************************************************************************)
(* Superframes follow each other, and no part of one waits.                *)
(***************************************************************************)
NextPhase ==
    phase' = CASE phase = "superframe" -> "wakeup"
               [] phase = "wakeup" -> "answer"
               [] phase = "answer" -> "superframe"

FairSpec == Spec /\ WF_phase(NextPhase)
-----------------------------------------------------------------------------
OwnSlots == manager.alloc \cup manager.merge

\* The slots a piece of a pattern has at least; drawn ones are pairs.
MinPiece == IF traffic.random THEN Max({2, MinAdjSlot(traffic)}) ELSE MinAdjSlot(traffic)

\* A part of the superframe that is free beside own slots, and long enough.
UsableGap(own) ==
    \E i \in DataSlots :
        /\ i + MinPiece <= SlotpSF
        /\ Part(i, i + MinPiece) \cap (occupied \cup own) = {}

\* Whatever the creator rotates, cuts out, fills in or extends, the slots it adds
\* are after the beacon period and free.  Slots to be merged lie beside the
\* reservation as it is then, and never take the place of others, whose answer may
\* still be under way.
NewSlotsAreFree ==
    [][/\ (OwnSlots' \ OwnSlots) \subseteq DataSlots \ occupied'
       /\ manager'.merge \notin {manager.merge, {}} =>
            manager.merge = {} /\ manager'.alloc \cap manager'.merge = {}]_vars

\* What a wake-up plans with: a new pattern is chosen without regard to slots still
\* to be merged, which the target may not know.
Planned == IF created = "pattern" THEN manager.alloc ELSE OwnSlots

\* A proposal falls short of the traffic only if no gap that could take a packet
\* is left (BestEfficency followed by GapFilling, or the list of free pairs).
NothingUsableLeft ==
    created # "nothing" => CalcMissingPackets(traffic, Planned) = 0 \/ ~UsableGap(Planned)

TrafficIsCovered == window # <<>> => 100 * rate <= 105 * lastSet

\* The estimate follows the traffic, as far as the 5 % the comparison tolerates:
\* no measurement that is going on, thrown away or averaged keeps it below.
Followed == <>[]TrafficIsCovered

\* What is announced of the traffic has its transmissions at last, whatever is
\* refused or lost on the way and although the phy mode is lowered, unless no gap
\* is left.
Provided ==
    <>[](manager.known /\ phase = "superframe" =>
            TransmittedPackets >= traffic.packets \/ ~UsableGap(OwnSlots))

\* A superframe in which frames failed lowers the phy mode once: samples of the
\* faster mode, which stay in the window for some time, do not lower it again.
LoweredOncePerFailure == DefaultMode - traffic.mode <= failures

\* The comment of BeaconEvaluator.cpp:496: the slots of the beacon period are
\* blocked, so that no transmission starts before its end.
NothingInBeaconPeriod == \A t \in registered : t.start >= 0
=============================================================================
