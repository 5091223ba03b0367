------------------------------ MODULE Convergence ------------------------------
(***************************************************************************)
(* The convergence layer of one station: PhyUser (half duplex transmission *)
(* and reception), FrameSynchronization, ChannelState and                  *)
(* PreambleGenerator, connected in this order, among other stations.       *)
(*                                                                         *)
(* A call passes through the units within one event.  Calls due at one     *)
(* instant happen in any order, but for the end of a transmission that     *)
(* ChannelState schedules before PhyUser does (TxTimerDue).                *)
(***************************************************************************)
EXTENDS Integers, Sequences, ChannelState

CONSTANTS
    Stations, NoStation, FrameDurations, Sinrs,
    DetectionThreshold, IdleCapture, SlcCapture, SlgCapture, FinalDelivery,
    PreambleDuration,       \* of an own preamble
    TxrxTurnaroundDelay,
    Rests,                  \* bound: what is left of a frame exchange after a frame
    NoFrame

ASSUME ConvergenceAssumption ==
    /\ PreambleDuration \in Nat \ {0}
    /\ TxrxTurnaroundDelay \in Nat \ {0}
    /\ FrameDurations \subseteq Nat
    /\ Sinrs \subseteq Int /\ DetectionThreshold \in Int
    /\ Rests \subseteq Nat

VARIABLES
    curState, synchronizedToAddress, lastFrameEnd, timeout, signals, passedUp,
    air, owed, heard,       \* FrameSynchronization
    phyUserStatus, phyTimer, currentTxCompound,     \* PhyUser
    pendingPSDU,            \* PreambleGenerator: the PSDU to follow its preamble
    lastReceived,           \* PreambleGenerator: the transmitter of the last
                            \* preamble with payload (whose type the PSDU takes)
    txEndIn,                \* ticks until the scheduled call of onTxEnd
    cs,                     \* ChannelState
    rest                    \* what each PSDU on the air leaves of its exchange

\* History.
VARIABLES
    navHeard,               \* ticks until the end of the longest NAV heard
    navAborted              \* an awaited acknowledgment came since

syncVars == <<curState, synchronizedToAddress, lastFrameEnd, timeout>>
receiverVars == <<syncVars, signals, passedUp, air, owed, heard>>
phyVars == <<phyUserStatus, phyTimer, currentTxCompound>>
navHistory == <<navHeard, navAborted>>
vars == <<receiverVars, phyVars, pendingPSDU, lastReceived, txEndIn, cs, rest, navHistory>>

FS == INSTANCE FrameSynchronization WITH
        receiverOff <- phyUserStatus # "receiving",
        SignalRxErrorAlthoughNotSynchronized <- FALSE

NoTimeout == -1

\* What a frame of another station says beside the preamble.
PeerHeaders == [type : {"DATA_PREAMBLE", "ACK_PREAMBLE"}, forMe : BOOLEAN, rest : Rests]

\* What the station sends: compounds of its own, and acknowledgments.
DataFrames == [hasPayload : {TRUE}, psduDuration : FrameDurations \ {0}, exchange : Rests]
AckFrames == [hasPayload : {FALSE}, psduDuration : {0}, exchange : Rests]
OwnFrames == DataFrames \cup AckFrames

ASSUME FrameAssumption == NoFrame \notin OwnFrames

Init ==
    /\ phyUserStatus = "receiving"
    /\ FS!Init
    /\ phyTimer = NoTimeout
    /\ currentTxCompound = NoFrame
    /\ pendingPSDU = NoFrame
    /\ lastReceived = NoStation
    /\ txEndIn = NoTimeout
    /\ cs = InitialState
    /\ rest = [s \in Stations |-> 0]
    /\ navHeard = 0
    /\ navAborted = FALSE

\* ChannelState is told of the notifications one after the other.
hear(c, notifications) ==
    CASE Len(notifications) = 0 -> c
      [] Len(notifications) = 1 -> onRx(c, notifications[1])
      [] OTHER -> onRx(onRx(c, notifications[1]), notifications[2])

\* The frame passes up through ChannelState, if the receiver delivers it.
Deliver(frame) ==
    /\ cs' = IF passedUp' THEN processIncoming(hear(cs, signals'), frame)
                          ELSE hear(cs, signals')
    /\ navHeard' = IF /\ passedUp'
                      /\ ~(frame.type = "ACK_PREAMBLE" /\ frame.forMe)
                      /\ frame.exchange >= SifsDuration
                      /\ frame.exchange > navHeard
                   THEN frame.exchange ELSE navHeard
    /\ navAborted' = IF passedUp' /\ AwaitedAck(cs, frame) THEN TRUE
                     ELSE navAborted /\ navHeard' = navHeard

(***************************************************************************)
(* A preamble, and later its PSDU, arrives from another station.           *)
(***************************************************************************)
FaultySavedType(p) == IF passedUp' THEN p.from ELSE lastReceived    \* of any preamble

SavedType(p) == IF passedUp' /\ p.fDur > 0 THEN p.from ELSE lastReceived

PreambleArrives(p, header) ==
    /\ header.type = "ACK_PREAMBLE" <=> p.fDur = 0
    /\ UNCHANGED <<phyVars, pendingPSDU, txEndIn>>
    /\ FS!PreambleArrives(p)
    /\ Deliver([type |-> header.type, forMe |-> header.forMe,
                exchange |-> p.fDur + header.rest])
    /\ lastReceived' = SavedType(p)
    /\ rest' = IF p.fDur > 0 THEN [rest EXCEPT ![p.from] = header.rest] ELSE rest

PSDUArrives(s, crcOk) ==
    /\ UNCHANGED <<phyVars, pendingPSDU, lastReceived, txEndIn>>
    /\ FS!PSDUArrives(s, crcOk)
    /\ Deliver([type |-> "PAYLOAD", forMe |-> FALSE, exchange |-> rest[s]])
    /\ rest' = [rest EXCEPT ![s] = 0]

FrameTimeout ==
    /\ UNCHANGED <<phyVars, pendingPSDU, lastReceived, txEndIn, rest, navHistory>>
    /\ FS!onTimeout
    /\ cs' = hear(cs, signals')

-----------------------------------------------------------------------------
(***************************************************************************)
(* Own transmissions: a preamble, then its PSDU as soon as the PhyUser     *)
(* accepts it.                                                             *)
(***************************************************************************)
FaultyTransmit(duration, frame) ==  \* the synchronization goes on
    /\ phyUserStatus' = "transmitting"
    /\ phyTimer' = duration
    /\ currentTxCompound' = frame
    /\ UNCHANGED receiverVars

Transmit(duration, frame) ==
    /\ phyUserStatus' = "transmitting"
    /\ phyTimer' = duration
    /\ currentTxCompound' = frame
    /\ FS!doSendData

FaultySendPreamble(frame) ==    \* PhyUser is left to signal the end, and does not
    /\ phyUserStatus # "transmitting"
    /\ pendingPSDU = NoFrame
    /\ Transmit(PreambleDuration, [preamble |-> TRUE, frame |-> frame])
    /\ cs' = hear(onTxStart(cs), signals')
    /\ pendingPSDU' = IF frame.hasPayload THEN frame ELSE NoFrame
    /\ UNCHANGED <<txEndIn, lastReceived, rest, navHistory>>

SendPreamble(frame) ==
    /\ phyUserStatus # "transmitting"
    /\ pendingPSDU = NoFrame
    /\ Transmit(PreambleDuration, [preamble |-> TRUE, frame |-> frame])
    /\ cs' = hear(onTxStart(cs), signals')
    /\ IF frame.hasPayload
       THEN pendingPSDU' = frame /\ UNCHANGED txEndIn
       ELSE txEndIn' = PreambleDuration /\ UNCHANGED pendingPSDU
    /\ UNCHANGED <<lastReceived, rest, navHistory>>

ScheduledTxEnd ==
    /\ txEndIn = 0
    /\ txEndIn' = NoTimeout
    /\ cs' = onTxEnd(cs, currentTxCompound.frame)
    /\ UNCHANGED <<receiverVars, phyVars, pendingPSDU, lastReceived, rest, navHistory>>

TxTimerDue == phyTimer = 0 /\ txEndIn # 0

\* The preamble is over: PhyUser wakes up PreambleGenerator, which sends the PSDU.
PSDUFollows ==
    /\ TxTimerDue /\ phyUserStatus = "transmitting"
    /\ currentTxCompound.preamble
    /\ pendingPSDU # NoFrame
    /\ Transmit(pendingPSDU.psduDuration, [preamble |-> FALSE, frame |-> pendingPSDU])
    /\ cs' = onTxStart(hear(cs, signals'))
    /\ pendingPSDU' = NoFrame
    /\ UNCHANGED <<lastReceived, txEndIn, rest, navHistory>>

TransmissionOver ==
    /\ TxTimerDue /\ phyUserStatus = "transmitting"
    /\ pendingPSDU = NoFrame
    /\ phyUserStatus' = "txrxTurnaround"
    /\ phyTimer' = TxrxTurnaroundDelay
    /\ currentTxCompound' = NoFrame
    /\ cs' = IF currentTxCompound.preamble THEN cs
             ELSE onTxEnd(cs, currentTxCompound.frame)
    /\ UNCHANGED <<receiverVars, pendingPSDU, lastReceived, txEndIn, rest, navHistory>>

TurnaroundOver ==
    /\ TxTimerDue /\ phyUserStatus = "txrxTurnaround"
    /\ phyUserStatus' = "receiving"
    /\ phyTimer' = NoTimeout
    /\ FS!ReceiverOn
    /\ UNCHANGED <<currentTxCompound, pendingPSDU, lastReceived, txEndIn, cs, rest, navHistory>>

-----------------------------------------------------------------------------
NAVTimeout ==
    /\ cs.nav = 0
    /\ cs' = NAVOver(cs)
    /\ UNCHANGED <<receiverVars, phyVars, pendingPSDU, lastReceived, txEndIn, rest, navHistory>>

\* The signal strength crosses the threshold of the carrier sense.
RSSChange ==
    /\ cs' = onRSSChange(cs, ~cs.phyCarrierSense)
    /\ UNCHANGED <<receiverVars, phyVars, pendingPSDU, lastReceived, txEndIn, rest, navHistory>>

Left(t) == IF t > 0 THEN t - 1 ELSE t

Tick ==
    /\ phyTimer # 0 /\ txEndIn # 0 /\ cs.nav # 0
    /\ UNCHANGED <<phyUserStatus, currentTxCompound>>
    /\ FS!Tick
    /\ phyTimer' = Left(phyTimer)
    /\ txEndIn' = Left(txEndIn)
    /\ cs' = Aged(cs)
    /\ navHeard' = Left(navHeard)
    /\ navAborted' = (navAborted /\ navHeard > 1)
    /\ UNCHANGED <<pendingPSDU, lastReceived, rest>>

Next ==
    \/ \E p \in FS!Preambles, h \in PeerHeaders : PreambleArrives(p, h)
    \/ \E s \in Stations, crcOk \in BOOLEAN : PSDUArrives(s, crcOk)
    \/ FrameTimeout
    \/ \E f \in OwnFrames : SendPreamble(f)
    \/ ScheduledTxEnd
    \/ PSDUFollows
    \/ TransmissionOver
    \/ TurnaroundOver
    \/ NAVTimeout
    \/ RSSChange
    \/ Tick

Spec == Init /\ [][Next]_vars

(***************************************************************************)
(* The scheduler makes every scheduled call, the medium ends every frame,  *)
(* and time goes on: since every frame takes time, a finite number of      *)
(* stations cannot keep it at one instant for ever (the strong fairness).  *)
(***************************************************************************)
Fairness ==
    /\ WF_vars(\E s \in Stations, crcOk \in BOOLEAN : PSDUArrives(s, crcOk))
    /\ WF_vars(FrameTimeout)
    /\ WF_vars(ScheduledTxEnd)
    /\ WF_vars(PSDUFollows)
    /\ WF_vars(TransmissionOver)
    /\ WF_vars(TurnaroundOver)
    /\ WF_vars(NAVTimeout)
    /\ SF_vars(Tick)

FairSpec == Spec /\ Fairness

-----------------------------------------------------------------------------
(***************************************************************************)
(* Properties                                                              *)
(***************************************************************************)
\* What the observers were told last is the present state of the channel: no
\* call that changes an indicator, in whatever order they come at one instant,
\* leaves them (the backoff above all) with a stale state.
IndicationCurrent == cs.lastCS = getCurrentChannelState(cs)

\* While a NAV is set, its timer runs out exactly at the end of the latest one
\* (assertion of onTimeout, l.280), however often it was prolonged, aborted and
\* set again by own and foreign frames.
NAVTimerExact ==
    /\ cs.nav # NavNotSet => cs.nav = cs.latestNAV
    /\ cs.waitForReply => cs.nav # NavNotSet

\* The channel counts as busy from the start of an own preamble until the end of
\* its PSDU, without a gap between the two; and no end that was scheduled for a
\* frame without payload is lost, or strikes while a later frame is being sent.
BusyWhileTransmitting ==
    /\ phyUserStatus = "transmitting" /\ phyTimer > 0 => cs.ownTx
    /\ phyUserStatus # "transmitting" => ~cs.ownTx

\* When the PSDU of a frame taken up arrives, the preamble whose type it takes
\* (PreambleGenerator.cpp:90-98) is that of the same frame, whatever preambles
\* came in between.
TypeOfPSDUKnown == owed # NoStation => lastReceived = owed

\* Until the end of every NAV that a frame passed up asked for, the channel is
\* busy, unless an awaited acknowledgment has come: a shorter NAV heard later,
\* or an own frame, does not cut it.
NAVRespected == navHeard > 0 => cs.lastCS = "busy" \/ navAborted

\* ChannelState takes no reception to be going on when the receiver decodes none.
NoReceptionLeftOpen == cs.ownRx => curState = "Synchronized"

\* The receiver, driven by the PhyUser, behaves as module FrameSynchronization
\* says: in particular no preamble reaches it during an own transmission.
Implements == FS!Spec

\* When nobody sends any more, no NAV is set and no signal is sensed, the channel
\* becomes idle for good: no indicator stays set for ever.
Quiet ==
    /\ phyUserStatus = "receiving"
    /\ FS!AirIsClear
    /\ navHeard = 0
    /\ ~cs.phyCarrierSense
BecomesIdle == <>[]Quiet => <>[](cs.lastCS = "idle")

(***************************************************************************)
(* What a comment says, and the code does not do.                          *)
(***************************************************************************)
\* An acknowledgment of an own frame aborts the "own NAV" (ChannelState.cpp:239),
\* not one that another station's frame has asked for in the meantime.
ForeignNAVKept == navHeard > 0 => cs.nav # NavNotSet
=============================================================================
