----------------------------- MODULE FrameExchange -----------------------------
(***************************************************************************)
(* Frame exchanges between stations: a data frame, SIFS, its ImmAck, SIFS. *)
(* Neither frame nor acknowledgment is numbered: the sender (ARQ and       *)
(* TempSendBuffer) takes an acknowledgment for the frame it has sent last, *)
(* the receiver (ARQ) acknowledges what its access lets it take.           *)
(*                                                                         *)
(* Each station has its ARQ, the buffer of its present access, its         *)
(* ChannelState and its view of the medium, which not all stations share:  *)
(* Neighbours hear each other, frames and acknowledgments overlap and get  *)
(* lost.  A contention access begins after the channel was idle for AIFS   *)
(* (module Backoff), a reserved one when all others are over (OneAccess    *)
(* and FrameFits of module DRPScheduler).  All frames are of one length;   *)
(* a compound is its number on its link, a pair of sender and receiver.    *)
(***************************************************************************)
EXTENDS ChannelState

CONSTANTS
    Stations, NoStation,
    Neighbours,             \* [Stations -> SUBSET Stations]: who hears whom
    Traffic,                \* [Links -> Nat]: compounds to be sent
    PreambleDuration, PsduDuration, AckDuration,
    Aifs                    \* the shortest wait of the backoff

Links == Stations \X Stations

ASSUME StationAssumption ==
    /\ NoStation \notin Stations
    /\ Neighbours \in [Stations -> SUBSET Stations]
    /\ \A r, s \in Stations : r \in Neighbours[s] <=> s \in Neighbours[r]
    /\ \A s \in Stations : s \notin Neighbours[s]
    /\ Traffic \in [Links -> Nat]

ASSUME DurationAssumption ==
    /\ PreambleDuration \in Nat \ {0}
    /\ PsduDuration \in Nat \ {0}
    /\ AckDuration \in Nat \ {0}
    /\ Aifs \in Nat
    /\ SifsDuration < Aifs

VARIABLES
    acked,          \* per link, the compounds that have left the sender's buffer
    partner,        \* getCurrentTransmissionTarget of the station's access
    timer,          \* of its TempSendBuffer: time left, or Off
    isWaitingSIFS,
    txop,           \* the TXOP goes on with another frame
    acks,           \* acknowledgments to be transmitted, in how much time
    locked,         \* the station whose payload is being received
    cs,             \* ChannelState
    quiet,          \* for how long the channel has been idle, up to Aifs
    air,            \* what the station transmits
    reservation,    \* the link whose reservation is on
    near            \* the next one is so near that no exchange fits before it

\* History.
VARIABLES
    delivered,      \* per link, the latest compound the receiver has passed up
    announced       \* [s][r]: exchanges of s still to come that r was told of

senderVars == <<acked, partner, timer, isWaitingSIFS, txop>>
receiverVars == <<acks, delivered>>
mediumVars == <<air, locked, cs>>
reserved == <<reservation, near>>
vars == <<senderVars, receiverVars, mediumVars, quiet, reserved, announced>>

Off == -1               \* a timer that is not set
NoReservation == <<NoStation, NoStation>>

Frame(type, to, number, exchange, left) ==
    [type |-> type, to |-> to, number |-> number, exchange |-> exchange, left |-> left]
Silent == Frame("NONE", NoStation, 0, 0, 0)

\* The whole frame exchange (TempSendBuffer::CalculateTxTime).
FT == PreambleDuration + PsduDuration + SifsDuration + AckDuration + SifsDuration

\* What follows a data frame: its acknowledgment.
replyDuration == SifsDuration + AckDuration

FaultyExchange(more) == replyDuration   \* a TXOP that goes on is not announced

\* In a TXOP that goes on, the next exchange is announced as well.
Exchange(more) ==
    IF more THEN replyDuration + SifsDuration + PreambleDuration + PsduDuration + replyDuration
    ELSE replyDuration

Init ==
    /\ acked = [l \in Links |-> 0]
    /\ partner = [s \in Stations |-> NoStation]
    /\ timer = [s \in Stations |-> Off]
    /\ isWaitingSIFS = [s \in Stations |-> FALSE]
    /\ txop = [s \in Stations |-> FALSE]
    /\ acks = [s \in Stations |-> {}]
    /\ locked = [s \in Stations |-> NoStation]
    /\ cs = [s \in Stations |-> InitialState]
    /\ quiet = [s \in Stations |-> 0]
    /\ air = [s \in Stations |-> Silent]
    /\ reservation = NoReservation
    /\ near = FALSE
    /\ delivered = [l \in Links |-> 0]
    /\ announced = [s \in Stations |-> [r \in Stations |-> 0]]

-----------------------------------------------------------------------------
(***************************************************************************)
(* The medium: carrier sense follows the neighbours' transmissions.  A     *)
(* station that transmits receives nothing, and gives up what it receives. *)
(***************************************************************************)
Sensed(c, onAir) ==
    [r \in Stations |-> onRSSChange(c[r], \E s \in Neighbours[r] : onAir[s] # Silent)]

Transmit(s, frame) ==
    /\ air' = [air EXCEPT ![s] = frame]
    /\ locked' = [locked EXCEPT ![s] = NoStation]
    /\ cs' = Sensed([cs EXCEPT ![s] = onRx(onTxStart(@), "rxError")], air')

Listeners(s) == {r \in Neighbours[s] : air[r] = Silent}

\* The frame at the head of the buffer is sent, and the timer set for its exchange.
SendCompound(s, r) ==
    \E more \in BOOLEAN :
        LET number == acked[<<s, r>>] + 1 IN
        /\ number <= Traffic[<<s, r>>]
        /\ more => number < Traffic[<<s, r>>] /\ reservation' = NoReservation
        /\ Transmit(s, Frame("DATA_PREAMBLE", r, number, Exchange(more), PreambleDuration))
        /\ timer' = [timer EXCEPT ![s] = FT]
        /\ isWaitingSIFS' = [isWaitingSIFS EXCEPT ![s] = FALSE]
        /\ txop' = [txop EXCEPT ![s] = more]

\* An exchange is over, or was replaced by a new access.
NoneAnnounced(s) == announced' = [announced EXCEPT ![s] = [r \in Stations |-> 0]]
OneLessAnnounced(s) ==
    announced' = [announced EXCEPT
        ![s] = [r \in Stations |-> IF @[r] > 0 THEN @[r] - 1 ELSE 0]]

-----------------------------------------------------------------------------
(***************************************************************************)
(* ARQ and the end of a frame.                                             *)
(***************************************************************************)
FaultyTakesFrom(r, s) == partner[r] = s     \* nothing without an access of its own

\* A station that has an access of its own takes frames of its partner only.
TakesFrom(r, s) == partner[r] \in {s, NoStation}

FaultyTakes(r, s, to) == TakesFrom(r, s)    \* whoever it is addressed to

\* ARQ::doOnData, up to what it does with the frame.
Takes(r, s, to) == to = r /\ TakesFrom(r, s)

\* The acknowledgment says what is left of the exchange, if it is worth a NAV.
FaultyCreateACK(r, s, exchange) ==      \* two SIFS later
    LET fxDur == exchange - SifsDuration - AckDuration
    IN  acks' = [acks EXCEPT ![r] = @ \cup
            {[to |-> s, in |-> 3 * SifsDuration,
              exchange |-> IF fxDur < SifsDuration THEN 0 ELSE fxDur]}]

CreateACK(r, s, exchange) ==
    LET fxDur == exchange - SifsDuration - AckDuration
    IN  acks' = [acks EXCEPT ![r] = @ \cup
            {[to |-> s, in |-> SifsDuration,
              exchange |-> IF fxDur < SifsDuration THEN 0 ELSE fxDur]}]

\* The acknowledged compound leaves the buffer, which waits another SIFS.
ImmAck(s, r) ==
    /\ acked' = [acked EXCEPT ![<<s, r>>] = @ + 1]
    /\ isWaitingSIFS' = [isWaitingSIFS EXCEPT ![s] = TRUE]
    /\ timer' = [timer EXCEPT ![s] = SifsDuration]
    /\ UNCHANGED <<partner, txop>>

\* The preamble of s ends: some listeners, T, take it up, whatever they received.
PreambleOver(s) ==
    /\ air[s].type = "DATA_PREAMBLE" /\ air[s].left = 0
    /\ air' = [air EXCEPT ![s] = [@ EXCEPT !.type = "PAYLOAD", !.left = PsduDuration]]
    /\ \E T \in SUBSET Listeners(s) :
         /\ locked' = [r \in Stations |-> IF r \in T THEN s ELSE locked[r]]
         /\ cs' = [r \in Stations |->
               IF r \notin T THEN cs[r]
               ELSE processIncoming(onRx(cs[r], "rxStart"),
                       [type |-> "DATA_PREAMBLE", forMe |-> r = air[s].to,
                        exchange |-> PsduDuration + air[s].exchange])]
         /\ announced' = [announced EXCEPT ![s] = [r \in Stations |->
               IF r \in T THEN (IF txop[s] THEN 2 ELSE 1) ELSE @[r]]]
    /\ UNCHANGED <<senderVars, receiverVars, quiet, reserved>>

\* The payload of s ends: those of its receivers in T have received it correctly.
PayloadOver(s) ==
    LET frame == air[s]
        receiving == {r \in Stations : locked[r] = s}
    IN
    /\ frame.type = "PAYLOAD" /\ frame.left = 0
    /\ air' = [air EXCEPT ![s] = Silent]
    /\ locked' = [r \in Stations |-> IF r \in receiving THEN NoStation ELSE locked[r]]
    /\ \E T \in SUBSET receiving :
         /\ cs' = Sensed([r \in Stations |->
               IF r = s THEN onTxEnd(cs[s], [exchange |-> frame.exchange, hasPayload |-> TRUE])
               ELSE IF r \in T
               THEN processIncoming(onRx(cs[r], "rxEnd"),
                       [type |-> "PAYLOAD", forMe |-> r = frame.to, exchange |-> frame.exchange])
               ELSE IF r \in receiving THEN onRx(cs[r], "rxError")
               ELSE cs[r]], air')
         /\ LET takers == {r \in T : Takes(r, s, frame.to)}
            IN  IF takers = {} THEN UNCHANGED receiverVars
                ELSE \E r \in takers :
                       /\ delivered' = [delivered EXCEPT ![<<s, r>>] = frame.number]
                       /\ CreateACK(r, s, frame.exchange)
    /\ UNCHANGED <<senderVars, quiet, reserved, announced>>

\* TransmitAck: unless the PhyUser transmits ("can't send ACK").
TransmitAck(r) ==
    \E ack \in acks[r] :
        /\ ack.in = 0
        /\ acks' = [acks EXCEPT ![r] = @ \ {ack}]
        /\ IF air[r] = Silent
           THEN Transmit(r, Frame("ACK_PREAMBLE", ack.to, 0, ack.exchange, AckDuration))
           ELSE UNCHANGED mediumVars
        /\ UNCHANGED <<senderVars, delivered, quiet, reserved, announced>>

\* An acknowledgment, a preamble without payload, ends.
AckOver(s) ==
    LET frame == air[s]
        preamble(r) == [type |-> "ACK_PREAMBLE", forMe |-> r = frame.to,
                        exchange |-> frame.exchange]
    IN
    /\ frame.type = "ACK_PREAMBLE" /\ frame.left = 0
    /\ air' = [air EXCEPT ![s] = Silent]
    /\ \E T \in SUBSET Listeners(s) :
         /\ locked' = [r \in Stations |-> IF r \in T THEN NoStation ELSE locked[r]]
         /\ cs' = Sensed([r \in Stations |->
               IF r = s THEN onTxEnd(cs[s], [exchange |-> frame.exchange, hasPayload |-> FALSE])
               ELSE IF r \in T THEN processIncoming(onRx(cs[r], "rxError"), preamble(r))
               ELSE cs[r]], air')
         /\ announced' = [t \in Stations |-> [r \in Stations |->
               IF r \in T /\ AwaitedAck(cs[r], preamble(r)) THEN 0 ELSE announced[t][r]]]
         /\ LET takers == {r \in T : Takes(r, s, frame.to)}
            IN  IF takers = {} THEN UNCHANGED senderVars
                ELSE \E r \in takers : ImmAck(r, s)
    /\ UNCHANGED <<receiverVars, quiet, reserved>>

-----------------------------------------------------------------------------
(***************************************************************************)
(* Accesses.                                                               *)
(***************************************************************************)
\* The backoff grants a transmission (DRPScheduler::startPCAtransmission).  It
\* notices a busy channel a nanosecond late, so that several may start at once.
StartAccess(s, r) ==
    /\ reservation = NoReservation /\ ~near
    /\ partner[s] = NoStation
    /\ quiet[s] = Aifs
    /\ air[s] = Silent
    /\ partner' = [partner EXCEPT ![s] = r]
    /\ UNCHANGED reserved
    /\ SendCompound(s, r)
    /\ NoneAnnounced(s)
    /\ UNCHANGED <<acked, receiverVars, quiet>>

\* An access may find no frame that fits, and is idle until it ends.
StartIdleAccess(s, r) ==
    /\ reservation = NoReservation /\ ~near
    /\ partner[s] = NoStation
    /\ quiet[s] = Aifs
    /\ acked[<<s, r>>] < Traffic[<<s, r>>]
    /\ partner' = [partner EXCEPT ![s] = r]
    /\ UNCHANGED <<acked, timer, isWaitingSIFS, txop, receiverVars, mediumVars,
                   quiet, reserved, announced>>

EndIdleAccess(s) ==
    /\ reservation = NoReservation
    /\ partner[s] # NoStation /\ timer[s] = Off
    /\ partner' = [partner EXCEPT ![s] = NoStation]
    /\ UNCHANGED <<acked, timer, isWaitingSIFS, txop, receiverVars, mediumVars,
                   quiet, reserved, announced>>

\* TempSendBuffer::onTimeout.  A contention access goes on only after an
\* acknowledgment, and if its TXOP does.
NextFrame(s) ==
    /\ timer[s] = 0
    /\ IF reservation = NoReservation THEN isWaitingSIFS[s] /\ txop[s] ELSE TRUE
    /\ UNCHANGED reserved
    /\ SendCompound(s, partner[s])
    /\ OneLessAnnounced(s)
    /\ UNCHANGED <<acked, partner, receiverVars, quiet>>

\* In a reservation, the next frame may not fit any more, or there is none.
LastFrame(s) ==
    /\ timer[s] = 0
    /\ reservation = NoReservation => ~(isWaitingSIFS[s] /\ txop[s])
    /\ timer' = [timer EXCEPT ![s] = Off]
    /\ isWaitingSIFS' = [isWaitingSIFS EXCEPT ![s] = FALSE]
    /\ txop' = [txop EXCEPT ![s] = FALSE]
    /\ partner' = IF reservation = NoReservation
                  THEN [partner EXCEPT ![s] = NoStation] ELSE partner
    /\ NoneAnnounced(s)
    /\ UNCHANGED <<acked, receiverVars, mediumVars, quiet, reserved>>

\* No access begins that is not over before the next reservation
\* (DRPScheduler::getTimeUntilNextDRPReservation).
ReservationNears ==
    /\ reservation = NoReservation /\ ~near
    /\ near' = TRUE
    /\ UNCHANGED <<senderVars, receiverVars, mediumVars, quiet, reservation, announced>>

\* A reservation starts (DRPScheduler::TimeToTransmit) when all accesses are over.
ReservationStarts(s, r) ==
    /\ near /\ Traffic[<<s, r>>] > 0
    /\ \A t \in Stations : partner[t] = NoStation /\ air[t] = Silent
    /\ near' = FALSE
    /\ reservation' = <<s, r>>
    /\ partner' = [partner EXCEPT ![s] = r]
    /\ \/ SendCompound(s, r)
       \/ /\ acked[<<s, r>>] = Traffic[<<s, r>>]
          /\ UNCHANGED <<timer, isWaitingSIFS, txop, mediumVars>>
    /\ NoneAnnounced(s)
    /\ UNCHANGED <<acked, receiverVars, quiet>>

ReservationStops ==
    /\ reservation # NoReservation
    /\ timer[reservation[1]] = Off
    /\ reservation' = NoReservation
    /\ partner' = [partner EXCEPT ![reservation[1]] = NoStation]
    /\ UNCHANGED <<acked, timer, isWaitingSIFS, txop, receiverVars, mediumVars,
                   quiet, near, announced>>

NAVTimeout(s) ==
    /\ cs[s].nav = 0
    /\ cs' = [cs EXCEPT ![s] = NAVOver(@)]
    /\ UNCHANGED <<senderVars, receiverVars, air, locked, quiet, reserved, announced>>

Left(t) == IF t > 0 THEN t - 1 ELSE t

\* Nothing is due: time goes on.
Tick ==
    /\ \A s \in Stations :
         /\ timer[s] # 0 /\ cs[s].nav # 0
         /\ air[s] # Silent => air[s].left > 0
         /\ \A ack \in acks[s] : ack.in > 0
    /\ timer' = [s \in Stations |-> Left(timer[s])]
    /\ acks' = [s \in Stations |-> {[ack EXCEPT !.in = @ - 1] : ack \in acks[s]}]
    /\ air' = [s \in Stations |-> [air[s] EXCEPT !.left = Left(@)]]
    /\ cs' = [s \in Stations |-> Aged(cs[s])]
    /\ quiet' = [s \in Stations |->
                   IF cs[s].lastCS = "busy" THEN 0
                   ELSE IF quiet[s] < Aifs THEN quiet[s] + 1 ELSE Aifs]
    /\ UNCHANGED <<acked, partner, isWaitingSIFS, txop, delivered, locked,
                   reserved, announced>>

Next ==
    \/ \E s, r \in Stations : StartAccess(s, r)
    \/ \E s, r \in Stations : StartIdleAccess(s, r)
    \/ \E s \in Stations : EndIdleAccess(s)
    \/ \E s \in Stations : PreambleOver(s)
    \/ \E s \in Stations : PayloadOver(s)
    \/ \E s \in Stations : TransmitAck(s)
    \/ \E s \in Stations : AckOver(s)
    \/ \E s \in Stations : NextFrame(s)
    \/ \E s \in Stations : LastFrame(s)
    \/ ReservationNears
    \/ \E s, r \in Stations : ReservationStarts(s, r)
    \/ ReservationStops
    \/ \E s \in Stations : NAVTimeout(s)
    \/ Tick

Spec == Init /\ [][Next]_vars

(***************************************************************************)
(* Every link that has compounds gets reservations again and again (module *)
(* Reservation), so that time goes on; and the channel does not for ever   *)
(* go on losing frames or acknowledgments of reservations.                 *)
(***************************************************************************)
NothingLostIn(s, r) ==
    /\ r \in Listeners(s) /\ PreambleOver(s) => locked'[r] = s
    /\ Takes(r, s, r) /\ PayloadOver(s) => acks' # acks
    /\ Takes(s, r, s) /\ AckOver(r) => acked' # acked

NothingLost ==
    reservation \in Links => NothingLostIn(reservation[1], reservation[2])

Fairness ==
    /\ \A l \in {k \in Links : Traffic[k] > 0} :
          []<><<ReservationStarts(l[1], l[2])>>_vars
    /\ <>[][NothingLost]_vars

FairSpec == Spec /\ Fairness

-----------------------------------------------------------------------------
(***************************************************************************)
(* Properties                                                              *)
(***************************************************************************)
\* A compound that was acknowledged, and so has left the sender's buffer, was
\* delivered: no acknowledgment is taken for that of another frame.
AckedWasDelivered == \A l \in Links : acked[l] <= delivered[l]

\* An acknowledgment on its way, from the delivery of its frame on, finds the
\* sender waiting for it (assertion of TempSendBuffer.cpp:388), in the same
\* access and with that frame at the head of its buffer.
Acknowledges(r, s) ==
    /\ timer[s] # Off /\ ~isWaitingSIFS[s]
    /\ partner[s] = r
    /\ delivered[<<s, r>>] = acked[<<s, r>>] + 1

AckFindsItsFrame ==
    \A r \in Stations :
        /\ \A ack \in acks[r] : Acknowledges(r, ack.to)
        /\ air[r].type = "ACK_PREAMBLE" => Acknowledges(r, air[r].to)

\* A station does not transmit while an acknowledgment waits that it has to send
\* (ARQ.cpp:119: "can't send ACK"), or when its buffer goes on to the next frame
\* (assertion of PhyUser.cpp:96): neither asks whether the channel is idle.  This
\* takes payloads longer than SIFS: otherwise frames of two stations that do not
\* hear each other can end within SIFS and call for acknowledgments at once.
OneTransmission ==
    \A r \in Stations :
        \/ acks[r] # {}
        \/ /\ timer[r] = 0
           /\ reservation # NoReservation \/ (isWaitingSIFS[r] /\ txop[r])
        => air[r] = Silent

\* No station begins an access during an exchange that was announced to it, by
\* the preamble of its frame or of the frame before it in the TXOP; unless it
\* has got an acknowledgment it awaited since, which cancels every NAV.
ExchangeUndisturbed ==
    [][\A r, s \in Stations :
          StartAccess(r, s) =>
            \A t \in Stations : timer[t] # Off => announced[t][r] = 0]_vars

\* Whatever gets lost in contention, and in reservations as long as it is not
\* all, every compound is acknowledged at last: no sender waits for ever, and no
\* receiver stays deaf to its partner.
AllAcknowledged == <>(acked = Traffic)
=============================================================================
