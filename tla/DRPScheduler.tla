---------------------------- MODULE DRPScheduler ----------------------------
(***************************************************************************)
(* The transmit path of one station: the scheduler that alternates between *)
(* reserved (DRP) and contention (PCA) access (drp/DRPScheduler.cpp), the  *)
(* temporary send buffers, one per receiver and access method              *)
(* (drp/TempSendBuffer.cpp), the queues, the TXOP window                   *)
(* (lowerMAC/TXOP.cpp) and the DCF (lowerMAC/timing/DCF.cpp).              *)
(*                                                                         *)
(* The calls between these units are nested function calls within one      *)
(* event of the simulator, so that every event is one action, and every    *)
(* function of the code an operator from the station's state to the next.  *)
(* The backoff, the channel and the reservations of the superframe are the *)
(* environment.  Timers hold the time left; Advance lets time pass up to   *)
(* the next event.                                                         *)
(***************************************************************************)
EXTENDS Queues, FiniteSets

CONSTANTS
    FT,                     \* duration of a compound's frame exchange: frame,
                            \* SIFS, ImmAck and SIFS (CalculateTxTime)
    Sifs,                   \* short interframe space
    GuardDuration,          \* kept free at the end of an access
    CloseLead,              \* txOPCloseIn is early by this time (1 us)
    TimerLead,              \* so is the timer of a PCA transmission (1 ns)
    MinAccess, MaxAccess,   \* shortest and longest PCA transmission
    txopLimit,
    Configs,                \* usePCAchannelAccess: contention access, too;
                            \* isDroppingAfterRetr: retransmissions allowed,
                            \* -1: any number
    Gaps, Lengths,          \* times between and of reservations
    Steps                   \* bound: instants at which requests arrive

ASSUME TimingAssumption ==
    /\ FT \in [Compounds -> Nat]
    /\ \A d \in Gaps \cup Lengths \cup Steps : d \in Nat \ {0}
    /\ {TimerLead, CloseLead, Sifs, GuardDuration, MinAccess, MaxAccess, txopLimit}
          \subseteq Nat
    /\ 0 < TimerLead /\ TimerLead < CloseLead /\ CloseLead < Sifs
    /\ Sifs < GuardDuration /\ GuardDuration < MinAccess
    /\ MinAccess <= MaxAccess
    /\ \A c \in Compounds : FT[c] > 2 * Sifs
    /\ \A d \in Gaps \cup Lengths : d > GuardDuration

ASSUME ConfigAssumption ==
    Configs \subseteq [usePCAchannelAccess : BOOLEAN,
                       isDroppingAfterRetr : Nat \cup {-1}]

Off == -1                   \* a timer that is not set
Nothing == [c |-> Off, due |-> Off]
Buffers == {"DRP", "PCA"} \X Receivers

VARIABLES
    st,         \* the station
    reserved,   \* a reservation or beacon period is on: onDRPStart was called
    nextChange, \* time until that changes
    accepted    \* history: the compounds the station is responsible for

vars == <<st, reserved, nextChange, accepted>>

-----------------------------------------------------------------------------
(***************************************************************************)
(* TempSendBuffer and TXOP.  Below, t is the station's state and b one of  *)
(* its buffers.  An operator whose name starts with Faulty is its namesake *)
(* with one slip of a kind the code could have had; the properties tell    *)
(* the two apart.                                                          *)
(***************************************************************************)
TimeOf(pdus) ==
    LET upTo[n \in 0 .. Len(pdus)] == IF n = 0 THEN 0 ELSE upTo[n - 1] + FT[pdus[n]]
    IN  upTo[Len(pdus)]

IsEmpty(t, b) == t.buf[b].pdus = <<>>
First(t, b) == Head(t.buf[b].pdus)
UpTo(n, bound) == IF n > bound THEN bound ELSE n

SetTxopDuration(t, b, duration) ==
    [t EXCEPT !.txOPLeft = duration - GuardDuration,
              !.timeleft = duration - GuardDuration - TimeOf(t.buf[b].pdus)]

\* How many compounds at the head of the queue fit into the buffer.
Fitting(t, b) ==
    LET queue == t.queues[b[2]]
        fits(n) == TimeOf(SubSeq(queue, 1, n)) <= t.timeleft
    IN  CHOOSE n \in 0 .. Len(queue) :
            fits(n) /\ (n < Len(queue) => ~fits(n + 1))

\* FillBuffer, until it returns false.  Its second half, which takes compounds
\* out of an overfull buffer, is dead code: a buffer is filled for one access
\* only, at whose end StopBuffering empties it.
FillBuffer(t, b) ==
    LET queue == t.queues[b[2]]
        moved == SubSeq(queue, 1, Fitting(t, b))
    IN  [t EXCEPT !.queues[b[2]] = SubSeq(queue, Len(moved) + 1, Len(queue)),
                  !.buf[b].pdus = @ \o moved,
                  !.timeleft = @ - TimeOf(moved)]

\* Copies the compounds to the queue and keeps them in the buffer, too (l.144).
FaultyReturnCopies(t, b) ==
    [t EXCEPT !.queues = putFront(@, b[2], t.buf[b].pdus),
              !.txOPLeft = 0,
              !.timeleft = 0]

\* The end of StopBuffering: the compounds return to their queue.  The times
\* belong to the access that ends; the next one sets them anew.
ReturnCompounds(t, b) ==
    [t EXCEPT !.queues = putFront(@, b[2], t.buf[b].pdus),
              !.buf[b].pdus = <<>>,
              !.txOPLeft = 0,
              !.timeleft = 0]

\* Backoff::transmissionRequest as the DCF sees it.
DirectGo(t) == t.backoffFinished /\ ~reserved
transmissionRequest(t) ==
    [t EXCEPT !.transmissionWaiting = ~DirectGo(t),
              !.backoffFinished = @ /\ ~DirectGo(t)]

\* The answer of the backoff is not used.
waitingTransmissions(t) ==
    IF queueHasPDUs(t.queues, t.ActivePCArx) THEN transmissionRequest(t) ELSE t

\* Does not reset PCAcompoundsWereSent (l.604).
FaultyEndPCA(t) ==
    LET u == ReturnCompounds(t, <<"PCA", t.ActivePCArx>>)
    IN  waitingTransmissions(
          [u EXCEPT !.timer = Off,
                    !.nextPCAReceiver = IF t.PCAcompoundsWereSent
                                        THEN changePCAreceiver(u.queues, @)
                                        ELSE @,
                    !.isPCAtransmissionActive = FALSE,
                    !.buf[<<"PCA", t.ActivePCArx>>].isTransmissionStarted = FALSE])

\* stopPCAtransmission from where the buffer's timer is cancelled.
EndPCA(t) ==
    LET u == ReturnCompounds(t, <<"PCA", t.ActivePCArx>>)
    IN  waitingTransmissions(
          [u EXCEPT !.timer = Off,
                    !.nextPCAReceiver = IF t.PCAcompoundsWereSent
                                        THEN changePCAreceiver(u.queues, @)
                                        ELSE @,
                    !.PCAcompoundsWereSent = FALSE,
                    !.isPCAtransmissionActive = FALSE,
                    !.buf[<<"PCA", t.ActivePCArx>>].isTransmissionStarted = FALSE])

\* stopPCAtransmission while no timer of the buffer is running.
stopIdlePCA(t) == IF t.isPCAtransmissionActive THEN EndPCA(t) ELSE t

closeTXOP(t) == [t EXCEPT !.remainingTXOPDuration = 0]

\* The next compound of the buffer, if its frame exchange is over before the
\* next reservation, too.
getNextTransmissionDuration(pdus) ==
    IF Len(pdus) > 1 /\ FT[pdus[1]] + FT[pdus[2]] < nextChange - GuardDuration
    THEN FT[pdus[2]] ELSE 0

\* Closes the PCA transmission before the ImmAck is in (TXOP.cpp:162).
FaultyCloseIn(t, duration) ==
    [t EXCEPT !.closes = @ \cup {duration - Sifs - CloseLead}]

txOPCloseIn(t, duration) == [t EXCEPT !.closes = @ \cup {duration - CloseLead}]

(***************************************************************************)
(* TXOP::processOutgoing: the TXOP goes on if the next compound of the     *)
(* buffer fits into it and before the next reservation; otherwise it is    *)
(* closed, and the PCA transmission shortly before the frame exchange ends *)
(* (txOPCloseIn).                                                          *)
(***************************************************************************)
processOutgoing(t, b) ==
    LET duration == FT[First(t, b)]
        window == IF t.remainingTXOPDuration = 0 THEN txopLimit
                  ELSE t.remainingTXOPDuration - Sifs
        cut == window - (duration - Sifs)
        next == getNextTransmissionDuration(t.buf[b].pdus)
    IN  IF cut > 0 /\ next \in 1 .. cut
        THEN [t EXCEPT !.remainingTXOPDuration = cut]
        ELSE txOPCloseIn(closeTXOP(t), duration)

\* Bounds, where the code has none: retransmissions are counted as far as they
\* are compared, and the frames without an answer one further.
MaxRetransmissions(t) == IF t.config.isDroppingAfterRetr = -1 THEN 0
                         ELSE t.config.isDroppingAfterRetr
MaxUnanswered(t) == t.config.isDroppingAfterRetr + 1

TransmitCompound(t, b) ==
    [t EXCEPT !.buf[b].timer = FT[First(t, b)],
              !.buf[b].isTransmissionStarted = TRUE,
              !.buf[b].unanswered = UpTo(@ + 1, MaxUnanswered(t)),
              !.onAir = [c |-> First(t, b), due |-> FT[First(t, b)] - Sifs]]

\* TXOP::doIsAccepting: an ongoing TXOP bypasses the DCF.
Bypass(t) == t.remainingTXOPDuration > 0

\* DCF::doIsAccepting asks the backoff.
AskDCF(t) ==
    IF Bypass(t) \/ t.sendNow THEN t
    ELSE [transmissionRequest(t) EXCEPT !.sendNow = DirectGo(t)]

SendPCA(t, b) ==
    [processOutgoing(TransmitCompound(t, b), b)
        EXCEPT !.PCAcompoundsWereSent = TRUE,
               !.sendNow = @ /\ Bypass(t)]

\* DRPScheduler::SendCompounds; its assertion of l.233 fails when no access is on.
ScheduleCompounds(t, b) ==
    IF t.AccessPermission THEN TransmitCompound(t, b)
    ELSE IF ~t.isPCAtransmissionActive THEN [t EXCEPT !.undefined = TRUE]
    ELSE LET u == AskDCF(t)
         IN  IF Bypass(u) \/ u.sendNow THEN SendPCA(u, b) ELSE stopIdlePCA(u)

\* Does not compare the frame exchange with the time left (l.286).
FaultySendCompounds(t, b) ==
    IF IsEmpty(t, b) THEN stopIdlePCA(t) ELSE ScheduleCompounds(t, b)

\* TempSendBuffer::SendCompounds
SendCompounds(t, b) ==
    IF IsEmpty(t, b) \/ FT[First(t, b)] > t.txOPLeft THEN stopIdlePCA(t)
    ELSE ScheduleCompounds(t, b)

TimerRuns(t, b) == t.buf[b].timer # Off

\* The result of StartBuffering, and its effect.
CanStart(t, b) == TimerRuns(t, b) \/ Fitting(t, b) > 0
StartBuffering(t, b) ==
    LET u == FillBuffer(t, b)
    IN  IF TimerRuns(t, b) THEN u
        ELSE IF CanStart(t, b) THEN SendCompounds(u, b) ELSE t

\* Removing the front of an empty deque is undefined: the program is lost.
DropFront(t, b) ==
    IF IsEmpty(t, b) THEN [t EXCEPT !.undefined = TRUE]
    ELSE [t EXCEPT !.buf[b].pdus = Tail(@), !.buf[b].numOfRetransmissions = 0,
                   !.buf[b].unanswered = 0]

\* Leaves the TXOP open (l.336).
FaultyFailedAck(t) == IF t.isPCAtransmissionActive THEN EndPCA(t) ELSE t

\* A missing acknowledgment ends a PCA transmission; the buffer's timer is off.
failedAck(t) == IF t.isPCAtransmissionActive THEN closeTXOP(EndPCA(t)) ELSE t

\* After that the compound at the front is counted or dropped.
Unacknowledged(t, b) ==
    LET u == failedAck(t)
        n == u.buf[b].numOfRetransmissions
    IN  IF \/ t.config.isDroppingAfterRetr = -1
           \/ n < t.config.isDroppingAfterRetr
        THEN [u EXCEPT !.buf[b].numOfRetransmissions =
                            UpTo(n + 1, MaxRetransmissions(t))]
        ELSE DropFront(u, b)

\* TempSendBuffer::onTimeout
BufferTimeout(t, b) ==
    LET u == [t EXCEPT !.buf[b].timer = Off, !.buf[b].isWaitingSIFS = FALSE]
        v == IF t.buf[b].isWaitingSIFS THEN u ELSE Unacknowledged(u, b)
    IN  IF v.buf[b].isTransmissionStarted THEN SendCompounds(v, b) ELSE v

\* StopBuffering up to the return of the compounds: a frame whose timer is still
\* running counts as unacknowledged.
HaltBuffer(t, b) ==
    LET u == [t EXCEPT !.buf[b].isTransmissionStarted = FALSE]
    IN  IF TimerRuns(t, b) THEN BufferTimeout(u, b) ELSE u

stopPCAtransmission(t) ==
    IF ~t.isPCAtransmissionActive THEN t
    ELSE EndPCA(HaltBuffer(t, <<"PCA", t.ActivePCArx>>))

\* Does not reset numOfRetransmissions (l.393).
FaultyImmAck(t, b) ==
    IF ~TimerRuns(t, b) THEN [t EXCEPT !.undefined = TRUE]
    ELSE [t EXCEPT !.buf[b].pdus = Tail(@),
                   !.buf[b].isWaitingSIFS = TRUE,
                   !.buf[b].timer = Sifs,
                   !.buf[b].unanswered = 0]

\* An ImmAck without a frame waiting for it fails the assertion of l.388.
ImmAck(t, b) ==
    IF ~TimerRuns(t, b) THEN [t EXCEPT !.undefined = TRUE]
    ELSE [t EXCEPT !.buf[b].pdus = Tail(@),
                   !.buf[b].numOfRetransmissions = 0,
                   !.buf[b].isWaitingSIFS = TRUE,
                   !.buf[b].timer = Sifs,
                   !.buf[b].unanswered = 0]

(***************************************************************************)
(* DRPScheduler                                                            *)
(***************************************************************************)
\* Looks for reservations from the next MAS on (l.484).
FaultyTimeUntilNext ==
    IF nextChange < MinAccess THEN 0 ELSE UpTo(nextChange, MaxAccess)

getTimeUntilNextDRPReservation ==
    IF reserved \/ nextChange < MinAccess THEN 0 ELSE UpTo(nextChange, MaxAccess)

NextReceiver(t) == getNextPCAReceiver(t.queues, t.nextPCAReceiver)

\* The assertion of l.428, "A PCA transmission was started although a DRP
\* transmission is already active": where it fails the model goes on as a build
\* without assertions does.
AssureNoDRP(t) == [t EXCEPT !.startedInDRP = @ \/ t.AccessPermission]

\* Sets no timer (l.457).
FaultyStartPCA(t) ==
    LET r == NextReceiver(t)
        duration == getTimeUntilNextDRPReservation
        u == [AssureNoDRP(t) EXCEPT !.nextPCAReceiver = r, !.ActivePCArx = r]
        v == [u EXCEPT !.isPCAtransmissionActive = TRUE]
    IN  IF t.timer # Off THEN AssureNoDRP(t)
        ELSE IF r = NoReceiver THEN u
        ELSE IF duration = 0 THEN transmissionRequest(u)
        ELSE StartBuffering(SetTxopDuration(v, <<"PCA", r>>, duration),
                            <<"PCA", r>>)

\* A PCA transmission with the next receiver.  When no compound fits into it,
\* it stays active and empty until its timer ends it.
startPCAtransmission(t) ==
    LET r == NextReceiver(t)
        duration == getTimeUntilNextDRPReservation
        u == [AssureNoDRP(t) EXCEPT !.nextPCAReceiver = r, !.ActivePCArx = r]
        v == [u EXCEPT !.isPCAtransmissionActive = TRUE,
                       !.timer = duration - TimerLead]
    IN  IF t.timer # Off THEN AssureNoDRP(t)
        ELSE IF r = NoReceiver THEN u
        ELSE IF duration = 0 THEN transmissionRequest(u)
        ELSE StartBuffering(SetTxopDuration(v, <<"PCA", r>>, duration),
                            <<"PCA", r>>)

\* The result of startPCAtransmission.
PCAcanStart(t) ==
    LET r == NextReceiver(t)
        duration == getTimeUntilNextDRPReservation
    IN  /\ t.timer = Off
        /\ r # NoReceiver
        /\ duration > 0
        /\ CanStart(SetTxopDuration(t, <<"PCA", r>>, duration), <<"PCA", r>>)

TimeToTransmit(t, r, duration) ==
    StartBuffering(
        SetTxopDuration([t EXCEPT !.AccessPermission = TRUE, !.AccessRx = r,
                                  !.timer = duration],
                        <<"DRP", r>>, duration),
        <<"DRP", r>>)

\* DRPScheduler::onTimeout: the time of the access is over.
AccessTimeout(t) ==
    IF t.AccessPermission
    THEN LET b == <<"DRP", t.AccessRx>>
         IN  [ReturnCompounds(HaltBuffer([t EXCEPT !.timer = Off], b), b)
                EXCEPT !.AccessPermission = FALSE]
    ELSE stopPCAtransmission([t EXCEPT !.timer = Off])

getCurrentTransmissionTarget(t) ==
    IF t.AccessPermission THEN t.AccessRx
    ELSE IF t.config.usePCAchannelAccess /\ t.isPCAtransmissionActive THEN t.ActivePCArx
    ELSE NoReceiver

\* ARQ::doOnData takes frames of the current partner, or of all if there is none.
TakesFrom(t, r) == getCurrentTransmissionTarget(t) \in {r, NoReceiver}

\* DRPScheduler::doSendData, after the compound was put into its queue.
NewArrival(t, r) ==
    IF t.AccessPermission
    THEN IF t.AccessRx = r THEN StartBuffering(t, <<"DRP", r>>) ELSE t
    ELSE IF ~t.config.usePCAchannelAccess THEN t
    ELSE IF ~t.isPCAtransmissionActive THEN startPCAtransmission(t)
    ELSE IF t.ActivePCArx = r THEN StartBuffering(t, <<"PCA", r>>)
    ELSE t

-----------------------------------------------------------------------------
IdleBuffer == [pdus |-> <<>>, timer |-> Off, isWaitingSIFS |-> FALSE,
               isTransmissionStarted |-> FALSE, numOfRetransmissions |-> 0,
               unanswered |-> 0]

Init ==
    /\ \E config \in Configs :
       st = [config |-> config,
             queues |-> [r \in Receivers |-> <<>>],
             nextPCAReceiver |-> NoReceiver,
             buf |-> [b \in Buffers |-> IdleBuffer],
             txOPLeft |-> 0,
             timeleft |-> 0,
             AccessPermission |-> FALSE,
             AccessRx |-> NoReceiver,
             isPCAtransmissionActive |-> FALSE,
             ActivePCArx |-> NoReceiver,
             PCAcompoundsWereSent |-> FALSE,
             timer |-> Off,
             closes |-> {},
             remainingTXOPDuration |-> 0,
             sendNow |-> FALSE,
             backoffFinished |-> FALSE,
             transmissionWaiting |-> FALSE,
             onAir |-> Nothing,
             counting |-> TRUE,
             startedInDRP |-> FALSE,
             undefined |-> FALSE]
    /\ reserved = FALSE
    /\ nextChange \in Gaps
    /\ accepted = {}

ActiveBuffer ==
    IF st.AccessPermission THEN <<"DRP", st.AccessRx>>
    ELSE <<"PCA", st.ActivePCArx>>

Active == st.AccessPermission \/ st.isPCAtransmissionActive

\* The station's state after a step; compounds that have left it are no longer
\* its responsibility.
InStation(t, c) ==
    \/ c \in ToSet(t.queues[Dest[c]])
    \/ \E b \in Buffers : c \in ToSet(t.buf[b].pdus)

Becomes(t) ==
    /\ ~st.undefined
    /\ st' = t

Keep == {c \in accepted : InStation(st', c)}

\* DRPScheduler::doSendData
doSendData(c) ==
    /\ c \notin accepted
    /\ isAccepting(st.queues, c)
    /\ Becomes(NewArrival([st EXCEPT !.queues = put(@, c)], Dest[c]))
    /\ accepted' = accepted \cup {c}
    /\ UNCHANGED <<reserved, nextChange>>

(***************************************************************************)
(* DCF::backoffExpired.  A countdown ends while it runs: outside of        *)
(* reservations and, as it is frozen one nanosecond late                   *)
(* (Backoff::channelBusyDelay), at the very start of one.  At the end of a *)
(* reservation it begins with an interframe space.                         *)
(***************************************************************************)
backoffExpired ==
    /\ st.transmissionWaiting
    /\ st.counting
    /\ LET t == [st EXCEPT !.transmissionWaiting = FALSE,
                           !.backoffFinished = FALSE,
                           !.sendNow = TRUE]
           u == startPCAtransmission(t)
       IN  Becomes([u EXCEPT !.sendNow = @ /\ PCAcanStart(t)])
    /\ UNCHANGED <<reserved, nextChange, accepted>>

\* A post-backoff ends, or a busy channel makes it begin anew.
PostBackoff ==
    /\ st.config.usePCAchannelAccess
    /\ ~st.transmissionWaiting
    /\ st.counting
    /\ Becomes([st EXCEPT !.backoffFinished = ~@])
    /\ UNCHANGED <<reserved, nextChange, accepted>>

\* The ImmAck for the frame on air arrives (DRPScheduler::Acknowledgment).
Acknowledgment ==
    LET r == Dest[st.onAir.c]
        b == <<IF st.AccessPermission THEN "DRP" ELSE "PCA", r>>
        t == [st EXCEPT !.onAir = Nothing]
    IN  /\ st.onAir.due = 0
        /\ Becomes(IF TakesFrom(st, r) THEN ImmAck(t, b) ELSE t)
        /\ accepted' = Keep
        /\ UNCHANGED <<reserved, nextChange>>

\* The frame or its ImmAck is lost.
FrameLost ==
    /\ st.onAir.due = 0
    /\ Becomes([st EXCEPT !.onAir = Nothing])
    /\ UNCHANGED <<reserved, nextChange, accepted>>

\* TempSendBuffer::onTimeout
onBufferTimeout ==
    /\ \E b \in Buffers :
         /\ st.buf[b].timer = 0
         /\ Becomes(BufferTimeout(st, b))
    /\ accepted' = Keep
    /\ UNCHANGED <<reserved, nextChange>>

\* The delayed stopPCAtransmission of txOPCloseIn
txOPClose ==
    /\ 0 \in st.closes
    /\ Becomes(stopPCAtransmission([st EXCEPT !.closes = @ \ {0}]))
    /\ accepted' = Keep
    /\ UNCHANGED <<reserved, nextChange>>

\* DRPScheduler::onTimeout
onTimeout ==
    /\ st.timer = 0
    /\ Becomes(AccessTimeout(st))
    /\ accepted' = Keep
    /\ UNCHANGED <<reserved, nextChange>>

\* A reservation starts: onDRPStart unless it follows another one, and
\* TimeToTransmit if the station owns it.
ReservationStarts ==
    /\ nextChange = 0
    /\ st.timer # 0
    /\ reserved' = TRUE
    /\ nextChange' \in Lengths
    /\ \/ Becomes(st)
       \/ \E r \in Receivers : Becomes(TimeToTransmit(st, r, nextChange'))
    /\ accepted' = Keep

\* A reservation ends: onDRPStop.  The next one may be due at once.
ReservationStops ==
    /\ reserved
    /\ nextChange = 0
    /\ reserved' = FALSE
    /\ nextChange' \in Gaps \cup {0}
    /\ Becomes([st EXCEPT !.backoffFinished = FALSE])
    /\ UNCHANGED accepted

(***************************************************************************)
(* Nothing is due: time passes up to the next event or, while nothing is   *)
(* sent, for one of Steps.                                                 *)
(***************************************************************************)
Deadlines ==
    LET timers == {st.timer, st.onAir.due} \cup {st.buf[b].timer : b \in Buffers}
    IN  (timers \ {Off}) \cup st.closes \cup {nextChange}

Resting == Deadlines \subseteq {nextChange, st.timer}

Later(d, timer) == IF timer = Off THEN Off ELSE timer - d

TimersLater(d, buf) == [b \in Buffers |-> [buf[b] EXCEPT !.timer = Later(d, @)]]

Advance ==
    LET first == Least(Deadlines)
    IN  /\ first > 0
        /\ \E d \in {first} \cup {s \in Steps : s < first /\ Resting} :
             /\ Becomes([st EXCEPT
                    !.timer = Later(d, @),
                    !.onAir.due = Later(d, @),
                    !.closes = {e - d : e \in @},
                    !.txOPLeft = IF Active THEN @ - d ELSE @,
                    !.buf = TimersLater(d, @),
                    !.counting = ~reserved,
                    !.startedInDRP = FALSE])
             /\ nextChange' = nextChange - d
        /\ UNCHANGED <<reserved, accepted>>

Next ==
    \/ \E c \in Compounds : doSendData(c)
    \/ backoffExpired
    \/ PostBackoff
    \/ Acknowledgment
    \/ FrameLost
    \/ onBufferTimeout
    \/ txOPClose
    \/ onTimeout
    \/ ReservationStarts
    \/ ReservationStops
    \/ Advance

Spec == Init /\ [][Next]_vars

(***************************************************************************)
(* The event scheduler always goes on to the next event, whatever else     *)
(* arrives; a frame is then either acknowledged or not.  There always is a *)
(* next event, since a reservation starts or stops some time, so that this *)
(* is the weak fairness of Event.                                          *)
(***************************************************************************)
Event ==
    \/ Acknowledgment \/ FrameLost
    \/ onBufferTimeout \/ txOPClose \/ onTimeout
    \/ ReservationStarts \/ ReservationStops
    \/ Advance

Fairness == []<><<Event>>_vars

FairSpec == Spec /\ Fairness

-----------------------------------------------------------------------------
(***************************************************************************)
(* Properties                                                              *)
(***************************************************************************)
\* No ImmAck reaches a buffer that waits for none (assertion of
\* TempSendBuffer.cpp:388), nothing is sent outside of an access (assertion of
\* DRPScheduler.cpp:233) and no compound is taken from an empty buffer, in
\* whatever order acknowledgments, losses, the nested stops of a failed frame,
\* closing TXOPs and the ends of accesses come.
NothingUndefined == ~st.undefined

\* A reserved and a contention access never overlap (the assertions of
\* DRPScheduler.cpp:232 and 233): an access is on exactly while the shared timer
\* runs, and a contention access is over before a reservation begins, its own or
\* a neighbour's.  The assertion of l.428 fails only when the backoff expires
\* before it is frozen, at the very start of an own reservation; even then no
\* contention access begins.
OneAccess ==
    /\ ~(st.AccessPermission /\ st.isPCAtransmissionActive)
    /\ st.timer # Off <=> Active
    /\ reserved => ~st.isPCAtransmissionActive
    /\ st.startedInDRP => reserved /\ st.counting

\* The TXOP, the permission of the DCF and the delayed stop never outlive the
\* contention access they were made for: a stale TXOP would let the next frame
\* bypass the backoff, a stale stop would cut a later access short.
TXOPInPCA ==
    /\ st.remainingTXOPDuration > 0 =>
            st.isPCAtransmissionActive /\ TimerRuns(st, ActiveBuffer)
    /\ ~st.sendNow
    /\ st.closes # {} => st.isPCAtransmissionActive /\ Cardinality(st.closes) = 1

\* A frame on the air is the first of the active buffer, its timer runs, and
\* the frame exchange is over before the reservations change, retransmissions
\* included; and refills never overdraw the time of the buffer ("Buffer error,
\* time < 0", TempSendBuffer.cpp:172).
FrameFits ==
    /\ st.onAir # Nothing =>
        /\ Active
        /\ ActiveBuffer[2] = Dest[st.onAir.c]
        /\ First(st, ActiveBuffer) = st.onAir.c
        /\ TimerRuns(st, ActiveBuffer)
        /\ st.onAir.due + Sifs < nextChange
    /\ st.timeleft >= 0

\* All compounds for r: in its queue and its two buffers.
AllFor(r) ==
    st.queues[r] \o st.buf[<<"DRP", r>>].pdus \o st.buf[<<"PCA", r>>].pdus

\* A compound the station is responsible for is in one place, once: moving
\* between the queue and the buffers never copies it.
EachOnce ==
    \A r \in Receivers :
        /\ IsInjective(AllFor(r))
        /\ ToSet(AllFor(r)) = {c \in accepted : Dest[c] = r}

\* A compound leaves the station only when it is acknowledged or, if drops are
\* allowed, from the head of a buffer that has sent more than isDroppingAfterRetr
\* frames in a row without an answer: no move between queue and buffer loses it,
\* no acknowledged frame and no nested stop is counted as a failure.  (The
\* frames may be those of another compound: the counter is the buffer's.)
GivenUp(c) ==
    /\ st.config.isDroppingAfterRetr # -1
    /\ \E b \in Buffers :
         /\ ~IsEmpty(st, b) /\ First(st, b) = c
         /\ st.buf[b].unanswered > st.config.isDroppingAfterRetr

LeavesOnlyWhenDone ==
    [][\A c \in accepted \ accepted' : st.onAir.c = c \/ GivenUp(c)]_vars

\* The end of a contention access that sent something passes the turn to
\* another receiver that has compounds, if there is one: the nested stop of a
\* failed frame (DRPScheduler.cpp:592 and 335) does not skip it.
TakeTurns ==
    [][st.isPCAtransmissionActive /\ ~st'.isPCAtransmissionActive
       /\ st.PCAcompoundsWereSent
       => \/ st'.nextPCAReceiver # st.ActivePCArx
          \/ \A r \in Receivers \ {st.ActivePCArx} : st'.queues[r] = <<>>]_vars

\* Every access comes to its end, also one whose buffer never sends a frame.
AccessEnds == Active ~> ~Active

(***************************************************************************)
(* What a log message of the code says, and the code does not do.          *)
(***************************************************************************)
\* TempSendBuffer.cpp:347: "No retransmissions allowed -> drop compound from head
\* of queue": the compound to drop is in the buffer.
DropsFromHead == ~st.undefined
=============================================================================
