------------------------- MODULE FrameSynchronization -------------------------
(***************************************************************************)
(* The frame receiver of one station (convergence/FrameSynchronization):   *)
(* it models the capture effect of an OFDM receiver.  A frame is a         *)
(* preamble, followed at once by its PSDU unless it has no payload; frames *)
(* of several stations overlap on the air.                                 *)
(*                                                                         *)
(* Instants are kept as the time left until them, in ticks.  What is due   *)
(* at one tick happens in any order before the next Tick: the receiver's   *)
(* timer and the delivery of the PSDU, above all.                          *)
(***************************************************************************)
EXTENDS Integers

CONSTANTS
    Stations,           \* the other stations
    NoStation,          \* the default address
    FrameDurations,     \* bound: durations of a PSDU, 0 for a preamble alone
    Sinrs,              \* bound: signal to interference ratios of a preamble
    DetectionThreshold, IdleCapture, SlcCapture, SlgCapture,
    FinalDelivery,      \* the wait for the final delivery (10 ns)
    SignalRxErrorAlthoughNotSynchronized

ASSUME StationAssumption == NoStation \notin Stations

ASSUME DurationAssumption ==
    /\ FrameDurations \subseteq Nat /\ FrameDurations # {}
    /\ FinalDelivery \in Nat \ {0}

\* PyConfig/wimemac/convergence/FrameSynchronization.py, l.75-78.
ASSUME CaptureAssumption ==
    /\ Sinrs \subseteq Int
    /\ DetectionThreshold \in Int /\ IdleCapture \in Int
    /\ SlcCapture \in Int /\ SlgCapture \in Int
    /\ DetectionThreshold <= IdleCapture
    /\ IdleCapture < SlcCapture
    /\ SlcCapture <= SlgCapture

ASSUME SignalAssumption == SignalRxErrorAlthoughNotSynchronized \in BOOLEAN

NoTimeout == -1     \* CanTimeout: no timer is set
NotOnAir == -1      \* the station is not sending a PSDU
LongAgo == -FinalDelivery - 1   \* instants earlier than that are not told apart

VARIABLES
    curState, synchronizedToAddress,
    lastFrameEnd,       \* ticks until the end of the last frame heard
    timeout,            \* ticks until onTimeout, or NoTimeout
    signals,            \* the notifications of IRxStartEnd made by the last call
    passedUp            \* the last call delivered its compound to the unit above

\* The world around the receiver.
VARIABLES
    air,                \* ticks until each station's PSDU ends, or NotOnAir
    receiverOff         \* the station transmits or turns around (PhyUser)

\* History: read by no action, only by the properties.
VARIABLES
    owed,               \* the station whose frame the receiver took up and
                        \* neither lost to another nor gave up to transmit
    heard               \* the stations whose frame on the air was detected and
                        \* not forgotten because of an own transmission

syncVars == <<curState, synchronizedToAddress, lastFrameEnd, timeout>>
outVars == <<signals, passedUp>>
vars == <<syncVars, outVars, air, receiverOff, owed, heard>>

Preambles == [from : Stations, fDur : FrameDurations, sinr : Sinrs, crcOk : BOOLEAN]

Decoding == curState \in {"Synchronized", "waitForFinalDelivery"}

Init ==
    /\ curState = "Idle"
    /\ synchronizedToAddress = NoStation
    /\ lastFrameEnd = 0
    /\ timeout = NoTimeout
    /\ signals = <<>>
    /\ passedUp = FALSE
    /\ air = [s \in Stations |-> NotOnAir]
    /\ receiverOff = FALSE
    /\ owed = NoStation
    /\ heard = {}

Later(t, u) == IF t > u THEN t ELSE u

(***************************************************************************)
(* The signal to interference ratio above which a preamble captures the    *)
(* receiver.                                                               *)
(***************************************************************************)
captureThreshold(p) ==
    CASE curState = "Idle"   -> IdleCapture
      [] Decoding            -> SlcCapture
      [] curState = "Garbled" -> IF p.crcOk THEN IdleCapture ELSE SlgCapture

FaultyFailedSync(fDur) ==       \* the timer is not set
    /\ lastFrameEnd' = Later(fDur, lastFrameEnd)
    /\ UNCHANGED timeout
    /\ synchronizedToAddress' = NoStation
    /\ curState' = "Garbled"

failedSyncToNewPreamble(fDur) ==
    /\ IF fDur >= lastFrameEnd
       THEN lastFrameEnd' = fDur /\ timeout' = fDur
       ELSE UNCHANGED <<lastFrameEnd, timeout>>
    /\ synchronizedToAddress' = NoStation
    /\ curState' = "Garbled"

\* A preamble without payload leaves the state as it is.
syncToNewPreamble(fDur, transmitter) ==
    IF fDur > 0
    THEN /\ timeout' = fDur
         /\ lastFrameEnd' = Later(fDur, lastFrameEnd)
         /\ synchronizedToAddress' = transmitter
         /\ curState' = "Synchronized"
    ELSE UNCHANGED syncVars

FaultyCaptureSignals(p) ==  \* the lost reception is not ended
    IF p.crcOk /\ p.fDur > 0 THEN <<"rxStart">> ELSE <<>>

\* The current decoding is captured by the preamble p: rx error, and rx start
\* of the new frame if it can be decoded and has a payload.
CaptureSignals(p) ==
    IF p.crcOk /\ p.fDur > 0
    THEN IF curState = "Synchronized" THEN <<"rxError", "rxStart">> ELSE <<"rxStart">>
    ELSE IF curState = "Synchronized" THEN <<"rxError">> ELSE <<>>

Captures(p) == p.sinr >= DetectionThreshold /\ p.sinr > captureThreshold(p)

processPreamble(p) ==
    IF p.sinr < DetectionThreshold
    THEN UNCHANGED syncVars /\ signals' = <<>> /\ passedUp' = FALSE
    ELSE IF p.sinr > captureThreshold(p)
    THEN /\ IF p.crcOk
            THEN syncToNewPreamble(p.fDur, p.from)
            ELSE failedSyncToNewPreamble(p.fDur)
         /\ signals' = CaptureSignals(p)
         /\ passedUp' = p.crcOk
    ELSE /\ IF Decoding
            THEN /\ lastFrameEnd' = Later(p.fDur, lastFrameEnd)
                 /\ UNCHANGED <<curState, synchronizedToAddress, timeout>>
            ELSE failedSyncToNewPreamble(p.fDur)
         /\ signals' = <<>>
         /\ passedUp' = FALSE

\* The frame taken up is over: garbled while another one is still on the air.
FrameEnd ==
    /\ IF lastFrameEnd > 0
       THEN curState' = "Garbled" /\ timeout' = lastFrameEnd
       ELSE curState' = "Idle" /\ timeout' = NoTimeout
    /\ synchronizedToAddress' = NoStation
    /\ UNCHANGED lastFrameEnd

FaultyTimeout ==            \* no wait for the final delivery
    /\ FrameEnd
    /\ signals' = IF curState = "Synchronized" THEN <<"rxEnd">> ELSE <<>>

TimeoutHandler ==
    IF curState = "Synchronized"
    THEN /\ signals' = <<"rxEnd">>
         /\ curState' = "waitForFinalDelivery"
         /\ timeout' = FinalDelivery
         /\ UNCHANGED <<synchronizedToAddress, lastFrameEnd>>
    ELSE /\ FrameEnd
         /\ signals' = <<>>

processPSDU(s, crcOk) ==
    LET matching == Decoding /\ s = synchronizedToAddress IN
    /\ passedUp' = (matching /\ crcOk)
    /\ signals' = IF \/ matching /\ ~crcOk
                     \/ ~matching /\ SignalRxErrorAlthoughNotSynchronized
                  THEN <<"rxError">> ELSE <<>>
    /\ IF matching /\ curState = "waitForFinalDelivery"
       THEN FrameEnd
       ELSE UNCHANGED syncVars

FaultyStop ==               \* the timer is left running
    /\ signals' = IF curState = "Synchronized" THEN <<"rxError">> ELSE <<>>
    /\ IF curState = "Idle"
       THEN UNCHANGED syncVars
       ELSE /\ lastFrameEnd' = 0
            /\ UNCHANGED timeout
            /\ curState' = "Idle"
            /\ synchronizedToAddress' = NoStation

\* An own compound passes downwards: any synchronization stops.
StopSynchronization ==
    /\ signals' = IF curState = "Synchronized" THEN <<"rxError">> ELSE <<>>
    /\ IF curState = "Idle"
       THEN UNCHANGED syncVars
       ELSE /\ lastFrameEnd' = 0
            /\ timeout' = NoTimeout
            /\ curState' = "Idle"
            /\ synchronizedToAddress' = NoStation

-----------------------------------------------------------------------------
(***************************************************************************)
(* The events.  A preamble arrives at its end, when the PSDU begins.       *)
(***************************************************************************)
PreambleArrives(p) ==
    /\ air[p.from] = NotOnAir
    /\ air' = [air EXCEPT ![p.from] = IF p.fDur > 0 THEN p.fDur ELSE NotOnAir]
    /\ IF receiverOff
       THEN /\ signals' = <<>> /\ passedUp' = FALSE
            /\ UNCHANGED <<syncVars, owed, heard>>
       ELSE /\ processPreamble(p)
            /\ owed' = IF ~Captures(p) \/ (p.crcOk /\ p.fDur = 0) THEN owed
                       ELSE IF p.crcOk THEN p.from ELSE NoStation
            /\ heard' = IF p.fDur > 0 /\ p.sinr >= DetectionThreshold
                        THEN heard \cup {p.from} ELSE heard
    /\ UNCHANGED receiverOff

PSDUArrives(s, crcOk) ==
    /\ air[s] = 0
    /\ air' = [air EXCEPT ![s] = NotOnAir]
    /\ IF receiverOff
       THEN signals' = <<>> /\ passedUp' = FALSE /\ UNCHANGED syncVars
       ELSE processPSDU(s, crcOk)
    /\ owed' = IF owed = s THEN NoStation ELSE owed
    /\ heard' = heard \ {s}
    /\ UNCHANGED receiverOff

onTimeout ==
    /\ timeout = 0
    /\ TimeoutHandler
    /\ passedUp' = FALSE
    /\ UNCHANGED <<air, receiverOff, owed, heard>>

doSendData ==
    /\ StopSynchronization
    /\ passedUp' = FALSE
    /\ receiverOff' = TRUE
    /\ owed' = NoStation
    /\ heard' = {}
    /\ UNCHANGED air

ReceiverOn ==
    /\ receiverOff
    /\ receiverOff' = FALSE
    /\ signals' = <<>> /\ passedUp' = FALSE
    /\ UNCHANGED <<syncVars, air, owed, heard>>

Elapsed(t) == IF t > 0 THEN t - 1 ELSE t    \* a time left, or none

\* Nothing is left to do at this instant: time passes.
Tick ==
    /\ timeout # 0
    /\ \A s \in Stations : air[s] # 0
    /\ timeout' = Elapsed(timeout)
    /\ air' = [s \in Stations |-> Elapsed(air[s])]
    /\ lastFrameEnd' = Later(lastFrameEnd - 1, LongAgo)
    /\ signals' = <<>> /\ passedUp' = FALSE
    /\ UNCHANGED <<curState, synchronizedToAddress, receiverOff, owed, heard>>

Next ==
    \/ \E p \in Preambles : PreambleArrives(p)
    \/ \E s \in Stations, crcOk \in BOOLEAN : PSDUArrives(s, crcOk)
    \/ onTimeout
    \/ doSendData
    \/ ReceiverOn
    \/ Tick

Spec == Init /\ [][Next]_vars

(***************************************************************************)
(* The scheduler makes every scheduled call, the medium ends every frame,  *)
(* and time goes on.                                                       *)
(***************************************************************************)
Fairness ==
    /\ WF_vars(\E s \in Stations, crcOk \in BOOLEAN : PSDUArrives(s, crcOk))
    /\ WF_vars(onTimeout)
    /\ WF_vars(Tick)

FairSpec == Spec /\ Fairness

-----------------------------------------------------------------------------
(***************************************************************************)
(* Properties                                                              *)
(***************************************************************************)
SignalLists == {<<>>, <<"rxStart">>, <<"rxEnd">>, <<"rxError">>, <<"rxError", "rxStart">>}
AtMostOneFrame(t) == \E d \in FrameDurations : t <= d

\* Every variable holds a value of its type: no time left exceeds a frame's
\* duration (or the wait for the final delivery).
TypeOK ==
    /\ curState \in {"Idle", "Synchronized", "Garbled", "waitForFinalDelivery"}
    /\ synchronizedToAddress \in Stations \cup {NoStation}
    /\ lastFrameEnd \in Int /\ lastFrameEnd >= LongAgo /\ AtMostOneFrame(lastFrameEnd)
    /\ timeout \in Nat \cup {NoTimeout}
    /\ timeout <= FinalDelivery \/ AtMostOneFrame(timeout)
    /\ signals \in SignalLists
    /\ passedUp \in BOOLEAN
    /\ air \in [Stations -> Nat \cup {NotOnAir}]
    /\ receiverOff \in BOOLEAN
    /\ owed \in Stations \cup {NoStation}
    /\ heard \subseteq Stations

\* Since a preamble may arrive at any instant, the assertions of processPreamble
\* (l.150-172), of failedSyncToNewPreamble (l.260), of processPSDU (l.365) and
\* that of setTimeout hold only if timer, state and last end of a frame agree at
\* every instant, whatever frames overlapped, captured or were given up before.
AssertionsHold ==
    /\ curState = "Idle" => lastFrameEnd <= 0
    /\ curState \in {"Synchronized", "Garbled"} => lastFrameEnd >= 0
    /\ curState = "waitForFinalDelivery" => lastFrameEnd + FinalDelivery >= 0
    /\ timeout = NoTimeout <=> curState = "Idle"

\* A frame that the receiver took up, and that no later preamble captured and no
\* own transmission stopped, is never refused: until its PSDU has come, in either
\* order with the timer that is due at the same instant, the receiver waits for
\* that very transmitter (the purpose of waitForFinalDelivery).
SynchronizedUntilDelivered ==
    owed # NoStation => Decoding /\ synchronizedToAddress = owed

\* The receiver goes idle only when every frame it has detected is over, also
\* those that it did not take up or lost: otherwise their interference would be
\* forgotten and the lower threshold of an idle receiver be applied.
IdleOnlyWhenClear ==
    curState = "Idle" => \A s \in heard : air[s] <= 0

Receiving == curState = "Synchronized"

\* The observers are told of the end of a reception before it leaves the state
\* Synchronized (no reception is open in any other state): every step out of it
\* signals an end or an error, every step into it a start.
ReceptionsSignalled ==
    [][ /\ Receiving /\ ~Receiving' => signals' \in {<<"rxEnd">>, <<"rxError">>}
        /\ Receiving' /\ (~Receiving \/ synchronizedToAddress' # synchronizedToAddress)
           => signals' \in {<<"rxStart">>, <<"rxError", "rxStart">>}
      ]_vars

\* Once no PSDU is sent any more, the receiver keeps returning to idle, whatever
\* preambles without payload still come: it is never garbled for ever.
AirIsClear == \A s \in Stations : air[s] = NotOnAir
FallsIdle == <>[]AirIsClear => []<>(curState = "Idle")
=============================================================================
