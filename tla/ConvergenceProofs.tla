--------------------------- MODULE ConvergenceProofs ---------------------------
(***************************************************************************)
(* Proofs about module Convergence.                                        *)
(***************************************************************************)
EXTENDS Convergence, TLAPS

ChannelStates ==
    [ownTx : BOOLEAN, ownRx : BOOLEAN, phyCarrierSense : BOOLEAN,
     nav : Nat \cup {NavNotSet}, latestNAV : Nat, waitForReply : BOOLEAN,
     lastCS : {"idle", "busy"}]

\* The timer of the NAV agrees with the other indicators (NAVTimerExact of c),
\* and runs until the end of the latest NAV.
NAVExact(c) ==
    /\ c.nav # NavNotSet => c.nav = c.latestNAV
    /\ c.latestNAV > 0 => c.nav # NavNotSet
    /\ c.waitForReply => c.nav # NavNotSet

Current(c) == c.lastCS = getCurrentChannelState(c)

Sound(c) == c \in ChannelStates /\ NAVExact(c) /\ Current(c)

-----------------------------------------------------------------------------
\* Each call leaves ChannelState sound.  Only those of the transmitter change
\* the indicator of the own transmission.

\* checkNewCS tells the observers the present state.
LEMMA CheckSound ==
    ASSUME NEW c \in ChannelStates, NAVExact(c)
    PROVE  /\ Sound(checkNewCS(c))
           /\ checkNewCS(c).ownTx = c.ownTx
           /\ checkNewCS(c).ownRx = c.ownRx
           /\ checkNewCS(c).latestNAV = c.latestNAV
           /\ checkNewCS(c).waitForReply = c.waitForReply
<1> DEFINE s == getCurrentChannelState(c)
<1>1. s \in {"idle", "busy"}
  BY DEF getCurrentChannelState
<1>2. checkNewCS(c) = [c EXCEPT !.lastCS = s]
  BY DEF checkNewCS
<1> HIDE DEF s
<1>3. checkNewCS(c) \in ChannelStates /\ checkNewCS(c).lastCS = s
  BY <1>1, <1>2 DEF ChannelStates
<1>4. /\ checkNewCS(c).ownTx = c.ownTx
      /\ checkNewCS(c).ownRx = c.ownRx
      /\ checkNewCS(c).phyCarrierSense = c.phyCarrierSense
      /\ checkNewCS(c).nav = c.nav
      /\ checkNewCS(c).latestNAV = c.latestNAV
      /\ checkNewCS(c).waitForReply = c.waitForReply
  BY <1>2 DEF ChannelStates
<1>5. getCurrentChannelState(checkNewCS(c)) = s
  BY <1>4 DEF s, getCurrentChannelState
<1>6. QED
  BY <1>3, <1>4, <1>5 DEF Sound, NAVExact, Current

\* onTxStart, and onTxEnd with or without a new NAV.
LEMMA TxStartSound ==
    ASSUME NEW c, Sound(c)
    PROVE  /\ Sound(onTxStart(c)) /\ onTxStart(c).ownTx = TRUE
           /\ onTxStart(c).ownRx = c.ownRx
           /\ onTxStart(c).latestNAV = c.latestNAV
<1> DEFINE d == [c EXCEPT !.ownTx = TRUE]
<1>1. /\ d \in ChannelStates /\ d.ownTx = TRUE /\ NAVExact(d)
      /\ d.ownRx = c.ownRx /\ d.latestNAV = c.latestNAV
  BY DEF Sound, ChannelStates, NAVExact
<1>2. QED
  BY <1>1, CheckSound DEF onTxStart

\* A new NAV: the timer and the latest end agree.
LEMMA SetNAVExact ==
    ASSUME NEW c \in ChannelStates, NEW duration \in Nat
    PROVE  /\ SetNAV(c, duration) \in ChannelStates
           /\ SetNAV(c, duration).ownTx = c.ownTx
           /\ SetNAV(c, duration).ownRx = c.ownRx
           /\ SetNAV(c, duration).nav = duration
           /\ SetNAV(c, duration).latestNAV = duration
  BY DEF SetNAV, ChannelStates

\* onTxEnd, which sets a NAV if a reply is to come.
LEMMA TxEndSound ==
    ASSUME NEW c, Sound(c), NEW frame, frame.exchange \in Nat
    PROVE  /\ Sound(onTxEnd(c, frame)) /\ onTxEnd(c, frame).ownTx = FALSE
           /\ onTxEnd(c, frame).ownRx = c.ownRx
           /\ onTxEnd(c, frame).latestNAV >= c.latestNAV
<1> DEFINE over == [c EXCEPT !.ownTx = FALSE]
           n == SetNAV(over, frame.exchange)
           m == [n EXCEPT !.waitForReply = TRUE]
<1>1. /\ over \in ChannelStates /\ over.ownTx = FALSE /\ NAVExact(over)
      /\ over.ownRx = c.ownRx /\ over.latestNAV = c.latestNAV
      /\ c.latestNAV \in Nat
  BY DEF Sound, ChannelStates, NAVExact
<1>2. /\ n \in ChannelStates /\ n.ownTx = FALSE /\ n.ownRx = c.ownRx
      /\ n.nav = frame.exchange /\ n.latestNAV = frame.exchange
  BY <1>1, SetNAVExact
<1> HIDE DEF n
<1>3. /\ m \in ChannelStates /\ m.ownTx = FALSE /\ m.ownRx = c.ownRx
      /\ m.nav = frame.exchange /\ m.latestNAV = frame.exchange
  BY <1>2 DEF ChannelStates
<1>4. NAVExact(m)
  BY <1>3 DEF NAVExact, NavNotSet
<1>5. \/ onTxEnd(c, frame) = checkNewCS(over)
      \/ onTxEnd(c, frame) = checkNewCS(m) /\ frame.exchange > c.latestNAV
  BY DEF onTxEnd, n
<1> HIDE DEF over, m
<1>6. CASE onTxEnd(c, frame) = checkNewCS(over)
  BY <1>1, <1>6, CheckSound
<1>7. CASE onTxEnd(c, frame) = checkNewCS(m) /\ frame.exchange > c.latestNAV
  BY <1>1, <1>3, <1>4, <1>7, CheckSound
<1>8. QED
  BY <1>5, <1>6, <1>7

\* The notifications of the receiver.
LEMMA RxSound ==
    ASSUME NEW c, Sound(c), NEW signal
    PROVE  /\ Sound(onRx(c, signal))
           /\ onRx(c, signal).ownTx = c.ownTx
           /\ onRx(c, signal).ownRx = (signal = "rxStart")
           /\ onRx(c, signal).latestNAV = c.latestNAV
           /\ onRx(c, signal).waitForReply = c.waitForReply
<1> DEFINE d == [c EXCEPT !.ownRx = (signal = "rxStart")]
<1>1. /\ d \in ChannelStates /\ d.ownTx = c.ownTx /\ NAVExact(d)
      /\ d.ownRx = (signal = "rxStart") /\ d.latestNAV = c.latestNAV
      /\ d.waitForReply = c.waitForReply
  BY DEF Sound, ChannelStates, NAVExact
<1>2. QED
  BY <1>1, CheckSound DEF onRx

\* All notifications of one call of the receiver.
LEMMA HearSound ==
    ASSUME NEW c, Sound(c), NEW notifications
    PROVE  /\ Sound(hear(c, notifications))
           /\ hear(c, notifications).ownTx = c.ownTx
           /\ hear(c, notifications).latestNAV = c.latestNAV
           /\ hear(c, notifications).waitForReply = c.waitForReply
<1>1. CASE Len(notifications) = 0
  BY <1>1 DEF hear
<1>2. CASE Len(notifications) = 1
  BY <1>2, RxSound DEF hear
<1>3. CASE Len(notifications) # 0 /\ Len(notifications) # 1
  BY <1>3, RxSound DEF hear
<1>4. QED
  BY <1>1, <1>2, <1>3

\* A frame that passes upwards.
LEMMA IncomingSound ==
    ASSUME NEW c, Sound(c), NEW frame, frame.exchange \in Nat
    PROVE  /\ Sound(processIncoming(c, frame))
           /\ processIncoming(c, frame).ownTx = c.ownTx
           /\ processIncoming(c, frame).ownRx = c.ownRx
           /\ ~AwaitedAck(c, frame) => processIncoming(c, frame).latestNAV >= c.latestNAV
           /\ /\ ~(frame.type = "ACK_PREAMBLE" /\ frame.forMe)
              /\ frame.exchange >= SifsDuration
              => processIncoming(c, frame).latestNAV >= frame.exchange
<1> DEFINE aborted == [c EXCEPT !.latestNAV = 0, !.nav = NavNotSet, !.waitForReply = FALSE]
           n == SetNAV(c, frame.exchange)
<1>1. /\ aborted \in ChannelStates /\ aborted.ownTx = c.ownTx /\ aborted.ownRx = c.ownRx
      /\ NAVExact(aborted)
  <2>1. /\ aborted \in ChannelStates
        /\ aborted.ownTx = c.ownTx /\ aborted.ownRx = c.ownRx
        /\ aborted.latestNAV = 0
        /\ aborted.nav = NavNotSet /\ aborted.waitForReply = FALSE
    BY DEF Sound, ChannelStates
  <2> HIDE DEF aborted
  <2>2. QED
    BY <2>1 DEF NAVExact, NavNotSet
<1>2. c \in ChannelStates /\ c.latestNAV \in Nat
  BY DEF Sound, ChannelStates
<1>3. /\ n \in ChannelStates /\ n.ownTx = c.ownTx /\ n.ownRx = c.ownRx
      /\ n.nav = frame.exchange /\ n.latestNAV = frame.exchange
  BY <1>2, SetNAVExact
<1>4. NAVExact(n)
  BY <1>3 DEF NAVExact, NavNotSet
<1>5. CASE AwaitedAck(c, frame)
  <2>1. processIncoming(c, frame) = checkNewCS(aborted)
    BY <1>5 DEF processIncoming, AwaitedAck
  <2> HIDE DEF aborted
  <2>2. QED
    BY <1>1, <1>5, <2>1, CheckSound DEF AwaitedAck
<1>6. CASE ~AwaitedAck(c, frame) /\ frame.type = "ACK_PREAMBLE" /\ frame.forMe
  BY <1>2, <1>6 DEF processIncoming
<1>7. CASE /\ ~(frame.type = "ACK_PREAMBLE" /\ frame.forMe)
           /\ frame.exchange < SifsDuration \/ frame.exchange <= c.latestNAV
  BY <1>2, <1>7, SifsAssumption DEF processIncoming
<1>8. CASE /\ ~(frame.type = "ACK_PREAMBLE" /\ frame.forMe)
           /\ ~(frame.exchange < SifsDuration \/ frame.exchange <= c.latestNAV)
  <2>1. processIncoming(c, frame) = checkNewCS(n)
    BY <1>8 DEF processIncoming
  <2> HIDE DEF n
  <2>2. QED
    BY <1>2, <1>3, <1>4, <1>8, <2>1, CheckSound
<1>9. QED
  BY <1>5, <1>6, <1>7, <1>8

\* The end of the NAV and the change of the signal strength.
LEMMA NAVOverSound ==
    ASSUME NEW c, Sound(c), c.nav = 0
    PROVE  /\ Sound(NAVOver(c)) /\ NAVOver(c).ownTx = c.ownTx
           /\ NAVOver(c).ownRx = c.ownRx
           /\ NAVOver(c).latestNAV = c.latestNAV
<1> DEFINE d == [c EXCEPT !.waitForReply = FALSE, !.nav = NavNotSet]
<1>1. /\ d \in ChannelStates /\ d.ownTx = c.ownTx /\ NAVExact(d)
      /\ d.ownRx = c.ownRx /\ d.latestNAV = c.latestNAV
  <2>1. /\ d \in ChannelStates /\ d.ownTx = c.ownTx
        /\ d.ownRx = c.ownRx /\ d.latestNAV = c.latestNAV
        /\ d.nav = NavNotSet /\ d.waitForReply = FALSE
    BY DEF Sound, ChannelStates
  <2>2. c.latestNAV = 0
    BY DEF Sound, NAVExact, NavNotSet
  <2> HIDE DEF d
  <2>3. QED
    BY <2>1, <2>2 DEF NAVExact, NavNotSet
<1>2. QED
  BY <1>1, CheckSound DEF NAVOver

\* The signal strength crosses the threshold.
LEMMA RSSSound ==
    ASSUME NEW c, Sound(c), NEW above \in BOOLEAN
    PROVE  /\ Sound(onRSSChange(c, above)) /\ onRSSChange(c, above).ownTx = c.ownTx
           /\ onRSSChange(c, above).ownRx = c.ownRx
           /\ onRSSChange(c, above).latestNAV = c.latestNAV
<1> DEFINE d == [c EXCEPT !.phyCarrierSense = above]
<1>1. /\ d \in ChannelStates /\ d.ownTx = c.ownTx /\ NAVExact(d)
      /\ d.ownRx = c.ownRx /\ d.latestNAV = c.latestNAV
  BY DEF Sound, ChannelStates, NAVExact
<1>2. QED
  BY <1>1, CheckSound DEF onRSSChange

\* Time passes only while the NAV is not due.
LEMMA AgedSound ==
    ASSUME NEW c, Sound(c), c.nav # 0
    PROVE  /\ Sound(Aged(c)) /\ Aged(c).ownTx = c.ownTx /\ Aged(c).ownRx = c.ownRx
           /\ Aged(c).latestNAV = Left(c.latestNAV)
<1> DEFINE n == IF c.nav > 0 THEN c.nav - 1 ELSE c.nav
           l == IF c.latestNAV > 0 THEN c.latestNAV - 1 ELSE c.latestNAV
<1>1. c \in ChannelStates /\ c.nav \in Nat \cup {-1} /\ c.latestNAV \in Nat
  BY DEF Sound, ChannelStates, NavNotSet
<1>2. n \in Nat \cup {-1} /\ l \in Nat /\ (n = -1 <=> c.nav = -1)
  BY <1>1
<1>3. (n # -1 => n = l) /\ (l > 0 => n # -1)
  BY <1>1, <1>2 DEF Sound, NAVExact, NavNotSet
<1>4. Aged(c) = [c EXCEPT !.nav = n, !.latestNAV = l]
  BY DEF Aged
<1>4a. l = Left(c.latestNAV)
  BY DEF Left
<1> HIDE DEF n, l
<1>5. /\ Aged(c) \in ChannelStates
      /\ Aged(c).nav = n /\ Aged(c).latestNAV = l
      /\ Aged(c).ownTx = c.ownTx /\ Aged(c).ownRx = c.ownRx
      /\ Aged(c).phyCarrierSense = c.phyCarrierSense
      /\ Aged(c).waitForReply = c.waitForReply /\ Aged(c).lastCS = c.lastCS
  BY <1>1, <1>2, <1>4 DEF ChannelStates, NavNotSet
<1>6. NAVExact(Aged(c))
  BY <1>2, <1>3, <1>5 DEF Sound, NAVExact, NavNotSet
<1>7. getCurrentChannelState(Aged(c)) = getCurrentChannelState(c)
  BY <1>2, <1>5 DEF getCurrentChannelState, NavNotSet
<1>8. QED
  BY <1>4a, <1>5, <1>6, <1>7 DEF Sound, Current
-----------------------------------------------------------------------------
(***************************************************************************)
(* The receiver within the station implements module FrameSynchronization. *)
(***************************************************************************)

\* The initial states.
LEMMA ReceiverInit == Init => FS!Init
  BY DEF Init, FS!Init, FS!NoTimeout, FS!NotOnAir, NoTimeout

\* Every step is one of the receiver, or does not concern it.
LEMMA ReceiverNext == [Next]_vars => [FS!Next]_(FS!vars)
<1> SUFFICES ASSUME [Next]_vars PROVE FS!Next \/ UNCHANGED FS!vars
  OBVIOUS
<1> USE DEF FS!vars, FS!syncVars, FS!outVars, receiverVars, syncVars, phyVars
<1>1. ASSUME NEW p \in FS!Preambles, NEW h \in PeerHeaders, PreambleArrives(p, h)
      PROVE  FS!Next
  BY <1>1 DEF PreambleArrives, FS!Next
<1>2. ASSUME NEW s \in Stations, NEW crcOk \in BOOLEAN, PSDUArrives(s, crcOk)
      PROVE  FS!Next
  BY <1>2 DEF PSDUArrives, FS!Next
<1>3. CASE FrameTimeout
  BY <1>3 DEF FrameTimeout, FS!Next
<1>4. ASSUME NEW f \in OwnFrames, SendPreamble(f)
      PROVE  FS!Next
  BY <1>4 DEF SendPreamble, Transmit, FS!Next
<1>5. CASE ScheduledTxEnd
  BY <1>5 DEF ScheduledTxEnd
<1>6. CASE PSDUFollows
  BY <1>6 DEF PSDUFollows, Transmit, FS!Next
<1>7. CASE TransmissionOver
  BY <1>7 DEF TransmissionOver
<1>8. CASE TurnaroundOver
  BY <1>8 DEF TurnaroundOver, FS!Next
<1>9. CASE NAVTimeout
  BY <1>9 DEF NAVTimeout
<1>10. CASE RSSChange
  BY <1>10 DEF RSSChange
<1>11. CASE Tick
  BY <1>11 DEF Tick, FS!Next
<1>12. CASE UNCHANGED vars
  BY <1>12 DEF vars
<1>13. QED
  BY <1>1, <1>2, <1>3, <1>4, <1>5, <1>6, <1>7, <1>8, <1>9, <1>10, <1>11, <1>12
     DEF Next

\* Implements: whatever the PhyUser, the network allocation vector and the
\* preamble generator do, the receiver behaves as specified on its own.
THEOREM ReceiverImplements == Spec => Implements
<1>1. Init => FS!Init
  BY ReceiverInit
<1>2. [Next]_vars => [FS!Next]_(FS!vars)
  BY ReceiverNext
<1>3. QED
  BY <1>1, <1>2, PTL DEF Spec, Implements, FS!Spec
-----------------------------------------------------------------------------
(***************************************************************************)
(* The inductive invariant of the station.                                 *)
(***************************************************************************)
TxRecords == [preamble : BOOLEAN, frame : OwnFrames]

\* The PhyUser, the preamble generator, and the scheduled end of a frame without
\* payload, which falls due together with the end of its transmission.
PhyTypes ==
    /\ phyUserStatus \in {"receiving", "transmitting", "txrxTurnaround"}
    /\ phyTimer \in Nat \cup {NoTimeout}
    /\ pendingPSDU \in OwnFrames \cup {NoFrame}
    /\ txEndIn \in Nat \cup {NoTimeout}
    /\ rest \in [Stations -> Nat]

PhyInv ==
    /\ phyTimer = NoTimeout <=> phyUserStatus = "receiving"
    /\ phyUserStatus = "transmitting" => currentTxCompound \in TxRecords
    /\ pendingPSDU # NoFrame => phyUserStatus = "transmitting"
    /\ txEndIn # NoTimeout =>
         /\ txEndIn = phyTimer
         /\ phyUserStatus = "transmitting"
         /\ pendingPSDU = NoFrame

\* A frame without payload whose end was signalled is no longer an own
\* transmission for ChannelState.
OwnTxInv ==
    /\ BusyWhileTransmitting
    /\ phyUserStatus = "transmitting" /\ pendingPSDU = NoFrame
         => \/ txEndIn # NoTimeout
            \/ ~cs.ownTx
            \/ ~currentTxCompound.preamble

\* The longest NAV heard is covered by the latest one.
NAVInv ==
    /\ navHeard \in Nat
    /\ navAborted \/ navHeard <= cs.latestNAV

IInv ==
    /\ PhyTypes
    /\ PhyInv
    /\ OwnTxInv
    /\ NAVInv
    /\ Sound(cs)
    /\ TypeOfPSDUKnown
    /\ NoReceptionLeftOpen

-----------------------------------------------------------------------------
\* What the last of the notifications says of the reception.
LEMMA HearOwnRx ==
    ASSUME NEW c, Sound(c)
    PROVE  /\ hear(c, <<>>).ownRx = c.ownRx
           /\ hear(c, <<"rxEnd">>).ownRx = FALSE
           /\ hear(c, <<"rxError">>).ownRx = FALSE
<1>1. hear(c, <<>>) = c
  BY DEF hear
<1>2. hear(c, <<"rxEnd">>) = onRx(c, "rxEnd")
  BY DEF hear
<1>3. hear(c, <<"rxError">>) = onRx(c, "rxError")
  BY DEF hear
<1>4. \A signal : onRx(c, signal).ownRx = (signal = "rxStart")
  BY RxSound
<1>5. onRx(c, "rxEnd").ownRx = FALSE /\ onRx(c, "rxError").ownRx = FALSE
  BY <1>4
<1>6. QED
  BY <1>1, <1>2, <1>3, <1>5

\* No call of the receiver leaves a reception open that it has not.
LEMMA ReceptionHeard ==
    ASSUME NEW c, Sound(c), c.ownRx => curState = "Synchronized",
           \/ \E p \in FS!Preambles : FS!PreambleArrives(p)
           \/ \E s \in Stations, crcOk \in BOOLEAN : FS!PSDUArrives(s, crcOk)
           \/ FS!onTimeout
           \/ FS!doSendData
    PROVE  hear(c, signals').ownRx => curState' = "Synchronized"
<1>1. \/ signals' = <<>> /\ (curState = "Synchronized" => curState' = "Synchronized")
      \/ signals' \in {<<"rxEnd">>, <<"rxError">>}
      \/ curState' = "Synchronized"
  <2>1. ASSUME NEW p \in FS!Preambles, FS!PreambleArrives(p)
        PROVE  <1>1
    BY <2>1 DEF FS!PreambleArrives, FS!processPreamble, FS!CaptureSignals, FS!Decoding,
         FS!syncToNewPreamble, FS!failedSyncToNewPreamble, FS!syncVars, FS!Preambles
  <2>2. ASSUME NEW s \in Stations, NEW crcOk \in BOOLEAN, FS!PSDUArrives(s, crcOk)
        PROVE  <1>1
    BY <2>2 DEF FS!PSDUArrives, FS!processPSDU, FS!FrameEnd, FS!syncVars
  <2>3. CASE FS!onTimeout
    BY <2>3 DEF FS!onTimeout, FS!TimeoutHandler, FS!FrameEnd
  <2>4. CASE FS!doSendData
    BY <2>4 DEF FS!doSendData, FS!StopSynchronization, FS!syncVars
  <2>5. QED
    BY <2>1, <2>2, <2>3, <2>4
<1>2. QED
  BY <1>1, HearOwnRx

\* A frame that passes up, or is kept back, leaves ChannelState sound and the
\* longest NAV respected.
LEMMA DeliverInv ==
    ASSUME Sound(cs), NAVInv, NEW frame, frame.exchange \in Nat, Deliver(frame)
    PROVE  /\ Sound(cs') /\ cs'.ownTx = cs.ownTx
           /\ cs'.ownRx = hear(cs, signals').ownRx
           /\ NAVInv'
<1> DEFINE h == hear(cs, signals')
<1>1. /\ Sound(h) /\ h.ownTx = cs.ownTx
      /\ h.latestNAV = cs.latestNAV /\ h.waitForReply = cs.waitForReply
  BY HearSound
<1>2. cs.latestNAV \in Nat /\ SifsDuration \in Nat
  BY SifsAssumption DEF Sound, ChannelStates
<1>3. AwaitedAck(h, frame) <=> AwaitedAck(cs, frame)
  BY <1>1 DEF AwaitedAck
<1>4. CASE passedUp'
  <2>1. cs' = processIncoming(h, frame)
    BY <1>4 DEF Deliver
  <2>2. navHeard' = IF /\ ~(frame.type = "ACK_PREAMBLE" /\ frame.forMe)
                       /\ frame.exchange >= SifsDuration
                       /\ frame.exchange > navHeard
                    THEN frame.exchange ELSE navHeard
    BY <1>4 DEF Deliver
  <2>3. ~navAborted' => ~AwaitedAck(cs, frame) /\ ~(navAborted /\ navHeard' = navHeard)
    BY <1>4 DEF Deliver
  <2> HIDE DEF h
  <2>4. /\ Sound(cs') /\ cs'.ownTx = cs.ownTx /\ cs'.ownRx = h.ownRx
        /\ ~AwaitedAck(cs, frame) => cs'.latestNAV >= cs.latestNAV
        /\ /\ ~(frame.type = "ACK_PREAMBLE" /\ frame.forMe)
           /\ frame.exchange >= SifsDuration
           => cs'.latestNAV >= frame.exchange
    BY <1>1, <1>3, <2>1, IncomingSound
  <2>5. cs'.latestNAV \in Nat
    BY <2>4 DEF Sound, ChannelStates
  <2>6. navHeard' \in Nat
    BY <2>2 DEF NAVInv
  <2>7. CASE navHeard' = navHeard
    BY <1>2, <2>3, <2>4, <2>5, <2>6, <2>7 DEF NAVInv, h
  <2>8. CASE navHeard' # navHeard
    BY <2>2, <2>4, <2>5, <2>6, <2>8 DEF NAVInv, h
  <2>9. QED
    BY <2>7, <2>8
<1>5. CASE ~passedUp'
  <2>1. cs' = h /\ navHeard' = navHeard
    BY <1>5 DEF Deliver
  <2>2. navAborted' <=> navAborted
    BY <1>5, <2>1 DEF Deliver
  <2>3. QED
    BY <1>1, <2>1, <2>2 DEF NAVInv
<1>6. QED
  BY <1>4, <1>5

-----------------------------------------------------------------------------
(***************************************************************************)
(* Each action preserves the invariant.                                    *)
(***************************************************************************)
LEMMA InitIInv == Init => IInv
<1> SUFFICES ASSUME Init PROVE IInv
  OBVIOUS
<1>1. PhyTypes /\ PhyInv /\ TypeOfPSDUKnown /\ NoReceptionLeftOpen
  BY DEF Init, PhyTypes, PhyInv, TypeOfPSDUKnown, NoReceptionLeftOpen, NoTimeout,
         InitialState, FS!Init
<1>2. OwnTxInv /\ NAVInv
  BY DEF Init, OwnTxInv, BusyWhileTransmitting, NAVInv, InitialState
<1>3. Sound(cs)
  BY DEF Init, Sound, ChannelStates, NAVExact, Current, InitialState,
         getCurrentChannelState, NavNotSet
<1>4. QED
  BY <1>1, <1>2, <1>3 DEF IInv

\* Steps that leave the PhyUser and the preamble generator alone, and the
\* indicator of the own transmission.
LEMMA PhyUnchanged ==
    ASSUME PhyTypes, PhyInv, OwnTxInv, rest' \in [Stations -> Nat],
           UNCHANGED <<phyVars, pendingPSDU, txEndIn>>, cs'.ownTx = cs.ownTx
    PROVE  PhyTypes' /\ PhyInv' /\ OwnTxInv'
<1>1. PhyTypes'
  BY DEF PhyTypes, phyVars
<1>2. PhyInv'
  BY DEF PhyInv, phyVars
<1>3. OwnTxInv'
  BY DEF OwnTxInv, BusyWhileTransmitting, phyVars
<1>4. QED
  BY <1>1, <1>2, <1>3

\* A preamble arrives; its type is saved if it has a payload.
LEMMA PreambleArrivesIInv ==
    ASSUME IInv, NEW p \in FS!Preambles, NEW h \in PeerHeaders, PreambleArrives(p, h)
    PROVE  IInv'
<1> DEFINE frame == [type |-> h.type, forMe |-> h.forMe, exchange |-> p.fDur + h.rest]
<1>1. p.fDur \in Nat /\ h.rest \in Nat /\ p.from \in Stations
  BY ConvergenceAssumption DEF FS!Preambles, PeerHeaders
<1>2. frame.exchange \in Nat
  BY <1>1
<1>3. FS!PreambleArrives(p) /\ Deliver(frame)
  BY DEF PreambleArrives
<1> HIDE DEF frame
<1>4. /\ Sound(cs') /\ cs'.ownTx = cs.ownTx /\ NAVInv'
      /\ cs'.ownRx = hear(cs, signals').ownRx
  BY <1>2, <1>3, DeliverInv DEF IInv
<1>5. NoReceptionLeftOpen'
  BY <1>3, <1>4, ReceptionHeard DEF IInv, NoReceptionLeftOpen
<1>6. rest' \in [Stations -> Nat]
  BY <1>1 DEF IInv, PhyTypes, PreambleArrives
<1>7. PhyTypes' /\ PhyInv' /\ OwnTxInv'
  BY <1>4, <1>6, PhyUnchanged DEF IInv, PreambleArrives
<1>8. TypeOfPSDUKnown'
  <2>1. lastReceived' = IF passedUp' /\ p.fDur > 0 THEN p.from ELSE lastReceived
    BY DEF PreambleArrives, SavedType
  <2>2. \/ passedUp' /\ p.fDur > 0 /\ owed' = p.from
        \/ /\ ~(passedUp' /\ p.fDur > 0)
           /\ owed' \in {owed, NoStation}
    <3> DEFINE positive == p.fDur > 0
               captures == FS!Captures(p)
               detected == p.sinr >= DetectionThreshold
    <3>1. p.fDur = 0 <=> ~positive
      BY <1>1
    <3>2. CASE phyUserStatus = "receiving"
      <4>1. passedUp' <=> captures /\ p.crcOk
        <5>1. p.sinr \in Int /\ DetectionThreshold \in Int
          BY ConvergenceAssumption DEF FS!Preambles
        <5>2. captures => passedUp' = p.crcOk
          BY <1>3, <3>2, <5>1 DEF FS!PreambleArrives, FS!processPreamble, FS!Captures
        <5>3. ~captures => passedUp' = FALSE
          BY <1>3, <3>2, <5>1 DEF FS!PreambleArrives, FS!processPreamble, FS!Captures
        <5> HIDE DEF captures
        <5>4. QED
          BY <5>2, <5>3, Zenon
      <4>2. owed' = IF ~captures \/ (p.crcOk /\ p.fDur = 0) THEN owed
                    ELSE IF p.crcOk THEN p.from ELSE NoStation
        BY <1>3, <3>2 DEF FS!PreambleArrives
      <4> HIDE DEF captures, positive
      <4>3. QED
        BY <3>1, <4>1, <4>2, Zenon DEF positive
    <3>3. CASE phyUserStatus # "receiving"
      <4>1. passedUp' = FALSE /\ owed' = owed
        BY <1>3, <3>3 DEF FS!PreambleArrives
      <4>2. QED
        BY <4>1, Zenon
    <3>4. QED
      BY <3>2, <3>3
  <2>3. QED
    BY <2>1, <2>2 DEF IInv, TypeOfPSDUKnown
<1>9. QED
  BY <1>4, <1>5, <1>7, <1>8 DEF IInv

\* The PSDU of a frame arrives.
LEMMA PSDUArrivesIInv ==
    ASSUME IInv, NEW s \in Stations, NEW crcOk \in BOOLEAN, PSDUArrives(s, crcOk)
    PROVE  IInv'
<1> DEFINE frame == [type |-> "PAYLOAD", forMe |-> FALSE, exchange |-> rest[s]]
<1>1. frame.exchange \in Nat
  BY DEF IInv, PhyTypes
<1>2. FS!PSDUArrives(s, crcOk) /\ Deliver(frame)
  BY DEF PSDUArrives
<1> HIDE DEF frame
<1>3. /\ Sound(cs') /\ cs'.ownTx = cs.ownTx /\ NAVInv'
      /\ cs'.ownRx = hear(cs, signals').ownRx
  BY <1>1, <1>2, DeliverInv DEF IInv
<1>4. NoReceptionLeftOpen'
  BY <1>2, <1>3, ReceptionHeard DEF IInv, NoReceptionLeftOpen
<1>5. rest' \in [Stations -> Nat]
  BY DEF IInv, PhyTypes, PSDUArrives
<1>6. PhyTypes' /\ PhyInv' /\ OwnTxInv'
  BY <1>3, <1>5, PhyUnchanged DEF IInv, PSDUArrives
<1>7. TypeOfPSDUKnown'
  BY <1>2 DEF IInv, TypeOfPSDUKnown, PSDUArrives, FS!PSDUArrives
<1>8. QED
  BY <1>3, <1>4, <1>6, <1>7 DEF IInv

\* The timer of the receiver runs out.
LEMMA FrameTimeoutIInv == IInv /\ FrameTimeout => IInv'
<1> SUFFICES ASSUME IInv, FrameTimeout PROVE IInv'
  OBVIOUS
<1>1. /\ Sound(cs') /\ cs'.ownTx = cs.ownTx /\ cs'.latestNAV = cs.latestNAV
      /\ cs' = hear(cs, signals')
  BY HearSound DEF IInv, FrameTimeout
<1>2. NoReceptionLeftOpen'
  BY <1>1, ReceptionHeard DEF IInv, FrameTimeout, NoReceptionLeftOpen
<1>3. PhyTypes' /\ PhyInv' /\ OwnTxInv'
  BY <1>1, PhyUnchanged DEF IInv, FrameTimeout, PhyTypes
<1>4. NAVInv'
  BY <1>1 DEF IInv, FrameTimeout, NAVInv, navHistory
<1>5. TypeOfPSDUKnown'
  BY DEF IInv, TypeOfPSDUKnown, FrameTimeout, FS!onTimeout
<1>6. QED
  BY <1>1, <1>2, <1>3, <1>4, <1>5 DEF IInv

\* An own transmission starts.
LEMMA SendPreambleIInv == ASSUME IInv, NEW f \in OwnFrames, SendPreamble(f) PROVE IInv'
<1> DEFINE c == onTxStart(cs)
<1>1. /\ f \in OwnFrames /\ f # NoFrame /\ PreambleDuration \in Nat \ {0}
      /\ NoFrame \notin OwnFrames
  BY FrameAssumption, ConvergenceAssumption
<1>2. /\ phyUserStatus # "transmitting" /\ phyUserStatus' = "transmitting"
      /\ phyTimer' = PreambleDuration
      /\ currentTxCompound' = [preamble |-> TRUE, frame |-> f]
      /\ FS!doSendData
      /\ cs' = hear(c, signals')
      /\ pendingPSDU = NoFrame
      /\ \/ pendingPSDU' = f /\ txEndIn' = txEndIn
         \/ pendingPSDU' = NoFrame /\ txEndIn' = PreambleDuration
      /\ UNCHANGED <<lastReceived, rest, navHeard, navAborted>>
  BY DEF SendPreamble, Transmit, navHistory
<1>3. Sound(c) /\ c.ownTx = TRUE /\ c.ownRx = cs.ownRx /\ c.latestNAV = cs.latestNAV
  BY TxStartSound DEF IInv
<1> HIDE DEF c
<1>4. Sound(cs') /\ cs'.ownTx = TRUE /\ cs'.latestNAV = cs.latestNAV
  BY <1>2, <1>3, HearSound
<1>5. NoReceptionLeftOpen'
  BY <1>2, <1>3, ReceptionHeard DEF IInv, NoReceptionLeftOpen
<1>6. txEndIn = NoTimeout
  BY <1>2 DEF IInv, PhyInv
<1>7. PhyTypes'
  BY <1>1, <1>2 DEF IInv, PhyTypes
<1>8. PhyInv'
  <2>1. currentTxCompound' \in TxRecords
    BY <1>2 DEF TxRecords
  <2>2. QED
    BY <1>1, <1>2, <1>6, <2>1 DEF PhyInv, NoTimeout
<1>9. OwnTxInv'
  BY <1>1, <1>2, <1>4 DEF OwnTxInv, BusyWhileTransmitting, NoTimeout
<1>10. NAVInv'
  BY <1>2, <1>4 DEF IInv, NAVInv
<1>11. TypeOfPSDUKnown'
  BY <1>2 DEF TypeOfPSDUKnown, FS!doSendData
<1>12. QED
  BY <1>4, <1>5, <1>7, <1>8, <1>9, <1>10, <1>11 DEF IInv

\* It goes on with the PSDU.
LEMMA PSDUFollowsIInv == IInv /\ PSDUFollows => IInv'
<1> SUFFICES ASSUME IInv, PSDUFollows PROVE IInv'
  OBVIOUS
<1> DEFINE h == hear(cs, signals')
<1>1. /\ pendingPSDU \in OwnFrames /\ pendingPSDU # NoFrame
      /\ phyUserStatus' = "transmitting"
      /\ phyTimer' = pendingPSDU.psduDuration
      /\ currentTxCompound' = [preamble |-> FALSE, frame |-> pendingPSDU]
      /\ FS!doSendData
      /\ cs' = onTxStart(h)
      /\ pendingPSDU' = NoFrame
      /\ UNCHANGED <<lastReceived, txEndIn, rest, navHeard, navAborted>>
  BY DEF PSDUFollows, Transmit, navHistory, IInv, PhyTypes
<1>2. phyTimer' \in Nat
  <2>1. pendingPSDU.psduDuration \in FrameDurations \cup {0}
    <3>1. pendingPSDU \in OwnFrames
      BY <1>1
    <3>2. \A f \in OwnFrames : f.psduDuration \in FrameDurations \cup {0}
      BY DEF OwnFrames, DataFrames, AckFrames
    <3>3. QED
      BY <3>1, <3>2
  <2>2. phyTimer' = pendingPSDU.psduDuration
    BY <1>1
  <2>3. \A d \in FrameDurations \cup {0} : d \in Nat
    BY ConvergenceAssumption
  <2>4. QED
    BY <2>1, <2>2, <2>3, Zenon
<1>3. Sound(h) /\ h.latestNAV = cs.latestNAV
  BY HearSound DEF IInv
<1>4. h.ownRx => curState' = "Synchronized"
  BY <1>1, ReceptionHeard DEF IInv, NoReceptionLeftOpen
<1> HIDE DEF h
<1>5. /\ Sound(cs') /\ cs'.ownTx = TRUE /\ cs'.ownRx = h.ownRx
      /\ cs'.latestNAV = cs.latestNAV
  BY <1>1, <1>3, TxStartSound
<1>6. NoReceptionLeftOpen'
  BY <1>4, <1>5 DEF NoReceptionLeftOpen
<1>7. txEndIn = NoTimeout
  BY <1>1 DEF IInv, PhyInv
<1>8. PhyTypes'
  BY <1>1, <1>2 DEF IInv, PhyTypes
<1>9. PhyInv'
  <2>1. currentTxCompound' \in TxRecords
    BY <1>1 DEF TxRecords
  <2>2. QED
    BY <1>1, <1>2, <1>7, <2>1 DEF PhyInv, NoTimeout
<1>10. OwnTxInv'
  <2>1. currentTxCompound'.preamble = FALSE
    BY <1>1
  <2>2. QED
    BY <1>1, <1>5, <2>1 DEF OwnTxInv, BusyWhileTransmitting
<1>11. NAVInv'
  BY <1>1, <1>5 DEF IInv, NAVInv
<1>12. TypeOfPSDUKnown'
  BY <1>1 DEF TypeOfPSDUKnown, FS!doSendData
<1>13. QED
  BY <1>5, <1>6, <1>8, <1>9, <1>10, <1>11, <1>12 DEF IInv

\* A PSDU ends: ChannelState is told, and may set a NAV for the reply.
LEMMA EndOfTransmission ==
    ASSUME Sound(cs), NAVInv, currentTxCompound \in TxRecords,
           cs' = onTxEnd(cs, currentTxCompound.frame),
           UNCHANGED navHistory
    PROVE  Sound(cs') /\ cs'.ownTx = FALSE /\ cs'.ownRx = cs.ownRx /\ NAVInv'
<1>1. currentTxCompound.frame.exchange \in Nat
  BY ConvergenceAssumption DEF TxRecords, OwnFrames, DataFrames, AckFrames
<1>2. /\ Sound(cs') /\ cs'.ownTx = FALSE /\ cs'.ownRx = cs.ownRx
      /\ cs'.latestNAV >= cs.latestNAV
  BY <1>1, TxEndSound
<1>3. cs.latestNAV \in Nat /\ cs'.latestNAV \in Nat
  BY <1>2 DEF Sound, ChannelStates
<1>4. navHeard' = navHeard /\ navAborted' = navAborted
  BY DEF navHistory
<1>5. NAVInv'
  <2>1. CASE navAborted
    BY <1>4, <2>1, Zenon DEF NAVInv
  <2>2. CASE ~navAborted
    <3>1. navHeard \in Nat /\ navHeard <= cs.latestNAV
      BY <2>2, Zenon DEF NAVInv
    <3>2. navHeard <= cs'.latestNAV
      BY <1>2, <1>3, <3>1
    <3>3. QED
      BY <1>4, <3>1, <3>2, Zenon DEF NAVInv
  <2>3. QED
    BY <2>1, <2>2
<1>6. QED
  BY <1>2, <1>5

\* The scheduled end of a frame without payload.
LEMMA ScheduledTxEndIInv == IInv /\ ScheduledTxEnd => IInv'
<1> SUFFICES ASSUME IInv, ScheduledTxEnd PROVE IInv'
  OBVIOUS
<1> USE DEF receiverVars, syncVars, phyVars
<1>1. /\ txEndIn = phyTimer /\ phyTimer = 0 /\ phyUserStatus = "transmitting"
      /\ pendingPSDU = NoFrame /\ currentTxCompound \in TxRecords
  BY DEF IInv, PhyInv, ScheduledTxEnd, NoTimeout
<1>2. Sound(cs') /\ cs'.ownTx = FALSE /\ cs'.ownRx = cs.ownRx /\ NAVInv'
  BY <1>1, EndOfTransmission DEF IInv, ScheduledTxEnd
<1>3. PhyTypes' /\ PhyInv'
  BY <1>1 DEF IInv, PhyTypes, PhyInv, ScheduledTxEnd
<1>4. OwnTxInv'
  BY <1>1, <1>2 DEF OwnTxInv, BusyWhileTransmitting, ScheduledTxEnd
<1>5. NoReceptionLeftOpen' /\ TypeOfPSDUKnown'
  BY <1>2 DEF IInv, NoReceptionLeftOpen, TypeOfPSDUKnown, ScheduledTxEnd
<1>6. QED
  BY <1>2, <1>3, <1>4, <1>5 DEF IInv

\* PhyUser ends a transmission that no PSDU follows.
LEMMA TransmissionOverIInv == IInv /\ TransmissionOver => IInv'
<1> SUFFICES ASSUME IInv, TransmissionOver PROVE IInv'
  OBVIOUS
<1> USE DEF receiverVars, syncVars
<1>1. /\ phyTimer = 0 /\ txEndIn = NoTimeout /\ currentTxCompound \in TxRecords
      /\ phyUserStatus = "transmitting" /\ pendingPSDU = NoFrame
      /\ phyUserStatus' = "txrxTurnaround" /\ phyTimer' = TxrxTurnaroundDelay
      /\ TxrxTurnaroundDelay \in Nat \ {0}
  BY ConvergenceAssumption
     DEF IInv, PhyInv, TransmissionOver, TxTimerDue, NoTimeout
<1>2. Sound(cs') /\ ~cs'.ownTx /\ cs'.ownRx = cs.ownRx /\ NAVInv'
  <2>1. CASE currentTxCompound.preamble
    <3>1. cs' = cs /\ ~cs.ownTx
      BY <1>1, <2>1 DEF TransmissionOver, IInv, OwnTxInv
    <3>2. QED
      BY <3>1 DEF IInv, NAVInv, TransmissionOver, navHistory
  <2>2. CASE ~currentTxCompound.preamble
    BY <1>1, <2>2, EndOfTransmission DEF IInv, TransmissionOver
  <2>3. QED
    BY <2>1, <2>2
<1>3. PhyTypes' /\ PhyInv'
  BY <1>1 DEF IInv, PhyTypes, PhyInv, TransmissionOver, NoTimeout
<1>4. OwnTxInv'
  BY <1>1, <1>2 DEF OwnTxInv, BusyWhileTransmitting
<1>5. NoReceptionLeftOpen' /\ TypeOfPSDUKnown'
  BY <1>2 DEF IInv, NoReceptionLeftOpen, TypeOfPSDUKnown, TransmissionOver
<1>6. QED
  BY <1>2, <1>3, <1>4, <1>5 DEF IInv

\* The receiver is on again.
LEMMA TurnaroundOverIInv == IInv /\ TurnaroundOver => IInv'
<1> SUFFICES ASSUME IInv, TurnaroundOver PROVE IInv'
  OBVIOUS
<1>1. PhyTypes' /\ PhyInv'
  BY DEF IInv, PhyTypes, PhyInv, TurnaroundOver, NoTimeout
<1>2. OwnTxInv' /\ NAVInv' /\ Sound(cs')
  BY DEF IInv, OwnTxInv, BusyWhileTransmitting, NAVInv, TurnaroundOver, navHistory
<1>3. NoReceptionLeftOpen' /\ TypeOfPSDUKnown'
  BY DEF IInv, NoReceptionLeftOpen, TypeOfPSDUKnown, TurnaroundOver, FS!ReceiverOn,
         FS!syncVars
<1>4. QED
  BY <1>1, <1>2, <1>3 DEF IInv

\* The NAV runs out.
LEMMA NAVTimeoutIInv == IInv /\ NAVTimeout => IInv'
<1> SUFFICES ASSUME IInv, NAVTimeout PROVE IInv'
  OBVIOUS
<1>1. /\ Sound(cs') /\ cs'.ownTx = cs.ownTx /\ cs'.ownRx = cs.ownRx
      /\ cs'.latestNAV = cs.latestNAV
  BY NAVOverSound DEF IInv, NAVTimeout
<1>2. PhyTypes' /\ PhyInv' /\ OwnTxInv'
  BY <1>1, PhyUnchanged DEF IInv, NAVTimeout, PhyTypes
<1>3. NAVInv' /\ NoReceptionLeftOpen' /\ TypeOfPSDUKnown'
  BY <1>1 DEF IInv, NAVInv, NoReceptionLeftOpen, TypeOfPSDUKnown, NAVTimeout,
       navHistory, receiverVars, syncVars
<1>4. QED
  BY <1>1, <1>2, <1>3 DEF IInv

\* The carrier sense changes.
LEMMA RSSChangeIInv == IInv /\ RSSChange => IInv'
<1> SUFFICES ASSUME IInv, RSSChange PROVE IInv'
  OBVIOUS
<1>1. /\ Sound(cs') /\ cs'.ownTx = cs.ownTx /\ cs'.ownRx = cs.ownRx
      /\ cs'.latestNAV = cs.latestNAV
  BY RSSSound DEF IInv, RSSChange
<1>2. PhyTypes' /\ PhyInv' /\ OwnTxInv'
  BY <1>1, PhyUnchanged DEF IInv, RSSChange, PhyTypes
<1>3. NAVInv' /\ NoReceptionLeftOpen' /\ TypeOfPSDUKnown'
  BY <1>1 DEF IInv, NAVInv, NoReceptionLeftOpen, TypeOfPSDUKnown, RSSChange,
       navHistory, receiverVars, syncVars
<1>4. QED
  BY <1>1, <1>2, <1>3 DEF IInv

\* Time passes: no timer is due.
LEMMA TickIInv == IInv /\ Tick => IInv'
<1> SUFFICES ASSUME IInv, Tick PROVE IInv'
  OBVIOUS
<1>1. /\ Sound(cs') /\ cs'.ownTx = cs.ownTx /\ cs'.ownRx = cs.ownRx
      /\ cs'.latestNAV = Left(cs.latestNAV)
  BY AgedSound DEF IInv, Tick
<1>2. PhyTypes' /\ PhyInv'
  BY DEF IInv, PhyTypes, PhyInv, Tick, Left, NoTimeout
<1>3. OwnTxInv'
  <2>1. /\ phyTimer' = Left(phyTimer) /\ txEndIn' = Left(txEndIn)
        /\ phyTimer # 0 /\ txEndIn # 0
        /\ UNCHANGED <<phyUserStatus, currentTxCompound, pendingPSDU>>
    BY DEF Tick
  <2>2. (phyTimer' > 0 => phyTimer > 0) /\ (txEndIn # NoTimeout => txEndIn' # NoTimeout)
    BY <2>1 DEF IInv, PhyTypes, Left, NoTimeout
  <2>3. QED
    BY <1>1, <2>1, <2>2 DEF IInv, OwnTxInv, BusyWhileTransmitting
<1>4. NAVInv'
  <2>1. cs.latestNAV \in Nat /\ navHeard \in Nat
    BY DEF IInv, Sound, ChannelStates, NAVInv
  <2>2. navHeard' = Left(navHeard)
    BY DEF Tick
  <2>3. CASE navAborted'
    BY <2>1, <2>2, <2>3 DEF NAVInv, Left
  <2>4. CASE ~navAborted'
    <3>1. ~navAborted \/ navHeard <= 1
      <4>1. ~(navAborted /\ navHeard > 1)
        BY <2>4, Zenon DEF Tick
      <4>2. ~(navHeard > 1) => navHeard <= 1
        BY <2>1
      <4>3. QED
        BY <4>1, <4>2, Zenon
    <3>2. CASE ~navAborted
      BY <1>1, <2>1, <2>2, <3>2 DEF IInv, NAVInv, Left
    <3>3. CASE navHeard <= 1
      BY <1>1, <2>1, <2>2, <3>3 DEF NAVInv, Left
    <3>4. QED
      BY <3>1, <3>2, <3>3
  <2>5. QED
    BY <2>3, <2>4
<1>5. NoReceptionLeftOpen' /\ TypeOfPSDUKnown'
  BY <1>1 DEF IInv, NoReceptionLeftOpen, TypeOfPSDUKnown, Tick, FS!Tick
<1>6. QED
  BY <1>1, <1>2, <1>3, <1>4, <1>5 DEF IInv

\* The indicators of module ChannelState, for the properties.
LEMMA SoundProperties ==
    ASSUME Sound(cs) PROVE IndicationCurrent /\ NAVTimerExact
  BY DEF Sound, Current, NAVExact, IndicationCurrent, NAVTimerExact

\* A NAV that lasts makes the channel busy.
LEMMA BusyUntilNAVEnds == Sound(cs) /\ NAVInv => NAVRespected
<1> SUFFICES ASSUME Sound(cs), NAVInv, navHeard > 0, ~navAborted
             PROVE  cs.lastCS = "busy"
  BY DEF NAVRespected
<1>1. cs.latestNAV \in Nat /\ navHeard \in Nat /\ navHeard <= cs.latestNAV
  BY DEF Sound, ChannelStates, NAVInv
<1>2. cs.nav # NavNotSet
  BY <1>1 DEF Sound, NAVExact
<1>3. QED
  BY <1>2 DEF Sound, Current, getCurrentChannelState

-----------------------------------------------------------------------------
(***************************************************************************)
(* The theorems.                                                           *)
(***************************************************************************)
\* The invariant holds in every reachable state.
THEOREM InductiveInvariant == Spec => []IInv
<1>1. Init => IInv
  BY InitIInv
<1>2. IInv /\ [Next]_vars => IInv'
  <2> SUFFICES ASSUME IInv, [Next]_vars PROVE IInv'
    OBVIOUS
  <2>1. CASE UNCHANGED vars
    BY <2>1 DEF IInv, PhyTypes, PhyInv, OwnTxInv, BusyWhileTransmitting, NAVInv,
         TypeOfPSDUKnown, NoReceptionLeftOpen, vars, receiverVars, syncVars, phyVars,
         navHistory
  <2>2. CASE Next
    BY <2>2, PreambleArrivesIInv, PSDUArrivesIInv, FrameTimeoutIInv, SendPreambleIInv,
       ScheduledTxEndIInv, PSDUFollowsIInv, TransmissionOverIInv, TurnaroundOverIInv,
       NAVTimeoutIInv, RSSChangeIInv, TickIInv DEF Next
  <2>3. QED
    BY <2>1, <2>2
<1>3. QED
  BY <1>1, <1>2, PTL DEF Spec

\* IndicationCurrent: the observers of ChannelState never hold a stale state.
THEOREM IndicationIsCurrent == Spec => []IndicationCurrent
<1>1. IInv => IndicationCurrent
  BY SoundProperties DEF IInv
<1>2. QED
  BY <1>1, InductiveInvariant, PTL

\* NAVTimerExact: the assertion of ChannelState::onTimeout holds.
THEOREM TimerIsExact == Spec => []NAVTimerExact
<1>1. IInv => NAVTimerExact
  BY SoundProperties DEF IInv
<1>2. QED
  BY <1>1, InductiveInvariant, PTL

\* NAVRespected: the channel is busy until the end of every NAV heard, unless an
\* awaited acknowledgment has come.
THEOREM NAVIsRespected == Spec => []NAVRespected
<1>1. IInv => NAVRespected
  BY BusyUntilNAVEnds DEF IInv
<1>2. QED
  BY <1>1, InductiveInvariant, PTL

\* BusyWhileTransmitting: a frame is one own transmission, from its preamble on.
THEOREM FrameIsOneTransmission == Spec => []BusyWhileTransmitting
<1>1. IInv => BusyWhileTransmitting
  BY DEF IInv, OwnTxInv
<1>2. QED
  BY <1>1, InductiveInvariant, PTL

\* TypeOfPSDUKnown: a PSDU gets the type of its own preamble.
THEOREM TypeIsKnown == Spec => []TypeOfPSDUKnown
<1>1. IInv => TypeOfPSDUKnown
  BY DEF IInv
<1>2. QED
  BY <1>1, InductiveInvariant, PTL

\* NoReceptionLeftOpen: no reception stays open when the receiver lost it.
THEOREM ReceptionsAreClosed == Spec => []NoReceptionLeftOpen
<1>1. IInv => NoReceptionLeftOpen
  BY DEF IInv
<1>2. QED
  BY <1>1, InductiveInvariant, PTL
=============================================================================
