---------------------- MODULE FrameSynchronizationProofs ----------------------
(***************************************************************************)
(* Proofs about FrameSynchronization, for any number of stations, any      *)
(* durations and any thresholds: the types, the assertions of the code,    *)
(* that a frame taken up is not refused, that the receiver is idle only    *)
(* when all it has heard is over, and that receptions are signalled.       *)
(***************************************************************************)
EXTENDS FrameSynchronization, TLAPS

(***************************************************************************)
(* The inductive invariant.  Beside the types it bounds the running timer  *)
(* by the end of the last frame heard (in the state Garbled only when the  *)
(* wait for the final delivery is one tick), ties the timer to the end of  *)
(* the frame taken up, and bounds the frames heard by the last end.        *)
(***************************************************************************)
TimerInv ==
    /\ timeout = NoTimeout <=> curState = "Idle"
    /\ curState = "Idle" => lastFrameEnd <= 0
    /\ curState = "Synchronized" => timeout <= lastFrameEnd
    /\ curState = "waitForFinalDelivery"
         => timeout <= FinalDelivery /\ timeout - FinalDelivery <= lastFrameEnd
    /\ curState = "Garbled" /\ FinalDelivery = 1 => timeout <= lastFrameEnd

OwedInv ==
    owed # NoStation =>
        /\ Decoding
        /\ synchronizedToAddress = owed
        /\ curState = "Synchronized" => air[owed] = timeout
        /\ curState = "waitForFinalDelivery"
             => air[owed] = 0 /\ timeout = FinalDelivery

HeardInv == \A s \in heard : air[s] # NotOnAir /\ air[s] <= Later(lastFrameEnd, 0)

IInv == TypeOK /\ TimerInv /\ OwedInv /\ HeardInv

-----------------------------------------------------------------------------
\* The lists of notifications a call can make.
LEMMA SignalFacts ==
    /\ <<>> \in SignalLists
    /\ <<"rxStart">> \in SignalLists
    /\ <<"rxEnd">> \in SignalLists
    /\ <<"rxError">> \in SignalLists
    /\ <<"rxError", "rxStart">> \in SignalLists
BY DEF SignalLists

\* The invariant holds initially.
LEMMA InitIInv == Init => IInv
<1> SUFFICES ASSUME Init PROVE IInv
  OBVIOUS
<1> USE DurationAssumption, StationAssumption DEF Init, NoTimeout, NotOnAir
<1>1. TypeOK
  <2>1. AtMostOneFrame(lastFrameEnd) /\ timeout <= FinalDelivery
    <3>1. PICK d \in FrameDurations : d \in Nat
      OBVIOUS
    <3>2. lastFrameEnd <= d
      BY <3>1
    <3>3. QED
      BY <3>2 DEF AtMostOneFrame
  <2>2. lastFrameEnd >= LongAgo /\ timeout \in Nat \cup {NoTimeout}
    BY DEF LongAgo
  <2>3. air \in [Stations -> Nat \cup {NotOnAir}]
    OBVIOUS
  <2>4. /\ curState \in {"Idle", "Synchronized", "Garbled", "waitForFinalDelivery"}
        /\ synchronizedToAddress \in Stations \cup {NoStation}
        /\ lastFrameEnd \in Int
        /\ owed \in Stations \cup {NoStation}
        /\ heard \subseteq Stations
    OBVIOUS
  <2>5. signals \in SignalLists
    BY SignalFacts
  <2>6. passedUp \in BOOLEAN /\ receiverOff \in BOOLEAN
    BY Zenon
  <2>7. QED
    BY <2>1, <2>2, <2>3, <2>4, <2>5, <2>6, Zenon DEF TypeOK
<1>2. TimerInv /\ OwedInv /\ HeardInv
  BY DEF TimerInv, OwedInv, HeardInv
<1>3. QED
  BY <1>1, <1>2 DEF IInv

\* A time left, or none, one tick later.
LEMMA ElapsedFacts ==
  \A t \in Nat \cup {-1} :
     t # 0 => \/ t = -1 /\ Elapsed(t) = -1
              \/ t \in Nat \ {0} /\ Elapsed(t) = t - 1
BY DEF Elapsed

(***************************************************************************)
(* What the two ways to end in a state with a frame's end as the timer do. *)
(***************************************************************************)
LEMMA FailedSyncFacts ==
  ASSUME NEW d \in FrameDurations, TypeOK, TimerInv, failedSyncToNewPreamble(d)
  PROVE  /\ curState' = "Garbled"
         /\ synchronizedToAddress' = NoStation
         /\ lastFrameEnd' \in Int /\ lastFrameEnd' >= LongAgo
         /\ lastFrameEnd' >= d /\ lastFrameEnd' >= lastFrameEnd
         /\ AtMostOneFrame(lastFrameEnd)'
         /\ timeout' \in Nat
         /\ (timeout <= FinalDelivery \/ AtMostOneFrame(timeout))'
         /\ FinalDelivery = 1 => timeout' <= lastFrameEnd'
<1> USE DurationAssumption DEF NoTimeout
<1>1. d \in Nat
  OBVIOUS
<1>2. lastFrameEnd \in Int
  BY DEF TypeOK
<1>3. CASE d >= lastFrameEnd
  BY <1>1, <1>2, <1>3
     DEF failedSyncToNewPreamble, TypeOK, AtMostOneFrame, LongAgo
<1>4. CASE ~(d >= lastFrameEnd)
  <2>1. curState # "Idle"
    BY <1>1, <1>2, <1>4 DEF TimerInv
  <2>2. timeout \in Nat
    BY <2>1 DEF TypeOK, TimerInv
  <2>3. FinalDelivery = 1 => timeout <= lastFrameEnd
    BY <1>1, <1>2, <1>4, <2>1, <2>2 DEF TypeOK, TimerInv
  <2>4. QED
    BY <1>1, <1>2, <1>4, <2>2, <2>3
       DEF failedSyncToNewPreamble, TypeOK, AtMostOneFrame
<1>5. QED
  BY <1>3, <1>4

\* What synchronizing to a preamble with payload sets.
LEMMA SyncFacts ==
  ASSUME NEW d \in FrameDurations, NEW s \in Stations, TypeOK, d > 0,
         syncToNewPreamble(d, s)
  PROVE  /\ curState' = "Synchronized"
         /\ synchronizedToAddress' = s
         /\ lastFrameEnd' \in Int /\ lastFrameEnd' >= LongAgo
         /\ lastFrameEnd' >= d /\ lastFrameEnd' >= lastFrameEnd
         /\ AtMostOneFrame(lastFrameEnd)'
         /\ timeout' = d
         /\ AtMostOneFrame(timeout)'
BY DurationAssumption
   DEF syncToNewPreamble, TypeOK, AtMostOneFrame, LongAgo, Later

\* The end of a frame: garbled until the last frame ends, or idle.
LEMMA FrameEndFacts ==
  ASSUME TypeOK, FrameEnd
  PROVE  /\ lastFrameEnd' = lastFrameEnd
         /\ synchronizedToAddress' = NoStation
         /\ \/ lastFrameEnd > 0 /\ curState' = "Garbled" /\ timeout' = lastFrameEnd
            \/ lastFrameEnd <= 0 /\ curState' = "Idle" /\ timeout' = NoTimeout
         /\ timeout' \in Nat \cup {NoTimeout}
         /\ (timeout <= FinalDelivery \/ AtMostOneFrame(timeout))'
BY DurationAssumption DEF FrameEnd, TypeOK, AtMostOneFrame, NoTimeout

(***************************************************************************)
(* The notifications of every step are among the lists, and the flags are  *)
(* Boolean.                                                                *)
(***************************************************************************)
LEMMA OutputTypes ==
  ASSUME TypeOK, Next
  PROVE  signals' \in SignalLists /\ passedUp' \in BOOLEAN /\ receiverOff' \in BOOLEAN
<1>1. receiverOff \in BOOLEAN
  BY DEF TypeOK
<1>2. ASSUME NEW p \in Preambles, PreambleArrives(p)
      PROVE  signals' \in SignalLists /\ passedUp' \in BOOLEAN /\ receiverOff' \in BOOLEAN
  <2>1. p.crcOk \in BOOLEAN
    BY DEF Preambles
  <2>2. CaptureSignals(p) \in SignalLists
    BY SignalFacts DEF CaptureSignals
  <2>3. receiverOff' \in BOOLEAN
    BY <1>1, <1>2, Zenon DEF PreambleArrives
  <2>4. CASE receiverOff
    BY <1>2, <2>3, <2>4, SignalFacts, Zenon DEF PreambleArrives
  <2>5. CASE ~receiverOff
    BY <1>2, <2>1, <2>2, <2>3, <2>5, SignalFacts, Zenon DEF PreambleArrives, processPreamble
  <2>6. QED
    BY <2>4, <2>5
<1>3. ASSUME NEW s \in Stations, NEW crcOk \in BOOLEAN, PSDUArrives(s, crcOk)
      PROVE  signals' \in SignalLists /\ passedUp' \in BOOLEAN /\ receiverOff' \in BOOLEAN
  BY <1>1, <1>3, SignalFacts, Zenon DEF PSDUArrives, processPSDU
<1>4. CASE onTimeout
  BY <1>1, <1>4, SignalFacts, Zenon DEF onTimeout, TimeoutHandler
<1>5. CASE doSendData
  BY <1>5, SignalFacts, Zenon DEF doSendData, StopSynchronization
<1>6. CASE ReceiverOn
  BY <1>6, SignalFacts, Zenon DEF ReceiverOn
<1>7. CASE Tick
  BY <1>1, <1>7, SignalFacts, Zenon DEF Tick
<1>8. QED
  BY <1>2, <1>3, <1>4, <1>5, <1>6, <1>7 DEF Next

(***************************************************************************)
(* Each action preserves the invariant.                                    *)
(***************************************************************************)
\* A preamble heard by a receiver that is on.
LEMMA PreambleIInv ==
  ASSUME IInv, NEW p \in Preambles, PreambleArrives(p), ~receiverOff, Next
  PROVE  IInv'
<1> DEFINE d == p.fDur
<1>1. d \in FrameDurations /\ d \in Nat /\ p.from \in Stations /\ p.from # NoStation
  BY DurationAssumption, StationAssumption DEF Preambles
<1>0. p.sinr \in Int /\ DetectionThreshold \in Int
  BY CaptureAssumption DEF Preambles
<1>2. /\ processPreamble(p)
      /\ air[p.from] = NotOnAir
      /\ air' = [air EXCEPT ![p.from] = IF d > 0 THEN d ELSE NotOnAir]
      /\ owed' = IF ~Captures(p) \/ (p.crcOk /\ d = 0) THEN owed
                 ELSE IF p.crcOk THEN p.from ELSE NoStation
      /\ heard' = IF d > 0 /\ p.sinr >= DetectionThreshold
                  THEN heard \cup {p.from} ELSE heard
  BY Zenon DEF PreambleArrives
<1>3. TypeOK /\ TimerInv /\ OwedInv /\ HeardInv
  BY DEF IInv
<1>4. air' \in [Stations -> Nat \cup {NotOnAir}]
  BY <1>1, <1>2, <1>3 DEF TypeOK
<1>5. owed' \in Stations \cup {NoStation} /\ heard' \subseteq Stations
  BY <1>1, <1>2, <1>3 DEF TypeOK
<1>6. signals' \in SignalLists /\ passedUp' \in BOOLEAN /\ receiverOff' \in BOOLEAN
  BY <1>3, OutputTypes
<1>7. \A s \in Stations : s # p.from => air'[s] = air[s]
  BY <1>1, <1>2, <1>3 DEF TypeOK
<1>8. air'[p.from] = IF d > 0 THEN d ELSE NotOnAir
  BY <1>1, <1>2, <1>3 DEF TypeOK
<1>9. owed # NoStation => owed # p.from /\ owed \in Stations /\ air'[owed] = air[owed]
  <2>1. owed # NoStation => air[owed] \in Nat
    BY <1>3 DEF OwedInv, Decoding, TypeOK, TimerInv, NoTimeout
  <2>2. QED
    BY <2>1, <1>2, <1>3, <1>7 DEF NotOnAir, TypeOK
\* The frames heard stay bounded when the last end does not move backwards and
\* covers the new frame, if that was detected.
<1>10. ASSUME lastFrameEnd' \in Int, lastFrameEnd' >= lastFrameEnd,
              p.sinr >= DetectionThreshold => lastFrameEnd' >= d
       PROVE  HeardInv'
  <2>1. SUFFICES ASSUME NEW s \in heard'
                 PROVE  air'[s] # NotOnAir /\ air'[s] <= Later(lastFrameEnd, 0)'
    BY DEF HeardInv
  <2>2. p.from \notin heard
    BY <1>2, <1>3 DEF HeardInv
  <2>3. CASE s # p.from
    <3>1. s \in heard /\ s \in Stations
      BY <1>2, <1>5, <2>3
    <3>2. /\ air[s] # NotOnAir /\ air[s] <= Later(lastFrameEnd, 0)
          /\ air'[s] = air[s] /\ air[s] \in Int /\ lastFrameEnd \in Int
      BY <1>3, <1>7, <2>3, <3>1 DEF HeardInv, TypeOK, NotOnAir
    <3>3. QED
      BY <1>10, <3>2 DEF Later
  <2>4. CASE s = p.from
    <3>1. d > 0 /\ p.sinr >= DetectionThreshold
      BY <1>2, <2>2, <2>4
    <3>2. QED
      BY <1>1, <1>8, <1>10, <2>4, <3>1 DEF Later, NotOnAir
  <2>5. QED
    BY <2>3, <2>4
<1>11. CASE p.sinr < DetectionThreshold
  <2>1. /\ curState' = curState /\ synchronizedToAddress' = synchronizedToAddress
        /\ lastFrameEnd' = lastFrameEnd /\ timeout' = timeout /\ owed' = owed
    BY <1>0, <1>2, <1>11 DEF processPreamble, Captures, syncVars
  <2>2. TimerInv'
    BY <1>3, <2>1 DEF TimerInv
  <2>3. OwedInv'
    BY <1>3, <1>9, <2>1 DEF OwedInv, Decoding
  <2>4. HeardInv'
    BY <1>0, <1>3, <1>10, <1>11, <2>1 DEF TypeOK
  <2>5. TypeOK'
    BY <1>3, <1>4, <1>5, <1>6, <2>1, Zenon DEF TypeOK, AtMostOneFrame
  <2>6. QED
    BY <2>2, <2>3, <2>4, <2>5 DEF IInv
<1>12. CASE p.sinr >= DetectionThreshold /\ Captures(p) /\ p.crcOk /\ d > 0
  <2>1. syncToNewPreamble(d, p.from) /\ owed' = p.from
    <3>1. processPreamble(p) /\ ~(p.sinr < DetectionThreshold) /\ p.sinr > captureThreshold(p)
      BY <1>0, <1>2, <1>12 DEF Captures
    <3>2. syncToNewPreamble(d, p.from)
      BY <1>12, <3>1, Zenon DEF processPreamble
    <3>3. owed' = p.from
      BY <1>2, <1>12, <1>1
    <3>4. QED
      BY <3>2, <3>3
  <2>2. /\ curState' = "Synchronized" /\ synchronizedToAddress' = p.from
        /\ lastFrameEnd' \in Int /\ lastFrameEnd' >= LongAgo
        /\ lastFrameEnd' >= d /\ lastFrameEnd' >= lastFrameEnd
        /\ AtMostOneFrame(lastFrameEnd)' /\ timeout' = d /\ AtMostOneFrame(timeout)'
    BY <1>1, <1>3, <1>12, <2>1, SyncFacts
  <2>3. TimerInv'
    BY <1>1, <2>2 DEF TimerInv, NoTimeout
  <2>4. OwedInv'
    BY <1>8, <1>12, <2>1, <2>2 DEF OwedInv, Decoding
  <2>5. HeardInv'
    BY <1>10, <2>2
  <2>6. TypeOK'
    <3>1. timeout' \in Nat \cup {NoTimeout}
      BY <1>1, <2>2
    <3>2. QED
      BY <1>1, <1>4, <1>5, <1>6, <2>2, <3>1, Zenon DEF TypeOK
  <2>7. QED
    BY <2>3, <2>4, <2>5, <2>6 DEF IInv
\* A preamble without payload that captures the receiver changes nothing.
<1>13. CASE p.sinr >= DetectionThreshold /\ Captures(p) /\ p.crcOk /\ d = 0
  <2>1. /\ curState' = curState /\ synchronizedToAddress' = synchronizedToAddress
        /\ lastFrameEnd' = lastFrameEnd /\ timeout' = timeout /\ owed' = owed
    <3>1. processPreamble(p) /\ ~(p.sinr < DetectionThreshold) /\ p.sinr > captureThreshold(p)
      BY <1>0, <1>2, <1>13 DEF Captures
    <3>2. syncToNewPreamble(d, p.from)
      BY <1>13, <3>1, Zenon DEF processPreamble
    <3>3. owed' = owed
      BY <1>2, <1>13, <1>1
    <3>4. QED
      BY <1>13, <3>2, <3>3 DEF syncToNewPreamble, syncVars
  <2>2. TimerInv'
    BY <1>3, <2>1 DEF TimerInv
  <2>3. OwedInv'
    BY <1>3, <1>9, <2>1 DEF OwedInv, Decoding
  <2>4. HeardInv'
    <3>1. air' = air /\ heard' = heard
      BY <1>2, <1>13, <1>3 DEF TypeOK
    <3>2. QED
      BY <1>3, <2>1, <3>1 DEF HeardInv, Later
  <2>5. TypeOK'
    BY <1>3, <1>4, <1>5, <1>6, <2>1, Zenon DEF TypeOK, AtMostOneFrame
  <2>6. QED
    BY <2>2, <2>3, <2>4, <2>5 DEF IInv
\* The receiver is garbled by a frame it cannot take up.
<1>14. CASE failedSyncToNewPreamble(d) /\ owed' = NoStation
  <2>1. /\ curState' = "Garbled" /\ synchronizedToAddress' = NoStation
        /\ lastFrameEnd' \in Int /\ lastFrameEnd' >= LongAgo
        /\ lastFrameEnd' >= d /\ lastFrameEnd' >= lastFrameEnd
        /\ AtMostOneFrame(lastFrameEnd)' /\ timeout' \in Nat
        /\ (timeout <= FinalDelivery \/ AtMostOneFrame(timeout))'
        /\ FinalDelivery = 1 => timeout' <= lastFrameEnd'
    BY <1>1, <1>3, <1>14, FailedSyncFacts
  <2>2. TimerInv'
    BY <2>1 DEF TimerInv, NoTimeout
  <2>3. OwedInv'
    BY <1>14 DEF OwedInv
  <2>4. HeardInv'
    BY <1>10, <2>1
  <2>5. TypeOK'
    BY <1>4, <1>5, <1>6, <2>1, Zenon DEF TypeOK
  <2>6. QED
    BY <2>2, <2>3, <2>4, <2>5 DEF IInv
\* A preamble that does not capture the receiver from the frame it has taken up.
<1>15. CASE p.sinr >= DetectionThreshold /\ ~Captures(p) /\ Decoding
  <2>1. /\ curState' = curState /\ synchronizedToAddress' = synchronizedToAddress
        /\ timeout' = timeout /\ owed' = owed
        /\ lastFrameEnd' = Later(d, lastFrameEnd)
    <3>1. processPreamble(p) /\ ~(p.sinr < DetectionThreshold) /\ ~(p.sinr > captureThreshold(p))
      BY <1>0, <1>2, <1>15 DEF Captures
    <3>2. /\ lastFrameEnd' = Later(d, lastFrameEnd)
          /\ curState' = curState /\ synchronizedToAddress' = synchronizedToAddress
          /\ timeout' = timeout
      BY <1>15, <3>1 DEF processPreamble
    <3>3. QED
      BY <1>2, <1>15, <3>2
  <2>2. /\ lastFrameEnd' \in Int /\ lastFrameEnd' >= lastFrameEnd
        /\ lastFrameEnd' >= d /\ lastFrameEnd' >= LongAgo
        /\ AtMostOneFrame(lastFrameEnd)'
    BY <1>1, <1>3, <2>1, DurationAssumption DEF TypeOK, Later, LongAgo, AtMostOneFrame
  <2>3. curState # "Idle" /\ timeout \in Int /\ lastFrameEnd \in Int
    BY <1>3, <1>15 DEF Decoding, TypeOK, NoTimeout
  <2>4. TimerInv'
    BY <1>3, <1>15, <2>1, <2>2, <2>3, DurationAssumption DEF TimerInv, Decoding
  <2>5. OwedInv'
    BY <1>3, <1>9, <2>1 DEF OwedInv, Decoding
  <2>6. HeardInv'
    BY <1>10, <2>2
  <2>7. TypeOK'
    BY <1>3, <1>4, <1>5, <1>6, <2>1, <2>2, Zenon DEF TypeOK, AtMostOneFrame
  <2>8. QED
    BY <2>4, <2>5, <2>6, <2>7 DEF IInv
<1>16. CASE p.sinr >= DetectionThreshold /\ Captures(p) /\ ~p.crcOk
  <2>1. processPreamble(p) /\ ~(p.sinr < DetectionThreshold) /\ p.sinr > captureThreshold(p)
    BY <1>0, <1>2, <1>16 DEF Captures
  <2>2. failedSyncToNewPreamble(d)
    BY <1>16, <2>1, Zenon DEF processPreamble
  <2>3. owed' = NoStation
    BY <1>2, <1>16
  <2>4. QED
    BY <1>14, <2>2, <2>3
<1>17. CASE p.sinr >= DetectionThreshold /\ ~Captures(p) /\ ~Decoding
  <2>1. processPreamble(p) /\ ~(p.sinr < DetectionThreshold) /\ ~(p.sinr > captureThreshold(p))
    BY <1>0, <1>2, <1>17 DEF Captures
  <2>2. failedSyncToNewPreamble(d)
    BY <1>17, <2>1, Zenon DEF processPreamble
  <2>3. owed' = NoStation
    BY <1>2, <1>3, <1>17 DEF OwedInv
  <2>4. QED
    BY <1>14, <2>2, <2>3
<1>18. QED
  <2>2. (p.sinr < DetectionThreshold \/ p.sinr >= DetectionThreshold) /\ (d = 0 \/ d > 0)
    BY <1>0, <1>1
  <2>3. QED
    BY <2>2, <1>11, <1>12, <1>13, <1>15, <1>16, <1>17

\* What the PhyUser drops, since the receiver is off, changes the air alone.
LEMMA DroppedPreambleIInv ==
  ASSUME IInv, NEW p \in Preambles, PreambleArrives(p), receiverOff, Next
  PROVE  IInv'
<1>1. p.fDur \in Nat /\ p.from \in Stations /\ p.from # NoStation
  BY DurationAssumption, StationAssumption DEF Preambles
<1>2. /\ curState' = curState /\ synchronizedToAddress' = synchronizedToAddress
      /\ lastFrameEnd' = lastFrameEnd /\ timeout' = timeout
      /\ owed' = owed /\ heard' = heard
      /\ air[p.from] = NotOnAir
      /\ air' = [air EXCEPT ![p.from] = IF p.fDur > 0 THEN p.fDur ELSE NotOnAir]
  BY Zenon DEF PreambleArrives, syncVars
<1>3. TypeOK /\ TimerInv /\ OwedInv /\ HeardInv
  BY DEF IInv
<1>4. air' \in [Stations -> Nat \cup {NotOnAir}]
  BY <1>1, <1>2, <1>3 DEF TypeOK
<1>5. \A s \in Stations : s # p.from => air'[s] = air[s]
  BY <1>1, <1>2, <1>3 DEF TypeOK
<1>6. TimerInv'
  BY <1>2, <1>3 DEF TimerInv
<1>7. OwedInv'
  <2>1. owed # NoStation => owed # p.from /\ owed \in Stations
    BY <1>2, <1>3 DEF OwedInv, Decoding, TypeOK, TimerInv, NoTimeout, NotOnAir
  <2>2. QED
    BY <1>2, <1>3, <1>5, <2>1 DEF OwedInv, Decoding
<1>8. HeardInv'
  BY <1>2, <1>3, <1>5 DEF HeardInv, Later, TypeOK
<1>9. TypeOK'
  BY <1>2, <1>3, <1>4, OutputTypes, Zenon DEF TypeOK, AtMostOneFrame
<1>10. QED
  BY <1>6, <1>7, <1>8, <1>9 DEF IInv

\* A PSDU ends: its station is owed nothing and heard no more.
LEMMA PSDUIInv ==
  ASSUME IInv, NEW s \in Stations, NEW crcOk \in BOOLEAN, PSDUArrives(s, crcOk), Next
  PROVE  IInv'
<1>1. TypeOK /\ TimerInv /\ OwedInv /\ HeardInv
  BY DEF IInv
<1>2. /\ air[s] = 0
      /\ air' = [air EXCEPT ![s] = NotOnAir]
      /\ owed' = IF owed = s THEN NoStation ELSE owed
      /\ heard' = heard \ {s}
  BY Zenon DEF PSDUArrives
<1>3. \/ FrameEnd /\ Decoding /\ s = synchronizedToAddress
      \/ UNCHANGED syncVars
  BY Zenon DEF PSDUArrives, processPSDU
<1>4. air' \in [Stations -> Nat \cup {NotOnAir}]
  BY <1>1, <1>2 DEF TypeOK
<1>5. \A t \in Stations : t # s => air'[t] = air[t]
  BY <1>1, <1>2 DEF TypeOK
<1>6. owed' \in Stations \cup {NoStation} /\ heard' \subseteq Stations /\ owed' # s
  BY <1>1, <1>2, StationAssumption DEF TypeOK
<1>7. signals' \in SignalLists /\ passedUp' \in BOOLEAN /\ receiverOff' \in BOOLEAN
  BY <1>1, OutputTypes
<1>8. CASE FrameEnd /\ Decoding /\ s = synchronizedToAddress
  <2>1. /\ lastFrameEnd' = lastFrameEnd /\ synchronizedToAddress' = NoStation
        /\ \/ lastFrameEnd > 0 /\ curState' = "Garbled" /\ timeout' = lastFrameEnd
           \/ lastFrameEnd <= 0 /\ curState' = "Idle" /\ timeout' = NoTimeout
        /\ timeout' \in Nat \cup {NoTimeout}
        /\ (timeout <= FinalDelivery \/ AtMostOneFrame(timeout))'
    BY <1>1, <1>8, FrameEndFacts
  <2>2. lastFrameEnd \in Int
    BY <1>1 DEF TypeOK
  <2>3. TimerInv'
    BY <2>1, <2>2 DEF TimerInv, NoTimeout
  <2>4. OwedInv'
    BY <1>1, <1>2, <1>8 DEF OwedInv
  <2>5. HeardInv'
    BY <1>1, <1>2, <1>5, <2>1 DEF HeardInv, Later, TypeOK
  <2>6. curState' \in {"Idle", "Synchronized", "Garbled", "waitForFinalDelivery"}
    BY <2>1
  <2>7. TypeOK'
    BY <1>1, <1>4, <1>6, <1>7, <2>1, <2>6, Zenon DEF TypeOK, AtMostOneFrame
  <2>8. QED
    BY <2>3, <2>4, <2>5, <2>7 DEF IInv
<1>9. CASE UNCHANGED syncVars
  <2>1. /\ curState' = curState /\ synchronizedToAddress' = synchronizedToAddress
        /\ lastFrameEnd' = lastFrameEnd /\ timeout' = timeout
    BY <1>9 DEF syncVars
  <2>2. TimerInv'
    BY <1>1, <2>1 DEF TimerInv
  <2>3. OwedInv'
    BY <1>1, <1>2, <1>5, <2>1, StationAssumption DEF OwedInv, Decoding, TypeOK
  <2>4. HeardInv'
    BY <1>1, <1>2, <1>5, <2>1 DEF HeardInv, Later, TypeOK
  <2>5. TypeOK'
    BY <1>1, <1>4, <1>6, <1>7, <2>1, Zenon DEF TypeOK, AtMostOneFrame
  <2>6. QED
    BY <2>2, <2>3, <2>4, <2>5 DEF IInv
<1>10. QED
  BY <1>3, <1>8, <1>9

\* The timer: the frame taken up ends, or the wait, or the garbled time.
LEMMA onTimeoutIInv ==
  ASSUME IInv, onTimeout, Next
  PROVE  IInv'
<1>1. TypeOK /\ TimerInv /\ OwedInv /\ HeardInv
  BY DEF IInv
<1>2. /\ timeout = 0 /\ TimeoutHandler /\ air' = air /\ owed' = owed /\ heard' = heard
  BY Zenon DEF onTimeout
<1>3. signals' \in SignalLists /\ passedUp' \in BOOLEAN /\ receiverOff' \in BOOLEAN
  BY <1>1, OutputTypes
<1>4. lastFrameEnd \in Int
  BY <1>1 DEF TypeOK
<1>5. CASE curState = "Synchronized"
  <2>1. /\ curState' = "waitForFinalDelivery" /\ timeout' = FinalDelivery
        /\ synchronizedToAddress' = synchronizedToAddress
        /\ lastFrameEnd' = lastFrameEnd
    BY <1>2, <1>5, Zenon DEF TimeoutHandler
  <2>2. TimerInv'
    BY <1>1, <1>2, <1>4, <1>5, <2>1, DurationAssumption DEF TimerInv, NoTimeout
  <2>3. OwedInv'
    BY <1>1, <1>2, <1>5, <2>1 DEF OwedInv, Decoding
  <2>4. HeardInv'
    BY <1>1, <1>2, <2>1 DEF HeardInv, Later
  <2>5. /\ timeout' \in Nat \cup {NoTimeout} /\ timeout' <= FinalDelivery
        /\ curState' \in {"Idle", "Synchronized", "Garbled", "waitForFinalDelivery"}
    BY <2>1, DurationAssumption
  <2>6. TypeOK'
    BY <1>1, <1>2, <1>3, <2>1, <2>5, Zenon DEF TypeOK, AtMostOneFrame
  <2>7. QED
    BY <2>2, <2>3, <2>4, <2>6 DEF IInv
<1>6. CASE curState # "Synchronized"
  <2>1. FrameEnd
    BY <1>2, <1>6, Zenon DEF TimeoutHandler
  <2>2. /\ lastFrameEnd' = lastFrameEnd /\ synchronizedToAddress' = NoStation
        /\ \/ lastFrameEnd > 0 /\ curState' = "Garbled" /\ timeout' = lastFrameEnd
           \/ lastFrameEnd <= 0 /\ curState' = "Idle" /\ timeout' = NoTimeout
        /\ timeout' \in Nat \cup {NoTimeout}
        /\ (timeout <= FinalDelivery \/ AtMostOneFrame(timeout))'
    BY <1>1, <2>1, FrameEndFacts
  <2>3. TimerInv'
    BY <1>4, <2>2 DEF TimerInv, NoTimeout
  <2>4. owed' = NoStation
    BY <1>1, <1>2, <1>6, DurationAssumption DEF OwedInv, Decoding
  <2>5. OwedInv'
    BY <2>4 DEF OwedInv
  <2>6. HeardInv'
    BY <1>1, <1>2, <2>2 DEF HeardInv, Later
  <2>7. curState' \in {"Idle", "Synchronized", "Garbled", "waitForFinalDelivery"}
    BY <2>2
  <2>8. TypeOK'
    BY <1>1, <1>2, <1>3, <2>2, <2>7, Zenon DEF TypeOK, AtMostOneFrame
  <2>9. QED
    BY <2>3, <2>5, <2>6, <2>8 DEF IInv
<1>7. QED
  BY <1>5, <1>6

\* An own transmission stops every synchronization.
LEMMA doSendDataIInv ==
  ASSUME IInv, doSendData, Next
  PROVE  IInv'
<1>1. TypeOK /\ TimerInv
  BY DEF IInv
<1>2. StopSynchronization /\ owed' = NoStation /\ heard' = {} /\ air' = air
  BY Zenon DEF doSendData
<1>3. signals' \in SignalLists /\ passedUp' \in BOOLEAN /\ receiverOff' \in BOOLEAN
  BY <1>1, OutputTypes
<1>4. /\ curState' = "Idle" /\ timeout' = NoTimeout
      /\ lastFrameEnd' \in {lastFrameEnd, 0} /\ lastFrameEnd' <= 0
      /\ synchronizedToAddress' \in Stations \cup {NoStation}
  BY <1>1, <1>2 DEF StopSynchronization, syncVars, TimerInv, TypeOK
<1>5. TimerInv'
  BY <1>4 DEF TimerInv, NoTimeout
<1>6. OwedInv' /\ HeardInv'
  BY <1>2 DEF OwedInv, HeardInv
<1>7. /\ lastFrameEnd' \in Int /\ lastFrameEnd' >= LongAgo /\ AtMostOneFrame(lastFrameEnd)'
      /\ timeout' \in Nat \cup {NoTimeout} /\ timeout' <= FinalDelivery
      /\ curState' \in {"Idle", "Synchronized", "Garbled", "waitForFinalDelivery"}
      /\ owed' \in Stations \cup {NoStation} /\ heard' \subseteq Stations
  BY <1>1, <1>2, <1>4, DurationAssumption DEF TypeOK, LongAgo, AtMostOneFrame, NoTimeout
<1>8. TypeOK'
  BY <1>1, <1>2, <1>3, <1>4, <1>7, Zenon DEF TypeOK
<1>9. QED
  BY <1>5, <1>6, <1>8 DEF IInv

\* The turnaround is over: the receiver is on again.
LEMMA ReceiverOnIInv ==
  ASSUME IInv, ReceiverOn, Next
  PROVE  IInv'
<1>1. TypeOK /\ TimerInv /\ OwedInv /\ HeardInv
  BY DEF IInv
<1>2. /\ curState' = curState /\ synchronizedToAddress' = synchronizedToAddress
      /\ lastFrameEnd' = lastFrameEnd /\ timeout' = timeout
      /\ air' = air /\ owed' = owed /\ heard' = heard
  BY Zenon DEF ReceiverOn, syncVars
<1>3. TypeOK'
  BY <1>1, <1>2, OutputTypes, Zenon DEF TypeOK, AtMostOneFrame
<1>4. TimerInv' /\ OwedInv' /\ HeardInv'
  BY <1>1, <1>2 DEF TimerInv, OwedInv, HeardInv, Decoding, Later
<1>5. QED
  BY <1>3, <1>4 DEF IInv

\* Time passes: the timer, the frames and the last end come nearer together.
LEMMA TickIInv ==
  ASSUME IInv, Tick, Next
  PROVE  IInv'
<1> USE DEF NoTimeout, NotOnAir
<1>1. TypeOK /\ TimerInv /\ OwedInv /\ HeardInv
  BY DEF IInv
<1>2. /\ timeout # 0 /\ (\A s \in Stations : air[s] # 0)
      /\ timeout' = Elapsed(timeout)
      /\ air' = [s \in Stations |-> Elapsed(air[s])]
      /\ lastFrameEnd' = Later(lastFrameEnd - 1, LongAgo)
      /\ curState' = curState /\ synchronizedToAddress' = synchronizedToAddress
      /\ owed' = owed /\ heard' = heard
  BY Zenon DEF Tick
<1>3. lastFrameEnd \in Int /\ LongAgo \in Int /\ LongAgo < 0 /\ FinalDelivery \in Nat \ {0}
  BY <1>1, DurationAssumption DEF TypeOK, LongAgo
<1>4. \/ timeout = NoTimeout /\ timeout' = NoTimeout
      \/ timeout \in Nat \ {0} /\ timeout' = timeout - 1
  BY <1>1, <1>2 DEF TypeOK, Elapsed
<1>5. \A s \in Stations :
        \/ air[s] = NotOnAir /\ air'[s] = NotOnAir
        \/ air[s] \in Nat \ {0} /\ air'[s] = air[s] - 1
  <2>1. TAKE s \in Stations
  <2>2. air[s] \in Nat \cup {NotOnAir} /\ air[s] # 0
    BY <1>1, <1>2 DEF TypeOK
  <2>3. air'[s] = Elapsed(air[s])
    BY <1>2
  <2>4. QED
    BY <2>2, <2>3, ElapsedFacts
<1>6. air' \in [Stations -> Nat \cup {NotOnAir}]
  <2>1. \A s \in Stations : Elapsed(air[s]) \in Nat \cup {NotOnAir}
    BY <1>1 DEF TypeOK, Elapsed
  <2>2. QED
    BY <1>2, <2>1
<1>7. TimerInv'
  <2>1. lastFrameEnd' \in Int /\ lastFrameEnd' >= lastFrameEnd - 1
    BY <1>2, <1>3 DEF Later
  <2>2. lastFrameEnd <= 0 => lastFrameEnd' <= 0
    BY <1>2, <1>3 DEF Later
  <2>3. QED
    BY <1>1, <1>2, <1>3, <1>4, <2>1, <2>2 DEF TimerInv
<1>8. OwedInv'
  <2>1. owed # NoStation => owed \in Stations /\ curState # "waitForFinalDelivery"
    BY <1>1, <1>2 DEF OwedInv, TypeOK
  <2>2. QED
    BY <1>1, <1>2, <1>4, <1>5, <2>1 DEF OwedInv, Decoding, TimerInv
<1>9. HeardInv'
  BY <1>1, <1>2, <1>3, <1>5 DEF HeardInv, Later, TypeOK
<1>10. lastFrameEnd' \in Int /\ lastFrameEnd' >= LongAgo /\ AtMostOneFrame(lastFrameEnd)'
  BY <1>1, <1>2, <1>3, DurationAssumption DEF TypeOK, Later, AtMostOneFrame
<1>11. /\ timeout' \in Nat \cup {NoTimeout}
       /\ (timeout <= FinalDelivery \/ AtMostOneFrame(timeout))'
  <2>1. timeout' \in Nat \cup {NoTimeout}
    BY <1>4
  <2>2. (timeout <= FinalDelivery \/ AtMostOneFrame(timeout))'
    BY <1>1, <1>3, <1>4, DurationAssumption DEF TypeOK, AtMostOneFrame
  <2>3. QED
    BY <2>1, <2>2
<1>12. TypeOK'
  BY <1>1, <1>2, <1>6, <1>10, <1>11, OutputTypes, Zenon DEF TypeOK
<1>13. QED
  BY <1>7, <1>8, <1>9, <1>12 DEF IInv

(***************************************************************************)
(* The theorems.                                                           *)
(***************************************************************************)
\* The invariant is preserved by every step.
LEMMA NextIInv == IInv /\ [Next]_vars => IInv'
<1> SUFFICES ASSUME IInv, [Next]_vars PROVE IInv'
  OBVIOUS
<1>1. CASE Next
  <2>1. ASSUME NEW p \in Preambles, PreambleArrives(p) PROVE IInv'
    BY <1>1, <2>1, PreambleIInv, DroppedPreambleIInv
  <2>2. ASSUME NEW s \in Stations, NEW crcOk \in BOOLEAN, PSDUArrives(s, crcOk)
        PROVE  IInv'
    BY <1>1, <2>2, PSDUIInv
  <2>3. CASE onTimeout
    BY <1>1, <2>3, onTimeoutIInv
  <2>4. CASE doSendData
    BY <1>1, <2>4, doSendDataIInv
  <2>5. CASE ReceiverOn
    BY <1>1, <2>5, ReceiverOnIInv
  <2>6. CASE Tick
    BY <1>1, <2>6, TickIInv
  <2>7. QED
    BY <1>1, <2>1, <2>2, <2>3, <2>4, <2>5, <2>6 DEF Next
<1>2. CASE UNCHANGED vars
  BY <1>2 DEF vars, syncVars, outVars, IInv, TypeOK, TimerInv, OwedInv, HeardInv,
              Decoding, Later, AtMostOneFrame
<1>3. QED
  BY <1>1, <1>2

\* The invariant holds in every state, for every value of the constants.
THEOREM InductiveInvariant == Spec => []IInv
BY InitIInv, NextIInv, PTL DEF Spec

\* TypeOK: no variable leaves its type, no time left exceeds a frame.
THEOREM TypeCorrect == Spec => []TypeOK
<1>1. IInv => TypeOK
  BY DEF IInv
<1>2. QED
  BY <1>1, InductiveInvariant, PTL

\* AssertionsHold: the assertions of the code about state, timer and the end of
\* the last frame hold, if nothing happens within the 10 ns of the wait for the
\* final delivery (it is one tick long; the assertion of l.172 fails otherwise).
THEOREM AssertionsKept == ASSUME FinalDelivery = 1 PROVE Spec => []AssertionsHold
<1>1. IInv => AssertionsHold
  <2>1. SUFFICES ASSUME IInv PROVE AssertionsHold
    OBVIOUS
  <2>2. lastFrameEnd \in Int /\ (timeout \in Nat \/ timeout = NoTimeout) /\ TimerInv
    BY <2>1 DEF IInv, TypeOK
  <2>3. curState # "Idle" => timeout >= 0
    BY <2>2 DEF TimerInv, NoTimeout
  <2>4. QED
    BY <2>2, <2>3 DEF TimerInv, AssertionsHold
<1>2. QED
  BY <1>1, InductiveInvariant, PTL

\* SynchronizedUntilDelivered: a frame taken up, and neither captured nor given
\* up for an own transmission, is not refused when its PSDU comes.
THEOREM TakenUpIsDelivered == Spec => []SynchronizedUntilDelivered
<1>1. IInv => SynchronizedUntilDelivered
  BY DEF IInv, OwedInv, SynchronizedUntilDelivered
<1>2. QED
  BY <1>1, InductiveInvariant, PTL

\* IdleOnlyWhenClear: no frame that was detected is forgotten by an idle receiver.
THEOREM IdleIsClear == Spec => []IdleOnlyWhenClear
<1>1. IInv => IdleOnlyWhenClear
  <2>1. SUFFICES ASSUME IInv, curState = "Idle", NEW s \in heard PROVE air[s] <= 0
    BY DEF IdleOnlyWhenClear
  <2>2. lastFrameEnd <= 0 /\ lastFrameEnd \in Int /\ air[s] <= Later(lastFrameEnd, 0)
    BY <2>1 DEF IInv, TimerInv, HeardInv, TypeOK
  <2>3. QED
    BY <2>2 DEF Later
<1>2. QED
  BY <1>1, InductiveInvariant, PTL

\* ReceptionsSignalled: every reception that leaves the state Synchronized was
\* ended for the observers, every one that enters it was announced.
LEMMA StepSignals ==
  ASSUME IInv, Next
  PROVE  /\ Receiving /\ ~Receiving' => signals' \in {<<"rxEnd">>, <<"rxError">>}
         /\ Receiving' /\ (~Receiving \/ synchronizedToAddress' # synchronizedToAddress)
              => signals' \in {<<"rxStart">>, <<"rxError", "rxStart">>}
<1> DEFINE Signalled ==
       /\ Receiving /\ ~Receiving' => signals' \in {<<"rxEnd">>, <<"rxError">>}
       /\ Receiving' /\ (~Receiving \/ synchronizedToAddress' # synchronizedToAddress)
            => signals' \in {<<"rxStart">>, <<"rxError", "rxStart">>}
<1>1. ASSUME UNCHANGED syncVars PROVE Signalled
  BY <1>1 DEF syncVars, Receiving
<1>2. ASSUME NEW p \in Preambles, PreambleArrives(p) PROVE Signalled
  <2>1. CASE UNCHANGED syncVars
    BY <1>1, <2>1
  <2>2. CASE failedSyncToNewPreamble(p.fDur) /\ (signals' = CaptureSignals(p) \/ ~Receiving) /\ ~(p.crcOk /\ p.fDur > 0)
    BY <2>2 DEF failedSyncToNewPreamble, CaptureSignals, Receiving
  <2>3. CASE syncToNewPreamble(p.fDur, p.from) /\ signals' = CaptureSignals(p) /\ p.crcOk
    BY <1>1, <2>3 DEF syncToNewPreamble, CaptureSignals, Receiving
  <2>4. CASE curState' = curState /\ synchronizedToAddress' = synchronizedToAddress
    BY <2>4 DEF Receiving
  <2>5. CASE failedSyncToNewPreamble(p.fDur) /\ ~Receiving
    BY <2>5 DEF failedSyncToNewPreamble, Receiving
  <2>6. QED
    BY <1>2, <2>1, <2>2, <2>3, <2>4, <2>5, Zenon
       DEF PreambleArrives, processPreamble, Receiving, Decoding
<1>3. ASSUME NEW s \in Stations, NEW crcOk \in BOOLEAN, PSDUArrives(s, crcOk)
      PROVE  Signalled
  <2>1. UNCHANGED syncVars \/ (FrameEnd /\ curState = "waitForFinalDelivery")
    <3>1. CASE receiverOff
      BY <1>3, <3>1 DEF PSDUArrives
    <3>2. CASE ~receiverOff
      <4>1. processPSDU(s, crcOk)
        BY <1>3, <3>2 DEF PSDUArrives
      <4>2. QED
        BY <4>1, Zenon DEF processPSDU
    <3>3. QED
      BY <3>1, <3>2
  <2>2. CASE FrameEnd /\ curState = "waitForFinalDelivery"
    BY <2>2 DEF FrameEnd, Receiving
  <2>3. QED
    BY <1>1, <2>1, <2>2
<1>4. CASE onTimeout
  BY <1>4 DEF onTimeout, TimeoutHandler, FrameEnd, Receiving
<1>5. CASE doSendData
  BY <1>1, <1>5 DEF doSendData, StopSynchronization, Receiving
<1>6. CASE ReceiverOn
  BY <1>1, <1>6, Zenon DEF ReceiverOn
<1>7. CASE Tick
  BY <1>7 DEF Tick, Receiving
<1>8. QED
  BY <1>2, <1>3, <1>4, <1>5, <1>6, <1>7 DEF Next

\* ReceptionsSignalled, as a property of every behaviour.
THEOREM EndsAreSignalled == Spec => ReceptionsSignalled
<1>1. IInv /\ [Next]_vars =>
        [ /\ Receiving /\ ~Receiving' => signals' \in {<<"rxEnd">>, <<"rxError">>}
          /\ Receiving' /\ (~Receiving \/ synchronizedToAddress' # synchronizedToAddress)
             => signals' \in {<<"rxStart">>, <<"rxError", "rxStart">>}
        ]_vars
  BY StepSignals
<1>2. QED
  BY <1>1, InductiveInvariant, PTL DEF Spec, ReceptionsSignalled
=============================================================================
