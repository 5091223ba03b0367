---------------------------- MODULE BackoffProofs ----------------------------
(***************************************************************************)
(* Proofs about Backoff, for every value of its constants: the types, the  *)
(* agreement of the backoff with the carrier sense, and that no            *)
(* transmission is allowed before the interframe space and the drawn       *)
(* number of free slots have gone by.                                      *)
(***************************************************************************)
EXTENDS Backoff, TLAPS

(***************************************************************************)
(* The inductive invariant.  Beside the properties themselves it says      *)
(* where a pending busy delay can come from, what holds at the very        *)
(* instant the medium fell idle (when an error may still be reported), how *)
(* the running timer bounds the free time still missing, and how many free *)
(* ticks are still owed.                                                   *)
(***************************************************************************)
PendingInv ==
    /\ ~isDRPreservationOn /\ pendingBusyDelay > 0
         => pendingBusyDelay = 1 /\ mediumBusy
    /\ channelIsBusy /\ pendingBusyDelay = 0 => aifsStart = Unset

JustIdleInv ==
    /\ justIdle => ~mediumBusy /\ timeout # 0
    /\ justIdle /\ ~channelIsBusy
         => duringAIFS /\ ~backoffFinished /\ aifsStart = 0 /\ timeout # NoTimeout

QuietInv ==
    /\ errored /\ channelIsBusy => rxError
    /\ timeout # NoTimeout /\ duringAIFS => timeout + quiet >= RequiredQuiet
    /\ timeout # NoTimeout /\ ~duringAIFS => quiet >= RequiredQuiet
    /\ backoffFinished /\ ~channelIsBusy => quiet >= RequiredQuiet

OwedInv ==
    /\ backoffFinished => owed = 0
    /\ timeout # NoTimeout /\ ~duringAIFS
         => counter > 0 /\ owed <= Slots(counter - 1) + timeout
    /\ timeout = NoTimeout \/ duringAIFS => owed <= Slots(counter)

SpentInv == spent => ~backoffFinished /\ timeout = NoTimeout

IInv ==
    /\ TypeOK
    /\ ViewMatchesMedium
    /\ TimerMatchesFlags
    /\ PendingInv
    /\ JustIdleInv
    /\ QuietInv
    /\ QuietBeforeTransmission
    /\ OwedInv
    /\ AllSlotsCounted
    /\ CountdownNeverLost
    /\ SpentInv

-----------------------------------------------------------------------------
\* Slots is linear and never negative (the only products the proofs need).
LEMMA SlotsFacts ==
    /\ Slots(0) = 0
    /\ \A c \in Nat : Slots(c) \in Nat
    /\ \A c \in Nat \ {0} : Slots(c - 1) = Slots(c) - SlotDuration
<1> USE DurationAssumption DEF Slots
<1>1. Slots(0) = 0
  OBVIOUS
<1>2. \A c \in Nat : Slots(c) \in Nat
  OBVIOUS
<1>3. \A c \in Nat \ {0} : Slots(c - 1) = Slots(c) - SlotDuration
  OBVIOUS
<1>4. QED
  BY <1>1, <1>2, <1>3

\* A timer set to at least the due interframe space at the instant the channel
\* falls idle covers it.
LEMMA SumCovers ==
  \A t, q, d : t \in Nat /\ d \in Nat /\ t >= d /\ q = 0 => t + q >= d
OBVIOUS

\* Whatever the exponent, a contention window lies within its bounds.
LEMMA ContentionWindowInRange ==
    \A n : ContentionWindow(n) \in CwMin .. CwMax
BY WindowAssumption DEF ContentionWindow

\* The invariant holds when the station is created, whatever the
\* uninitialised aifsStart contains.
LEMMA InitIInv == Init => IInv
<1> SUFFICES ASSUME Init PROVE IInv
  OBVIOUS
<1> USE DurationAssumption, WindowAssumption DEF Init, NoTimeout, Unset
<1>1. TypeOK
  <2>1. cw \in CwMin .. CwMax /\ counter \in 0 .. CwMax
    OBVIOUS
  <2>2. aifsStart \in -1 .. EifsDuration
    OBVIOUS
  <2>3. timeout \in -1 .. LongestTimeout
    BY DEF LongestTimeout
  <2>4. quiet \in 0 .. EifsDuration /\ pendingBusyDelay \in 0 .. 2
    OBVIOUS
  <2>5. QED
    BY <2>1, <2>2, <2>3, <2>4 DEF TypeOK
<1>2. ViewMatchesMedium
  BY DEF ViewMatchesMedium
<1>3. TimerMatchesFlags
  BY DEF TimerMatchesFlags
<1>4. PendingInv
  BY DEF PendingInv
<1>5. JustIdleInv
  BY DEF JustIdleInv
<1>6. QuietInv /\ QuietBeforeTransmission
  BY DEF QuietInv, QuietBeforeTransmission, RequiredQuiet
<1>7. OwedInv /\ AllSlotsCounted
  BY SlotsFacts DEF OwedInv, AllSlotsCounted
<1>8. CountdownNeverLost /\ SpentInv
  BY DEF CountdownNeverLost, SpentInv
<1>9. QED
  BY <1>1, <1>2, <1>3, <1>4, <1>5, <1>6, <1>7, <1>8 DEF IInv

(***************************************************************************)
(* Each action preserves the invariant.                                    *)
(***************************************************************************)

\* A countdown that starts anew waits for AIFS, or EIFS after an error.
LEMMA ResumeFacts ==
  ASSUME TypeOK, resumeCountdown
  PROVE  /\ channelIsBusy' = FALSE
         /\ backoffFinished' = FALSE
         /\ duringAIFS' = TRUE
         /\ rxError' = FALSE
         /\ aifsStart' = 0
         /\ quiet' = 0
         /\ spent' = FALSE
         /\ timeout' \in AifsDuration .. EifsDuration
         /\ timeout' \in Nat /\ timeout' >= AifsDuration
         /\ rxError => timeout' = EifsDuration
         /\ timeout' # NoTimeout
         /\ timeout' # 0
         /\ startedOnBusy' = FALSE
BY DurationAssumption
   DEF TypeOK, resumeCountdown, startNewBackoffCountdown, NoTimeout

\* The channel falls idle: the countdown resumes, with EIFS after an error.
LEMMA onChannelIdleIInv == IInv /\ onChannelIdle => IInv'
<1> SUFFICES ASSUME IInv, onChannelIdle PROVE IInv'
  OBVIOUS
<1> USE DurationAssumption DEF NoTimeout, Unset
<1>0. TypeOK
  BY DEF IInv
<1>1. CASE ~isDRPreservationOn
  <2>1. resumeCountdown
    BY <1>1 DEF onChannelIdle
  <2>2. /\ mediumBusy' = FALSE
        /\ justIdle' = TRUE
        /\ granted' = "no"
        /\ pendingBusyDelay = 0
        /\ UNCHANGED <<transmissionWaiting, isDRPreservationOn, cw, counter,
                       wasChannelLastSensedBusyDuringDRP,
                       pendingBusyDelay, errored, owed>>
    BY <1>1 DEF onChannelIdle
  <2>3. errored => rxError
    BY <1>0, <1>1, <2>2 DEF IInv, TypeOK, QuietInv, ViewMatchesMedium,
       onChannelIdle
  <2>10. /\ channelIsBusy' = FALSE
        /\ backoffFinished' = FALSE
        /\ duringAIFS' = TRUE
        /\ rxError' = FALSE
        /\ aifsStart' = 0
        /\ quiet' = 0
        /\ spent' = FALSE
        /\ timeout' \in AifsDuration .. EifsDuration
        /\ timeout' \in Nat /\ timeout' >= AifsDuration
        /\ timeout' # NoTimeout
        /\ timeout' # 0
        /\ startedOnBusy' = FALSE
    BY <1>0, <2>1, ResumeFacts
  <2>11. errored => timeout' = EifsDuration
    BY <1>0, <2>1, <2>3, ResumeFacts
  <2>4. TypeOK'
    <3>1. timeout' \in -1 .. LongestTimeout'
      BY <2>10 DEF LongestTimeout
    <3>2. aifsStart' \in -1 .. EifsDuration /\ quiet' \in 0 .. EifsDuration
      BY <2>10
    <3>3. QED
      BY <1>0, <2>2, <2>10, <3>1, <3>2 DEF TypeOK
  <2>5. ViewMatchesMedium' /\ TimerMatchesFlags' /\ PendingInv'
    <3>1. ViewMatchesMedium'
      BY <1>1, <2>2, <2>10 DEF ViewMatchesMedium
    <3>2. TimerMatchesFlags' /\ PendingInv'
      BY <1>0, <2>2, <2>10 DEF TypeOK, TimerMatchesFlags, PendingInv
    <3>3. QED
      BY <3>1, <3>2
  <2>6. JustIdleInv' /\ SpentInv' /\ CountdownNeverLost'
    BY <2>2, <2>10 DEF JustIdleInv, SpentInv, CountdownNeverLost
  <2>7. QuietInv' /\ QuietBeforeTransmission' /\ AllSlotsCounted'
    <3>1. timeout' + quiet' >= RequiredQuiet'
      <4>1. CASE errored
        BY <2>2, <2>11, <2>10, <4>1 DEF RequiredQuiet
      <4>2. CASE ~errored
        <5>1. RequiredQuiet' = AifsDuration
          BY <2>2, <4>2 DEF RequiredQuiet
        <5>2. quiet' = 0 /\ timeout' \in Nat /\ timeout' >= AifsDuration
          BY <2>10, Zenon
        <5>3. QED
          BY <5>1, <5>2, SumCovers
      <4>3. QED
        BY <4>1, <4>2
    <3>2. QuietInv'
      BY <3>1, <2>10 DEF QuietInv
    <3>3. QED
      BY <2>2, <3>2 DEF QuietBeforeTransmission, AllSlotsCounted
  <2>8. OwedInv'
    <3>1. owed <= Slots(counter)
      BY <1>0, SlotsFacts DEF IInv, TypeOK, OwedInv, LongestTimeout
    <3>2. QED
      BY <2>2, <2>10, <3>1 DEF OwedInv
  <2>9. QED
    BY <2>4, <2>5, <2>6, <2>7, <2>8 DEF IInv
<1>2. CASE isDRPreservationOn
  <2>1. /\ mediumBusy' = FALSE
        /\ justIdle' = TRUE
        /\ granted' = "no"
        /\ pendingBusyDelay = 0
        /\ wasChannelLastSensedBusyDuringDRP' = FALSE
        /\ startedOnBusy' = FALSE
        /\ UNCHANGED <<channelIsBusy, aifsStart, rxError, backoffFinished,
                       duringAIFS, timeout, quiet, spent, isDRPreservationOn,
                       transmissionWaiting, cw, counter, pendingBusyDelay,
                       errored, owed>>
    BY <1>2 DEF onChannelIdle
  <2>2. channelIsBusy /\ timeout = NoTimeout
    BY <1>2, <2>1 DEF IInv, ViewMatchesMedium, TimerMatchesFlags
  <2>3. TypeOK'
    BY <1>0, <2>1 DEF TypeOK, LongestTimeout
  <2>4. ViewMatchesMedium' /\ TimerMatchesFlags' /\ PendingInv'
    BY <1>2, <2>1, <2>2
       DEF IInv, ViewMatchesMedium, TimerMatchesFlags, PendingInv
  <2>5. JustIdleInv' /\ SpentInv' /\ CountdownNeverLost'
    BY <2>1, <2>2 DEF IInv, JustIdleInv, SpentInv, CountdownNeverLost
  <2>6. QuietInv' /\ QuietBeforeTransmission' /\ AllSlotsCounted'
    BY <2>1, <2>2
       DEF IInv, QuietInv, QuietBeforeTransmission, AllSlotsCounted,
           RequiredQuiet
  <2>7. OwedInv'
    BY <2>1 DEF IInv, OwedInv
  <2>8. QED
    BY <2>3, <2>4, <2>5, <2>6, <2>7 DEF IInv
<1>3. QED
  BY <1>0, <1>1, <1>2 DEF TypeOK

\* The channel becomes busy: the freeze is scheduled.
LEMMA onChannelBusyIInv == IInv /\ onChannelBusy => IInv'
<1> SUFFICES ASSUME IInv, onChannelBusy PROVE IInv'
  OBVIOUS
<1> USE DurationAssumption DEF NoTimeout, Unset
<1>0. TypeOK
  BY DEF IInv
<1>1. /\ ~mediumBusy
      /\ mediumBusy' = TRUE
      /\ justIdle' = FALSE
      /\ errored' = FALSE
      /\ granted' = "no"
      /\ startedOnBusy' = FALSE
      /\ UNCHANGED <<backoffFinished, transmissionWaiting, duringAIFS, rxError,
                     isDRPreservationOn, cw, counter, aifsStart, timeout,
                     quiet, owed, spent>>
  BY DEF onChannelBusy
<1>2. IF isDRPreservationOn
      THEN /\ wasChannelLastSensedBusyDuringDRP' = TRUE
           /\ UNCHANGED <<channelIsBusy, pendingBusyDelay>>
      ELSE /\ channelIsBusy' = TRUE
           /\ pendingBusyDelay' = pendingBusyDelay + 1
           /\ UNCHANGED wasChannelLastSensedBusyDuringDRP
  BY <1>0 DEF onChannelBusy, senseBusy, TypeOK
<1>3. ~isDRPreservationOn => ~channelIsBusy /\ pendingBusyDelay = 0
  BY <1>0, <1>1 DEF IInv, ViewMatchesMedium, PendingInv, TypeOK
<1>4. TypeOK'
  <2>1. /\ channelIsBusy' \in BOOLEAN
        /\ wasChannelLastSensedBusyDuringDRP' \in BOOLEAN
    BY <1>0, <1>2 DEF TypeOK
  <2>2. pendingBusyDelay' \in 0 .. 2
    BY <1>0, <1>2, <1>3 DEF TypeOK
  <2>3. QED
    BY <1>0, <1>1, <2>1, <2>2 DEF TypeOK, LongestTimeout
<1>5. ViewMatchesMedium'
  <2>1. CASE isDRPreservationOn
    BY <1>1, <1>2, <2>1 DEF IInv, ViewMatchesMedium
  <2>2. CASE ~isDRPreservationOn
    BY <1>1, <1>2, <2>2 DEF ViewMatchesMedium
  <2>3. QED
    BY <2>1, <2>2
<1>6. TimerMatchesFlags' /\ PendingInv'
  BY <1>0, <1>1, <1>2, <1>3
     DEF IInv, TypeOK, TimerMatchesFlags, PendingInv, ViewMatchesMedium
<1>7. JustIdleInv' /\ SpentInv' /\ CountdownNeverLost'
  BY <1>1, <1>2 DEF IInv, JustIdleInv, SpentInv, CountdownNeverLost
<1>8. QuietInv' /\ QuietBeforeTransmission' /\ AllSlotsCounted'
  BY <1>0, <1>1, <1>2
     DEF IInv, TypeOK, LongestTimeout, QuietInv, QuietBeforeTransmission,
         AllSlotsCounted, RequiredQuiet
<1>9. OwedInv'
  BY <1>1 DEF IInv, OwedInv
<1>10. QED
  BY <1>4, <1>5, <1>6, <1>7, <1>8, <1>9 DEF IInv

\* A reservation starts: the channel counts as busy.
LEMMA DRPreservationStartsIInv == IInv /\ DRPreservationStarts => IInv'
<1> SUFFICES ASSUME IInv, DRPreservationStarts PROVE IInv'
  OBVIOUS
<1> USE DurationAssumption DEF NoTimeout, Unset, DRPreservationStarts,
        senseBusy, mediumVars
<1>0. TypeOK
  BY DEF IInv
<1>1. TypeOK'
  <2>1. pendingBusyDelay' \in 0 .. 2
    BY <1>0 DEF IInv, TypeOK, PendingInv
  <2>2. /\ wasChannelLastSensedBusyDuringDRP' \in BOOLEAN
        /\ errored' \in BOOLEAN
    BY <1>0, Zenon DEF TypeOK
  <2>3. timeout' \in -1 .. LongestTimeout'
    BY <1>0 DEF TypeOK, LongestTimeout
  <2>4. QED
    BY <1>0, <2>1, <2>2, <2>3 DEF TypeOK
<1>2. ViewMatchesMedium'
  BY <1>0 DEF IInv, TypeOK, ViewMatchesMedium
<1>3. TimerMatchesFlags' /\ PendingInv'
  BY <1>0 DEF IInv, TypeOK, TimerMatchesFlags, PendingInv
<1>4. JustIdleInv' /\ SpentInv' /\ CountdownNeverLost'
  BY <1>0 DEF IInv, JustIdleInv, SpentInv, CountdownNeverLost
<1>5. QuietInv' /\ QuietBeforeTransmission' /\ AllSlotsCounted'
  BY <1>0 DEF IInv, TypeOK, LongestTimeout, QuietInv, ViewMatchesMedium,
     QuietBeforeTransmission, AllSlotsCounted, RequiredQuiet
<1>6. OwedInv'
  BY DEF IInv, OwedInv
<1>7. QED
  BY <1>1, <1>2, <1>3, <1>4, <1>5, <1>6 DEF IInv

\* A reservation ends: the carrier sense counts again.
LEMMA DRPreservationStopsIInv == IInv /\ DRPreservationStops => IInv'
<1> SUFFICES ASSUME IInv, DRPreservationStops PROVE IInv'
  OBVIOUS
<1> USE DurationAssumption DEF NoTimeout, Unset
<1>0. TypeOK
  BY DEF IInv
<1>1. /\ isDRPreservationOn
      /\ pendingBusyDelay = 0
      /\ isDRPreservationOn' = FALSE
      /\ granted' = "no"
      /\ UNCHANGED <<transmissionWaiting, wasChannelLastSensedBusyDuringDRP,
                     cw, counter, pendingBusyDelay, mediumBusy, justIdle,
                     errored, owed>>
  BY DEF DRPreservationStops, mediumVars
<1>2. channelIsBusy /\ timeout = NoTimeout /\ aifsStart = Unset
  BY <1>1 DEF IInv, ViewMatchesMedium, TimerMatchesFlags, PendingInv
<1>3. wasChannelLastSensedBusyDuringDRP = mediumBusy
  BY <1>1 DEF IInv, ViewMatchesMedium
<1>4. CASE ~mediumBusy
  <2>1. resumeCountdown
    BY <1>3, <1>4 DEF DRPreservationStops
  <2>2. errored => rxError
    BY <1>2 DEF IInv, QuietInv
  <2>10. /\ channelIsBusy' = FALSE
        /\ backoffFinished' = FALSE
        /\ duringAIFS' = TRUE
        /\ rxError' = FALSE
        /\ aifsStart' = 0
        /\ quiet' = 0
        /\ spent' = FALSE
        /\ timeout' \in AifsDuration .. EifsDuration
        /\ timeout' \in Nat /\ timeout' >= AifsDuration
        /\ timeout' # NoTimeout
        /\ timeout' # 0
        /\ startedOnBusy' = FALSE
    BY <1>0, <2>1, ResumeFacts
  <2>11. errored => timeout' = EifsDuration
    BY <1>0, <2>1, <2>2, ResumeFacts
  <2>3. TypeOK'
    <3>1. timeout' \in -1 .. LongestTimeout'
      BY <2>10 DEF LongestTimeout
    <3>2. aifsStart' \in -1 .. EifsDuration /\ quiet' \in 0 .. EifsDuration
      BY <2>10
    <3>3. QED
      BY <1>0, <1>1, <2>10, <3>1, <3>2 DEF TypeOK
  <2>4. ViewMatchesMedium' /\ TimerMatchesFlags' /\ PendingInv'
    <3>1. ViewMatchesMedium'
      BY <1>0, <1>1, <1>4, <2>10 DEF ViewMatchesMedium, TypeOK
    <3>2. TimerMatchesFlags' /\ PendingInv'
      BY <1>0, <1>1, <2>10 DEF TypeOK, TimerMatchesFlags, PendingInv
    <3>3. QED
      BY <3>1, <3>2
  <2>5. JustIdleInv' /\ SpentInv' /\ CountdownNeverLost'
    BY <1>1, <1>4, <2>10 DEF JustIdleInv, SpentInv, CountdownNeverLost
  <2>6. QuietInv' /\ QuietBeforeTransmission' /\ AllSlotsCounted'
    <3>1. timeout' + quiet' >= RequiredQuiet'
      <4>1. CASE errored
        BY <1>1, <2>11, <2>10, <4>1 DEF RequiredQuiet
      <4>2. CASE ~errored
        <5>1. RequiredQuiet' = AifsDuration
          BY <1>1, <4>2 DEF RequiredQuiet
        <5>2. quiet' = 0 /\ timeout' \in Nat /\ timeout' >= AifsDuration
          BY <2>10, Zenon
        <5>3. QED
          BY <5>1, <5>2, SumCovers
      <4>3. QED
        BY <4>1, <4>2
    <3>2. QuietInv'
      BY <3>1, <2>10 DEF QuietInv
    <3>3. QED
      BY <1>1, <3>2 DEF QuietBeforeTransmission, AllSlotsCounted
  <2>7. OwedInv'
    BY <1>1, <1>2, <2>10 DEF IInv, OwedInv
  <2>8. QED
    BY <2>3, <2>4, <2>5, <2>6, <2>7 DEF IInv
<1>5. CASE mediumBusy
  <2>1. /\ startedOnBusy' = FALSE
        /\ UNCHANGED <<channelIsBusy, aifsStart, rxError, backoffFinished,
                       duringAIFS, timeout, quiet, spent>>
    BY <1>3, <1>5 DEF DRPreservationStops
  <2>2. TypeOK'
    BY <1>0, <1>1, <2>1 DEF TypeOK, LongestTimeout
  <2>3. ViewMatchesMedium' /\ TimerMatchesFlags' /\ PendingInv'
    BY <1>0, <1>1, <1>2, <1>5, <2>1
       DEF IInv, ViewMatchesMedium, TimerMatchesFlags, PendingInv, TypeOK
  <2>4. JustIdleInv' /\ SpentInv' /\ CountdownNeverLost'
    BY <1>1, <1>2, <2>1
       DEF IInv, JustIdleInv, SpentInv, CountdownNeverLost
  <2>5. QuietInv' /\ QuietBeforeTransmission' /\ AllSlotsCounted'
    BY <1>1, <1>2, <2>1
       DEF IInv, QuietInv, QuietBeforeTransmission, AllSlotsCounted,
           RequiredQuiet
  <2>6. OwedInv'
    BY <1>1, <2>1 DEF IInv, OwedInv
  <2>7. QED
    BY <2>2, <2>3, <2>4, <2>5, <2>6 DEF IInv
<1>6. QED
  BY <1>4, <1>5

\* The delayed busy indication freezes the countdown.
LEMMA channelBusyDelayIInv == IInv /\ channelBusyDelay => IInv'
<1> SUFFICES ASSUME IInv, channelBusyDelay PROVE IInv'
  OBVIOUS
<1> USE DurationAssumption DEF NoTimeout, Unset, channelBusyDelay, drpVars,
        mediumVars
<1>0. TypeOK
  BY DEF IInv
<1>1. channelIsBusy
  BY <1>0 DEF IInv, TypeOK, PendingInv, ViewMatchesMedium
<1>2. timeout' = NoTimeout
  BY <1>1
<1>3. TypeOK'
  <2>1. pendingBusyDelay' \in 0 .. 2 /\ aifsStart' \in -1 .. EifsDuration
    BY <1>0 DEF TypeOK
  <2>2. timeout' \in -1 .. LongestTimeout'
    <3>1. LongestTimeout' \in Nat
      BY DEF LongestTimeout
    <3>2. QED
      BY <1>2, <3>1
  <2>3. startedOnBusy' \in BOOLEAN
    BY Zenon
  <2>4. QED
    BY <1>0, <2>1, <2>2, <2>3 DEF TypeOK
<1>4. ViewMatchesMedium' /\ TimerMatchesFlags' /\ PendingInv'
  BY <1>0, <1>2
     DEF IInv, TypeOK, ViewMatchesMedium, TimerMatchesFlags, PendingInv
<1>5. JustIdleInv' /\ SpentInv' /\ CountdownNeverLost'
  BY <1>1, <1>2 DEF IInv, JustIdleInv, SpentInv, CountdownNeverLost
<1>6. QuietInv' /\ QuietBeforeTransmission' /\ AllSlotsCounted'
  BY <1>1, <1>2
     DEF IInv, QuietInv, QuietBeforeTransmission, AllSlotsCounted,
         RequiredQuiet
<1>7. OwedInv'
  \* A slot that was frozen half-way is counted again in full.
  BY <1>0, <1>2, SlotsFacts DEF IInv, TypeOK, LongestTimeout, OwedInv
<1>8. QED
  BY <1>3, <1>4, <1>5, <1>6, <1>7 DEF IInv

\* A reception fails.
LEMMA onRxErrorIInv == IInv /\ onRxError => IInv'
<1> SUFFICES ASSUME IInv, onRxError PROVE IInv'
  OBVIOUS
<1> USE DurationAssumption DEF NoTimeout, Unset, onRxError, drpVars, mediumVars
<1>0. TypeOK
  BY DEF IInv
<1>0a. errored' \in BOOLEAN /\ rxError' = TRUE /\ granted' = "no"
  BY Zenon
<1>1. CASE ~backoffFinished /\ duringAIFS /\ aifsStart = 0
  <2>1. /\ backoffFinished' = FALSE
        /\ duringAIFS' = TRUE
        /\ timeout' = EifsDuration
        /\ startedOnBusy' = channelIsBusy
    BY <1>1 DEF startNewBackoffCountdown
  <2>2. timeout # NoTimeout /\ ~(channelIsBusy /\ pendingBusyDelay = 0)
    BY <1>1 DEF IInv, TimerMatchesFlags, PendingInv
  <2>3. TypeOK'
    <3>1. timeout' \in -1 .. LongestTimeout'
      BY <2>1 DEF LongestTimeout
    <3>2. QED
      BY <1>0, <1>0a, <2>1, <3>1 DEF TypeOK
  <2>4. ViewMatchesMedium' /\ TimerMatchesFlags' /\ PendingInv'
    \* A countdown of a busy channel still runs only before channelBusyDelay.
    <3>1. startedOnBusy' => channelIsBusy /\ pendingBusyDelay > 0
      BY <1>0, <2>1, <2>2 DEF TypeOK
    <3>2. QED
      BY <1>0a, <2>1, <2>2, <3>1
         DEF IInv, ViewMatchesMedium, TimerMatchesFlags, PendingInv
  <2>5. JustIdleInv' /\ SpentInv' /\ CountdownNeverLost'
    BY <2>1, <2>2, <1>1 DEF IInv, JustIdleInv, SpentInv, CountdownNeverLost
  <2>6. QuietInv' /\ QuietBeforeTransmission' /\ AllSlotsCounted'
    BY <1>0, <1>0a, <2>1
       DEF TypeOK, QuietInv, QuietBeforeTransmission, AllSlotsCounted,
           RequiredQuiet
  <2>7. OwedInv'
    BY <1>1, <2>1, <2>2 DEF IInv, OwedInv
  <2>8. QED
    BY <2>3, <2>4, <2>5, <2>6, <2>7 DEF IInv
<1>2. CASE ~(~backoffFinished /\ duringAIFS /\ aifsStart = 0)
  <2>1. /\ startedOnBusy' = FALSE
        /\ UNCHANGED <<backoffFinished, duringAIFS, timeout>>
    BY <1>2
  \* An error that counts finds the channel busy and the countdown frozen.
  <2>2. \/ errored' = errored
        \/ channelIsBusy /\ timeout = NoTimeout
    <3>1. CASE ~(pendingBusyDelay = 0 /\ (mediumBusy \/ justIdle))
      BY <1>0, <3>1 DEF TypeOK
    <3>2. CASE pendingBusyDelay = 0 /\ (mediumBusy \/ justIdle)
      <4>1. channelIsBusy
        BY <1>0, <1>2, <3>2 DEF IInv, TypeOK, JustIdleInv, ViewMatchesMedium
      <4>2. QED
        BY <3>2, <4>1 DEF IInv, TimerMatchesFlags
    <3>3. QED
      BY <3>1, <3>2
  <2>3. TypeOK'
    BY <1>0, <1>0a, <2>1 DEF TypeOK, LongestTimeout
  <2>4. ViewMatchesMedium' /\ TimerMatchesFlags' /\ PendingInv'
    BY <2>1 DEF IInv, ViewMatchesMedium, TimerMatchesFlags, PendingInv
  <2>5. JustIdleInv' /\ SpentInv' /\ CountdownNeverLost'
    BY <2>1 DEF IInv, JustIdleInv, SpentInv, CountdownNeverLost
  <2>6. QuietInv'
    BY <1>0a, <2>1, <2>2 DEF IInv, QuietInv, RequiredQuiet
  <2>7. QuietBeforeTransmission' /\ AllSlotsCounted'
    BY <1>0a DEF QuietBeforeTransmission, AllSlotsCounted
  <2>8. OwedInv'
    BY <2>1 DEF IInv, OwedInv
  <2>9. QED
    BY <2>3, <2>4, <2>5, <2>6, <2>7, <2>8 DEF IInv
<1>3. QED
  BY <1>1, <1>2

\* Time passes.
LEMMA TickIInv == IInv /\ Tick => IInv'
<1> SUFFICES ASSUME IInv, Tick PROVE IInv'
  OBVIOUS
<1> USE DurationAssumption DEF NoTimeout, Unset, Tick, drpVars
<1>0. TypeOK
  BY DEF IInv
<1>1. ~channelIsBusy => Free
  BY <1>0 DEF IInv, TypeOK, ViewMatchesMedium, Free
<1>2. timeout # NoTimeout => ~channelIsBusy /\ Free
  BY <1>1 DEF IInv, TimerMatchesFlags
<1>3. TypeOK'
  <2>1. timeout' \in -1 .. LongestTimeout'
    BY <1>0 DEF TypeOK, LongestTimeout
  <2>2. aifsStart' \in -1 .. EifsDuration /\ quiet' \in 0 .. EifsDuration
    BY <1>0 DEF TypeOK, Capped
  <2>3. owed' \in Nat
    BY <1>0 DEF TypeOK
  <2>4. QED
    BY <1>0, <2>1, <2>2, <2>3 DEF TypeOK
<1>4. ViewMatchesMedium' /\ JustIdleInv' /\ PendingInv'
  BY DEF IInv, ViewMatchesMedium, JustIdleInv, PendingInv
<1>5. TimerMatchesFlags' /\ SpentInv' /\ CountdownNeverLost'
  BY <1>0 DEF IInv, TypeOK, TimerMatchesFlags, SpentInv, CountdownNeverLost,
     Capped
<1>6. QuietInv' /\ QuietBeforeTransmission' /\ AllSlotsCounted'
  BY <1>0, <1>1, <1>2
     DEF IInv, TypeOK, QuietInv, QuietBeforeTransmission, AllSlotsCounted,
         RequiredQuiet, Capped
<1>7. OwedInv'
  BY <1>0, <1>2, SlotsFacts DEF IInv, TypeOK, OwedInv
<1>8. QED
  BY <1>3, <1>4, <1>5, <1>6, <1>7 DEF IInv

\* The DCF asks for a transmission.
LEMMA transmissionRequestIInv ==
  ASSUME NEW n, IInv, transmissionRequest(n)
  PROVE  IInv'
<1> USE DurationAssumption DEF NoTimeout, Unset, transmissionRequest, DirectGo,
        drpVars, mediumVars
<1>0. TypeOK
  BY DEF IInv
<1>1. TypeOK'
  BY <1>0, ContentionWindowInRange DEF TypeOK, LongestTimeout
<1>2. ViewMatchesMedium' /\ PendingInv' /\ JustIdleInv'
  BY <1>0 DEF IInv, TypeOK, ViewMatchesMedium, PendingInv, JustIdleInv
<1>3. TimerMatchesFlags'
  <2>2. CASE DirectGo
    BY <1>0, <2>2 DEF IInv, TypeOK, TimerMatchesFlags
  <2>1. CASE ~DirectGo
    BY <1>0, <2>1 DEF IInv, TypeOK, TimerMatchesFlags
  <2>3. QED
    BY <2>1, <2>2
<1>4. SpentInv' /\ CountdownNeverLost'
  BY <1>0 DEF IInv, TypeOK, TimerMatchesFlags, SpentInv, CountdownNeverLost
<1>5. QuietInv' /\ QuietBeforeTransmission' /\ AllSlotsCounted'
  BY <1>0
     DEF IInv, TypeOK, QuietInv, QuietBeforeTransmission, AllSlotsCounted,
         OwedInv, RequiredQuiet
<1>6. OwedInv'
  BY <1>0 DEF IInv, OwedInv
<1>7. QED
  BY <1>1, <1>2, <1>3, <1>4, <1>5, <1>6 DEF IInv

\* An interframe space or a slot ends.
LEMMA onTimeoutIInv == IInv /\ onTimeout => IInv'
<1> SUFFICES ASSUME IInv, onTimeout PROVE IInv'
  OBVIOUS
<1> USE DurationAssumption, WindowAssumption DEF NoTimeout, Unset
<1>0. TypeOK
  BY DEF IInv
<1>1. PICK c \in NextCounters :
        /\ counter' = c
        /\ owed' = IF IsDraw THEN Slots(c) ELSE owed
        /\ NextSlot(c) \/ PostBackoffOver(c) \/ CallBack(c)
  BY DEF onTimeout
<1>2. /\ timeout = 0
      /\ duringAIFS' = FALSE
      /\ startedOnBusy' = FALSE
      /\ UNCHANGED <<rxError, isDRPreservationOn,
                     wasChannelLastSensedBusyDuringDRP, channelIsBusy,
                     aifsStart, pendingBusyDelay, mediumBusy, justIdle,
                     quiet, errored>>
  BY DEF onTimeout, drpVars, mediumVars
\* What the expiry of a timer says of the channel.
<1>3. /\ ~backoffFinished
      /\ ~justIdle
      /\ ~spent
      /\ channelIsBusy => pendingBusyDelay > 0
  BY <1>0, <1>2
     DEF IInv, TypeOK, TimerMatchesFlags, JustIdleInv, SpentInv
<1>4. quiet >= RequiredQuiet
  BY <1>0, <1>2 DEF IInv, TypeOK, QuietInv, RequiredQuiet
<1>5. quiet' >= RequiredQuiet'
  BY <1>2, <1>4 DEF RequiredQuiet
\* The counter and the free time it stands for.
<1>6. WindowForDraw \in CwMin .. CwMax
  BY <1>0 DEF TypeOK, WindowForDraw
<1>7. c \in 0 .. CwMax
  <2>1. CASE IsDraw
    BY <1>6, <2>1 DEF NextCounters
  <2>2. CASE ~IsDraw /\ duringAIFS
    BY <1>0, <2>2 DEF NextCounters, TypeOK
  <2>3. CASE ~duringAIFS
    BY <1>0, <1>2, <2>3 DEF NextCounters, TypeOK, IInv, OwedInv, IsDraw
  <2>4. QED
    BY <2>1, <2>2, <2>3
<1>8. owed' \in Nat /\ owed' <= Slots(c)
  <2>1. CASE IsDraw
    BY <1>1, <1>7, <2>1, SlotsFacts
  <2>2. CASE ~IsDraw /\ duringAIFS
    BY <1>0, <1>1, <2>2 DEF NextCounters, TypeOK, IInv, OwedInv
  <2>3. CASE ~duringAIFS
    <3>1. c = counter - 1
      BY <2>3 DEF NextCounters, IsDraw
    <3>2. owed <= Slots(c) + 0
      BY <1>2, <2>3, <3>1 DEF IInv, OwedInv
    <3>3. owed' = owed /\ owed \in Nat
      BY <1>0, <1>1, <2>3 DEF IsDraw, TypeOK
    <3>4. Slots(c) \in Nat
      BY <1>7, SlotsFacts
    <3>5. QED
      BY <3>2, <3>3, <3>4
  <2>4. QED
    BY <2>1, <2>2, <2>3
<1>9. cw' \in CwMin .. CwMax
  BY <1>1, <1>6, ContentionWindowInRange DEF NextSlot, PostBackoffOver, CallBack
\* The parts of the invariant the three continuations do not touch.
<1>10. ViewMatchesMedium' /\ JustIdleInv'
  BY <1>2, <1>3 DEF IInv, ViewMatchesMedium, JustIdleInv
<1>11. PendingInv'
  BY <1>2 DEF IInv, PendingInv
<1>12. ASSUME timeout' \in {NoTimeout, SlotDuration},
              backoffFinished' \in BOOLEAN,
              transmissionWaiting' \in BOOLEAN,
              granted' \in {"no", "callback"},
              spent' \in BOOLEAN
       PROVE  TypeOK'
  <2>1. timeout' \in -1 .. LongestTimeout'
    BY <1>2, <1>12 DEF LongestTimeout
  <2>2. counter' \in 0 .. CwMax /\ owed' \in Nat
    BY <1>1, <1>7, <1>8
  <2>3. QED
    BY <1>0, <1>2, <1>9, <1>12, <2>1, <2>2 DEF TypeOK
<1>13. CASE NextSlot(c)
  <2>1. /\ c > 0
        /\ timeout' = SlotDuration
        /\ granted' = "no"
        /\ UNCHANGED <<backoffFinished, transmissionWaiting, spent>>
    BY <1>13 DEF NextSlot
  <2>2. TypeOK'
    BY <1>0, <1>12, <2>1 DEF TypeOK
  <2>3. TimerMatchesFlags'
    BY <1>2, <1>3, <2>1 DEF TimerMatchesFlags
  <2>4. QuietInv' /\ QuietBeforeTransmission' /\ AllSlotsCounted'
    BY <1>2, <1>3, <1>5, <2>1
       DEF IInv, QuietInv, QuietBeforeTransmission, AllSlotsCounted
  <2>5. OwedInv'
    <3>1. owed' <= Slots(c - 1) + SlotDuration
      BY <1>7, <1>8, <2>1, SlotsFacts
    <3>2. QED
      BY <1>1, <1>2, <1>3, <2>1, <3>1 DEF OwedInv
  <2>6. CountdownNeverLost' /\ SpentInv'
    BY <1>3, <2>1 DEF CountdownNeverLost, SpentInv
  <2>7. QED
    BY <1>10, <1>11, <2>2, <2>3, <2>4, <2>5, <2>6 DEF IInv
<1>14. CASE PostBackoffOver(c)
  <2>1. /\ c = 0
        /\ backoffFinished' = TRUE
        /\ timeout' = NoTimeout
        /\ granted' = "no"
        /\ UNCHANGED <<transmissionWaiting, spent>>
    BY <1>14 DEF PostBackoffOver
  <2>2. TypeOK'
    BY <1>0, <1>12, <2>1 DEF TypeOK
  <2>3. TimerMatchesFlags'
    BY <1>2, <2>1 DEF TimerMatchesFlags
  <2>4. QuietInv' /\ QuietBeforeTransmission' /\ AllSlotsCounted'
    BY <1>2, <1>5, <2>1
       DEF IInv, QuietInv, QuietBeforeTransmission, AllSlotsCounted
  <2>5. OwedInv'
    BY <1>1, <1>8, <2>1, SlotsFacts DEF OwedInv
  <2>6. CountdownNeverLost' /\ SpentInv'
    BY <1>3, <2>1 DEF CountdownNeverLost, SpentInv
  <2>7. QED
    BY <1>10, <1>11, <2>2, <2>3, <2>4, <2>5, <2>6 DEF IInv
<1>15. CASE CallBack(c)
  <2>1. /\ c = 0
        /\ backoffFinished' = FALSE
        /\ timeout' = NoTimeout
        /\ granted' = "callback"
        /\ spent' = TRUE
        /\ transmissionWaiting' \in BOOLEAN
    BY <1>15 DEF CallBack
  <2>2. TypeOK'
    BY <1>12, <2>1
  <2>3. TimerMatchesFlags'
    BY <1>2, <2>1 DEF TimerMatchesFlags
  <2>4. owed' = 0
    BY <1>8, <2>1, SlotsFacts
  <2>5. QuietInv' /\ QuietBeforeTransmission' /\ AllSlotsCounted'
    BY <1>2, <1>5, <2>1, <2>4
       DEF IInv, QuietInv, QuietBeforeTransmission, AllSlotsCounted
  <2>6. OwedInv'
    BY <1>1, <1>8, <2>1 DEF OwedInv
  <2>7. CountdownNeverLost' /\ SpentInv'
    BY <2>1 DEF CountdownNeverLost, SpentInv
  <2>8. QED
    BY <1>10, <1>11, <2>2, <2>3, <2>5, <2>6, <2>7 DEF IInv
<1>16. QED
  BY <1>1, <1>13, <1>14, <1>15

\* A step that changes nothing preserves everything.
LEMMA StutterIInv == IInv /\ UNCHANGED vars => IInv'
<1> SUFFICES ASSUME IInv, UNCHANGED vars PROVE IInv'
  OBVIOUS
<1> USE DEF vars, codeVars, mediumVars, historyVars
<1>1. TypeOK'
  BY DEF IInv, TypeOK, LongestTimeout
<1>2. ViewMatchesMedium' /\ TimerMatchesFlags' /\ PendingInv' /\ JustIdleInv'
  BY DEF IInv, ViewMatchesMedium, TimerMatchesFlags, PendingInv, JustIdleInv
<1>3. QuietInv' /\ QuietBeforeTransmission'
  BY DEF IInv, QuietInv, QuietBeforeTransmission, RequiredQuiet
<1>4. OwedInv' /\ AllSlotsCounted' /\ CountdownNeverLost' /\ SpentInv'
  BY DEF IInv, OwedInv, AllSlotsCounted, CountdownNeverLost, SpentInv
<1>5. QED
  BY <1>1, <1>2, <1>3, <1>4 DEF IInv

\* Every step preserves the invariant.
LEMMA NextIInv == IInv /\ [Next]_vars => IInv'
<1> SUFFICES ASSUME IInv, [Next]_vars PROVE IInv'
  OBVIOUS
<1>1. CASE onTimeout
  BY <1>1, onTimeoutIInv
<1>2. CASE \E n \in 1 .. MaxTransmissions : transmissionRequest(n)
  BY <1>2, transmissionRequestIInv
<1>3. CASE onChannelIdle
  BY <1>3, onChannelIdleIInv
<1>4. CASE onChannelBusy
  BY <1>4, onChannelBusyIInv
<1>5. CASE DRPreservationStarts
  BY <1>5, DRPreservationStartsIInv
<1>6. CASE DRPreservationStops
  BY <1>6, DRPreservationStopsIInv
<1>7. CASE channelBusyDelay
  BY <1>7, channelBusyDelayIInv
<1>8. CASE onRxError
  BY <1>8, onRxErrorIInv
<1>9. CASE Tick
  BY <1>9, TickIInv
<1>10. CASE UNCHANGED vars
  BY <1>10, StutterIInv
<1>11. QED
  BY <1>1, <1>2, <1>3, <1>4, <1>5, <1>6, <1>7, <1>8, <1>9, <1>10 DEF Next

-----------------------------------------------------------------------------
\* The strengthened invariant holds in every behaviour of the backoff.
THEOREM InductiveInvariant == Spec => []IInv
<1>1. Init => IInv
  BY InitIInv
<1>2. IInv /\ [Next]_vars => IInv'
  BY NextIInv
<1>3. QED
  BY <1>1, <1>2, PTL DEF Spec

\* The counters and timers keep their bounds, and at most two busy delays are
\* pending: one of the carrier sense and one of a reservation.
THEOREM TypeCorrect == Spec => []TypeOK
<1>1. IInv => TypeOK
  BY DEF IInv
<1>2. QED
  BY <1>1, InductiveInvariant, PTL

\* The backoff never acts on a stale view of the channel, whatever the order of
\* busy and idle indications and of reservations.
THEOREM ViewCorrect == Spec => []ViewMatchesMedium
<1>1. IInv => ViewMatchesMedium
  BY DEF IInv
<1>2. QED
  BY <1>1, InductiveInvariant, PTL

\* The assertions of onTimeout (l.136) and of cancelTimeout in onRxError hold
\* whatever the order of events, and that of startNewBackoffCountdown (l.123)
\* fails only for a countdown which onRxError restarts and which the busy
\* indication already under way freezes at the same instant.
THEOREM TimerCorrect == Spec => []TimerMatchesFlags
<1>1. IInv => TimerMatchesFlags
  BY DEF IInv
<1>2. QED
  BY <1>1, InductiveInvariant, PTL

\* Whatever the slot, the interframe spaces and the window are, no transmission
\* is allowed before the interframe space has gone by undisturbed.
THEOREM InterframeSpaceKept == Spec => []QuietBeforeTransmission
<1>1. IInv => QuietBeforeTransmission
  BY DEF IInv
<1>2. QED
  BY <1>1, InductiveInvariant, PTL

\* Whatever the slot, the interframe spaces and the window are, no transmission
\* is allowed before all the slots that were drawn have gone by.
THEOREM AllSlotsKept == Spec => []AllSlotsCounted
<1>1. IInv => AllSlotsCounted
  BY DEF IInv
<1>2. QED
  BY <1>1, InductiveInvariant, PTL

\* On an idle channel the countdown runs, is over, or was used.
THEOREM CountdownKept == Spec => []CountdownNeverLost
<1>1. IInv => CountdownNeverLost
  BY DEF IInv
<1>2. QED
  BY <1>1, InductiveInvariant, PTL

\* No countdown allows two transmissions.
THEOREM OneGrant == Spec => OneGrantPerCountdown
<1>1. IInv /\ [Next]_vars => [granted' # "no" => ~spent]_vars
  <2> SUFFICES ASSUME IInv, [Next]_vars, granted' # "no", spent,
                      ~UNCHANGED vars
               PROVE  FALSE
    OBVIOUS
  <2>1. ~backoffFinished /\ timeout = NoTimeout
    BY DEF IInv, SpentInv
  <2>2. ~onTimeout
    BY <2>1 DEF onTimeout, NoTimeout
  <2>3. ASSUME NEW n \in 1 .. MaxTransmissions, transmissionRequest(n)
        PROVE  FALSE
    BY <2>1, <2>3 DEF transmissionRequest, DirectGo
  <2>4. granted' = "no"
    BY <2>2, <2>3 DEF Next, onChannelIdle, onChannelBusy,
       DRPreservationStarts, DRPreservationStops, channelBusyDelay, onRxError,
       Tick
  <2>5. QED
    BY <2>4
<1>2. QED
  BY <1>1, InductiveInvariant, PTL DEF Spec, OneGrantPerCountdown
=============================================================================
