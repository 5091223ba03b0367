------------------------------- MODULE Backoff -------------------------------
(***************************************************************************)
(* The CSMA/CA backoff of one station (lowerMAC/timing/Backoff.cpp), as it *)
(* is driven by the carrier sense (ChannelState), by the frame receiver    *)
(* (FrameSynchronization), by the start and stop of DRP reservations       *)
(* (DCF::onDRPStart/onDRPStop) and by requests of the DCF.                 *)
(*                                                                         *)
(* Time advances in ticks.  An event that is due at a tick happens before  *)
(* the next Tick, and events due at the same tick happen in any order; so  *)
(* do a countdown that expires and the busy indication that is acted upon  *)
(* one nanosecond late (Backoff::channelBusyDelay).                        *)
(***************************************************************************)
EXTENDS Integers

CONSTANTS
    SlotDuration,       \* length of a backoff slot, in ticks
    AifsDuration,       \* arbitration interframe space, in ticks
    EifsDuration,       \* interframe space after an erroneous reception
    CwMin, CwMax,       \* bounds of the contention window, in slots
    MaxTransmissions    \* bound: the largest transmission counter asked for

ASSUME DurationAssumption ==
    /\ SlotDuration \in Nat \ {0}
    /\ AifsDuration \in Nat \ {0}
    /\ EifsDuration \in Nat
    /\ AifsDuration <= EifsDuration

ASSUME WindowAssumption ==
    /\ CwMin \in Nat
    /\ CwMax \in Nat
    /\ CwMin <= CwMax
    /\ MaxTransmissions \in Nat \ {0}

NoTimeout == -1     \* CanTimeout: no timer is set
Unset == -1         \* aifsStart holds no meaningful instant

VARIABLES
    backoffFinished, transmissionWaiting, duringAIFS, rxError,
    isDRPreservationOn, wasChannelLastSensedBusyDuringDRP,
    cw, counter, channelIsBusy,
    aifsStart,          \* ticks since the instant stored in aifsStart, or Unset
    timeout,            \* ticks until onTimeout, or NoTimeout
    pendingBusyDelay    \* calls of channelBusyDelay scheduled and not yet made

\* The world around the backoff.
VARIABLES
    mediumBusy,         \* what ChannelState last told its observers
    justIdle            \* ChannelState reported idle at this very instant

\* History: read by no action, only by the properties.
VARIABLES
    quiet,              \* ticks the channel has been free without a break
    errored,            \* the last frame was received in error while it occupied
                        \* the medium, and no reservation has come since
    owed,               \* free ticks still to be counted for the last draw
    granted,            \* the last step allowed a transmission, and how
    spent,              \* a transmission was allowed since the last countdown
    startedOnBusy       \* the last step started a countdown of a busy channel:
                        \* the assertion of l.123 failed

codeVars == <<backoffFinished, transmissionWaiting, duringAIFS, rxError,
              isDRPreservationOn, wasChannelLastSensedBusyDuringDRP,
              cw, counter, channelIsBusy, aifsStart, timeout,
              pendingBusyDelay>>
mediumVars == <<mediumBusy, justIdle>>
historyVars == <<quiet, errored, owed, granted, spent, startedOnBusy>>
vars == <<codeVars, mediumVars, historyVars>>

drpVars == <<isDRPreservationOn, wasChannelLastSensedBusyDuringDRP>>

\* An operator whose name starts with Faulty is its namesake with one slip of a
\* kind the code could have had; the properties tell the two apart.

(***************************************************************************)
(* The contention window of the n-th transmission: cwMin, doubled (2w + 1) *)
(* n - 1 times and cut at cwMax.                                           *)
(***************************************************************************)
ContentionWindow(n) ==
    LET w == (CwMin + 1) * 2^(n - 1) - 1
    IN  IF w \in CwMin .. CwMax THEN w ELSE CwMax

\* The time c slots take.
Slots(c) == c * SlotDuration

Capped(n) == IF n > EifsDuration THEN EifsDuration ELSE n

Init ==
    /\ backoffFinished = FALSE
    /\ transmissionWaiting = FALSE
    /\ duringAIFS = TRUE
    /\ rxError = FALSE
    /\ isDRPreservationOn = FALSE
    /\ wasChannelLastSensedBusyDuringDRP = FALSE
    /\ cw = CwMin
    /\ counter = 0
    /\ channelIsBusy = FALSE
    /\ aifsStart \in {Unset, 0}     \* the constructor leaves it uninitialised
    /\ timeout = AifsDuration
    /\ pendingBusyDelay = 0
    /\ mediumBusy = FALSE
    /\ justIdle = FALSE
    /\ quiet = 0
    /\ errored = FALSE
    /\ owed = 0
    /\ granted = "no"
    /\ spent = FALSE
    /\ startedOnBusy = FALSE

(***************************************************************************)
(* A countdown starts with an interframe space.  The assertion "channel    *)
(* must be idle to start Backoff" (l.123) is noted in startedOnBusy; where *)
(* it fails the model goes on as a build without assertions does.          *)
(***************************************************************************)
startNewBackoffCountdown(ifsDuration) ==
    /\ backoffFinished' = FALSE
    /\ duringAIFS' = TRUE
    /\ timeout' = ifsDuration
    /\ startedOnBusy' = channelIsBusy'

(***************************************************************************)
(* onTimeout.  At the end of the interframe space a counter of zero is     *)
(* drawn anew from the contention window, which first falls back to cwMin  *)
(* when nothing waits; at the end of a slot the counter is decremented.    *)
(***************************************************************************)
WindowForDraw ==
    IF duringAIFS /\ counter = 0 /\ ~transmissionWaiting THEN CwMin ELSE cw

IsDraw == duringAIFS /\ counter = 0

\* Counts the end of an interframe space as a slot, too.
FaultyNextCounters ==
    IF IsDraw THEN 0 .. WindowForDraw ELSE {counter - 1}

\* Draws anew after every freeze.
FaultyRedraw ==
    IF duringAIFS THEN 0 .. WindowForDraw ELSE {counter - 1}

NextCounters ==
    IF IsDraw THEN 0 .. WindowForDraw
    ELSE IF duringAIFS THEN {counter} ELSE {counter - 1}

\* The counter is still positive: count the next slot.
NextSlot(c) ==
    /\ c > 0
    /\ timeout' = SlotDuration
    /\ cw' = WindowForDraw
    /\ granted' = "no"
    /\ UNCHANGED <<backoffFinished, transmissionWaiting, spent>>

\* Nobody waits: the post-backoff is over and the permission is kept.
PostBackoffOver(c) ==
    /\ c = 0
    /\ ~transmissionWaiting
    /\ backoffFinished' = TRUE
    /\ timeout' = NoTimeout
    /\ cw' = WindowForDraw
    /\ granted' = "no"
    /\ UNCHANGED <<transmissionWaiting, spent>>

\* Keeps backoffFinished over the call back (l.191).
FaultyCallBack(c) ==
    /\ c = 0
    /\ transmissionWaiting
    /\ backoffFinished' = TRUE
    /\ timeout' = NoTimeout
    /\ granted' = "callback"
    /\ spent' = TRUE
    /\ transmissionWaiting' = FALSE
    /\ cw' = WindowForDraw

\* DCF::backoffExpired is called.  The scheduler starts a transmission or has
\* none (again = 0), or puts the same request again (again transmissions).
CallBack(c) ==
    /\ c = 0
    /\ transmissionWaiting
    /\ backoffFinished' = FALSE
    /\ timeout' = NoTimeout
    /\ granted' = "callback"
    /\ spent' = TRUE
    /\ \E again \in 0 .. MaxTransmissions :
         /\ transmissionWaiting' = (again > 0)
         /\ cw' = IF again > 0 THEN ContentionWindow(again) ELSE WindowForDraw

onTimeout ==
    /\ timeout = 0
    /\ duringAIFS' = FALSE
    /\ \E c \in NextCounters :
         /\ counter' = c
         /\ owed' = IF IsDraw THEN Slots(c) ELSE owed
         /\ NextSlot(c) \/ PostBackoffOver(c) \/ CallBack(c)
    /\ startedOnBusy' = FALSE
    /\ UNCHANGED <<rxError, drpVars, channelIsBusy, aifsStart,
                   pendingBusyDelay, mediumVars, quiet, errored>>

(***************************************************************************)
(* A request of the DCF for its n-th attempt.  A finished post-backoff on  *)
(* an idle channel lets the transmission go at once.                       *)
(***************************************************************************)
DirectGo == backoffFinished /\ ~channelIsBusy

transmissionRequest(n) ==
    /\ cw' = ContentionWindow(n)
    /\ transmissionWaiting' = ~DirectGo
    /\ backoffFinished' = (backoffFinished /\ ~DirectGo)
    /\ granted' = IF DirectGo THEN "direct" ELSE "no"
    /\ spent' = (spent \/ DirectGo)
    /\ startedOnBusy' = FALSE
    /\ UNCHANGED <<duringAIFS, rxError, drpVars, counter, channelIsBusy,
                   aifsStart, timeout, pendingBusyDelay, mediumVars,
                   quiet, errored, owed>>

\* Waits for AIFS even after an error.
FaultyEifs ==
    /\ channelIsBusy' = FALSE
    /\ aifsStart' = 0
    /\ rxError' = FALSE
    /\ startNewBackoffCountdown(AifsDuration)
    /\ quiet' = 0
    /\ spent' = FALSE

\* Resumes only for a waiting transmission: no post-backoff.
FaultyResume ==
    /\ channelIsBusy' = FALSE
    /\ aifsStart' = 0
    /\ rxError' = FALSE
    /\ IF transmissionWaiting
       THEN startNewBackoffCountdown(AifsDuration)
       ELSE /\ startedOnBusy' = FALSE
            /\ UNCHANGED <<backoffFinished, duringAIFS, timeout>>
    /\ quiet' = 0
    /\ spent' = FALSE

\* The part of onChannelIdle that is run outside reservations.
resumeCountdown ==
    /\ channelIsBusy' = FALSE
    /\ aifsStart' = 0
    /\ rxError' = FALSE
    /\ startNewBackoffCountdown(IF rxError THEN EifsDuration ELSE AifsDuration)
    /\ quiet' = 0
    /\ spent' = FALSE

\* The part of onChannelBusy that is run outside reservations.
senseBusy ==
    /\ channelIsBusy' = TRUE
    /\ pendingBusyDelay' = pendingBusyDelay + 1

\* A busy indication lasts longer than the nanosecond of channelBusyDelay.
onChannelIdle ==
    /\ mediumBusy
    /\ pendingBusyDelay = 0
    /\ mediumBusy' = FALSE
    /\ justIdle' = TRUE
    /\ granted' = "no"
    /\ \/ /\ ~isDRPreservationOn
          /\ resumeCountdown
          /\ UNCHANGED wasChannelLastSensedBusyDuringDRP
       \/ /\ isDRPreservationOn
          /\ wasChannelLastSensedBusyDuringDRP' = FALSE
          /\ startedOnBusy' = FALSE
          /\ UNCHANGED <<channelIsBusy, aifsStart, rxError, backoffFinished,
                         duringAIFS, timeout, quiet, spent>>
    /\ UNCHANGED <<transmissionWaiting, isDRPreservationOn, cw, counter,
                   pendingBusyDelay, errored, owed>>

onChannelBusy ==
    /\ ~mediumBusy
    /\ mediumBusy' = TRUE
    /\ justIdle' = FALSE
    /\ errored' = FALSE
    /\ granted' = "no"
    /\ startedOnBusy' = FALSE
    /\ \/ /\ ~isDRPreservationOn
          /\ senseBusy
          /\ UNCHANGED wasChannelLastSensedBusyDuringDRP
       \/ /\ isDRPreservationOn
          /\ wasChannelLastSensedBusyDuringDRP' = TRUE
          /\ UNCHANGED <<channelIsBusy, pendingBusyDelay>>
    /\ UNCHANGED <<backoffFinished, transmissionWaiting, duringAIFS, rxError,
                   isDRPreservationOn, cw, counter, aifsStart, timeout,
                   quiet, owed, spent>>

\* OnDRPreservationChange(true)
DRPreservationStarts ==
    /\ ~isDRPreservationOn
    /\ isDRPreservationOn' = TRUE
    /\ wasChannelLastSensedBusyDuringDRP' = channelIsBusy
    /\ senseBusy
    /\ errored' = (errored /\ mediumBusy)   \* a reservation outlasts the EIFS
    /\ granted' = "no"
    /\ startedOnBusy' = FALSE
    /\ UNCHANGED <<backoffFinished, transmissionWaiting, duringAIFS, rxError,
                   cw, counter, aifsStart, timeout, mediumVars,
                   quiet, owed, spent>>

\* OnDRPreservationChange(false), at least one MAS after the start.
DRPreservationStops ==
    /\ isDRPreservationOn
    /\ pendingBusyDelay = 0
    /\ isDRPreservationOn' = FALSE
    /\ granted' = "no"
    /\ \/ /\ ~wasChannelLastSensedBusyDuringDRP
          /\ resumeCountdown
       \/ /\ wasChannelLastSensedBusyDuringDRP
          /\ startedOnBusy' = FALSE
          /\ UNCHANGED <<channelIsBusy, aifsStart, rxError, backoffFinished,
                         duringAIFS, timeout, quiet, spent>>
    /\ UNCHANGED <<transmissionWaiting, wasChannelLastSensedBusyDuringDRP, cw,
                   counter, pendingBusyDelay, mediumVars, errored, owed>>

\* One nanosecond after a busy indication: freeze the countdown.
channelBusyDelay ==
    /\ pendingBusyDelay > 0
    /\ pendingBusyDelay' = pendingBusyDelay - 1
    /\ aifsStart' = Unset
    /\ timeout' = IF channelIsBusy THEN NoTimeout ELSE timeout
    /\ granted' = "no"
    /\ startedOnBusy' = FALSE
    /\ UNCHANGED <<backoffFinished, transmissionWaiting, duringAIFS, rxError,
                   drpVars, cw, counter, channelIsBusy, mediumVars,
                   quiet, errored, owed, spent>>

(***************************************************************************)
(* The receiver reports an erroneous frame, at any instant: when a frame   *)
(* without payload captured the receiver before (syncToNewPreamble), it    *)
(* does so even on an idle channel.  The error counts for the properties   *)
(* if the frame still occupies the medium, for longer than the nanosecond  *)
(* of channelBusyDelay, or ended at this instant, in either order with the *)
(* idle indication.                                                        *)
(***************************************************************************)
onRxError ==
    /\ rxError' = TRUE
    /\ errored' = (errored \/ (pendingBusyDelay = 0 /\ (mediumBusy \/ justIdle)))
    /\ granted' = "no"
    /\ UNCHANGED channelIsBusy
    /\ IF ~backoffFinished /\ duringAIFS /\ aifsStart = 0
       THEN startNewBackoffCountdown(EifsDuration)
       ELSE /\ startedOnBusy' = FALSE
            /\ UNCHANGED <<backoffFinished, duringAIFS, timeout>>
    /\ UNCHANGED <<transmissionWaiting, drpVars, cw, counter,
                   aifsStart, pendingBusyDelay, mediumVars, quiet, owed, spent>>

Free == ~mediumBusy /\ ~isDRPreservationOn

\* Nothing is left to do at this instant: time passes.
Tick ==
    /\ timeout # 0
    /\ pendingBusyDelay = 0
    /\ timeout' = IF timeout = NoTimeout THEN NoTimeout ELSE timeout - 1
    /\ aifsStart' = IF aifsStart = Unset THEN Unset ELSE Capped(aifsStart + 1)
    /\ justIdle' = FALSE
    /\ quiet' = IF Free THEN Capped(quiet + 1) ELSE 0
    /\ owed' = IF Free /\ timeout # NoTimeout /\ ~duringAIFS /\ owed > 0
               THEN owed - 1 ELSE owed
    /\ granted' = "no"
    /\ startedOnBusy' = FALSE
    /\ UNCHANGED <<backoffFinished, transmissionWaiting, duringAIFS, rxError,
                   drpVars, cw, counter, channelIsBusy, pendingBusyDelay,
                   mediumBusy, errored, spent>>

Next ==
    \/ onTimeout
    \/ \E n \in 1 .. MaxTransmissions : transmissionRequest(n)
    \/ onChannelIdle
    \/ onChannelBusy
    \/ DRPreservationStarts
    \/ DRPreservationStops
    \/ channelBusyDelay
    \/ onRxError
    \/ Tick

Spec == Init /\ [][Next]_vars

(***************************************************************************)
(* The event scheduler makes every scheduled call, and time goes on.       *)
(***************************************************************************)
Fairness ==
    /\ WF_vars(onTimeout)
    /\ WF_vars(channelBusyDelay)
    /\ WF_vars(Tick)

FairSpec == Spec /\ Fairness

-----------------------------------------------------------------------------
(***************************************************************************)
(* Properties                                                              *)
(***************************************************************************)
LongestTimeout == IF duringAIFS THEN EifsDuration ELSE SlotDuration

\* Every variable holds a value of its type: the counter and the window stay
\* within cwMax, at most two busy delays are pending (onTimeout's asserts).
TypeOK ==
    /\ backoffFinished \in BOOLEAN
    /\ transmissionWaiting \in BOOLEAN
    /\ duringAIFS \in BOOLEAN
    /\ rxError \in BOOLEAN
    /\ isDRPreservationOn \in BOOLEAN
    /\ wasChannelLastSensedBusyDuringDRP \in BOOLEAN
    /\ cw \in CwMin .. CwMax
    /\ counter \in 0 .. CwMax
    /\ channelIsBusy \in BOOLEAN
    /\ aifsStart \in -1 .. EifsDuration
    /\ timeout \in -1 .. LongestTimeout
    /\ pendingBusyDelay \in 0 .. 2
    /\ mediumBusy \in BOOLEAN
    /\ justIdle \in BOOLEAN
    /\ quiet \in 0 .. EifsDuration
    /\ errored \in BOOLEAN
    /\ owed \in Nat
    /\ granted \in {"no", "direct", "callback"}
    /\ spent \in BOOLEAN
    /\ startedOnBusy \in BOOLEAN

\* The backoff's view of the channel is never stale: outside reservations it
\* is what the carrier sense last said; inside one the channel counts as busy
\* and the carrier sense is remembered for the end.  So the assertion "Incoming
\* onChannelIdle although channel is already idle" (l.239) holds over any mix of
\* carrier-sense events and reservations.
ViewMatchesMedium ==
    IF isDRPreservationOn
    THEN channelIsBusy /\ wasChannelLastSensedBusyDuringDRP = mediumBusy
    ELSE channelIsBusy = mediumBusy

\* The timer and the flags agree: a finished backoff has no timer (assertion of
\* l.136), a countdown of a busy channel is frozen as soon as the delayed busy
\* indication is handled, and a countdown that started at this instant can
\* still be cancelled by onRxError (l.323).  The assertion "channel must be
\* idle to start Backoff" (l.123) fails only in onRxError, on a channel that
\* fell idle and became busy, or reserved, at the instant of the error: the
\* delayed busy indication is then still to come and freezes the countdown
\* before time passes.
TimerMatchesFlags ==
    /\ backoffFinished => timeout = NoTimeout /\ ~duringAIFS
    /\ channelIsBusy /\ pendingBusyDelay = 0 => timeout = NoTimeout
    /\ ~backoffFinished /\ duringAIFS /\ aifsStart = 0 => timeout # NoTimeout
    /\ startedOnBusy => /\ duringAIFS /\ rxError
                        /\ channelIsBusy /\ pendingBusyDelay > 0

\* The interframe space due after the last frame.
RequiredQuiet == IF errored THEN EifsDuration ELSE AifsDuration

\* No transmission is allowed, neither at once nor by calling the DCF back,
\* unless the channel has been free for a whole AIFS, or EIFS when the last
\* frame was received in error, without a break, whatever reservations, frozen
\* countdowns and late busy indications came before.
QuietBeforeTransmission == granted # "no" => quiet >= RequiredQuiet

\* A transmission is allowed only after as many free slots as were drawn have
\* gone by, over all the freezes of the countdown (Backoff.hpp:61).
AllSlotsCounted == granted # "no" => owed = 0

\* On an idle channel a countdown runs, or its end is remembered, or it was
\* spent on a transmission: no order of freezing and resuming loses it.
CountdownNeverLost ==
    ~channelIsBusy => timeout # NoTimeout \/ backoffFinished \/ spent

\* One countdown allows one transmission: a second one needs a new busy->idle
\* transition (Backoff.hpp:61), even if the request is put again from within
\* the call back.
OneGrantPerCountdown == [][granted' # "no" => ~spent]_vars

\* If slots keep elapsing, every waiting request is served, however often the
\* countdown is frozen, the window changed or the request repeated.
SlotsKeepElapsing == []<><<onTimeout /\ ~duringAIFS>>_vars
WaitingIsServed ==
    SlotsKeepElapsing => (transmissionWaiting ~> granted # "no")
=============================================================================
