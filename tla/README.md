# A verification project for WiMeMAC

WiMeMAC is a simulation model of the ECMA-368 (WiMedia) medium access layer,
written in C++ for the openWNS simulator.  A station owns reserved medium access
slots (*DRP*, negotiated in beacons) and contends for the rest of the superframe
(*PCA*, CSMA/CA).  This directory holds TLA+ models of its logic, the TLC
configurations that check them and proofs checked by TLAPS.

The repository has no tests.  Its own statements about its behaviour are the
assertions (`assure`), the comments and the log messages; the models take the
code as their only source and quote those statements where they disagree.

## 1. The system

The program is single-threaded and event driven: the simulator's scheduler makes
one call at a time, in order of simulated time, and calls due at the same instant
in the order they were scheduled.  A handler runs to its end, calls other units
directly (often nested several deep) and schedules later calls.  Hence the unit
of interleaving is the scheduled call, and the hazards are: calls due at or near
the same instant, nested calls that change what the caller holds, state that is
stale when a delayed call is made, and lost or erroneous frames.

| component | state | operations | interacts with |
|---|---|---|---|
| `lowerMAC/timing/Backoff` | countdown (`counter`, `cw`, timer), `backoffFinished`, `transmissionWaiting`, `rxError`, view of channel and reservation | `transmissionRequest`, `onChannelIdle/Busy`, `OnDRPreservationChange`, `onRxError`, `onTimeout`, `channelBusyDelay`, `finishedAt` | ChannelState and FrameSynchronization (observer), DCF (call back) |
| `lowerMAC/timing/DCF` | `sendNow` | `doIsAccepting`, `doSendData`, `waitingTransmissions`, `backoffExpired`, `onDRPStart/Stop` | Backoff, DRPScheduler |
| `lowerMAC/TXOP` | `remainingTXOPDuration`, `lastFTDuration` | `processOutgoing`, `doIsAccepting`, `closeTXOP` | DRPScheduler (next frame, delayed stop), Manager |
| `drp/DRPScheduler` | `AccessPermission`, `AccessRx`, `isPCAtransmissionActive`, `ActivePCArx`, `PCAcompoundsWereSent`, one timer, `currentDRPMap` | `doSendData`, `TimeToTransmit`, `startPCAtransmission`, `stopPCAtransmission`, `Acknowledgment`, `failedAck`, `onTimeout`, `txOPCloseIn`, `RegisterDRPReservations` | TempSendBuffer, Queues, DCF, TXOP, DRPManager, PERInformationBase |
| `drp/TempSendBuffer` | `pduQueue`, timer, `isWaitingSIFS`, `isTransmissionStarted`, `numOfRetransmissions`, `txOPTime` | `StartBuffering`, `FillBuffer`, `SendCompounds`, `ImmAck`, `onTimeout`, `StopBuffering` | DRPScheduler, Queues |
| `helper/Queues` | a FIFO per receiver, `nextPCAReceiver` | `put`, `putFront`, `getHeadOfLinePDU`, `changePCAreceiver` | TempSendBuffer, DRPScheduler |
| `arq/ARQ` | scheduled acknowledgments | `doOnData`, `CreateACK`, `TransmitAck` | Manager (current partner, acknowledgment), DRPScheduler |
| `lowerMAC/Manager` | MAC address, BP start time, MAS clock | hub of calls, `getMASNumber`, `sendBuffer` | all of the MAC |
| `convergence/ChannelState` | indicators of a busy channel (own transmission, own reception, carrier sense, NAV timer), `latestNAV`, `waitForReply`, `lastCS` | `onTxStart/End`, `onRxStart/End/Error`, `processIncoming/Outgoing`, `onTimeout`, `onRSSChange` | PhyUser and FrameSynchronization (observer), Backoff (notifies) |
| `convergence/FrameSynchronization` | Idle, Synchronized, waitForFinalDelivery, Garbled | `processPreamble`, `processPSDU`, `onTimeout`, `doSendData` | Backoff and ChannelState (notifies), PhyUser |
| `convergence/PhyUser` | receiving / transmitting / turnaround | `doSendData`, `onTxStart/End`, `onData` | ChannelState, channel |
| `convergence/PreambleGenerator` | pending preamble and PSDU, type of the last preamble | `processOutgoing`, `processIncoming` | PhyUser (wakes it up) |
| `management/BeaconBuilder`, `BeaconEvaluator`, `drp/DRPManager`, `drp/DRPmap` | maps of own, peer, pending and neighbour reservations; negotiation status | build and examine beacons, create/evaluate DRP IEs, once per superframe | each other, DRPPatternCreator, DRPScheduler |
| `drp/DRPPatternCreator` | the pattern under construction | choice of slots | DRPManager |
| `upperMAC/TrafficEstimation_mean` | per address: measured superframes, last estimate | `doSendData`, `periodically` | DRPManager |
| `management/PERInformationBase` | success and failure windows per receiver | `onSuccessfullTransmission`, `onFailedTransmission`, `getPER` | DRPScheduler |
| `frame/BeaconCollector`, `DataCollector` | one frame, `gotWakeup` | `finishCollection`, timer | Manager |

What makes the parts correct:

* **Backoff**: no transmission before the interframe space and all drawn slots
  have passed on a free channel; one transmission per countdown; no countdown
  lost over any sequence of freezes and reservations; waiting requests served.
* **transmit path** (DRPScheduler ... Queues): the two kinds of access never
  overlap; no frame exchange runs into a reservation; a compound is in one place
  and leaves it only acknowledged or dropped; flags and delayed calls of an access
  do not survive it; every access ends; receivers take turns; nothing stalls.
* **convergence layer**: a reception that was begun is ended, as correct or as an
  error, also when frames overlap; the receiver waits for the frame it took up;
  the indicated channel state is current and covers own frames and every NAV.
* **frame exchange** (ARQ, buffers and channel states of several stations): an
  acknowledgment is taken for the frame it is for although neither is numbered;
  a transmission that is due finds the station silent; announced exchanges are
  kept free; no station stays deaf to its partner.
* **negotiation**: owners use only what their targets have accepted; no slot is
  given twice or left open to contention; every connection gets its slots, also
  after conflicts and lost beacons.
* **reservation of one connection** (estimation, pattern creation, error rate):
  the estimate follows the traffic; chosen slots are free and as many as usable;
  a bad superframe lowers the PHY mode once; what is announced is provided.

The hazards are listed, each with its line, in PROJECT.json.

## 2. Modules

| module | models |
|---|---|
| `Backoff`; `BackoffProofs`, `MCBackoff` | `Backoff.cpp`, with the call back of the DCF; its theorems, its instance for TLC |
| `Queues` | operators on the queues (`Queues.cpp`) |
| `DRPScheduler`; `DRPSchedulerProofs`, `MCDRPScheduler` | `DRPScheduler.cpp`, `TempSendBuffer.cpp`, `TXOP.cpp`, `DCF.cpp` of one station |
| `FrameSynchronization`; `FrameSynchronizationProofs`, `MCFrameSynchronization` | `FrameSynchronization.cpp`, among overlapping frames |
| `ChannelState` | operators on the state of the unit (`ChannelState.cpp`) |
| `Convergence`; `ConvergenceProofs`, `MCConvergence` | `PhyUser.cpp`, `PreambleGenerator.cpp` and `ChannelState` around an instance of `FrameSynchronization` |
| `FrameExchange`; `FrameExchangeProofs`, `MCFrameExchange` | several stations: `ARQ.cpp`, the buffer of an access, `ChannelState`, a medium not all of them share |
| `DRPmap`, `DRPManager` | operators on the state of the units (`DRPmap.cpp`, `DRPManager.cpp`) |
| `Negotiation`; `NegotiationProofs`, `MCNegotiation` | `BeaconBuilder.cpp`, `BeaconEvaluator.cpp`, the beacon slots of `BeaconCollector.cpp`, several stations |
| `DRPPatternCreator` | operators that choose the slots (`DRPPatternCreator.cpp`) |
| `Reservation`; `ReservationProofs`, `MCReservation` | `TrafficEstimation_mean.cpp`, `PERInformationBase.cpp`, the steps of `PhyModeProvider.cpp`, around `DRPPatternCreator` and `DRPManager`, one connection |
| `Induction` | no code: induction and recursion over the natural numbers, for the proofs |

Compositions: `DRPScheduler` sees of `Backoff` when it grants; `Convergence`
contains `FrameSynchronization`; `FrameExchange` puts several stations on one
medium, each with the access that `DRPScheduler` and `Backoff` give it, in the
form those modules establish; `Reservation` is one connection of `Negotiation`
with the choice of slots in full.

### Backoff

One variable per member of the class, one action per handler.  `timeout` is the
time left of the `CanTimeout` timer (-1: none), `aifsStart` the time since the
stored instant, `pendingBusyDelay` the number of scheduled calls of
`channelBusyDelay`.  `Tick` lets time pass when nothing is due; what is due at one
tick happens in any order.  The environment is the carrier sense (`mediumBusy`),
which alternates (`IndicationCurrent` of `Convergence` is why it may be taken for
the channel itself), receive errors, which come at any instant, also on an idle
channel (a preamble without payload can signal one), and the reservations, which also alternate because adjacent
slots are merged before they are scheduled.  `quiet`, `errored`, `owed`,
`granted`, `spent` and `startedOnBusy` (the assertion of l.123 has just failed) are
history: no action reads them.  `Capped` keeps
`aifsStart` and `quiet` at EIFS; both are only compared with values up to that.

`aifsStart` is read by `onRxError` before it was ever assigned; it starts with
either of the two values that the comparison tells apart.

In `CallBack` the DCF's reaction (`DCF::backoffExpired`, and from there
`startPCAtransmission`) may put a new request, within the same call.

### DRPScheduler

The units of the transmit path call each other in nested calls within one event:
a timer of the buffer leads to `failedAck`, `stopPCAtransmission`,
`StopBuffering`, `putFront`, `waitingTransmissions` and `transmissionRequest`
before it returns and goes on.  So the state of the station is one record `st`,
each function of the code is an operator from state to state, written in the
order of the calls, and each scheduled call is an action.

| field of `st` | member |
|---|---|
| `queues`, `nextPCAReceiver` | Queues |
| `buf[<<"DRP", r>>]`, `buf[<<"PCA", r>>]` | `SendBuffer[r]`, `PCABuffer[r]`: compounds, timer, flags |
| `txOPLeft`, `timeleft` | `txOPStartTime + txOPTime - now`, `tempBuffer.timeleft` of the active buffer |
| `AccessPermission`, `AccessRx`, `isPCAtransmissionActive`, `ActivePCArx`, `PCAcompoundsWereSent`, `timer` | DRPScheduler |
| `closes` | scheduled calls of `stopPCAtransmission` (txOPCloseIn) |
| `remainingTXOPDuration` | TXOP |
| `sendNow` | DCF |
| `backoffFinished`, `transmissionWaiting` | Backoff, as far as the DCF sees it |
| `onAir` | the frame exchange under way, until its ImmAck is due |
| `buf[b].unanswered` | history: frames the buffer has sent in a row without an answer |
| `counting` | the backoff counts: no reservation, or the nanosecond before it is frozen for one |
| `startedInDRP` | history: `startPCAtransmission` was entered with a reserved access on (the assertion of l.428 has just failed) |
| `undefined` | an assertion has failed or an empty deque was read |

`config`, rigid, is one of `Configs`: whether contention access is used and how
often a frame may be sent again (`isDroppingAfterRetr`; -1: no limit).

`reserved` and `nextChange` are the reservations of the superframe and the beacon
period as the scheduler registers them; `accepted` is the history of the compounds
the station still answers for, in order of acceptance.

Abstractions: a compound is a model value with a receiver and the duration of its
frame exchange (the PHY mode is constant); each counts for one in its queue;
`deleteQueues`, `singleReceiver` and `maxOutTXOP` have their default (off); own
reservations are among those of `currentDRPMap`; `onDRPStart` and
`TimeToTransmit` at the same instant are one action; the backoff expires, and a
post-backoff ends or begins anew, at any time it counts: outside of reservations and at
the very instant one starts, also after `onDRPStart`, since it is frozen a nanosecond
later (see section 3).  The order
of the small time constants (1 ns < 1 us < SIFS < guard time < 30 us) is an
assumption of the module, `TimingAssumption`; a reservation's own timer is 1 ps
shorter than the reservation and always fires before the next event.

### FrameSynchronization

The receiver's state machine.  Instants are kept as the time left until them:
`lastFrameEnd` counts down through 0 to `LongAgo`, below which nothing is told
apart; `timeout` is the timer.  `air` holds the end of each station's PSDU; a
preamble arrives when its PSDU begins, with a signal to interference ratio and a
CRC result chosen freely.  The receiver's timer and the PSDU it belongs to are due
at one tick, in either order, as in the code.  `signals` and `passedUp` are what
the last call did to observers and to the unit above.  `owed` and `heard` are
history.  The wait for the final delivery (10 ns) is the constant `FinalDelivery`;
the value 1 says that nothing else happens within it, which the assertions of the
code take for granted.

### Convergence

One action per scheduled call or arrival, each through all units, in the order of
the calls.  `FrameSynchronization` is an instance (`FS`) whose `receiverOff` is
"PhyUser is not receiving"; `ChannelState` is a record `cs` and its calls are
operators.

| variable | member |
|---|---|
| `phyUserStatus`, `phyTimer`, `currentTxCompound` | PhyUser |
| `pendingPSDU`, `lastReceived` | PreambleGenerator: `pendingCompound`; the transmitter that stands for `lastReceivedCompoundType` |
| `txEndIn` | the call of `onTxEnd` that `processOutgoing` schedules |
| `cs` | ChannelState (`nav`: its timer, `latestNAV`: time left) |
| `rest` | what each PSDU on the air leaves of its frame exchange |
| `navHeard`, `navAborted` | history: the longest NAV passed up, and whether an awaited acknowledgment came since |

The frame's contents are reduced to what is read: type, addressed to this station
or not, duration of the PSDU and of the rest of the exchange.  ChannelState's call
for the end of a frame without payload and PhyUser's timer are due at the same
instant and were scheduled in this order (`TxTimerDue`).  The PSDU is sent from
within PhyUser's timer (`wakeup`), so that `PSDUFollows` is one step.

### FrameExchange

One set of variables for all stations, one action per scheduled call or end of a
frame.  A station's access is reduced to what the others can notice of it.

| variable | member |
|---|---|
| `partner` | the result of `getCurrentTransmissionTarget`: `AccessRx` or `ActivePCArx` |
| `timer`, `isWaitingSIFS`, `acked` | TempSendBuffer of that access: its timer, and how far its compounds are |
| `txop` | TXOP: another frame follows |
| `acks` | ARQ: the scheduled calls of `TransmitAck` |
| `cs` | ChannelState of the station |
| `locked` | FrameSynchronization: whose payload is being received |
| `air` | PhyUser: what the station transmits |
| `quiet` | Backoff: for how long the channel state has been idle |
| `reservation`, `near` | the DRP reservation that is on, and `getTimeUntilNextDRPReservation` |

`Neighbours` says who hears whom; carrier sense, preambles and payloads reach
neighbours only.  Every reception may fail, so that collisions need no
definition of their own: whoever hears two frames may receive either or neither.
A contention access begins when the station's own channel state has been idle
for AIFS; several may begin at one instant.  A reservation begins when the
accesses before it are over (`OneAccess` and `FrameFits` of `DRPScheduler`).  The
acknowledgment of a frame costs its sender a preamble; the longer wait after an
erroneous frame (EIFS) and the turnaround are left out: both only add time
between exchanges.  All data frames have one length.  The code counts a fixed
13.125 us for the preamble of an acknowledgment, which may be 9.375 us long at the
high rates (`Duration.cpp:53-70`); the model takes the counted time.

`delivered` and `announced` are history: what was passed up, and who was told by
a preamble that exchanges of a station are still to come.

### Negotiation

One action per wake-up of a beacon slot: the station evaluates what it was asked
(`EvaluateIncoming`), creates what it misses (`CreateDRPMaps`), sends one beacon
(`CreateBeacon`) and every other station receives or loses it, whole
(`BeaconExamination`).  After the last slot the owners register their slots
(`CollectDRPmaps`) and each station hands its map to its scheduler
(`currentDRPMap`).

`outgoing[l]` and `incoming[l]` are the DRPManagers of link `l` at its owner and its target,
records of their members (`DRPManager`); `map[s]` is the DRPmap of a
station.  The code keeps a deque of the maps of the last superframes and their
union; the model keeps for each entry how many beacon periods it is still seen
for, which is the same and far smaller.  A pattern is a set of slots, any set of
the size asked for: which one is chosen is the matter of `DRPPatternCreator`.
Where an assertion of the code fails the model goes on as a build without
assertions does; `failed` holds what failed in the last step.  Every station has
begun one beacon period (`DRPmap.cpp:85` reads `back()` of an empty deque
otherwise).  A target that finds a
conflict attaches its availability element to the next beacons (`availability`
counts them), and an owner that heard it keeps clear of the slots it marks; only
the probes that could ask for the element are left out: `RequestIE` has no caller.

### Reservation

The steps of a superframe follow each other (`phase`): the estimator's period,
the owner's wake-up, the target's answer or its loss.  `window`,
`needsNewEstimate` and `lastSet` are the estimator's members for the address;
`manager` and `traffic` are the DRPManager with its DRPPatternCreator; `samples` is
the sliding window of the error rate, by superframes; `occupied` are the slots that
others hold.  The choice of slots is translated in full and in integers: areas,
the rotation with the fewest conflicts, the extension of blocks, the filling of
gaps, and the drawn pairs.  The target decides the reservation and the slots to be merged
into it apart: `Answer` takes the two verdicts separately, and the second may be missing,
because the target lost the owner's beacon.  So a reservation may be refused while slots
to be merged are unanswered, and the next pattern may meet them.  Times are in ticks, the duration of a frame depends on
the PHY mode.  In each superframe a connection has at most one sample of each kind.

## 3. Runs

| run | question | result |
|---|---|---|
| `MCBackoff` | can a transmission be granted too early, twice, or a countdown be lost; is every waiting request served? | no; yes, if slots keep elapsing |
| `MCDRPScheduler` | do accesses overlap or overrun, does a flag or delayed call outlive an access, is a compound lost, doubled, or given up before its buffer has used up its retransmissions; does every access end? With contention and unlimited retransmissions, and with reserved access and one | no; yes (that a buffer's retransmissions may have been another compound's: below) |
| `MCDRPSchedulerOnTop` | "drop compound from head of queue" | violated: the nested stop has emptied it |
| `MCFrameSynchronization` | do overlapping, capturing and given-up frames ever trip an assertion or lose a frame taken up; does the receiver return to idle? | no; yes |
| `MCConvergence` | is the indicated channel state current, does it cover own frames and NAVs, does the receiver keep its specification, does the channel become idle when all is quiet? | yes |
| `MCConvergenceForeignNAV` | "abort own NAV" | violated: aborts a foreign one too |
| `MCFrameExchange` | can an acknowledgment be taken for another frame, a transmission be due during another, an announced exchange be disturbed; is everything acknowledged at last? | no; yes |
| `MCNegotiation` | do owners use slots that their target has not accepted, or two stations the same, or contention a reserved one; does every connection get its slots? | no; yes |
| `MCNegotiationPending` | "previously in this SF received pending DRP map differs" | violated by base and extension in one beacon |
| `MCNegotiationUnknown` | "DRP merge is unknown" | violated after a lost acceptance |
| `MCReservation` | are chosen slots free and as many as usable, is the traffic followed and provided for, does one bad superframe lower the mode once? | yes |
| `MCReservationBeaconPeriod` | "Block the BP slots in the global drp map" | violated for durations that truncate |

Other places where code and comments differ, found while modelling and without a
run of their own:

* Backoff.cpp:263 against :276 ("A DRP Reservation begins -> stop backoff"): within
  the nanosecond of `channelBusyDelay` the call back can come inside the reservation.
  In an own one the assertion of DRPScheduler.cpp:428 (`AccessPermission == false`)
  then fails, and only then (`OneAccess`); without assertions nothing else happens,
  because the running reservation lets `startPCAtransmission` begin nothing.
  `onRxError` restarts the countdown also if the channel that fell idle at the same
  instant is busy or reserved again: "channel must be idle to start Backoff" (l.123)
  fails, here only; without assertions the countdown is frozen within the nanosecond
  (`TimerMatchesFlags`).  In the order idle, then error (l.320) `rxError` survives the restart and the next
  correct frame is followed by EIFS as well.  `finishedAt`, which has no caller,
  ignores a frozen counter above `cw` (l.97 against Backoff.hpp:101).
* Queues.cpp:108 against :106 ("re-inserted to the front"): `putFront` appends; it
  does not test `maxSize` either.
* TempSendBuffer.cpp:356 against :359 ("maximum number of retransmissions ... are
  used"): the retransmission counter belongs to the
  buffer and is kept when its compound returns to the queue, so that the next one is
  dropped earlier; `LeavesOnlyWhenDone` therefore counts by buffers.
* DCF.cpp:136 against DRPScheduler.cpp:465 ("Inform DCF about waiting
  transmissions"): a direct go of the backoff is discarded.
* FrameSynchronization.cpp:196 against ChannelState.hpp:77: a capturing preamble
  without payload ends "busy for the length of the frame" early.  A garbled receiver
  is captured above `idleCapture` if the CRC is correct (l.177 against
  FrameSynchronization.hpp:79).  If a frame ends and a preamble arrives within the
  10 ns of the final delivery, the receiver stays garbled past `lastFrameEnd` (the
  assertion of l.172; `FinalDelivery = 2` in `MCFrameSynchronization` shows it).
* ChannelState.cpp:245 says the NAV is only set for frames not for the station;
  data frames for it set one too, which covers its own acknowledgment.
* PreambleGenerator.cpp:101 compares where it was meant to reset.
* BeaconCollector.cpp:112 asserts `gotWakeup`, which nothing sets;
  `BeaconBuilder::doIsAccepting` (l.97) returns no value.
* DRPmap.cpp:238: slots of an own proposal are put into the map once and expire
  after `mMaxLostBeacons` superframes, although the proposal goes on; with three
  lost beacons in a row `NoSlotTwice` fails for links that share a station.
* DRPPatternCreator.cpp:360/391 speaks of `mAdjSlots`, the pairs are of two slots
  always; `GapFilling` undercounts a gap that reaches the superframe's end
  (l.441-444); `CreateRandomPattern` reads `GlobalDRPMap[i]` before it tests `i`
  (l.365/368); l.914 would read before the vector unless the beacon period is as
  long as a frame, which `NoSlotBeforeTheFirst` assumes.
* TrafficEstimation_mean.cpp:251 fails for traffic that pauses while it is measured
  (the model goes on as a build without assertions); l.255 says the window keeps its
  size, but it grows after the estimate.
* PhyModeProvider: `mcsUp` has no caller: a mode, once lowered, stays so.

**Bounds.**  Backoff: a slot of two ticks (so that a countdown can be frozen in
mid-slot), AIFS 2 and EIFS 3 (so that the two differ), windows of 1 and 3 slots
and requests for up to the third transmission (so that the doubling reaches and
is cut by `cwMax`).  Nothing else is bounded: the state space is finite.

DRPScheduler: two receivers, three compounds (two for one receiver, of different
length), queues of two.  A gap of 45 holds a TXOP of two frames, a gap of 20 one
frame, and a reservation of 20 one frame and not its retransmission, so that
`SendCompounds` must refuse.  `MaxRetransmissions` and `MaxFailures` cut the two
counters where nothing distinguishes larger values.  A compound may be accepted
again after it has left, so that behaviours are unbounded.  Requests may come at
every event and, while nothing is on the air, at intervals of `Steps`.

FrameSynchronization: three stations, so that a third frame arrives while one is
decoded and another one garbles it; frames of 0, 1 and 3 ticks, so that later
frames end before and after earlier ones; ratios in all five intervals between
the thresholds, for an idle, a synchronized and a garbled receiver.  Convergence:
two other stations, frames of two ticks, rests of an exchange
below and above SIFS.  SLC and SLG thresholds coincide there because the wider
choice is covered by the smaller module.  No counter is cut.

FrameExchange: three stations in a row, so that the ends are hidden from each
other and the middle one is both sender and receiver; four compounds on three links, two of
them on one link, so that a TXOP goes on.  SIFS is one tick,
AIFS two, a payload two: longer than SIFS, because otherwise two hidden stations'
frames can end within SIFS, and the second acknowledgment finds the
receiver still transmitting the first ("can't send ACK"); the sender then repeats
the frame.  Nothing but the traffic is bounded: frames get lost any number of times.

Negotiation: four stations and three links, of which two share the target and one
owner is a target as well; two links without a common station; four slots for at
most three asked for, at most two by one link; one lost reception, with
`mMaxLostBeacons` 1 (the code has 3): as many as the maps tolerate.

Reservation: a superframe of six slots, two of them the beacon period, in two
areas; three PHY modes, whose frames fit in one slot or two; up to three compounds
per superframe, means of two superframes, error windows of two.  At most four
changes of the surroundings: traffic, occupation, refusals, lost beacons and failed
frames.  With fewer than four a new pattern never meets slots that are still to be
merged (traffic appears, the answer to a pattern that falls short is lost, slots become free
and some are to be added, and the reservation is refused by a target that does not know them).
A superframe of seven slots with as many changes was tried as well, 854,678 states
against 251,687, with the same results.

**Fairness.**  The simulator makes every call that was scheduled and its clock
goes on: weak fairness of the timers and of `Tick` (Backoff), of the union of all
scheduled events (DRPScheduler, written as `[]<><<Event>>_vars`, because some
event is always ahead).  In FrameSynchronization the timer, the end
of each frame and the clock; in Convergence also every scheduled call, and strong
fairness of `Tick`, which arrivals at one instant disable again and again: since
every frame takes time and stations are finite in number, they cannot do so for
ever.  In Negotiation and Reservation the turn of the beacon slots and the phases of the
superframe pass on: both are timers that never wait.  In FrameExchange each link with traffic
gets reservations again and again (`Provided` of `Reservation`), and from some time
on the channel no longer loses frames of reservations; without either no number of
retransmissions needs to succeed, and contention is promised nothing.
Requests, losses, carrier sense, preambles and the arrival of
compounds are under no fairness.  That slots keep elapsing is a premise of
`WaitingIsServed`, not an assumption: on a saturated channel requests do starve.

Every property is exercised by a mutant: an operator `Faulty...` that differs from
its namesake by one plausible slip, and which the property tells apart.

## 4. Proofs

`BackoffProofs` proves, for all durations and windows that satisfy the two
assumptions of `Backoff`, that its invariants (those of `MCBackoff`, and
`TypeOK`, `ViewMatchesMedium` and `TimerMatchesFlags`) and the action
property `OneGrantPerCountdown` follow from `Spec`.  None of the invariants is
inductive alone.  `IInv` conjoins them with what they need of each other: how much
of the interframe space has passed is the difference of `timeout` and the space
required (so `quiet` bounds what the timer may be), the slots still owed are
`counter` slots minus the part of the present one, and a permission held in
`backoffFinished` carries the same promises as one given.  The proof has one step
per action of `Next`; arithmetic on timers is in lemmas.

`FrameSynchronizationProofs` proves the invariants of its module for every set of
stations, of durations and thresholds.  `IInv` adds that timer, last frame end and
frames on the air are related (`TimerInv`, `OwedInv`, `HeardInv`): the PSDU of the
frame taken up ends when the timer does, every frame heard ends no later than
`lastFrameEnd`, and the timer does not outlast it, in the state Garbled only
because of `FinalDelivery = 1`, the premise of `AssertionsKept`.

`ConvergenceProofs` first shows that each step of `Convergence` is a step of
`FrameSynchronization` or a stutter (`ReceiverImplements`), so that the receiver in
the station is the one that was verified alone.  Its own `IInv` has four parts:
the timer and status of PhyUser and the pending PSDU agree, and a scheduled end is due
with that timer (`PhyInv`); the channel is busy during an own frame and its end
is still to be signalled by exactly one of PhyUser and ChannelState (`OwnTxInv`);
the longest NAV
heard is covered by `latestNAV` unless aborted; and `cs` is `Sound`: typed, its
indication current and its timer exact.  That each call keeps `Sound` is a lemma
about that operator; the steps only put them together.

`FrameExchangeProofs` proves for every number of stations, every topology, traffic and
set of durations (SIFS shorter than AIFS, both ends of a link hear each other), in contention and in reservations,
and whatever is lost, that an acknowledgment is for the frame its sender waits for
(`AcksFindTheirFrames`) and that a compound that has left the buffer was passed up
(`AckedWereDelivered`).  Nothing in a frame says so; time does.  `IInv` states how much
of the sender's timer is left in each phase: during a frame, what is left of the
frame and the rest of the exchange (`SendingAwaits`); while an acknowledgment waits
or is under way, the time to its arrival and one SIFS (`AckAwaited`).  A second
acknowledgment to the same sender would need its timer to have another value or its
access another partner, and a station whose timer is off or due has nothing under
way (`NothingUnderWay`), so that it may begin anew.  There is one lemma per phase and
one for each way an access begins, goes on and ends.

Two more invariants rest on that one.  `MediumInv` is about what a station has heard
before it transmits without listening.  A reception goes on only while the station is
silent, and no acknowledgment of its own falls due before it ends; while an
acknowledgment waits, both its ends are silent, have no other one and are in no other
access, and have been idle for less than SIFS; a buffer that waits to go on has a
partner whose frame, if any, ends later; in a reservation only its owner has an
access.  `OneTransmissionHolds` follows, on the hypothesis that a payload is longer than
SIFS, which the code's frames satisfy by far and which is needed: see the bounds.
`NAVInv` is about what a preamble has announced, to each station that took it up: its
NAV lasts until the last acknowledgment announced, or what is left of the exchange is
no more than the SIFS after it, less the silence since.  Since the shortest wait of the
backoff is longer than SIFS, no contention access begins in an announced exchange
(`ExchangeUndisturbedHolds`), for every set of durations.  Both need that the
indication of the channel is current and the NAV's timer exact (`CarrierSensed`).  The
operators of `ChannelState` keep this each by a lemma, and there is one lemma per end
of a frame for what all stations' indications and NAVs do.

`DRPSchedulerProofs` proves every safety property of `MCDRPScheduler` for any
receivers, compounds, durations and configurations that satisfy `TimingAssumption` and
`ConfigAssumption`.  The state of the station is passed through nested calls, so that
the operators are proved one by one, bottom up: which compounds a call moves where, what
it leaves of buffers, times and accesses.  `IInv` says that the station is idle, in a
reserved or in a contention access (`Access`), never in two.  In each, the buffers of
the other kind are empty and without a timer; the timer of the access ends before the
next change of the reservations; a frame on the air is the first of its buffer and its
timer is due SIFS after the acknowledgment; a buffer that may give up its first compound
has used up its retransmissions (`Counted`), and `startPCAtransmission` has met a reserved
access only in the instant the reservation starts (`Started`); in a contention access the frames that are
left fit into the time left of it, and a TXOP that is over has its close on the way.
Beside it, `Once` and `Accepts`: each compound is in one queue or buffer, once, and they
hold exactly what was accepted.  The action properties (`LeavesOnlyWhenDone`,
`TakeTurns`) are facts about one step from a state of `IInv` (`StepOK`).
`NothingUndefinedHolds` has the hypothesis that compounds are not dropped in contention
access (`NoDropsInPCA`): with a limit of retransmissions and contention access the code does
read an empty buffer, which is the violation `MCDRPSchedulerOnTop` shows.

`NegotiationProofs` proves, for any number of stations, links, slots and lost beacons,
that what an owner takes for reserved its target has accepted, that a target's
reservations exclude each other, that the slots to be merged are agreed upon, that
registered slots are kept free of contention access, and that no slot is registered
twice as long as every beacon is received.  `IInv` says what the two ends of a
link have in common whatever was lost (`Agree`: an owner that believes in a reservation
has the status, and no slots besides those, that its target once sent; what it means to merge is
what the target knows of, or newer); that slots reserved at an end are in that station's
map, received in this superframe (`OwnKept`); and that, while no beacon was lost, they
are in every map, at most one superframe old (`OthersKeep`; `Woken` says who has begun a
superframe since the target's last beacon).  `NoSlotTwiceWithoutLosses` rests on the
last: whatever a target newly accepts its map does not have (`ReservedFree`), and what
any other target has accepted its map has, at an age that outlives the wake-up; so no
two targets accept the same slot (`AcceptedOnce`), and owners register what their
targets accepted.  The stages of a wake-up are lemmas that say
what each does to a manager, member by member; its loops over links are
handled by induction; a beacon changes only the links of its sender.

`ReservationProofs` proves, for any superframe, PHY modes, estimator windows and traffic, that
whatever the pattern creator adds is free and after the beacon period, that slots to be
merged lie beside the reservation and take no others' place (`NewSlotsAreFree`), that a proposal falls short of the traffic only if no gap is left that
could take a packet (`NothingUsableLeft`), and that the mode is lowered no more often than
superframes had failures.
Each of the creator's loops keeps the pattern within its own slots and the free ones
(`Allowed`), round by round.  `MergeIsPending` says that slots to be merged are flagged as
pending for as long as there are any; without it the owner could choose others while the
answer is under way.  They need not be disjoint from the reservation: a new pattern may
meet them, and is planned without them (`Planned`).
`FailuresCounted`: the failures still in the window, each of which may lower the mode
again, and the times it was lowered together do not exceed those that happened.
`NothingUsableLeft` rests on how packets are counted.  The capacity of a pattern is a sum
over its blocks in an order that is not known (`TotalFacts`); a gap that is filled changes
two blocks at most, and adds its own packets at least, since one guard time
serves what was joined (`JoinedBlocks`, `PacketsJoin`, `CapacityGrows`).  Hence what
`GapFilling` counts as missing, although it leaves out the last slot of the superframe, is
never less than what the pattern lacks, and as long as it counts some, each gap
behind it that could take a packet is full (`GapsTaken`).  What extension does before that
(`BestEfficency`) need only keep the pattern, whatever it counts (`Grown`); in a random pattern each pair drawn is a
gap filled, and without enough pairs none is left (`PairsHavePackets`, `AllPairsDrawn`).

`Induction` has what these proofs need instead of the library's induction theorems,
which take operators the provers cannot instantiate: induction as a statement about
sets of numbers, and the existence of a function given by its first value and its steps.

What is only model-checked: liveness (`WaitingIsServed`, `AccessEnds`, `FallsIdle`,
`BecomesIdle`, `AllAcknowledged`, `Established`, `Satisfied`, `Followed`, `Provided`), since
fairness is beyond the prover; and `NoSlotTwice` when beacons are lost, where a
station may know of a reservation by the pending map or by its owner's beacon only.

## 5. Plan

Done: all modules of section 2, and the proofs of their safety properties, one of
them without losses only.  What would come next:

1. `NoSlotTwice` for one lost beacon: each reservation in the reserved or the pending
   slots of every station.
2. Composition of `Backoff` with the indications of `Convergence`, so that the
   present environment of `Backoff` becomes an abstract specification that the
   convergence layer implements; the invariants of `FrameSynchronizationProofs`
   carried over to `Convergence` along `ReceiverImplements`.


## 6. Not modelled

Error tables and probabilities (`ErrorModelling`, `ErrorProbability`), frame
lengths and durations (`ProtocolCalculator`), the channel access functions of the
simulator's PHY, probes, context providers, configuration (`PyConfig`) and
start-up: they compute numbers or wire units together and keep no state that the
protocol depends on.  Of modelled units: operations without a caller
(`finishedAt`, `resetQueue`, `SetReservationGap`, `RequestIE`, `mcsUp`), options that
are off by default (`deleteQueues`, `singleReceiver`, `maxOutTXOP`,
`overWriteEstimation`, raw energy detection, lifetimes of compounds), soft and private
reservations (all are created hard), the occupancy element of the beacon period, which is
recorded and not read (its slot is a floating-point quotient by the literal 85E-6).
A frame whose acknowledgment was lost is passed up twice: the code promises
nothing else, and no property asks for it.
