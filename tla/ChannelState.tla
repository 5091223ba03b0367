----------------------------- MODULE ChannelState -----------------------------
(***************************************************************************)
(* The indicators of a station's channel state (convergence/ChannelState)  *)
(* and the calls that change them, as operators from one state c of the    *)
(* unit to the next:                                                       *)
(*   ownTx, ownRx      own transmission, own reception                     *)
(*   phyCarrierSense   the last signal strength was above the threshold    *)
(*   nav               ticks until onTimeout, or NoTimeout                 *)
(*   latestNAV         ticks until the end of the latest NAV; 0: over      *)
(*   waitForReply      the NAV was set for the reply to an own frame       *)
(*   lastCS            what the observers were told last                   *)
(* Raw energy detection is off (its default); probes are left out.         *)
(***************************************************************************)
EXTENDS Integers

CONSTANT SifsDuration

ASSUME SifsAssumption == SifsDuration \in Nat \ {0}

NavNotSet == -1     \* CanTimeout: no timer is set

InitialState ==
    [ownTx |-> FALSE, ownRx |-> FALSE, phyCarrierSense |-> FALSE,
     nav |-> NavNotSet, latestNAV |-> 0, waitForReply |-> FALSE,
     lastCS |-> "idle"]

FaultyCurrentState(c) ==        \* the network allocation vector is ignored
    IF c.ownTx \/ c.ownRx \/ c.phyCarrierSense THEN "busy" ELSE "idle"

getCurrentChannelState(c) ==
    IF c.ownTx \/ c.ownRx \/ c.phyCarrierSense \/ c.nav # NavNotSet
    THEN "busy" ELSE "idle"

\* The observers are told if the state has changed.
checkNewCS(c) ==
    [c EXCEPT !.lastCS = getCurrentChannelState(c)]

SetNAV(c, duration) == [c EXCEPT !.latestNAV = duration, !.nav = duration]

onTxStart(c) == checkNewCS([c EXCEPT !.ownTx = TRUE])

FaultyTxEnd(c, frame) ==        \* the state is checked only if no NAV is set
    IF frame.exchange > SifsDuration /\ frame.hasPayload /\ frame.exchange > c.latestNAV
    THEN [SetNAV([c EXCEPT !.ownTx = FALSE], frame.exchange) EXCEPT !.waitForReply = TRUE]
    ELSE [c EXCEPT !.ownTx = FALSE]

\* After a frame of an exchange, the NAV covers its rest, the reply above all.
onTxEnd(c, frame) ==
    LET over == [c EXCEPT !.ownTx = FALSE] IN
    checkNewCS(
        IF /\ frame.exchange > SifsDuration
           /\ frame.hasPayload
           /\ frame.exchange > c.latestNAV
        THEN [SetNAV(over, frame.exchange) EXCEPT !.waitForReply = TRUE]
        ELSE over)

\* onRxStart, onRxEnd and onRxError, for each notification of the receiver.
onRx(c, signal) == checkNewCS([c EXCEPT !.ownRx = (signal = "rxStart")])

AwaitedAck(c, frame) ==
    frame.type = "ACK_PREAMBLE" /\ frame.forMe /\ c.waitForReply

FaultyIncoming(c, frame) ==     \* a shorter NAV replaces a longer one
    IF frame.type = "ACK_PREAMBLE" /\ frame.forMe
    THEN IF AwaitedAck(c, frame)
         THEN checkNewCS([c EXCEPT !.latestNAV = 0, !.nav = NavNotSet,
                                   !.waitForReply = FALSE])
         ELSE c
    ELSE IF frame.exchange < SifsDuration THEN c
    ELSE checkNewCS(SetNAV(c, frame.exchange))

processIncoming(c, frame) ==
    IF frame.type = "ACK_PREAMBLE" /\ frame.forMe
    THEN IF AwaitedAck(c, frame)
         THEN checkNewCS([c EXCEPT !.latestNAV = 0, !.nav = NavNotSet,
                                   !.waitForReply = FALSE])
         ELSE c
    ELSE IF frame.exchange < SifsDuration \/ frame.exchange <= c.latestNAV
    THEN c
    ELSE checkNewCS(SetNAV(c, frame.exchange))

\* The NAV ends by its own timer.
NAVOver(c) == checkNewCS([c EXCEPT !.waitForReply = FALSE, !.nav = NavNotSet])

onRSSChange(c, above) == checkNewCS([c EXCEPT !.phyCarrierSense = above])

\* One tick later.
Aged(c) == [c EXCEPT !.nav = IF @ > 0 THEN @ - 1 ELSE @,
                     !.latestNAV = IF @ > 0 THEN @ - 1 ELSE @]
=============================================================================
