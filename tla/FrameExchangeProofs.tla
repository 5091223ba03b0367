-------------------------- MODULE FrameExchangeProofs --------------------------
(***************************************************************************)
(* Proofs about module FrameExchange.  Frames and acknowledgments are not  *)
(* numbered: that they belong together follows from time alone.  The       *)
(* inductive invariant says how much of the sender's timer is left in each *)
(* phase of an exchange; two acknowledgments under way to one sender, or   *)
(* one whose sender has gone on, would need its timer to have two values.  *)
(*                                                                         *)
(* Two more invariants rest on it.  MediumInv says what a station has      *)
(* heard, and so cannot have sent, while an acknowledgment of its own or   *)
(* its next frame is due; NAVInv says that the NAV covers an announced     *)
(* exchange up to its last acknowledgment.                                 *)
(***************************************************************************)
EXTENDS FrameExchange, TLAPS

Frames == [type : {"NONE", "DATA_PREAMBLE", "PAYLOAD", "ACK_PREAMBLE"},
           to : Stations \cup {NoStation}, number : Nat, exchange : Int, left : Nat]
Acks == [to : Stations, in : Nat, exchange : Int]

TypeOK ==
    /\ acked \in [Links -> Nat]
    /\ delivered \in [Links -> Nat]
    /\ partner \in [Stations -> Stations \cup {NoStation}]
    /\ timer \in [Stations -> Nat \cup {Off}]
    /\ isWaitingSIFS \in [Stations -> BOOLEAN]
    /\ acks \in [Stations -> SUBSET Acks]
    /\ air \in [Stations -> Frames]

\* A buffer's timer runs only in an access.
TimerInAccess == \A s \in Stations : timer[s] # Off => partner[s] # NoStation

\* From the end of a data frame or its preamble to the end of the exchange.
After(frame) ==
    IF frame.type = "DATA_PREAMBLE"
    THEN PsduDuration + SifsDuration + AckDuration + SifsDuration
    ELSE SifsDuration + AckDuration + SifsDuration

Sending(s) == air[s].type \in {"DATA_PREAMBLE", "PAYLOAD"}

\* The timer of a station that sends a data frame runs out with the exchange.
SendingAwaits ==
    \A s \in Stations : Sending(s) =>
        /\ air[s].to \in Stations
        /\ partner[s] = air[s].to
        /\ isWaitingSIFS[s] = FALSE
        /\ timer[s] = air[s].left + After(air[s])
        /\ air[s].number = acked[<<s, air[s].to>>] + 1

\* So does that of the station to which r's acknowledgment is under way and will
\* arrive in the given time.
Awaits(s, r, time) ==
    /\ s \in Stations
    /\ partner[s] = r
    /\ isWaitingSIFS[s] = FALSE
    /\ timer[s] = time + SifsDuration
    /\ delivered[<<s, r>>] = acked[<<s, r>>] + 1
    /\ ~Sending(s)

AckAwaited ==
    \A r \in Stations :
        /\ \A ack \in acks[r] : Awaits(ack.to, r, ack.in + AckDuration)
        /\ air[r].type = "ACK_PREAMBLE" => Awaits(air[r].to, r, air[r].left)

IInv == TypeOK /\ TimerInAccess /\ SendingAwaits /\ AckAwaited /\ AckedWasDelivered

-----------------------------------------------------------------------------
\* What the constants are.
LEMMA Constants ==
    /\ NoStation \notin Stations
    /\ PreambleDuration \in Nat \ {0} /\ PsduDuration \in Nat \ {0}
    /\ AckDuration \in Nat \ {0} /\ SifsDuration \in Nat \ {0}
    /\ FT \in Nat /\ FT # 0
    /\ FT = PreambleDuration + PsduDuration + SifsDuration + AckDuration + SifsDuration
    /\ \A more \in BOOLEAN : Exchange(more) \in Int
    /\ Silent \in Frames /\ Silent.type = "NONE"
  BY StationAssumption, DurationAssumption, SifsAssumption
  DEF FT, Exchange, replyDuration, Silent, Frame, Frames

\* Initially nothing is sent and nothing is due.
LEMMA InitInvariant == Init => IInv
<1> SUFFICES ASSUME Init PROVE IInv
  OBVIOUS
<1> USE Constants DEF Init
<1>1. TypeOK
  BY DEF TypeOK, Off, Acks
<1>2. \A s \in Stations : air[s].type = "NONE" /\ acks[s] = {} /\ timer[s] = Off
  OBVIOUS
<1>3. AckedWasDelivered
  BY DEF AckedWasDelivered
<1>4. QED
  BY <1>1, <1>2, <1>3
  DEF IInv, TimerInAccess, SendingAwaits, AckAwaited, Sending

\* A station with no timer running, or one that runs out, awaits nothing.
LEMMA NothingUnderWay ==
    ASSUME IInv, NEW s \in Stations, timer[s] \in {Off, 0}
    PROVE  /\ ~Sending(s)
           /\ \A r \in Stations :
                /\ \A ack \in acks[r] : ack.to # s
                /\ air[r].type = "ACK_PREAMBLE" => air[r].to # s
<1> USE Constants DEF IInv, TypeOK
<1>1. ~Sending(s)
  <2> SUFFICES ASSUME Sending(s) PROVE FALSE
    OBVIOUS
  <2>1. timer[s] = air[s].left + After(air[s]) /\ air[s].left \in Nat
    BY DEF SendingAwaits, Frames
  <2>2. After(air[s]) \in Nat \ {0}
    BY DEF After
  <2>3. QED
    BY <2>1, <2>2 DEF Off
<1>2. ASSUME NEW time \in Nat, NEW r, Awaits(s, r, time) PROVE FALSE
  BY <1>2 DEF Awaits, Off
<1>3. \A r \in Stations : \A ack \in acks[r] : ack.in + AckDuration \in Nat
  BY DEF Acks
<1>4. \A r \in Stations : air[r].left \in Nat
  BY DEF Frames
<1>5. QED
  BY <1>1, <1>2, <1>3, <1>4 DEF AckAwaited

-----------------------------------------------------------------------------
(***************************************************************************)
(* Frames are sent by a station whose timer is off or has run out.         *)
(***************************************************************************)
\* What SendCompound does to the variables of the invariant.
LEMMA SendEffect ==
    ASSUME IInv, NEW s \in Stations, NEW r \in Stations, SendCompound(s, r)
    PROVE  \E f \in Frames :
             /\ air' = [air EXCEPT ![s] = f]
             /\ f.type = "DATA_PREAMBLE" /\ f.to = r
             /\ f.left = PreambleDuration
             /\ f.number = acked[<<s, r>>] + 1
             /\ timer' = [timer EXCEPT ![s] = FT]
             /\ isWaitingSIFS' = [isWaitingSIFS EXCEPT ![s] = FALSE]
<1>1. PICK more \in BOOLEAN :
        /\ Transmit(s, Frame("DATA_PREAMBLE", r, acked[<<s, r>>] + 1, Exchange(more),
                             PreambleDuration))
        /\ timer' = [timer EXCEPT ![s] = FT]
        /\ isWaitingSIFS' = [isWaitingSIFS EXCEPT ![s] = FALSE]
  BY DEF SendCompound
<1> DEFINE f == Frame("DATA_PREAMBLE", r, acked[<<s, r>>] + 1, Exchange(more),
                      PreambleDuration)
<1>2. air' = [air EXCEPT ![s] = f]
  BY <1>1 DEF Transmit
<1>3. acked[<<s, r>>] \in Nat
  BY DEF IInv, TypeOK, Links
<1>4. f \in Frames
  BY <1>3, Constants DEF Frame, Frames
<1>5. f.type = "DATA_PREAMBLE" /\ f.to = r /\ f.left = PreambleDuration
      /\ f.number = acked[<<s, r>>] + 1
  BY DEF Frame
<1>6. QED
  BY <1>1, <1>2, <1>4, <1>5

\* Sending a frame within an access preserves the invariant.
LEMMA SendInvariant ==
    ASSUME IInv, NEW s \in Stations, NEW r \in Stations, SendCompound(s, r),
           timer[s] \in {Off, 0},
           partner' = [partner EXCEPT ![s] = r],
           UNCHANGED <<acked, delivered, acks>>
    PROVE  IInv'
<1> USE Constants
<1>1. PICK f \in Frames :
        /\ air' = [air EXCEPT ![s] = f]
        /\ f.type = "DATA_PREAMBLE" /\ f.to = r
        /\ f.left = PreambleDuration
        /\ f.number = acked[<<s, r>>] + 1
        /\ timer' = [timer EXCEPT ![s] = FT]
        /\ isWaitingSIFS' = [isWaitingSIFS EXCEPT ![s] = FALSE]
  BY SendEffect
<1>2. TypeOK'
  BY <1>1 DEF IInv, TypeOK
<1>3. /\ air'[s] = f /\ timer'[s] = FT /\ isWaitingSIFS'[s] = FALSE
      /\ partner'[s] = r
      /\ \A t \in Stations \ {s} :
            /\ air'[t] = air[t] /\ timer'[t] = timer[t]
            /\ isWaitingSIFS'[t] = isWaitingSIFS[t] /\ partner'[t] = partner[t]
  BY <1>1 DEF IInv, TypeOK
<1>4. TimerInAccess'
  BY <1>3 DEF IInv, TimerInAccess
<1>5. SendingAwaits'
  <2> SUFFICES ASSUME NEW t \in Stations, Sending(t)'
               PROVE  /\ air'[t].to \in Stations
                      /\ partner'[t] = air'[t].to
                      /\ isWaitingSIFS'[t] = FALSE
                      /\ timer'[t] = air'[t].left + After(air'[t])
                      /\ air'[t].number = acked'[<<t, air'[t].to>>] + 1
    BY DEF SendingAwaits, After
  <2>1. CASE t = s
    BY <1>1, <1>3, <2>1 DEF After
  <2>2. CASE t # s
    <3>1. Sending(t)
      BY <1>3, <2>2 DEF Sending
    <3>2. QED
      BY <1>3, <2>2, <3>1 DEF IInv, SendingAwaits
  <2>3. QED
    BY <2>1, <2>2
<1>6. ASSUME NEW t \in Stations, NEW q, NEW time, Awaits(t, q, time), t # s
      PROVE  Awaits(t, q, time)'
  BY <1>3, <1>6 DEF Awaits, Sending
<1>7. AckAwaited'
  <2> SUFFICES ASSUME NEW q \in Stations
               PROVE  /\ \A ack \in acks'[q] : Awaits(ack.to, q, ack.in + AckDuration)'
                      /\ air'[q].type = "ACK_PREAMBLE" => Awaits(air[q].to, q, air[q].left)'
    BY DEF AckAwaited
  <2>1. ASSUME NEW ack \in acks'[q]
        PROVE  Awaits(ack.to, q, ack.in + AckDuration)'
    <3>0. ack \in acks[q]
      BY <2>1
    <3>1. ack \in acks[q] /\ ack.to # s
      BY <3>0, NothingUnderWay
    <3>2. Awaits(ack.to, q, ack.in + AckDuration) /\ ack.to \in Stations
      BY <3>1 DEF IInv, AckAwaited, Awaits
    <3>3. QED
      BY <1>6, <3>1, <3>2
  <2>2. ASSUME air'[q].type = "ACK_PREAMBLE"
        PROVE  Awaits(air[q].to, q, air[q].left)'
    <3>1. q # s /\ air'[q] = air[q]
      BY <1>1, <1>3, <2>2
    <3>2. Awaits(air[q].to, q, air[q].left) /\ air[q].to \in Stations
      BY <2>2, <3>1 DEF IInv, AckAwaited, Awaits
    <3>3. air[q].to # s
      BY <2>2, <3>1, NothingUnderWay
    <3>4. QED
      BY <1>3, <3>1, <3>2, <3>3 DEF Awaits, Sending
  <2>3. QED
    BY <2>1, <2>2
<1>8. AckedWasDelivered'
  BY DEF IInv, AckedWasDelivered
<1>9. QED
  BY <1>2, <1>4, <1>5, <1>7, <1>8 DEF IInv

\* A station without a running exchange gets another partner, or none, and its
\* timer is off.
LEMMA QuietInvariant ==
    ASSUME IInv, NEW s \in Stations, timer[s] \in {Off, 0},
           NEW p \in Stations \cup {NoStation}, NEW w \in BOOLEAN,
           partner' = [partner EXCEPT ![s] = p],
           timer' = [timer EXCEPT ![s] = Off],
           isWaitingSIFS' = [isWaitingSIFS EXCEPT ![s] = w],
           UNCHANGED <<acked, delivered, acks, air>>
    PROVE  IInv'
<1> USE Constants
<1>1. TypeOK'
  BY DEF IInv, TypeOK, Off
<1>2. /\ timer'[s] = Off
      /\ \A t \in Stations \ {s} :
            /\ timer'[t] = timer[t] /\ isWaitingSIFS'[t] = isWaitingSIFS[t]
            /\ partner'[t] = partner[t]
  BY DEF IInv, TypeOK
<1>3. TimerInAccess'
  BY <1>2 DEF IInv, TimerInAccess
<1>4. SendingAwaits'
  <2> SUFFICES ASSUME NEW t \in Stations, Sending(t)'
               PROVE  /\ air'[t].to \in Stations
                      /\ partner'[t] = air'[t].to
                      /\ isWaitingSIFS'[t] = FALSE
                      /\ timer'[t] = air'[t].left + After(air'[t])
                      /\ air'[t].number = acked'[<<t, air'[t].to>>] + 1
    BY DEF SendingAwaits, After
  <2>1. Sending(t)
    BY DEF Sending
  <2>2. t # s
    BY <2>1, NothingUnderWay
  <2>3. QED
    BY <1>2, <2>1, <2>2 DEF IInv, SendingAwaits
<1>5. ASSUME NEW t \in Stations, NEW q, NEW time, Awaits(t, q, time), t # s
      PROVE  Awaits(t, q, time)'
  BY <1>2, <1>5 DEF Awaits, Sending
<1>6. AckAwaited'
  <2> SUFFICES ASSUME NEW q \in Stations
               PROVE  /\ \A ack \in acks[q] : Awaits(ack.to, q, ack.in + AckDuration)'
                      /\ air[q].type = "ACK_PREAMBLE" => Awaits(air[q].to, q, air[q].left)'
    BY DEF AckAwaited
  <2>1. ASSUME NEW ack \in acks[q]
        PROVE  Awaits(ack.to, q, ack.in + AckDuration)'
    <3>1. ack.to # s
      BY NothingUnderWay
    <3>2. Awaits(ack.to, q, ack.in + AckDuration) /\ ack.to \in Stations
      BY DEF IInv, AckAwaited, Awaits
    <3>3. QED
      BY <1>5, <3>1, <3>2
  <2>2. ASSUME air[q].type = "ACK_PREAMBLE"
        PROVE  Awaits(air[q].to, q, air[q].left)'
    <3>1. Awaits(air[q].to, q, air[q].left) /\ air[q].to \in Stations
      BY <2>2 DEF IInv, AckAwaited, Awaits
    <3>2. air[q].to # s
      BY <2>2, NothingUnderWay
    <3>3. QED
      BY <1>2, <3>1, <3>2 DEF Awaits, Sending
  <2>3. QED
    BY <2>1, <2>2
<1>7. AckedWasDelivered'
  BY DEF IInv, AckedWasDelivered
<1>8. QED
  BY <1>1, <1>3, <1>4, <1>6, <1>7 DEF IInv

-----------------------------------------------------------------------------
(***************************************************************************)
(* The phases of an exchange.                                              *)
(***************************************************************************)
\* The preamble is over, the payload begins.
LEMMA PreambleInvariant ==
    ASSUME IInv, NEW s \in Stations, PreambleOver(s)
    PROVE  IInv'
<1> USE Constants
<1>0. /\ air[s] \in Frames
      /\ air' = [air EXCEPT ![s] = [air[s] EXCEPT !.type = "PAYLOAD", !.left = PsduDuration]]
  BY DEF PreambleOver, IInv, TypeOK
<1>1. /\ air[s].type = "DATA_PREAMBLE" /\ air[s].left = 0
      /\ UNCHANGED <<acked, delivered, partner, timer, isWaitingSIFS, acks>>
  BY DEF PreambleOver, senderVars, receiverVars
<1>2. \A t \in Stations \ {s} : air'[t] = air[t]
  BY <1>0 DEF IInv, TypeOK
<1>3. /\ air'[s].type = "PAYLOAD" /\ air'[s].left = PsduDuration
      /\ air'[s].to = air[s].to /\ air'[s].number = air[s].number
  BY <1>0 DEF IInv, TypeOK, Frames
<1>4. TypeOK'
  BY <1>0, <1>1 DEF IInv, TypeOK, Frames
<1>5. TimerInAccess'
  BY <1>1 DEF IInv, TimerInAccess
<1>6. SendingAwaits'
  <2> SUFFICES ASSUME NEW t \in Stations, Sending(t)'
               PROVE  /\ air'[t].to \in Stations
                      /\ partner'[t] = air'[t].to
                      /\ isWaitingSIFS'[t] = FALSE
                      /\ timer'[t] = air'[t].left + After(air'[t])
                      /\ air'[t].number = acked'[<<t, air'[t].to>>] + 1
    BY DEF SendingAwaits, After
  <2>1. Sending(t)
    BY <1>1, <1>2 DEF Sending
  <2>2. /\ air[t].to \in Stations
        /\ partner[t] = air[t].to
        /\ isWaitingSIFS[t] = FALSE
        /\ timer[t] = air[t].left + After(air[t])
        /\ air[t].number = acked[<<t, air[t].to>>] + 1
    BY <2>1 DEF IInv, SendingAwaits
  <2>3. CASE t = s
    BY <1>1, <1>3, <2>2, <2>3 DEF After
  <2>4. CASE t # s
    BY <1>1, <1>2, <2>2, <2>4 DEF After
  <2>5. QED
    BY <2>3, <2>4
<1>7. ASSUME NEW t, NEW q, NEW time, Awaits(t, q, time)
      PROVE  Awaits(t, q, time)'
  <2>1. t \in Stations /\ t # s
    BY <1>1, <1>7 DEF Awaits, Sending
  <2>2. QED
    BY <1>1, <1>2, <1>7, <2>1 DEF Awaits, Sending
<1>8. AckAwaited'
  <2> SUFFICES ASSUME NEW q \in Stations
               PROVE  /\ \A ack \in acks[q] : Awaits(ack.to, q, ack.in + AckDuration)'
                      /\ air'[q].type = "ACK_PREAMBLE" =>
                           Awaits(air[q].to, q, air[q].left)'
    BY <1>1 DEF AckAwaited
  <2>1. \A ack \in acks[q] : Awaits(ack.to, q, ack.in + AckDuration)'
    BY <1>7 DEF IInv, AckAwaited
  <2>2. ASSUME air'[q].type = "ACK_PREAMBLE"
        PROVE  Awaits(air[q].to, q, air[q].left)'
    <3>1. air'[q] = air[q]
      BY <1>2, <1>3, <2>2
    <3>2. Awaits(air[q].to, q, air[q].left)
      BY <2>2, <3>1 DEF IInv, AckAwaited
    <3>3. air[q].to \in Stations /\ air[q].to # s
      BY <1>1, <3>2 DEF Awaits, Sending
    <3>4. QED
      BY <1>1, <1>2, <3>1, <3>2, <3>3 DEF Awaits, Sending
  <2>3. QED
    BY <2>1, <2>2
<1>9. AckedWasDelivered'
  BY <1>1 DEF IInv, AckedWasDelivered
<1>10. QED
  BY <1>4, <1>5, <1>6, <1>8, <1>9 DEF IInv

\* The payload is over: its receiver may have taken it, and acknowledges it then.
LEMMA PayloadInvariant ==
    ASSUME IInv, NEW s \in Stations, PayloadOver(s)
    PROVE  IInv'
<1> USE Constants
<1>1. /\ air[s].type = "PAYLOAD" /\ air[s].left = 0
      /\ air' = [air EXCEPT ![s] = Silent]
      /\ UNCHANGED <<acked, partner, timer, isWaitingSIFS>>
  BY DEF PayloadOver, senderVars
<1>2. /\ air'[s].type = "NONE"
      /\ \A t \in Stations \ {s} : air'[t] = air[t]
  BY <1>1 DEF IInv, TypeOK
<1>3. /\ air[s].to \in Stations
      /\ partner[s] = air[s].to
      /\ isWaitingSIFS[s] = FALSE
      /\ timer[s] = SifsDuration + AckDuration + SifsDuration
      /\ air[s].number = acked[<<s, air[s].to>>] + 1
      /\ Sending(s)
  BY <1>1 DEF IInv, SendingAwaits, Sending, After
<1> DEFINE r == air[s].to
<1>4. \/ UNCHANGED receiverVars
      \/ /\ delivered' = [delivered EXCEPT ![<<s, r>>] = air[s].number]
         /\ \E ack \in Acks : /\ ack.to = s /\ ack.in = SifsDuration
                              /\ acks' = [acks EXCEPT ![r] = @ \cup {ack}]
  <2> SUFFICES ASSUME ~ UNCHANGED receiverVars
               PROVE  /\ delivered' = [delivered EXCEPT ![<<s, r>>] = air[s].number]
                      /\ \E ack \in Acks :
                           /\ ack.to = s /\ ack.in = SifsDuration
                           /\ acks' = [acks EXCEPT ![r] = @ \cup {ack}]
    OBVIOUS
  <2>1. PICK q : /\ Takes(q, s, air[s].to)
                 /\ delivered' = [delivered EXCEPT ![<<s, q>>] = air[s].number]
                 /\ CreateACK(q, s, air[s].exchange)
    BY DEF PayloadOver
  <2>2. q = r
    BY <2>1 DEF Takes
  <2>3. air[s].exchange \in Int
    BY DEF IInv, TypeOK, Frames
  <2> DEFINE fxDur == air[s].exchange - SifsDuration - AckDuration
             ack == [to |-> s, in |-> SifsDuration,
                     exchange |-> IF fxDur < SifsDuration THEN 0 ELSE fxDur]
  <2>4. ack \in Acks /\ ack.to = s /\ ack.in = SifsDuration
    BY <2>3 DEF Acks
  <2>5. acks' = [acks EXCEPT ![r] = @ \cup {ack}]
    BY <2>1, <2>2 DEF CreateACK
  <2>6. QED
    BY <2>1, <2>2, <2>4, <2>5
<1>5. /\ delivered' \in [Links -> Nat] /\ acks' \in [Stations -> SUBSET Acks]
      /\ \A l \in Links : l # <<s, r>> => delivered'[l] = delivered[l]
      /\ delivered'[<<s, r>>] \in {delivered[<<s, r>>], acked[<<s, r>>] + 1}
      /\ \A q \in Stations : \A ack \in acks'[q] :
           \/ ack \in acks[q]
           \/ /\ q = r /\ ack.to = s /\ ack.in = SifsDuration
              /\ delivered'[<<s, r>>] = acked[<<s, r>>] + 1
  <2>1. /\ acked[<<s, r>>] \in Nat /\ <<s, r>> \in Links
        /\ delivered \in [Links -> Nat] /\ acks \in [Stations -> SUBSET Acks]
    BY <1>3 DEF IInv, TypeOK, Links
  <2>2. CASE UNCHANGED receiverVars
    BY <2>1, <2>2 DEF receiverVars
  <2>3. CASE ~ UNCHANGED receiverVars
    <3>1. PICK ack \in Acks :
             /\ delivered' = [delivered EXCEPT ![<<s, r>>] = acked[<<s, r>>] + 1]
             /\ ack.to = s /\ ack.in = SifsDuration
             /\ acks' = [acks EXCEPT ![r] = @ \cup {ack}]
      BY <1>3, <1>4, <2>3
    <3>2. /\ delivered' \in [Links -> Nat]
          /\ \A l \in Links : l # <<s, r>> => delivered'[l] = delivered[l]
          /\ delivered'[<<s, r>>] = acked[<<s, r>>] + 1
      BY <2>1, <3>1
    <3>3. /\ acks' \in [Stations -> SUBSET Acks]
          /\ \A q \in Stations : \A a \in acks'[q] : a \in acks[q] \/ (q = r /\ a = ack)
      BY <1>3, <2>1, <3>1
    <3>4. QED
      BY <3>1, <3>2, <3>3
  <2>4. QED
    BY <2>2, <2>3
<1>6. TypeOK'
  BY <1>1, <1>5 DEF IInv, TypeOK
<1>7. TimerInAccess'
  BY <1>1 DEF IInv, TimerInAccess
<1>8. SendingAwaits'
  <2> SUFFICES ASSUME NEW t \in Stations, Sending(t)'
               PROVE  /\ air'[t].to \in Stations
                      /\ partner'[t] = air'[t].to
                      /\ isWaitingSIFS'[t] = FALSE
                      /\ timer'[t] = air'[t].left + After(air'[t])
                      /\ air'[t].number = acked'[<<t, air'[t].to>>] + 1
    BY DEF SendingAwaits, After
  <2>1. t # s /\ air'[t] = air[t] /\ Sending(t)
    BY <1>2 DEF Sending
  <2>2. QED
    BY <1>1, <2>1 DEF IInv, SendingAwaits
<1>9. ASSUME NEW t, NEW q \in Stations, NEW time, Awaits(t, q, time)
      PROVE  Awaits(t, q, time)' /\ t \in Stations /\ t # s
  <2>1. t \in Stations /\ t # s
    BY <1>3, <1>9 DEF Awaits
  <2>2. delivered'[<<t, q>>] = delivered[<<t, q>>]
    BY <1>5, <2>1 DEF Links
  <2>3. QED
    BY <1>1, <1>2, <1>9, <2>1, <2>2 DEF Awaits, Sending
<1>10. AckAwaited'
  <2> SUFFICES ASSUME NEW q \in Stations
               PROVE  /\ \A ack \in acks'[q] : Awaits(ack.to, q, ack.in + AckDuration)'
                      /\ air'[q].type = "ACK_PREAMBLE" =>
                           Awaits(air[q].to, q, air[q].left)'
    BY <1>1 DEF AckAwaited
  <2>1. ASSUME NEW ack \in acks'[q]
        PROVE  Awaits(ack.to, q, ack.in + AckDuration)'
    <3>1. CASE ack \in acks[q]
      BY <1>9, <3>1 DEF IInv, AckAwaited
    <3>2. CASE /\ q = r /\ ack.to = s /\ ack.in = SifsDuration
               /\ delivered'[<<s, r>>] = acked[<<s, r>>] + 1
      BY <1>1, <1>2, <1>3, <3>2 DEF Awaits, Sending
    <3>3. QED
      BY <1>5, <2>1, <3>1, <3>2
  <2>2. ASSUME air'[q].type = "ACK_PREAMBLE"
        PROVE  Awaits(air[q].to, q, air[q].left)'
    <3>1. air'[q] = air[q]
      BY <1>2, <2>2
    <3>2. Awaits(air[q].to, q, air[q].left)
      BY <2>2, <3>1 DEF IInv, AckAwaited
    <3>3. air[q].to \in Stations /\ air[q].to # s
      BY <1>9, <3>2
    <3>4. delivered'[<<air[q].to, q>>] = delivered[<<air[q].to, q>>]
      BY <1>5, <3>3 DEF Links
    <3>5. QED
      BY <1>1, <1>2, <3>1, <3>2, <3>3, <3>4 DEF Awaits, Sending
  <2>3. QED
    BY <2>1, <2>2
<1>11. AckedWasDelivered'
  <2> SUFFICES ASSUME NEW l \in Links PROVE acked[l] <= delivered'[l]
    BY <1>1 DEF AckedWasDelivered
  <2>1. acked[l] <= delivered[l] /\ acked[l] \in Nat
    BY DEF IInv, TypeOK, AckedWasDelivered
  <2>2. CASE l # <<s, r>>
    BY <1>5, <2>1, <2>2
  <2>3. CASE l = <<s, r>>
    <3>1. delivered'[l] \in {delivered[l], acked[l] + 1}
      BY <1>5, <2>3
    <3>2. QED
      BY <2>1, <3>1
  <2>4. QED
    BY <2>2, <2>3
<1>12. QED
  BY <1>6, <1>7, <1>8, <1>10, <1>11 DEF IInv

\* The acknowledgment is transmitted, or cannot be.
LEMMA TransmitAckInvariant ==
    ASSUME IInv, NEW r \in Stations, TransmitAck(r)
    PROVE  IInv'
<1> USE Constants
<1>1. PICK due \in acks[r] :
        /\ due.in = 0
        /\ acks' = [acks EXCEPT ![r] = @ \ {due}]
        /\ \/ air' = air
           \/ /\ air[r] = Silent
              /\ air' = [air EXCEPT ![r] = Frame("ACK_PREAMBLE", due.to, 0, due.exchange,
                                                 AckDuration)]
        /\ UNCHANGED <<acked, delivered, partner, timer, isWaitingSIFS>>
  BY DEF TransmitAck, Transmit, mediumVars, senderVars
<1>2. /\ due \in Acks /\ due.to \in Stations
      /\ Awaits(due.to, r, AckDuration)
  BY <1>1 DEF IInv, TypeOK, AckAwaited, Acks
<1>3. /\ \A t \in Stations \ {r} : air'[t] = air[t]
      /\ \/ air' = air
         \/ /\ air[r].type = "NONE"
            /\ air'[r].type = "ACK_PREAMBLE" /\ air'[r].to = due.to
            /\ air'[r].left = AckDuration
      /\ air' \in [Stations -> Frames]
  <2>1. air \in [Stations -> Frames]
    BY DEF IInv, TypeOK
  <2>2. CASE air' = air
    BY <2>1, <2>2
  <2>3. CASE air' # air
    <3> DEFINE f == Frame("ACK_PREAMBLE", due.to, 0, due.exchange, AckDuration)
    <3>1. air' = [air EXCEPT ![r] = f] /\ air[r] = Silent
      BY <1>1, <2>3
    <3>2. /\ f \in Frames /\ f.type = "ACK_PREAMBLE" /\ f.to = due.to
          /\ f.left = AckDuration
      BY <1>2 DEF Frame, Frames, Acks
    <3> HIDE DEF f
    <3>3. QED
      BY <2>1, <3>1, <3>2
  <2>4. QED
    BY <2>2, <2>3
<1>4. \A q \in Stations : acks'[q] \subseteq acks[q]
  BY <1>1 DEF IInv, TypeOK
<1>5. TypeOK'
  <2>1. acks' \in [Stations -> SUBSET Acks]
    BY <1>1 DEF IInv, TypeOK
  <2>2. QED
    BY <1>1, <1>3, <2>1 DEF IInv, TypeOK
<1>6. TimerInAccess'
  BY <1>1 DEF IInv, TimerInAccess
<1>7. ASSUME NEW t \in Stations
      PROVE  /\ Sending(t)' <=> Sending(t)
             /\ Sending(t) => air'[t] = air[t]
  BY <1>3 DEF Sending
<1>8. SendingAwaits'
  <2> SUFFICES ASSUME NEW t \in Stations, Sending(t)'
               PROVE  /\ air'[t].to \in Stations
                      /\ partner'[t] = air'[t].to
                      /\ isWaitingSIFS'[t] = FALSE
                      /\ timer'[t] = air'[t].left + After(air'[t])
                      /\ air'[t].number = acked'[<<t, air'[t].to>>] + 1
    BY DEF SendingAwaits, After
  <2>1. Sending(t) /\ air'[t] = air[t]
    BY <1>7
  <2>2. QED
    BY <1>1, <2>1 DEF IInv, SendingAwaits
<1>9. ASSUME NEW t, NEW q, NEW time, Awaits(t, q, time)
      PROVE  Awaits(t, q, time)'
  BY <1>1, <1>7, <1>9 DEF Awaits
<1>10. AckAwaited'
  <2> SUFFICES ASSUME NEW q \in Stations
               PROVE  /\ \A ack \in acks'[q] : Awaits(ack.to, q, ack.in + AckDuration)'
                      /\ air'[q].type = "ACK_PREAMBLE" =>
                           Awaits(air[q].to, q, air[q].left)'
    BY DEF AckAwaited
  <2>1. \A ack \in acks'[q] : Awaits(ack.to, q, ack.in + AckDuration)'
    BY <1>4, <1>9 DEF IInv, AckAwaited
  <2>2. ASSUME air'[q].type = "ACK_PREAMBLE"
        PROVE  Awaits(air[q].to, q, air[q].left)'
    <3>1. CASE air'[q] = air[q]
      <4>1. Awaits(air[q].to, q, air[q].left) /\ air[q].to \in Stations
        BY <2>2, <3>1 DEF IInv, AckAwaited, Awaits
      <4>2. QED
        BY <1>1, <1>7, <3>1, <4>1 DEF Awaits
    <3>2. CASE q = r /\ air'[r].to = due.to /\ air'[r].left = AckDuration
      BY <1>1, <1>2, <1>7, <3>2 DEF Awaits
    <3>3. QED
      BY <1>3, <3>1, <3>2
  <2>3. QED
    BY <2>1, <2>2
<1>11. AckedWasDelivered'
  BY <1>1 DEF IInv, AckedWasDelivered
<1>12. QED
  BY <1>5, <1>6, <1>8, <1>10, <1>11 DEF IInv

\* An acknowledgment arrives; if it is taken, the frame awaited it.
LEMMA AckOverInvariant ==
    ASSUME IInv, NEW s \in Stations, AckOver(s)
    PROVE  IInv'
<1> USE Constants
<1>1. /\ air[s].type = "ACK_PREAMBLE" /\ air[s].left = 0
      /\ air' = [air EXCEPT ![s] = Silent]
      /\ UNCHANGED <<acks, delivered>>
  BY DEF AckOver, receiverVars
<1>2. /\ air'[s].type = "NONE"
      /\ \A t \in Stations \ {s} : air'[t] = air[t]
  BY <1>1 DEF IInv, TypeOK
<1> DEFINE r == air[s].to
<1>3. /\ r \in Stations /\ partner[r] = s /\ isWaitingSIFS[r] = FALSE
      /\ timer[r] = SifsDuration
      /\ delivered[<<r, s>>] = acked[<<r, s>>] + 1
      /\ ~Sending(r)
  BY <1>1 DEF IInv, AckAwaited, Awaits
<1>4. UNCHANGED senderVars \/ ImmAck(r, s)
  <2> SUFFICES ASSUME ~ UNCHANGED senderVars PROVE ImmAck(r, s)
    OBVIOUS
  <2>1. PICK q : Takes(q, s, air[s].to) /\ ImmAck(q, s)
    BY DEF AckOver
  <2>2. QED
    BY <2>1 DEF Takes
<1>5. TypeOK'
  <2>1. air' \in [Stations -> Frames]
    BY <1>1 DEF IInv, TypeOK
  <2>2. CASE UNCHANGED senderVars
    BY <1>1, <2>1, <2>2 DEF IInv, TypeOK, senderVars
  <2>3. CASE ImmAck(r, s)
    <3>1. acked' \in [Links -> Nat]
      BY <1>3, <2>3 DEF IInv, TypeOK, ImmAck, Links
    <3>2. timer' \in [Stations -> Nat \cup {Off}]
      BY <1>3, <2>3 DEF IInv, TypeOK, ImmAck
    <3>3. isWaitingSIFS' \in [Stations -> BOOLEAN] /\ partner' = partner
      BY <1>3, <2>3 DEF IInv, TypeOK, ImmAck
    <3>4. QED
      BY <1>1, <2>1, <3>1, <3>2, <3>3 DEF IInv, TypeOK
  <2>4. QED
    BY <1>4, <2>2, <2>3
<1>6. /\ partner' = partner
      /\ \A t \in Stations \ {r} :
           /\ timer'[t] = timer[t] /\ isWaitingSIFS'[t] = isWaitingSIFS[t]
           /\ \A q \in Stations : acked'[<<t, q>>] = acked[<<t, q>>]
      /\ \A l \in Links : acked'[l] = acked[l] \/ (l = <<r, s>> /\ acked'[l] = acked[l] + 1)
  <2>1. CASE UNCHANGED senderVars
    BY <2>1 DEF senderVars
  <2>2. CASE ImmAck(r, s)
    <3>1. partner' = partner
      BY <2>2 DEF ImmAck
    <3>2. \A t \in Stations \ {r} :
            timer'[t] = timer[t] /\ isWaitingSIFS'[t] = isWaitingSIFS[t]
      BY <2>2 DEF IInv, TypeOK, ImmAck
    <3>3. /\ acked \in [Links -> Nat]
          /\ acked' = [acked EXCEPT ![<<r, s>>] = @ + 1]
          /\ <<r, s>> \in Links
      BY <1>3, <2>2 DEF IInv, TypeOK, ImmAck, Links
    <3>4. \A l \in Links : acked'[l] = acked[l] \/ (l = <<r, s>> /\ acked'[l] = acked[l] + 1)
      BY <3>3
    <3>5. \A t \in Stations \ {r}, q \in Stations :
             <<t, q>> \in Links /\ <<t, q>> # <<r, s>>
      BY DEF Links
    <3>6. QED
      BY <3>1, <3>2, <3>4, <3>5
  <2>3. QED
    BY <1>4, <2>1, <2>2
<1>7. TimerInAccess'
  BY <1>3, <1>6 DEF IInv, TimerInAccess
<1>8. SendingAwaits'
  <2> SUFFICES ASSUME NEW t \in Stations, Sending(t)'
               PROVE  /\ air'[t].to \in Stations
                      /\ partner'[t] = air'[t].to
                      /\ isWaitingSIFS'[t] = FALSE
                      /\ timer'[t] = air'[t].left + After(air'[t])
                      /\ air'[t].number = acked'[<<t, air'[t].to>>] + 1
    BY DEF SendingAwaits, After
  <2>1. air'[t] = air[t] /\ Sending(t)
    BY <1>2 DEF Sending
  <2>2. t # r
    BY <1>3, <2>1
  <2>3. QED
    BY <1>6, <2>1, <2>2 DEF IInv, SendingAwaits
<1>9. ASSUME NEW t, NEW q \in Stations, NEW time, Awaits(t, q, time),
             timer[t] # SifsDuration \/ q # s
      PROVE  Awaits(t, q, time)'
  <2>1. t \in Stations \ {r}
    BY <1>3, <1>9 DEF Awaits
  <2>2. ~Sending(t)'
    BY <1>2, <1>9, <2>1 DEF Awaits, Sending
  <2>3. QED
    BY <1>1, <1>6, <1>9, <2>1, <2>2 DEF Awaits
<1>10. AckAwaited'
  <2> SUFFICES ASSUME NEW q \in Stations
               PROVE  /\ \A ack \in acks[q] : Awaits(ack.to, q, ack.in + AckDuration)'
                      /\ air'[q].type = "ACK_PREAMBLE" =>
                           Awaits(air[q].to, q, air[q].left)'
    BY <1>1 DEF AckAwaited
  <2>1. ASSUME NEW ack \in acks[q]
        PROVE  Awaits(ack.to, q, ack.in + AckDuration)'
    <3>1. Awaits(ack.to, q, ack.in + AckDuration) /\ ack.in \in Nat
      BY DEF IInv, TypeOK, AckAwaited, Acks
    <3>2. timer[ack.to] # SifsDuration
      BY <3>1 DEF Awaits
    <3>3. QED
      BY <1>9, <3>1, <3>2
  <2>2. ASSUME air'[q].type = "ACK_PREAMBLE"
        PROVE  Awaits(air[q].to, q, air[q].left)'
    <3>1. q # s /\ air'[q] = air[q]
      BY <1>2, <2>2
    <3>2. Awaits(air[q].to, q, air[q].left)
      BY <2>2, <3>1 DEF IInv, AckAwaited
    <3>3. air[q].to \in Stations \ {r}
      BY <1>3, <3>1, <3>2 DEF Awaits
    <3>4. ~Sending(air[q].to)' /\ air'[q].to = air[q].to
      BY <1>2, <3>1, <3>2, <3>3 DEF Awaits, Sending
    <3>5. QED
      BY <1>1, <1>2, <1>6, <3>1, <3>2, <3>3 DEF Awaits, Sending
  <2>3. QED
    BY <2>1, <2>2
<1>11. AckedWasDelivered'
  <2> SUFFICES ASSUME NEW l \in Links PROVE acked'[l] <= delivered[l]
    BY <1>1 DEF AckedWasDelivered
  <2>1. acked[l] <= delivered[l] /\ acked[l] \in Nat
    BY DEF IInv, TypeOK, AckedWasDelivered
  <2>2. QED
    BY <1>3, <1>6, <2>1
<1>12. QED
  BY <1>5, <1>7, <1>8, <1>10, <1>11 DEF IInv

\* Time goes on for timers, acknowledgments and transmissions alike.
LEMMA TickInvariant ==
    ASSUME IInv, Tick
    PROVE  IInv'
<1> USE Constants
<1>1. /\ \A s \in Stations :
           /\ timer[s] # 0
           /\ air[s] # Silent => air[s].left > 0
           /\ \A ack \in acks[s] : ack.in > 0
      /\ timer' = [s \in Stations |-> Left(timer[s])]
      /\ acks' = [s \in Stations |-> {[ack EXCEPT !.in = @ - 1] : ack \in acks[s]}]
      /\ air' = [s \in Stations |-> [air[s] EXCEPT !.left = Left(@)]]
      /\ UNCHANGED <<acked, delivered, partner, isWaitingSIFS>>
  BY DEF Tick
<1>2. \A s \in Stations :
        /\ timer'[s] \in Nat \cup {Off}
        /\ timer[s] = Off => timer'[s] = Off
        /\ timer[s] # Off => timer'[s] = timer[s] - 1
  BY <1>1 DEF IInv, TypeOK, Left, Off
<1>3. ASSUME NEW s \in Stations
      PROVE  /\ air'[s] \in Frames
             /\ air'[s].type = air[s].type /\ air'[s].to = air[s].to
             /\ air'[s].number = air[s].number
             /\ air[s].type # "NONE" => air'[s].left = air[s].left - 1
  <2>1. air[s] \in Frames /\ air'[s] = [air[s] EXCEPT !.left = Left(air[s].left)]
    BY <1>1 DEF IInv, TypeOK
  <2>2. Left(air[s].left) \in Nat
    BY <2>1 DEF Left, Frames
  <2>3. air[s].type # "NONE" => Left(air[s].left) = air[s].left - 1
    BY <1>1, <2>1 DEF Left, Frames
  <2>4. QED
    BY <2>1, <2>2, <2>3 DEF Frames
<1>4. ASSUME NEW s \in Stations, NEW a \in acks'[s]
      PROVE  a \in Acks /\ \E ack \in acks[s] : a.to = ack.to /\ a.in = ack.in - 1
  <2>1. PICK ack \in acks[s] : a = [ack EXCEPT !.in = ack.in - 1]
    BY <1>1, <1>4
  <2>2. ack \in Acks /\ ack.in > 0
    BY <1>1 DEF IInv, TypeOK
  <2>3. QED
    BY <2>1, <2>2 DEF Acks
<1>5. TypeOK'
  <2>1. timer' \in [Stations -> Nat \cup {Off}]
    BY <1>1, <1>2
  <2>2. air' \in [Stations -> Frames]
    BY <1>1, <1>3
  <2>3. acks' \in [Stations -> SUBSET Acks]
    BY <1>1, <1>4
  <2>4. QED
    BY <1>1, <2>1, <2>2, <2>3 DEF IInv, TypeOK
<1>6. TimerInAccess'
  BY <1>1, <1>2 DEF IInv, TimerInAccess
<1>7. ASSUME NEW s \in Stations
      PROVE  Sending(s)' <=> Sending(s)
  BY <1>3 DEF Sending
<1>8. SendingAwaits'
  <2> SUFFICES ASSUME NEW s \in Stations, Sending(s)'
               PROVE  /\ air'[s].to \in Stations
                      /\ partner'[s] = air'[s].to
                      /\ isWaitingSIFS'[s] = FALSE
                      /\ timer'[s] = air'[s].left + After(air'[s])
                      /\ air'[s].number = acked'[<<s, air'[s].to>>] + 1
    BY DEF SendingAwaits, After
  <2>1. Sending(s)
    BY <1>7
  <2>2. /\ air[s].to \in Stations
        /\ partner[s] = air[s].to
        /\ isWaitingSIFS[s] = FALSE
        /\ timer[s] = air[s].left + After(air[s])
        /\ air[s].number = acked[<<s, air[s].to>>] + 1
    BY <2>1 DEF IInv, SendingAwaits
  <2>3. air[s].type # "NONE" /\ air[s].left \in Nat
    BY <2>1 DEF Sending, IInv, TypeOK, Frames
  <2>4. /\ air'[s].to = air[s].to /\ air'[s].number = air[s].number
        /\ air'[s].left = air[s].left - 1
    BY <1>3, <2>3
  <2>5. After(air'[s]) = After(air[s]) /\ After(air[s]) \in Nat
    BY <1>3 DEF After
  <2>6. timer'[s] = timer[s] - 1
    BY <1>2, <2>2, <2>3, <2>5 DEF Off
  <2>7. UNCHANGED <<acked, partner, isWaitingSIFS>>
    BY <1>1
  <2>8. timer'[s] = air'[s].left + After(air'[s])
    BY ONLY <2>2, <2>3, <2>4, <2>5, <2>6
  <2>9. QED
    BY ONLY <2>2, <2>4, <2>7, <2>8
<1>9. ASSUME NEW t, NEW q, NEW time \in Nat, Awaits(t, q, time)
      PROVE  Awaits(t, q, time - 1)'
  BY <1>1, <1>2, <1>7, <1>9 DEF Awaits, Off
<1>10. AckAwaited'
  <2> SUFFICES ASSUME NEW q \in Stations
               PROVE  /\ \A a \in acks'[q] : Awaits(a.to, q, a.in + AckDuration)'
                      /\ air'[q].type = "ACK_PREAMBLE" =>
                           Awaits(air[q].to, q, air[q].left)'
    BY DEF AckAwaited
  <2>1. ASSUME NEW a \in acks'[q]
        PROVE  Awaits(a.to, q, a.in + AckDuration)'
    <3>1. PICK ack \in acks[q] : a.to = ack.to /\ a.in = ack.in - 1
      BY <1>4, <2>1
    <3>2. ack.in \in Nat /\ Awaits(ack.to, q, ack.in + AckDuration)
      BY DEF IInv, TypeOK, AckAwaited, Acks
    <3>3. Awaits(ack.to, q, ack.in + AckDuration - 1)'
      BY <1>9, <3>2
    <3>4. a.in + AckDuration = ack.in + AckDuration - 1
      BY <3>1, <3>2
    <3>5. QED
      BY <3>1, <3>3, <3>4
  <2>2. ASSUME air'[q].type = "ACK_PREAMBLE"
        PROVE  Awaits(air[q].to, q, air[q].left)'
    <3>1. air[q].type = "ACK_PREAMBLE"
      BY <1>3, <2>2
    <3>2. Awaits(air[q].to, q, air[q].left) /\ air[q].left \in Nat
      BY <3>1 DEF IInv, TypeOK, AckAwaited, Frames
    <3>3. air'[q].to = air[q].to /\ air'[q].left = air[q].left - 1
      BY <1>3, <3>1
    <3>4. PICK to, left : to = air[q].to /\ left = air[q].left
      OBVIOUS
    <3>5. Awaits(to, q, left - 1)'
      BY <1>9, <3>2, <3>4
    <3>6. QED
      BY <3>3, <3>4, <3>5 DEF Awaits
  <2>3. QED
    BY <2>1, <2>2
<1>11. AckedWasDelivered'
  BY <1>1 DEF IInv, AckedWasDelivered
<1>12. QED
  BY <1>5, <1>6, <1>8, <1>10, <1>11 DEF IInv

\* A step that leaves the exchanges alone.
invariantVars == <<acked, delivered, partner, timer, isWaitingSIFS, acks, air>>

\* The invariant is about these variables only.
LEMMA UnchangedInvariant ==
    ASSUME IInv, UNCHANGED invariantVars
    PROVE  IInv'
<1>1. TypeOK' /\ TimerInAccess' /\ AckedWasDelivered'
  BY DEF IInv, TypeOK, TimerInAccess, AckedWasDelivered, invariantVars
<1>2. SendingAwaits'
  BY DEF IInv, SendingAwaits, Sending, After, invariantVars
<1>3. AckAwaited'
  BY DEF IInv, AckAwaited, Awaits, Sending, invariantVars
<1>4. QED
  BY <1>1, <1>2, <1>3 DEF IInv

-----------------------------------------------------------------------------
(***************************************************************************)
(* Accesses begin and end between exchanges.                               *)
(***************************************************************************)
\* Outside an access the timer is off.
LEMMA NoAccess ==
    ASSUME IInv, NEW s \in Stations, partner[s] = NoStation
    PROVE  timer[s] = Off
  BY DEF IInv, TimerInAccess

\* Only the partner of a station whose timer is off changes.
LEMMA PartnerInvariant ==
    ASSUME IInv, NEW s \in Stations, timer[s] = Off,
           NEW p \in Stations \cup {NoStation},
           partner' = [partner EXCEPT ![s] = p],
           UNCHANGED <<acked, delivered, timer, isWaitingSIFS, acks, air>>
    PROVE  IInv'
<1>1. /\ timer' = [timer EXCEPT ![s] = Off]
      /\ isWaitingSIFS' = [isWaitingSIFS EXCEPT ![s] = isWaitingSIFS[s]]
      /\ isWaitingSIFS[s] \in BOOLEAN
  BY DEF IInv, TypeOK
<1>2. QED
  BY <1>1, QuietInvariant

\* Contention accesses.
LEMMA AccessInvariant ==
    ASSUME IInv, NEW s \in Stations,
           \/ \E r \in Stations : StartAccess(s, r) \/ StartIdleAccess(s, r)
           \/ EndIdleAccess(s)
    PROVE  IInv'
<1>1. ASSUME NEW r \in Stations, StartAccess(s, r) PROVE IInv'
  <2>1. timer[s] = Off
    BY <1>1, NoAccess DEF StartAccess
  <2>2. QED
    BY <1>1, <2>1, SendInvariant DEF StartAccess, receiverVars
<1>2. ASSUME NEW r \in Stations, StartIdleAccess(s, r) PROVE IInv'
  <2>1. timer[s] = Off
    BY <1>2, NoAccess DEF StartIdleAccess
  <2>2. QED
    BY <1>2, <2>1, PartnerInvariant DEF StartIdleAccess, receiverVars, mediumVars
<1>3. ASSUME EndIdleAccess(s) PROVE IInv'
  BY <1>3, PartnerInvariant DEF EndIdleAccess, receiverVars, mediumVars
<1>4. QED
  BY <1>1, <1>2, <1>3

\* The timer of a buffer runs out.
LEMMA OnTimeoutInvariant ==
    ASSUME IInv, NEW s \in Stations, NextFrame(s) \/ LastFrame(s)
    PROVE  IInv'
<1>1. partner[s] \in Stations \cup {NoStation}
  BY DEF IInv, TypeOK
<1>2. ASSUME NextFrame(s) PROVE IInv'
  <2>1. timer[s] = 0 /\ SendCompound(s, partner[s])
        /\ UNCHANGED <<acked, partner, delivered, acks>>
    BY <1>2 DEF NextFrame, receiverVars
  <2>2. partner[s] \in Stations
    BY <1>1, <2>1 DEF IInv, TimerInAccess, Off
  <2>3. partner' = [partner EXCEPT ![s] = partner[s]]
    BY <2>1 DEF IInv, TypeOK
  <2>4. QED
    BY <2>1, <2>2, <2>3, SendInvariant
<1>3. ASSUME LastFrame(s) PROVE IInv'
  <2>1. PICK p \in {NoStation, partner[s]} : partner' = [partner EXCEPT ![s] = p]
    BY <1>3 DEF LastFrame, IInv, TypeOK
  <2>2. /\ timer[s] = 0
        /\ timer' = [timer EXCEPT ![s] = Off]
        /\ isWaitingSIFS' = [isWaitingSIFS EXCEPT ![s] = FALSE]
        /\ UNCHANGED <<acked, delivered, acks, air>>
    BY <1>3 DEF LastFrame, receiverVars, mediumVars
  <2>3. QED
    BY <1>1, <2>1, <2>2, QuietInvariant
<1>4. QED
  BY <1>2, <1>3

\* Reservations.
LEMMA ReservationInvariant ==
    ASSUME IInv,
           \/ ReservationNears \/ ReservationStops
           \/ \E s, r \in Stations : ReservationStarts(s, r)
    PROVE  IInv'
<1>1. ASSUME ReservationNears PROVE IInv'
  BY <1>1, UnchangedInvariant
  DEF ReservationNears, invariantVars, senderVars, receiverVars, mediumVars
<1>2. ASSUME ReservationStops PROVE IInv'
  <2> DEFINE s == reservation[1]
  <2>1. /\ timer[s] = Off
        /\ partner' = [partner EXCEPT ![s] = NoStation]
        /\ UNCHANGED <<acked, delivered, timer, isWaitingSIFS, acks, air>>
    BY <1>2 DEF ReservationStops, receiverVars, mediumVars
  <2>2. CASE s \in Stations
    BY <2>1, <2>2, PartnerInvariant
  <2>3. CASE s \notin Stations
    <3>1. partner' = partner
      BY <2>1, <2>3 DEF IInv, TypeOK
    <3>2. QED
      BY <2>1, <3>1, UnchangedInvariant DEF invariantVars
  <2>4. QED
    BY <2>2, <2>3
<1>3. ASSUME NEW s \in Stations, NEW r \in Stations, ReservationStarts(s, r)
      PROVE  IInv'
  <2>1. timer[s] = Off
    BY <1>3, NoAccess DEF ReservationStarts
  <2>2. /\ partner' = [partner EXCEPT ![s] = r]
        /\ UNCHANGED <<acked, delivered, acks>>
        /\ SendCompound(s, r) \/ UNCHANGED <<timer, isWaitingSIFS, air>>
    BY <1>3 DEF ReservationStarts, receiverVars, mediumVars
  <2>3. CASE SendCompound(s, r)
    BY <2>1, <2>2, <2>3, SendInvariant
  <2>4. CASE UNCHANGED <<timer, isWaitingSIFS, air>>
    BY <2>1, <2>2, <2>4, PartnerInvariant
  <2>5. QED
    BY <2>2, <2>3, <2>4
<1>4. QED
  BY <1>1, <1>2, <1>3

-----------------------------------------------------------------------------
\* Every step preserves the invariant.
LEMMA NextInvariant == IInv /\ [Next]_vars => IInv'
<1> SUFFICES ASSUME IInv, [Next]_vars PROVE IInv'
  OBVIOUS
<1>1. CASE \E s \in Stations :
             \/ \E r \in Stations : StartAccess(s, r) \/ StartIdleAccess(s, r)
             \/ EndIdleAccess(s)
  BY <1>1, AccessInvariant
<1>2. CASE \E s \in Stations : PreambleOver(s)
  BY <1>2, PreambleInvariant
<1>3. CASE \E s \in Stations : PayloadOver(s)
  BY <1>3, PayloadInvariant
<1>4. CASE \E s \in Stations : TransmitAck(s)
  BY <1>4, TransmitAckInvariant
<1>5. CASE \E s \in Stations : AckOver(s)
  BY <1>5, AckOverInvariant
<1>6. CASE \E s \in Stations : NextFrame(s) \/ LastFrame(s)
  BY <1>6, OnTimeoutInvariant
<1>7. CASE \/ ReservationNears \/ ReservationStops
           \/ \E s, r \in Stations : ReservationStarts(s, r)
  BY <1>7, ReservationInvariant
<1>8. CASE \E s \in Stations : NAVTimeout(s)
  BY <1>8, UnchangedInvariant DEF NAVTimeout, invariantVars, senderVars, receiverVars
<1>9. CASE Tick
  BY <1>9, TickInvariant
<1>10. CASE UNCHANGED vars
  BY <1>10, UnchangedInvariant
  DEF vars, invariantVars, senderVars, receiverVars, mediumVars
<1>11. QED
  BY <1>1, <1>2, <1>3, <1>4, <1>5, <1>6, <1>7, <1>8, <1>9, <1>10 DEF Next

\* The timers of senders, and nothing else, tie acknowledgments to their frames:
\* whatever the durations, the topology and the traffic, and whatever gets lost,
\* the timer of a station runs out with its exchange, and an acknowledgment under
\* way will arrive while exactly SIFS of it is left.
THEOREM InductiveInvariant == Spec => []IInv
  BY InitInvariant, NextInvariant, PTL DEF Spec

\* The timer, the frames and the acknowledgments have their types (ARQ.cpp,
\* TempSendBuffer.hpp:84-101).
THEOREM TypeCorrect == Spec => []TypeOK
  BY InductiveInvariant, PTL DEF IInv

\* A compound leaves the sender's buffer on an acknowledgment (ImmAck,
\* TempSendBuffer.cpp:381-398) only when its receiver has passed it up.
THEOREM AckedWereDelivered == Spec => []AckedWasDelivered
  BY InductiveInvariant, PTL DEF IInv

\* The assertion of TempSendBuffer.cpp:388 holds for every acknowledgment that is
\* under way: its sender still waits, in the same access, for this very frame.
THEOREM AcksFindTheirFrames == Spec => []AckFindsItsFrame
<1>1. IInv => AckFindsItsFrame
  <2> SUFFICES ASSUME IInv, NEW r \in Stations
               PROVE  /\ \A ack \in acks[r] : Acknowledges(r, ack.to)
                      /\ air[r].type = "ACK_PREAMBLE" => Acknowledges(r, air[r].to)
    BY DEF AckFindsItsFrame
  <2>1. ASSUME NEW s, NEW time \in Nat, Awaits(s, r, time)
        PROVE  Acknowledges(r, s)
    <3>1. timer[s] = time + SifsDuration /\ SifsDuration \in Nat
      BY <2>1, Constants DEF Awaits
    <3>2. timer[s] # Off
      BY <3>1 DEF Off
    <3>3. QED
      BY <2>1, <3>2 DEF Awaits, Acknowledges
  <2>2. \A ack \in acks[r] : ack.in + AckDuration \in Nat
    BY Constants DEF IInv, TypeOK, Acks
  <2>3. air[r].left \in Nat
    BY DEF IInv, TypeOK, Frames
  <2>4. QED
    BY <2>1, <2>2, <2>3 DEF IInv, AckAwaited
<1>2. QED
  BY <1>1, InductiveInvariant, PTL

-----------------------------------------------------------------------------
(***************************************************************************)
(* Who transmits when.  No station asks whether the channel is idle before *)
(* it acknowledges or goes on; that it does not transmit then follows from *)
(* what it has heard: the payload, until the acknowledgment was due.       *)
(***************************************************************************)
ChannelStates ==
    [ownTx : BOOLEAN, ownRx : BOOLEAN, phyCarrierSense : BOOLEAN,
     nav : Int, latestNAV : Int, waitForReply : BOOLEAN, lastCS : {"busy", "idle"}]

MediumTypeOK ==
    /\ cs \in [Stations -> ChannelStates]
    /\ locked \in [Stations -> Stations \cup {NoStation}]
    /\ quiet \in [Stations -> Nat]
    /\ reservation \in Links \cup {NoReservation}
    /\ \A s \in Stations : air[s].type = "NONE" => air[s] = Silent

\* What a station transmits or hears keeps its channel busy, and so does its NAV, whose
\* timer runs as long as it lasts.
Current(c) ==
    c.ownTx \/ c.phyCarrierSense \/ c.nav # NavNotSet => c.lastCS = "busy"
NAVExact(c) ==
    IF c.nav = NavNotSet THEN c.latestNAV = 0 ELSE c.nav \in Nat /\ c.latestNAV = c.nav
Sound(c) == Current(c) /\ NAVExact(c)

Hears(r) == \E s \in Neighbours[r] : air[s] # Silent

CarrierSensed ==
    \A r \in Stations :
        /\ Sound(cs[r])
        /\ air[r] # Silent => cs[r].ownTx
        /\ Hears(r) => cs[r].phyCarrierSense

\* A station receives in silence, ...
Receiving(r, s) ==
    /\ s \in Neighbours[r]
    /\ air[s].type = "PAYLOAD"
    /\ air[r] = Silent
    /\ air[s].left < PsduDuration => quiet[r] = 0
    /\ \A ack \in acks[r] : ack.in < air[s].left

ReceptionAlone == \A r \in Stations : locked[r] # NoStation => Receiving(r, locked[r])

\* ... and keeps silent until it acknowledges, and so does the one that waits for it.
Pending(r, ack) ==
    /\ ack.to # r
    /\ quiet[r] + ack.in <= SifsDuration
    /\ air[r] = Silent
    /\ partner[r] \in {ack.to, NoStation}
    /\ acks[ack.to] = {}
    /\ air[ack.to] = Silent
    /\ \A a \in acks[r] : a = ack

AckAlone ==
    \A r \in Stations :
        /\ \A ack \in acks[r] : Pending(r, ack)
        /\ air[r].type = "ACK_PREAMBLE" =>
             /\ air[r].to # r
             /\ quiet[r] <= SifsDuration

\* Until the end of a data frame.
Remaining(frame) ==
    IF frame.type = "DATA_PREAMBLE" THEN frame.left + PsduDuration ELSE frame.left

\* A station whose compound was acknowledged goes on before its partner's frame, if
\* any, could end.
GoesOnAlone ==
    \A r \in Stations : isWaitingSIFS[r] =>
        /\ timer[r] # Off /\ timer[r] <= SifsDuration
        /\ acks[r] = {}
        /\ air[r].type # "ACK_PREAMBLE"
        /\ Sending(partner[r]) => Remaining(air[partner[r]]) > timer[r]

OwnerAlone ==
    reservation # NoReservation =>
        \A s \in Stations : partner[s] = NoStation \/ s = reservation[1]

MediumInv ==
    /\ MediumTypeOK /\ CarrierSensed /\ ReceptionAlone /\ AckAlone /\ GoesOnAlone
    /\ OwnerAlone

-----------------------------------------------------------------------------
\* A receiver's notifications and the NAV leave carrier sense and transmission alone.
Follows(c, d) ==
    /\ d \in ChannelStates
    /\ Sound(c) => Sound(d)
    /\ d.ownTx = c.ownTx /\ d.phyCarrierSense = c.phyCarrierSense

\* Follows is reflexive ...
LEMMA FollowsItself ==
    ASSUME NEW c \in ChannelStates
    PROVE  Follows(c, c)
  BY DEF Follows

\* ... and transitive.
LEMMA FollowsBoth ==
    ASSUME NEW c, NEW d, NEW e, Follows(c, d), Follows(d, e)
    PROVE  Follows(c, e)
  BY DEF Follows

\* A notification of the receiver leaves the NAV as it is.
LEMMA OnRx ==
    ASSUME NEW c \in ChannelStates, NEW signal
    PROVE  LET d == onRx(c, signal) IN
           /\ Follows(c, d) /\ d.nav = c.nav /\ d.latestNAV = c.latestNAV
           /\ d.waitForReply = c.waitForReply
<1> DEFINE d == [c EXCEPT !.ownRx = (signal = "rxStart")]
<1>1. /\ d \in ChannelStates /\ d.ownTx = c.ownTx /\ d.phyCarrierSense = c.phyCarrierSense
      /\ d.nav = c.nav /\ d.latestNAV = c.latestNAV /\ d.waitForReply = c.waitForReply
  BY DEF ChannelStates
<1> HIDE DEF d
<1>2. LET e == checkNewCS(d) IN
      /\ Follows(c, e) /\ e.nav = c.nav /\ e.latestNAV = c.latestNAV
      /\ e.waitForReply = c.waitForReply
  BY <1>1 DEF ChannelStates, Follows, Sound, Current, NAVExact, checkNewCS,
              getCurrentChannelState
<1>3. QED
  BY <1>2 DEF d, onRx

\* As long as it is told to the observers, the NAV may change at will.
LEMMA AnyNAV ==
    ASSUME NEW c \in ChannelStates, NEW d \in ChannelStates,
           d.ownTx = c.ownTx, d.phyCarrierSense = c.phyCarrierSense, NAVExact(d)
    PROVE  Follows(c, checkNewCS(d)) /\ checkNewCS(d).nav = d.nav
  BY DEF ChannelStates, Follows, Sound, Current, NAVExact, checkNewCS,
         getCurrentChannelState

\* A NAV is set to the rest of the exchange of a frame.
LEMMA NAVSet ==
    ASSUME NEW c \in ChannelStates, NEW duration \in Nat
    PROVE  /\ Follows(c, checkNewCS(SetNAV(c, duration)))
           /\ checkNewCS(SetNAV(c, duration)).nav = duration
<1> DEFINE d == SetNAV(c, duration)
<1>0. duration \in Int
  OBVIOUS
<1>1. /\ d \in ChannelStates
      /\ d.ownTx = c.ownTx /\ d.phyCarrierSense = c.phyCarrierSense
      /\ d.nav = duration /\ d.latestNAV = duration
  BY <1>0 DEF SetNAV, ChannelStates
<1>2. NAVExact(d)
  BY <1>1 DEF NAVExact, NavNotSet
<1> HIDE DEF d
<1>3. QED
  BY <1>1, <1>2, AnyNAV DEF d

\* It is not shortened by another frame, unless that is an awaited acknowledgment.
LEMMA Incoming ==
    ASSUME NEW c \in ChannelStates, NEW frame, frame.exchange \in Int
    PROVE  /\ Follows(c, processIncoming(c, frame))
           /\ NAVExact(c) => \/ AwaitedAck(c, frame)
                              \/ processIncoming(c, frame).nav >= c.nav
           /\ NAVExact(c) /\ frame.type # "ACK_PREAMBLE" /\ frame.exchange >= SifsDuration =>
                processIncoming(c, frame).nav >= frame.exchange
<1> DEFINE none == checkNewCS([c EXCEPT !.latestNAV = 0, !.nav = NavNotSet,
                                       !.waitForReply = FALSE])
           set == checkNewCS(SetNAV(c, frame.exchange))
<1>1. Follows(c, c) /\ c.nav \in Int /\ c.latestNAV \in Int
  BY FollowsItself DEF ChannelStates
<1>2. Follows(c, none)
  <2> DEFINE d == [c EXCEPT !.latestNAV = 0, !.nav = NavNotSet, !.waitForReply = FALSE]
  <2>0. NavNotSet \in Int /\ 0 \in Int
    BY DEF NavNotSet
  <2>1. d \in ChannelStates
    BY <2>0 DEF ChannelStates
  <2>2. /\ d.ownTx = c.ownTx /\ d.phyCarrierSense = c.phyCarrierSense
        /\ d.nav = NavNotSet /\ d.latestNAV = 0
    BY DEF ChannelStates
  <2>3. NAVExact(d) /\ none = checkNewCS(d)
    BY <2>2 DEF NAVExact
  <2> HIDE DEF d, none
  <2>4. QED
    BY <2>1, <2>2, <2>3, AnyNAV
<1>3. frame.exchange >= SifsDuration => Follows(c, set) /\ set.nav = frame.exchange
  <2>1. frame.exchange >= SifsDuration => frame.exchange \in Nat
    BY Constants
  <2>2. QED
    BY <2>1, NAVSet
<1> HIDE DEF none, set
<1>4. \/ AwaitedAck(c, frame) /\ processIncoming(c, frame) = none
      \/ /\ processIncoming(c, frame) = c
         /\ \/ frame.type = "ACK_PREAMBLE" /\ frame.forMe
            \/ frame.exchange < SifsDuration
            \/ frame.exchange <= c.latestNAV
      \/ /\ processIncoming(c, frame) = set
         /\ frame.exchange >= SifsDuration /\ frame.exchange > c.latestNAV
  BY <1>1, Constants DEF processIncoming, AwaitedAck, none, set
<1>5. NAVExact(c) => c.latestNAV >= c.nav /\ (c.latestNAV > 0 => c.nav = c.latestNAV)
  BY <1>1 DEF NAVExact, NavNotSet
<1>6. AwaitedAck(c, frame) => frame.type = "ACK_PREAMBLE"
  BY DEF AwaitedAck
<1>7. QED
  BY <1>1, <1>2, <1>3, <1>4, <1>5, <1>6, Constants

\* The NAV ends, and time goes on.
LEMMA NAVEnds ==
    ASSUME NEW c \in ChannelStates, c.nav = 0
    PROVE  Follows(c, NAVOver(c)) /\ NAVOver(c).nav = NavNotSet
<1> DEFINE d == [c EXCEPT !.waitForReply = FALSE, !.nav = NavNotSet]
<1>0. NavNotSet \in Int
  BY DEF NavNotSet
<1>1. /\ d \in ChannelStates
      /\ d.ownTx = c.ownTx /\ d.phyCarrierSense = c.phyCarrierSense
      /\ d.nav = NavNotSet /\ d.latestNAV = c.latestNAV
  BY <1>0 DEF ChannelStates
<1>2. c.nav # NavNotSet
  BY DEF NavNotSet
<1> HIDE DEF d
<1>3. Follows(c, checkNewCS(d)) /\ checkNewCS(d).nav = NavNotSet
  BY <1>1, <1>2 DEF ChannelStates, Follows, Sound, Current, NAVExact, checkNewCS,
                    getCurrentChannelState
<1>4. QED
  BY <1>3 DEF d, NAVOver

\* A running NAV loses one tick; its end is the timer's, see NAVEnds.
LEMMA NAVAges ==
    ASSUME NEW c \in ChannelStates, c.nav # 0
    PROVE  Follows(c, Aged(c)) /\ (Sound(c) /\ c.nav # NavNotSet => Aged(c).nav = c.nav - 1)
<1> DEFINE n == IF c.nav > 0 THEN c.nav - 1 ELSE c.nav
           l == IF c.latestNAV > 0 THEN c.latestNAV - 1 ELSE c.latestNAV
<1>1. /\ c.nav \in Int /\ c.latestNAV \in Int
      /\ n \in Int /\ l \in Int
  BY DEF ChannelStates
<1>2. /\ NAVExact(c) => IF n = NavNotSet THEN l = 0 ELSE n \in Nat /\ l = n
      /\ NAVExact(c) => (n = NavNotSet <=> c.nav = NavNotSet)
      /\ NAVExact(c) /\ c.nav # NavNotSet => n = c.nav - 1
  BY <1>1 DEF NAVExact, NavNotSet
<1>3. Aged(c) = [c EXCEPT !.nav = n, !.latestNAV = l]
  BY DEF Aged
<1> HIDE DEF n, l
<1>4. /\ Aged(c) \in ChannelStates
      /\ Aged(c).nav = n /\ Aged(c).latestNAV = l /\ Aged(c).lastCS = c.lastCS
      /\ Aged(c).ownTx = c.ownTx /\ Aged(c).phyCarrierSense = c.phyCarrierSense
  BY <1>1, <1>3 DEF ChannelStates
<1>5. QED
  BY <1>2, <1>4 DEF Follows, Sound, Current, NAVExact

\* The own transmission starts and ends.
LEMMA TxStarts ==
    ASSUME NEW c \in ChannelStates
    PROVE  /\ onTxStart(c) \in ChannelStates /\ onTxStart(c).ownTx
           /\ NAVExact(c) => NAVExact(onTxStart(c))
           /\ onTxStart(c).nav = c.nav
<1> DEFINE d == [c EXCEPT !.ownTx = TRUE]
<1>1. /\ d \in ChannelStates /\ d.ownTx = TRUE
      /\ d.nav = c.nav /\ d.latestNAV = c.latestNAV
  BY DEF ChannelStates
<1> HIDE DEF d
<1>2. /\ checkNewCS(d) \in ChannelStates /\ checkNewCS(d).ownTx = TRUE
      /\ checkNewCS(d).nav = c.nav /\ checkNewCS(d).latestNAV = c.latestNAV
  BY <1>1 DEF ChannelStates, checkNewCS, getCurrentChannelState
<1>3. QED
  BY <1>2 DEF d, onTxStart, NAVExact

\* The NAV that an own frame sets is never shorter than the one before.
LEMMA TxEnds ==
    ASSUME NEW c \in ChannelStates, NEW frame, frame.exchange \in Int
    PROVE  /\ onTxEnd(c, frame) \in ChannelStates
           /\ NAVExact(c) => NAVExact(onTxEnd(c, frame)) /\ onTxEnd(c, frame).nav >= c.nav
<1> DEFINE e == frame.exchange
           over == [c EXCEPT !.ownTx = FALSE]
           set == [over EXCEPT !.latestNAV = e, !.nav = e, !.waitForReply = TRUE]
<1>1. /\ over \in ChannelStates /\ over.nav = c.nav /\ over.latestNAV = c.latestNAV
      /\ c.nav \in Int /\ c.latestNAV \in Int
  BY DEF ChannelStates
<1>2. \/ onTxEnd(c, frame) = checkNewCS(over)
      \/ /\ onTxEnd(c, frame) = checkNewCS(set)
         /\ e > SifsDuration /\ e > c.latestNAV
  BY DEF onTxEnd, SetNAV
<1> HIDE DEF over
<1>3. set \in ChannelStates /\ set.nav = e /\ set.latestNAV = e
  BY <1>1 DEF ChannelStates
<1> HIDE DEF set
<1>4. ASSUME NEW d \in ChannelStates
      PROVE  /\ checkNewCS(d) \in ChannelStates
             /\ checkNewCS(d).nav = d.nav /\ checkNewCS(d).latestNAV = d.latestNAV
  BY DEF ChannelStates, checkNewCS, getCurrentChannelState
<1>5. CASE onTxEnd(c, frame) = checkNewCS(over)
  BY <1>1, <1>4, <1>5 DEF NAVExact
<1>6. CASE onTxEnd(c, frame) = checkNewCS(set) /\ e > SifsDuration /\ e > c.latestNAV
  <2>1. e \in Nat /\ e # NavNotSet
    BY <1>6, Constants DEF NavNotSet
  <2>2. NAVExact(c) => e >= c.nav
    BY <1>1, <1>6, <2>1 DEF NAVExact, NavNotSet
  <2>3. QED
    BY <1>3, <1>4, <1>6, <2>1, <2>2 DEF NAVExact
<1>7. QED
  BY <1>2, <1>5, <1>6

\* Carrier sense follows the neighbours.
LEMMA SensedFollows ==
    ASSUME NEW c \in [Stations -> ChannelStates],
           cs' = Sensed(c, air'),
           \A r \in Stations : NAVExact(c[r]),
           \A r \in Stations : air'[r] # Silent => c[r].ownTx
    PROVE  /\ cs' \in [Stations -> ChannelStates] /\ CarrierSensed'
           /\ \A r \in Stations : cs'[r].nav = c[r].nav
<1> DEFINE above(r) == \E s \in Neighbours[r] : air'[s] # Silent
<1>1. ASSUME NEW d \in ChannelStates, NEW b \in BOOLEAN, NAVExact(d)
      PROVE  /\ onRSSChange(d, b) \in ChannelStates
             /\ Sound(onRSSChange(d, b))
             /\ onRSSChange(d, b).ownTx = d.ownTx
             /\ onRSSChange(d, b).phyCarrierSense = b
             /\ onRSSChange(d, b).nav = d.nav
  <2> DEFINE e == [d EXCEPT !.phyCarrierSense = b]
  <2>1. /\ e \in ChannelStates /\ e.ownTx = d.ownTx /\ e.phyCarrierSense = b
        /\ e.nav = d.nav /\ e.latestNAV = d.latestNAV
    BY DEF ChannelStates
  <2> HIDE DEF e
  <2>2. /\ checkNewCS(e) \in ChannelStates
        /\ Sound(checkNewCS(e))
        /\ checkNewCS(e).ownTx = d.ownTx
        /\ checkNewCS(e).phyCarrierSense = b
        /\ checkNewCS(e).nav = d.nav
    BY <1>1, <2>1 DEF ChannelStates, Sound, Current, NAVExact, checkNewCS,
                      getCurrentChannelState
  <2>3. QED
    BY <2>2 DEF onRSSChange, e
<1>2. cs' = [r \in Stations |-> onRSSChange(c[r], above(r))]
  BY DEF Sensed
<1>3. ASSUME NEW r \in Stations
      PROVE  /\ cs'[r] \in ChannelStates
             /\ Sound(cs'[r])
             /\ cs'[r].ownTx = c[r].ownTx
             /\ cs'[r].phyCarrierSense = above(r)
             /\ cs'[r].nav = c[r].nav
  <2>1. c[r] \in ChannelStates /\ above(r) \in BOOLEAN /\ NAVExact(c[r])
    OBVIOUS
  <2>2. cs'[r] = onRSSChange(c[r], above(r))
    BY <1>2
  <2> HIDE DEF above
  <2>3. QED
    BY <1>1, <2>1, <2>2
<1>4. cs' \in [Stations -> ChannelStates]
  <2>1. cs' = [r \in Stations |-> cs'[r]]
    BY <1>2
  <2>2. QED
    BY <1>3, <2>1
<1>5. CarrierSensed'
  <2> SUFFICES ASSUME NEW r \in Stations
               PROVE  /\ Sound(cs'[r])
                      /\ air'[r] # Silent => cs'[r].ownTx
                      /\ above(r) => cs'[r].phyCarrierSense
    BY DEF CarrierSensed, Hears, Sound, Current, NAVExact
  <2>1. QED
    BY <1>3
<1>6. QED
  BY <1>3, <1>4, <1>5

\* No transmission begins, and carrier sense stays as it is.
LEMMA CarrierKept ==
    ASSUME CarrierSensed, cs' \in [Stations -> ChannelStates],
           \A r \in Stations : Follows(cs[r], cs'[r]),
           \A r \in Stations : air'[r] # Silent => air[r] # Silent
    PROVE  CarrierSensed'
<1> SUFFICES ASSUME NEW r \in Stations
             PROVE  /\ Sound(cs'[r])
                    /\ air'[r] # Silent => cs'[r].ownTx
                    /\ (\E s \in Neighbours[r] : air'[s] # Silent) => cs'[r].phyCarrierSense
  BY DEF CarrierSensed, Hears, Sound, Current, NAVExact
<1>1. /\ Follows(cs[r], cs'[r])
      /\ Sound(cs[r])
      /\ air[r] # Silent => cs[r].ownTx
      /\ (\E s \in Neighbours[r] : air[s] # Silent) => cs[r].phyCarrierSense
  BY DEF CarrierSensed, Hears
<1>2. Neighbours[r] \subseteq Stations
  BY StationAssumption
<1>3. QED
  BY <1>1, <1>2 DEF Follows

-----------------------------------------------------------------------------
(***************************************************************************)
(* The channel states follow the medium in every step.                     *)
(***************************************************************************)
\* The type part, for steps after which the medium has its type.
LEMMA MediumType ==
    ASSUME MediumTypeOK,
           cs' \in [Stations -> ChannelStates],
           locked' \in [Stations -> Stations \cup {NoStation}],
           quiet' \in [Stations -> Nat],
           reservation' \in Links \cup {NoReservation},
           \A s \in Stations : air'[s].type = "NONE" => air'[s] = Silent
    PROVE  MediumTypeOK'
  BY DEF MediumTypeOK

\* A frame is sent.
LEMMA TransmitCarrier ==
    ASSUME MediumTypeOK, CarrierSensed, air \in [Stations -> Frames],
           NEW s \in Stations, NEW f, f.type # "NONE", Transmit(s, f),
           quiet' = quiet, reservation' \in Links \cup {NoReservation}
    PROVE  /\ MediumTypeOK' /\ CarrierSensed'
           /\ \A r \in Stations : cs'[r].nav = cs[r].nav
<1> DEFINE d == onRx(onTxStart(cs[s]), "rxError")
           c == [cs EXCEPT ![s] = d]
<1>1. cs \in [Stations -> ChannelStates] /\ NAVExact(cs[s])
  BY DEF MediumTypeOK, CarrierSensed, Sound
<1>2. d \in ChannelStates /\ d.ownTx /\ NAVExact(d) /\ d.nav = cs[s].nav
  <2> DEFINE e == onTxStart(cs[s])
  <2>1. e \in ChannelStates /\ e.ownTx /\ NAVExact(e) /\ e.nav = cs[s].nav
    BY <1>1, TxStarts
  <2> HIDE DEF e
  <2>2. Follows(e, onRx(e, "rxError")) /\ onRx(e, "rxError").nav = e.nav
        /\ onRx(e, "rxError").latestNAV = e.latestNAV
    BY <2>1, OnRx
  <2>3. d = onRx(e, "rxError")
    BY DEF e
  <2> HIDE DEF d
  <2>4. QED
    BY <2>1, <2>2, <2>3 DEF Follows, NAVExact
<1>3. cs' = Sensed(c, air') /\ air' = [air EXCEPT ![s] = f]
  BY DEF Transmit
<1> HIDE DEF d
<1>4. /\ c \in [Stations -> ChannelStates]
      /\ \A r \in Stations : r # s => c[r] = cs[r]
      /\ c[s] = d
  BY <1>1, <1>2
<1>5. ASSUME NEW r \in Stations
      PROVE  /\ air'[r] # Silent => c[r].ownTx
             /\ NAVExact(c[r]) /\ c[r].nav = cs[r].nav
  <2>1. CASE r = s
    BY <1>2, <1>4, <2>1
  <2>2. CASE r # s
    BY <1>3, <1>4, <2>2 DEF CarrierSensed, Sound
  <2>3. QED
    BY <2>1, <2>2
<1> HIDE DEF c
<1>6. /\ cs' \in [Stations -> ChannelStates] /\ CarrierSensed'
      /\ \A r \in Stations : cs'[r].nav = cs[r].nav
  BY <1>3, <1>4, <1>5, SensedFollows
<1>7. /\ locked' \in [Stations -> Stations \cup {NoStation}]
      /\ quiet' \in [Stations -> Nat]
      /\ \A r \in Stations : air'[r].type = "NONE" => air'[r] = Silent
  BY <1>3 DEF MediumTypeOK, Transmit
<1>8. QED
  BY <1>6, <1>7, MediumType

\* A preamble ends: those that take it up set their NAV to what it announces.
LEMMA PreambleCarrier ==
    ASSUME IInv, MediumTypeOK, CarrierSensed, NEW s \in Stations, PreambleOver(s)
    PROVE  /\ MediumTypeOK' /\ CarrierSensed'
           /\ \A r \in Stations : cs'[r].nav >= cs[r].nav
           /\ \E T \in SUBSET Listeners(s) :
                /\ locked' = [r \in Stations |-> IF r \in T THEN s ELSE locked[r]]
                /\ announced' = [announced EXCEPT ![s] = [r \in Stations |->
                     IF r \in T THEN (IF txop[s] THEN 2 ELSE 1) ELSE announced[s][r]]]
                /\ \A r \in T \cap Stations :
                     PsduDuration + air[s].exchange >= SifsDuration =>
                        cs'[r].nav >= PsduDuration + air[s].exchange
<1> DEFINE frame(r) == [type |-> "DATA_PREAMBLE", forMe |-> r = air[s].to,
                        exchange |-> PsduDuration + air[s].exchange]
<1>0. /\ air[s] \in Frames
      /\ air' = [air EXCEPT ![s] = [air[s] EXCEPT !.type = "PAYLOAD", !.left = PsduDuration]]
      /\ air[s].type = "DATA_PREAMBLE"
      /\ UNCHANGED <<quiet, reservation>>
  BY DEF PreambleOver, IInv, TypeOK, reserved
<1>1. /\ \A t \in Stations \ {s} : air'[t] = air[t]
      /\ air'[s].type = "PAYLOAD"
  BY <1>0 DEF IInv, TypeOK, Frames
<1>2. PICK T \in SUBSET Listeners(s) :
         /\ locked' = [r \in Stations |-> IF r \in T THEN s ELSE locked[r]]
         /\ cs' = [r \in Stations |->
               IF r \notin T THEN cs[r] ELSE processIncoming(onRx(cs[r], "rxStart"), frame(r))]
         /\ announced' = [announced EXCEPT ![s] = [r \in Stations |->
               IF r \in T THEN (IF txop[s] THEN 2 ELSE 1) ELSE announced[s][r]]]
  BY DEF PreambleOver
<1>3. ASSUME NEW r \in Stations
      PROVE  /\ Follows(cs[r], cs'[r]) /\ cs'[r].nav >= cs[r].nav
             /\ r \in T /\ PsduDuration + air[s].exchange >= SifsDuration =>
                  cs'[r].nav >= PsduDuration + air[s].exchange
  <2> DEFINE e == onRx(cs[r], "rxStart")
             f == frame(r)
  <2>1. /\ cs[r] \in ChannelStates /\ NAVExact(cs[r]) /\ cs[r].nav \in Int
        /\ f.exchange \in Int /\ f.type = "DATA_PREAMBLE"
        /\ f.exchange = PsduDuration + air[s].exchange
    BY <1>0, Constants DEF MediumTypeOK, CarrierSensed, Sound, Frames, ChannelStates
  <2>2. cs'[r] = (IF r \notin T THEN cs[r] ELSE processIncoming(e, f))
    BY <1>2
  <2> HIDE DEF frame, f
  <2>3. Follows(cs[r], cs[r]) /\ Follows(cs[r], e) /\ e.nav = cs[r].nav
        /\ e.latestNAV = cs[r].latestNAV
    BY <2>1, OnRx, FollowsItself
  <2> HIDE DEF e
  <2>4. e \in ChannelStates /\ NAVExact(e)
    BY <2>1, <2>3 DEF Follows, NAVExact
  <2>5. /\ Follows(e, processIncoming(e, f))
        /\ processIncoming(e, f).nav >= e.nav
        /\ f.exchange >= SifsDuration => processIncoming(e, f).nav >= f.exchange
    BY <2>1, <2>4, Incoming DEF AwaitedAck
  <2>6. QED
    BY <2>1, <2>2, <2>3, <2>5, FollowsBoth
<1>4. cs' \in [Stations -> ChannelStates] /\ CarrierSensed'
  <2>1. cs' = [r \in Stations |-> cs'[r]]
    BY <1>2
  <2>2. \A r \in Stations : cs'[r] \in ChannelStates
    BY <1>3 DEF Follows
  <2>3. cs' \in [Stations -> ChannelStates]
    BY <2>1, <2>2
  <2>4. \A r \in Stations : air'[r] # Silent => air[r] # Silent
    BY <1>0, <1>1, Constants
  <2>5. QED
    BY <1>3, <2>3, <2>4, CarrierKept
<1>5. MediumTypeOK'
  <2>1. /\ \A t \in Stations : air'[t].type = "NONE" => air'[t] = Silent
        /\ quiet' \in [Stations -> Nat]
        /\ reservation' \in Links \cup {NoReservation}
    BY <1>0, <1>1 DEF MediumTypeOK
  <2>2. locked' \in [Stations -> Stations \cup {NoStation}]
    BY <1>2 DEF MediumTypeOK
  <2>3. QED
    BY <1>4, <2>1, <2>2, MediumType
<1>6. QED
  BY <1>2, <1>3, <1>4, <1>5

\* A transmission ends: its sender and each receiver are told, the latter with any of
\* several outcomes.
LEMMA EndCarrier ==
    ASSUME IInv, MediumTypeOK, CarrierSensed, NEW s \in Stations,
           air' = [air EXCEPT ![s] = Silent],
           NEW c, c = [r \in Stations |-> c[r]],
           c[s] \in ChannelStates, NAVExact(c[s]),
           \A r \in Stations \ {s} : Follows(cs[r], c[r]),
           cs' = Sensed(c, air'),
           locked' \in [Stations -> Stations \cup {NoStation}],
           UNCHANGED <<quiet, reservation>>
    PROVE  /\ MediumTypeOK' /\ CarrierSensed'
           /\ \A r \in Stations : cs'[r].nav = c[r].nav
<1>1. air'[s] = Silent /\ \A t \in Stations \ {s} : air'[t] = air[t]
  BY DEF IInv, TypeOK
<1>2. \A r \in Stations : c[r] \in ChannelStates /\ NAVExact(c[r])
  BY DEF Follows, CarrierSensed, Sound
<1>3. c \in [Stations -> ChannelStates]
  BY <1>2
<1>4. \A r \in Stations : air'[r] # Silent => c[r].ownTx
  BY <1>1 DEF Follows, CarrierSensed
<1>5. /\ cs' \in [Stations -> ChannelStates] /\ CarrierSensed'
      /\ \A r \in Stations : cs'[r].nav = c[r].nav
  BY <1>2, <1>3, <1>4, SensedFollows
<1>6. /\ quiet' \in [Stations -> Nat]
      /\ reservation' \in Links \cup {NoReservation}
      /\ \A r \in Stations : air'[r].type = "NONE" => air'[r] = Silent
  BY <1>1 DEF MediumTypeOK
<1>7. QED
  BY <1>5, <1>6, MediumType

\* A payload ends, received or not: no NAV gets shorter.
LEMMA PayloadCarrier ==
    ASSUME IInv, MediumTypeOK, CarrierSensed, NEW s \in Stations, PayloadOver(s)
    PROVE  /\ MediumTypeOK' /\ CarrierSensed'
           /\ \A r \in Stations : cs'[r].nav >= cs[r].nav
<1>1. /\ air' = [air EXCEPT ![s] = Silent]
      /\ air[s].exchange \in Int
      /\ UNCHANGED <<quiet, reservation>>
  BY DEF PayloadOver, reserved, IInv, TypeOK, Frames
<1> DEFINE receiving == {q \in Stations : locked[q] = s}
           sent == [exchange |-> air[s].exchange, hasPayload |-> TRUE]
           got(q) == [type |-> "PAYLOAD", forMe |-> q = air[s].to,
                      exchange |-> air[s].exchange]
           heard(T) == [q \in Stations |->
               IF q = s THEN onTxEnd(cs[s], sent)
               ELSE IF q \in T THEN processIncoming(onRx(cs[q], "rxEnd"), got(q))
               ELSE IF q \in receiving THEN onRx(cs[q], "rxError")
               ELSE cs[q]]
<1>2. /\ locked' = [q \in Stations |-> IF q \in receiving THEN NoStation ELSE locked[q]]
      /\ \E T \in SUBSET receiving : cs' = Sensed(heard(T), air')
  BY DEF PayloadOver
<1>3. PICK T \in SUBSET receiving : cs' = Sensed(heard(T), air')
  BY <1>2
<1>4. locked' \in [Stations -> Stations \cup {NoStation}]
  BY <1>2 DEF MediumTypeOK
<1>5. \A q \in Stations : /\ cs[q] \in ChannelStates /\ cs[q].nav \in Int
                          /\ NAVExact(cs[q])
  BY DEF MediumTypeOK, CarrierSensed, Sound, ChannelStates
<1>6. ASSUME NEW q \in Stations
      PROVE  /\ Follows(cs[q], processIncoming(onRx(cs[q], "rxEnd"), got(q)))
             /\ processIncoming(onRx(cs[q], "rxEnd"), got(q)).nav >= cs[q].nav
  <2> DEFINE e == onRx(cs[q], "rxEnd")
             f == got(q)
  <2>1. f.exchange \in Int /\ f.type # "ACK_PREAMBLE"
    BY <1>1
  <2>2. /\ Follows(cs[q], e) /\ e.nav = cs[q].nav /\ e.latestNAV = cs[q].latestNAV
    BY <1>5, OnRx
  <2> HIDE DEF e, f
  <2>3. e \in ChannelStates /\ NAVExact(e)
    BY <1>5, <2>2 DEF Follows, NAVExact
  <2>4. Follows(e, processIncoming(e, f)) /\ processIncoming(e, f).nav >= e.nav
    BY <2>1, <2>3, Incoming DEF AwaitedAck
  <2>5. Follows(cs[q], processIncoming(e, f)) /\ processIncoming(e, f).nav >= cs[q].nav
    BY <2>2, <2>4, FollowsBoth
  <2>6. QED
    BY <2>5 DEF e, f
<1> DEFINE c == heard(T)
<1>7. c = [r \in Stations |-> c[r]]
  OBVIOUS
<1>8. c[s] = onTxEnd(cs[s], sent) /\ sent.exchange \in Int
  BY <1>1
<1>9. \A q \in Stations \ {s} :
        \/ c[q] = processIncoming(onRx(cs[q], "rxEnd"), got(q))
        \/ c[q] = onRx(cs[q], "rxError")
        \/ c[q] = cs[q]
  OBVIOUS
<1> HIDE DEF c, sent, got, heard, receiving
<1>10. c[s] \in ChannelStates /\ NAVExact(c[s]) /\ c[s].nav >= cs[s].nav
  BY <1>5, <1>8, TxEnds
<1>11. \A q \in Stations \ {s} : Follows(cs[q], c[q]) /\ c[q].nav >= cs[q].nav
  BY <1>5, <1>6, <1>9, OnRx, FollowsItself
<1>12. cs' = Sensed(c, air')
  BY <1>3 DEF c
<1>13. QED
  BY <1>1, <1>4, <1>7, <1>10, <1>11, <1>12, EndCarrier

\* An awaited acknowledgment ends the NAV, and with it what was announced.
LEMMA AckOverCarrier ==
    ASSUME IInv, MediumTypeOK, CarrierSensed, NEW s \in Stations, AckOver(s)
    PROVE  /\ MediumTypeOK' /\ CarrierSensed'
           /\ announced' = [t \in Stations |-> announced'[t]]
           /\ \A t \in Stations : announced'[t] = [r \in Stations |-> announced'[t][r]]
           /\ \A r \in Stations :
                \/ \A t \in Stations : announced'[t][r] = 0
                \/ /\ cs'[r].nav >= cs[r].nav
                   /\ \A t \in Stations : announced'[t][r] = announced[t][r]
<1>1. /\ air' = [air EXCEPT ![s] = Silent]
      /\ air[s].exchange \in Int
      /\ UNCHANGED <<quiet, reservation>>
  BY DEF AckOver, reserved, IInv, TypeOK, Frames
<1> DEFINE sent == [exchange |-> air[s].exchange, hasPayload |-> FALSE]
           got(q) == [type |-> "ACK_PREAMBLE", forMe |-> q = air[s].to,
                      exchange |-> air[s].exchange]
           heard(T) == [q \in Stations |->
               IF q = s THEN onTxEnd(cs[s], sent)
               ELSE IF q \in T THEN processIncoming(onRx(cs[q], "rxError"), got(q))
               ELSE cs[q]]
<1>2. PICK T \in SUBSET Listeners(s) :
        /\ locked' = [q \in Stations |-> IF q \in T THEN NoStation ELSE locked[q]]
        /\ cs' = Sensed(heard(T), air')
        /\ announced' = [t \in Stations |-> [r \in Stations |->
               IF r \in T /\ AwaitedAck(cs[r], got(r)) THEN 0 ELSE announced[t][r]]]
  BY DEF AckOver
<1>3. locked' \in [Stations -> Stations \cup {NoStation}]
  BY <1>2 DEF MediumTypeOK
<1>4. /\ announced' = [t \in Stations |-> announced'[t]]
      /\ \A t \in Stations : announced'[t] = [r \in Stations |-> announced'[t][r]]
      /\ \A r \in Stations : \A t \in Stations :
           announced'[t][r] =
             IF r \in T /\ AwaitedAck(cs[r], got(r)) THEN 0 ELSE announced[t][r]
  BY <1>2
<1>5. \A q \in Stations : /\ cs[q] \in ChannelStates /\ cs[q].nav \in Int
                          /\ NAVExact(cs[q])
  BY DEF MediumTypeOK, CarrierSensed, Sound, ChannelStates
<1>6. ASSUME NEW q \in Stations
      PROVE  /\ Follows(cs[q], processIncoming(onRx(cs[q], "rxError"), got(q)))
             /\ \/ AwaitedAck(cs[q], got(q))
                \/ processIncoming(onRx(cs[q], "rxError"), got(q)).nav >= cs[q].nav
  <2> DEFINE e == onRx(cs[q], "rxError")
             f == got(q)
  <2>1. f.exchange \in Int
    BY <1>1
  <2>2. /\ Follows(cs[q], e) /\ e.nav = cs[q].nav /\ e.latestNAV = cs[q].latestNAV
        /\ e.waitForReply = cs[q].waitForReply
    BY <1>5, OnRx
  <2> HIDE DEF e, f
  <2>3. e \in ChannelStates /\ NAVExact(e)
    BY <1>5, <2>2 DEF Follows, NAVExact
  <2>4. /\ Follows(e, processIncoming(e, f))
        /\ AwaitedAck(e, f) \/ processIncoming(e, f).nav >= e.nav
    BY <2>1, <2>3, Incoming
  <2>5. AwaitedAck(e, f) => AwaitedAck(cs[q], f)
    BY <2>2 DEF AwaitedAck
  <2>6. /\ Follows(cs[q], processIncoming(e, f))
        /\ AwaitedAck(cs[q], f) \/ processIncoming(e, f).nav >= cs[q].nav
    BY <2>2, <2>4, <2>5, FollowsBoth
  <2>7. QED
    BY <2>6 DEF e, f
<1> DEFINE c == heard(T)
<1>7. c = [r \in Stations |-> c[r]]
  OBVIOUS
<1>8. c[s] = onTxEnd(cs[s], sent) /\ sent.exchange \in Int
  BY <1>1
<1>9. \A q \in Stations \ {s} :
        \/ q \in T /\ c[q] = processIncoming(onRx(cs[q], "rxError"), got(q))
        \/ c[q] = cs[q]
  OBVIOUS
<1> HIDE DEF c, sent, got, heard
<1>10. c[s] \in ChannelStates /\ NAVExact(c[s]) /\ c[s].nav >= cs[s].nav
  BY <1>5, <1>8, TxEnds
<1>11. \A q \in Stations \ {s} :
         /\ Follows(cs[q], c[q])
         /\ (q \in T /\ AwaitedAck(cs[q], got(q))) \/ c[q].nav >= cs[q].nav
  BY <1>5, <1>6, <1>9, FollowsItself
<1>12. cs' = Sensed(c, air')
  BY <1>2 DEF c
<1>13. /\ MediumTypeOK' /\ CarrierSensed'
       /\ \A r \in Stations : cs'[r].nav = c[r].nav
  BY <1>1, <1>3, <1>7, <1>10, <1>11, <1>12, EndCarrier
<1>14. QED
  BY <1>4, <1>10, <1>11, <1>13

\* Time goes on, and the NAVs with it.
LEMMA TickCarrier ==
    ASSUME IInv, MediumTypeOK, CarrierSensed, Tick
    PROVE  /\ MediumTypeOK' /\ CarrierSensed'
           /\ \A s \in Stations :
                /\ air'[s].type = air[s].type /\ air'[s].to = air[s].to
                /\ air'[s].exchange = air[s].exchange
                /\ air[s] = Silent => air'[s] = Silent
                /\ air[s] # Silent => air'[s].left = air[s].left - 1 /\ air'[s] # Silent
                /\ air[s].left \in Nat
                /\ cs[s].nav # NavNotSet => cs'[s].nav = cs[s].nav - 1
                /\ quiet'[s] \in Nat
                /\ air[s] # Silent \/ Hears(s) \/ cs[s].nav # NavNotSet => quiet'[s] = 0
                /\ quiet[s] <= SifsDuration => quiet'[s] <= quiet[s] + 1
<1> USE Constants
<1>1. /\ \A s \in Stations : (air[s] # Silent => air[s].left > 0) /\ cs[s].nav # 0
      /\ air' = [s \in Stations |-> [air[s] EXCEPT !.left = Left(@)]]
      /\ cs' = [s \in Stations |-> Aged(cs[s])]
      /\ quiet' = [s \in Stations |->
                     IF cs[s].lastCS = "busy" THEN 0
                     ELSE IF quiet[s] < Aifs THEN quiet[s] + 1 ELSE Aifs]
      /\ UNCHANGED <<locked, reservation>>
  BY DEF Tick, reserved
<1>2. ASSUME NEW s \in Stations
      PROVE  /\ air'[s].type = air[s].type /\ air'[s].to = air[s].to
             /\ air'[s].exchange = air[s].exchange
             /\ air[s] = Silent => air'[s] = Silent
             /\ air[s] # Silent => air'[s].left = air[s].left - 1 /\ air'[s] # Silent
             /\ air[s].left \in Nat
  <2>1. air[s] \in Frames /\ air'[s] = [air[s] EXCEPT !.left = Left(air[s].left)]
    BY <1>1 DEF IInv, TypeOK
  <2>2. air[s] # Silent => air[s].type # "NONE" /\ air[s].left > 0
    BY <1>1 DEF MediumTypeOK
  <2>3. CASE air[s] = Silent
    <3>1. air[s].left = 0 /\ Left(0) = 0
      BY <2>3 DEF Silent, Frame, Left
    <3>2. air'[s] = air[s]
      BY <2>1, <3>1 DEF Frames
    <3>3. QED
      BY <2>3, <3>1, <3>2
  <2>4. CASE air[s] # Silent
    <3>1. air[s].left \in Nat /\ Left(air[s].left) = air[s].left - 1
      BY <2>1, <2>2, <2>4 DEF Left, Frames
    <3>2. /\ air'[s].type = air[s].type /\ air'[s].to = air[s].to
          /\ air'[s].exchange = air[s].exchange
          /\ air'[s].left = air[s].left - 1
      BY <2>1, <3>1 DEF Frames
    <3>3. air'[s] # Silent
      BY <2>2, <2>4, <3>2
    <3>4. QED
      BY <2>4, <3>1, <3>2, <3>3
  <2>5. QED
    BY <2>3, <2>4
<1>3. \A s \in Stations : /\ Follows(cs[s], cs'[s])
                          /\ cs[s].nav # NavNotSet => cs'[s].nav = cs[s].nav - 1
  BY <1>1, NAVAges DEF MediumTypeOK, CarrierSensed
<1>4. cs' \in [Stations -> ChannelStates] /\ CarrierSensed'
  <2>1. \A s \in Stations : cs'[s] \in ChannelStates
    BY <1>3 DEF Follows
  <2>2. cs' \in [Stations -> ChannelStates]
    BY <1>1, <2>1
  <2>3. \A s \in Stations : air'[s] # Silent => air[s] # Silent
    BY <1>2
  <2>4. QED
    BY <1>3, <2>2, <2>3, CarrierKept
<1>5. ASSUME NEW s \in Stations
      PROVE  /\ quiet[s] \in Nat /\ quiet'[s] \in Nat
             /\ air[s] # Silent \/ Hears(s) \/ cs[s].nav # NavNotSet => quiet'[s] = 0
             /\ quiet[s] <= SifsDuration => quiet'[s] <= quiet[s] + 1
  <2>1. quiet[s] \in Nat /\ quiet'[s] \in Nat
    BY <1>1, DurationAssumption DEF MediumTypeOK
  <2>2. air[s] # Silent \/ Hears(s) \/ cs[s].nav # NavNotSet => cs[s].lastCS = "busy"
    BY DEF CarrierSensed, Sound, Current
  <2>3. QED
    BY <1>1, <2>1, <2>2, DurationAssumption
<1>6. MediumTypeOK'
  <2>1. /\ locked' \in [Stations -> Stations \cup {NoStation}]
        /\ reservation' \in Links \cup {NoReservation}
    BY <1>1 DEF MediumTypeOK
  <2>2. quiet' \in [Stations -> Nat]
    BY <1>1, <1>5
  <2>3. \A s \in Stations : air'[s].type = "NONE" => air'[s] = Silent
    BY <1>2 DEF MediumTypeOK
  <2>4. QED
    BY <1>4, <2>1, <2>2, <2>3, MediumType
<1>7. QED
  BY <1>2, <1>3, <1>4, <1>5, <1>6

\* A NAV ends.
LEMMA NAVCarrier ==
    ASSUME MediumTypeOK, CarrierSensed, NEW s \in Stations, NAVTimeout(s)
    PROVE  MediumTypeOK' /\ CarrierSensed'
<1>1. /\ cs' = [cs EXCEPT ![s] = NAVOver(cs[s])] /\ cs[s].nav = 0
      /\ UNCHANGED <<air, locked, quiet, reservation>>
      /\ cs \in [Stations -> ChannelStates]
  BY DEF NAVTimeout, reserved, MediumTypeOK
<1>2. \A r \in Stations : Follows(cs[r], cs'[r])
  <2>1. Follows(cs[s], NAVOver(cs[s]))
    BY <1>1, NAVEnds
  <2>2. \A r \in Stations : Follows(cs[r], cs[r])
    BY <1>1, FollowsItself
  <2>3. QED
    BY <1>1, <2>1, <2>2
<1>3. cs' \in [Stations -> ChannelStates]
  BY <1>1, <1>2 DEF Follows
<1>4. CarrierSensed'
  BY <1>1, <1>2, <1>3, CarrierKept
<1>5. MediumTypeOK'
  BY <1>1, <1>3 DEF MediumTypeOK
<1>6. QED
  BY <1>4, <1>5

\* Nothing happens on the medium.
LEMMA UnchangedCarrier ==
    ASSUME MediumTypeOK, CarrierSensed, UNCHANGED <<mediumVars, quiet>>,
           reservation' \in Links \cup {NoReservation}
    PROVE  MediumTypeOK' /\ CarrierSensed'
<1>1. UNCHANGED <<air, locked, cs>>
  BY DEF mediumVars
<1>2. QED
  BY <1>1 DEF MediumTypeOK, CarrierSensed, Hears, Sound, Current, NAVExact

-----------------------------------------------------------------------------
(***************************************************************************)
(* Frames and accesses.                                                    *)
(***************************************************************************)
\* What the acknowledgments are.
LEMMA AckTypes ==
    ASSUME IInv, NEW r \in Stations, NEW ack \in acks[r]
    PROVE  /\ ack.to \in Stations /\ ack.in \in Nat
           /\ ack.exchange \in Int
           /\ partner[ack.to] = r /\ ~isWaitingSIFS[ack.to]
           /\ timer[ack.to] = ack.in + AckDuration + SifsDuration
<1>1. ack \in Acks
  BY DEF IInv, TypeOK
<1>2. Awaits(ack.to, r, ack.in + AckDuration)
  BY DEF IInv, AckAwaited
<1>3. QED
  BY <1>1, <1>2 DEF Acks, Awaits

\* After AIFS of silence a station has nothing to acknowledge.
LEMMA NothingToAcknowledge ==
    ASSUME IInv, MediumInv, NEW r \in Stations, quiet[r] = Aifs
    PROVE  acks[r] = {}
<1> SUFFICES ASSUME NEW ack \in acks[r] PROVE FALSE
  OBVIOUS
<1>1. quiet[r] + ack.in <= SifsDuration
  BY DEF MediumInv, AckAlone, Pending
<1>2. ack.in \in Nat
  BY AckTypes
<1>3. QED
  BY <1>1, <1>2, Constants, DurationAssumption

\* Who waits for SIFS has a partner.
LEMMA WaitingHasPartner ==
    ASSUME IInv, MediumInv, NEW r \in Stations, isWaitingSIFS[r]
    PROVE  timer[r] \in Nat /\ timer[r] # Off /\ partner[r] \in Stations
  BY DEF IInv, TypeOK, TimerInAccess, MediumInv, GoesOnAlone

\* A frame is sent by a station that has nothing to acknowledge.
LEMMA SendMedium ==
    ASSUME SifsDuration < PsduDuration,
           IInv, MediumInv, NEW s \in Stations, NEW r \in Stations, SendCompound(s, r),
           timer[s] \in {Off, 0}, acks[s] = {},
           partner' = [partner EXCEPT ![s] = r],
           reservation' \in Links \cup {NoReservation}, OwnerAlone',
           UNCHANGED <<acks, quiet>>
    PROVE  MediumInv'
<1> USE Constants
<1>1. PICK f \in Frames :
        /\ air' = [air EXCEPT ![s] = f]
        /\ f.type = "DATA_PREAMBLE" /\ f.to = r
        /\ f.left = PreambleDuration
        /\ f.number = acked[<<s, r>>] + 1
        /\ timer' = [timer EXCEPT ![s] = FT]
        /\ isWaitingSIFS' = [isWaitingSIFS EXCEPT ![s] = FALSE]
  BY SendEffect
<1>2. PICK g : Transmit(s, g) /\ g.type = "DATA_PREAMBLE"
  BY DEF SendCompound, Frame
<1>3. /\ air'[s] = f /\ isWaitingSIFS'[s] = FALSE
      /\ partner'[s] = r /\ locked'[s] = NoStation
      /\ \A t \in Stations \ {s} :
            /\ air'[t] = air[t] /\ timer'[t] = timer[t]
            /\ isWaitingSIFS'[t] = isWaitingSIFS[t] /\ partner'[t] = partner[t]
            /\ locked'[t] = locked[t]
      /\ locked' \in [Stations -> Stations \cup {NoStation}]
  BY <1>1, <1>2 DEF IInv, TypeOK, MediumInv, MediumTypeOK, Transmit
<1>4. MediumTypeOK' /\ CarrierSensed'
  BY <1>2, TransmitCarrier DEF MediumInv, IInv, TypeOK
<1>6. ~Sending(s) /\ \A t \in Stations : \A ack \in acks[t] : ack.to # s
  BY NothingUnderWay
<1>7. ReceptionAlone'
  <2> SUFFICES ASSUME NEW t \in Stations, locked'[t] # NoStation
               PROVE  Receiving(t, locked[t])'
    BY DEF ReceptionAlone
  <2>1. t # s /\ locked'[t] = locked[t]
    BY <1>3
  <2>2. Receiving(t, locked[t]) /\ locked[t] \in Stations
    BY <2>1 DEF MediumInv, MediumTypeOK, ReceptionAlone
  <2>3. locked[t] # s
    BY <1>6, <2>2 DEF Receiving, Sending
  <2>4. air'[t] = air[t] /\ air'[locked[t]] = air[locked[t]]
    BY <1>3, <2>1, <2>2, <2>3
  <2>5. QED
    BY <2>1, <2>2, <2>4 DEF Receiving
<1>8. AckAlone'
  <2> SUFFICES ASSUME NEW t \in Stations
               PROVE  /\ \A ack \in acks[t] : Pending(t, ack)'
                      /\ air'[t].type = "ACK_PREAMBLE" =>
                           air'[t].to # t /\ quiet[t] <= SifsDuration
    BY DEF AckAlone
  <2>1. ASSUME NEW ack \in acks[t] PROVE Pending(t, ack)'
    <3>1. Pending(t, ack) /\ t # s /\ ack.to # s /\ ack.to \in Stations
      BY <1>6, AckTypes DEF MediumInv, AckAlone
    <3>2. QED
      BY <1>3, <3>1 DEF Pending
  <2>2. QED
    BY <1>1, <1>3, <2>1 DEF MediumInv, AckAlone
<1>9. GoesOnAlone'
  <2> SUFFICES ASSUME NEW t \in Stations, isWaitingSIFS'[t]
               PROVE  /\ timer'[t] # Off /\ timer'[t] <= SifsDuration
                      /\ acks[t] = {}
                      /\ air'[t].type # "ACK_PREAMBLE"
                      /\ Sending(partner[t])' => Remaining(air'[partner'[t]]) > timer'[t]
    BY DEF GoesOnAlone, Remaining
  <2>1. t # s /\ isWaitingSIFS[t]
    BY <1>3
  <2>2. /\ timer[t] # Off /\ timer[t] <= SifsDuration
        /\ acks[t] = {}
        /\ air[t].type # "ACK_PREAMBLE"
        /\ Sending(partner[t]) => Remaining(air[partner[t]]) > timer[t]
    BY <2>1 DEF MediumInv, GoesOnAlone
  <2>3. partner[t] \in Stations /\ timer[t] \in Nat
    BY <2>1, WaitingHasPartner
  <2>4. CASE partner[t] = s
    <3>1. Remaining(air'[s]) = PreambleDuration + PsduDuration
      BY <1>1, <1>3 DEF Remaining
    <3>2. QED
      BY <1>3, <2>1, <2>2, <2>3, <2>4, <3>1
  <2>5. CASE partner[t] # s
    BY <1>3, <2>1, <2>2, <2>3, <2>5 DEF Sending
  <2>6. QED
    BY <2>4, <2>5
<1>10. QED
  BY <1>4, <1>7, <1>8, <1>9 DEF MediumInv

\* An access begins or ends without a frame.
LEMMA AccessMedium ==
    ASSUME IInv, MediumInv, NEW s \in Stations, NEW p \in Stations \cup {NoStation},
           ~isWaitingSIFS'[s],
           p \in {NoStation, partner[s]} \/ acks[s] = {},
           partner' = [partner EXCEPT ![s] = p],
           \A t \in Stations \ {s} :
              timer'[t] = timer[t] /\ isWaitingSIFS'[t] = isWaitingSIFS[t],
           reservation' \in Links \cup {NoReservation}, OwnerAlone',
           UNCHANGED <<acks, quiet, mediumVars>>
    PROVE  MediumInv'
<1>0. /\ UNCHANGED <<air, locked, cs>>
      /\ partner'[s] = p /\ \A t \in Stations \ {s} : partner'[t] = partner[t]
  BY DEF mediumVars, IInv, TypeOK
<1>1. MediumTypeOK' /\ CarrierSensed'
  BY UnchangedCarrier DEF MediumInv
<1>2. ReceptionAlone'
  BY <1>0 DEF MediumInv, ReceptionAlone, Receiving
<1>3. AckAlone'
  <2> SUFFICES ASSUME NEW t \in Stations, NEW ack \in acks[t]
               PROVE  Pending(t, ack)'
    BY <1>0 DEF MediumInv, AckAlone
  <2>1. Pending(t, ack)
    BY DEF MediumInv, AckAlone
  <2>2. partner'[t] \in {ack.to, NoStation}
    BY <1>0, <2>1 DEF Pending
  <2>3. QED
    BY <1>0, <2>1, <2>2 DEF Pending
<1>4. GoesOnAlone'
  <2> SUFFICES ASSUME NEW t \in Stations, isWaitingSIFS'[t]
               PROVE  /\ timer'[t] # Off /\ timer'[t] <= SifsDuration
                      /\ acks[t] = {}
                      /\ air[t].type # "ACK_PREAMBLE"
                      /\ Sending(partner[t])' => Remaining(air[partner'[t]]) > timer'[t]
    BY <1>0 DEF GoesOnAlone, Remaining
  <2>1. t # s /\ isWaitingSIFS[t] /\ timer'[t] = timer[t] /\ partner'[t] = partner[t]
    BY <1>0
  <2>2. QED
    BY <1>0, <2>1 DEF MediumInv, GoesOnAlone, Sending
<1>5. QED
  BY <1>1, <1>2, <1>3, <1>4 DEF MediumInv

-----------------------------------------------------------------------------
(***************************************************************************)
(* The phases of an exchange on the medium.                                *)
(***************************************************************************)
\* A preamble ends: those that take it up hear the payload in silence.
LEMMA PreambleMedium ==
    ASSUME SifsDuration < PsduDuration, IInv, MediumInv, NEW s \in Stations, PreambleOver(s)
    PROVE  MediumInv'
<1> USE Constants
<1>0. /\ air[s] \in Frames
      /\ air' = [air EXCEPT ![s] = [air[s] EXCEPT !.type = "PAYLOAD", !.left = PsduDuration]]
      /\ air[s].type = "DATA_PREAMBLE" /\ air[s].left = 0
      /\ UNCHANGED <<acked, delivered, partner, timer, isWaitingSIFS, acks, quiet, reservation>>
  BY DEF PreambleOver, IInv, TypeOK, senderVars, receiverVars, reserved
<1>1. /\ \A t \in Stations \ {s} : air'[t] = air[t]
      /\ air'[s].type = "PAYLOAD" /\ air'[s].left = PsduDuration
  BY <1>0 DEF IInv, TypeOK, Frames
<1>2. PICK T \in SUBSET Listeners(s) :
         locked' = [r \in Stations |-> IF r \in T THEN s ELSE locked[r]]
  BY DEF PreambleOver
<1>3. MediumTypeOK' /\ CarrierSensed'
  BY PreambleCarrier DEF MediumInv
<1>6. ReceptionAlone'
  <2> SUFFICES ASSUME NEW t \in Stations, locked'[t] # NoStation
               PROVE  Receiving(t, locked[t])'
    BY DEF ReceptionAlone
  <2>1. CASE t \in T
    <3>1. t \in Neighbours[s] /\ air[t] = Silent /\ locked'[t] = s
      BY <1>2, <2>1 DEF Listeners
    <3>2. s \in Neighbours[t] /\ t # s
      BY <3>1, StationAssumption
    <3>3. \A ack \in acks[t] : ack.in < PsduDuration
      <4> SUFFICES ASSUME NEW ack \in acks[t] PROVE ack.in < PsduDuration
        OBVIOUS
      <4>1. quiet[t] + ack.in <= SifsDuration /\ ack.in \in Nat /\ quiet[t] \in Nat
        BY AckTypes DEF MediumInv, AckAlone, Pending, MediumTypeOK
      <4>2. QED
        BY <4>1
    <3>4. QED
      BY <1>0, <1>1, <3>1, <3>2, <3>3 DEF Receiving
  <2>2. CASE t \notin T
    <3>1. locked'[t] = locked[t]
      BY <1>2, <2>2
    <3>2. Receiving(t, locked[t]) /\ locked[t] \in Stations
      BY <3>1 DEF MediumInv, MediumTypeOK, ReceptionAlone
    <3>3. t # s /\ locked[t] # s
      BY <1>0, <3>2 DEF Receiving
    <3>4. QED
      BY <1>0, <1>1, <3>1, <3>2, <3>3 DEF Receiving
  <2>3. QED
    BY <2>1, <2>2
<1>7. air[s] # Silent
  BY <1>0
<1>8. AckAlone'
  <2> SUFFICES ASSUME NEW t \in Stations
               PROVE  /\ \A ack \in acks[t] : Pending(t, ack)'
                      /\ air'[t].type = "ACK_PREAMBLE" =>
                           air'[t].to # t /\ quiet[t] <= SifsDuration
    BY <1>0 DEF AckAlone
  <2>1. ASSUME NEW ack \in acks[t] PROVE Pending(t, ack)'
    <3>1. Pending(t, ack) /\ ack.to \in Stations
      BY AckTypes DEF MediumInv, AckAlone
    <3>2. t # s /\ ack.to # s
      BY <1>7, <3>1 DEF Pending
    <3>3. QED
      BY <1>0, <1>1, <3>1, <3>2 DEF Pending
  <2>2. QED
    BY <1>1, <2>1 DEF MediumInv, AckAlone
<1>9. GoesOnAlone'
  <2> SUFFICES ASSUME NEW t \in Stations, isWaitingSIFS[t]
               PROVE  /\ timer[t] # Off /\ timer[t] <= SifsDuration
                      /\ acks[t] = {}
                      /\ air'[t].type # "ACK_PREAMBLE"
                      /\ Sending(partner[t])' => Remaining(air'[partner[t]]) > timer[t]
    BY <1>0 DEF GoesOnAlone, Remaining
  <2>1. /\ timer[t] # Off /\ timer[t] <= SifsDuration
        /\ acks[t] = {}
        /\ air[t].type # "ACK_PREAMBLE"
        /\ Sending(partner[t]) => Remaining(air[partner[t]]) > timer[t]
        /\ partner[t] \in Stations /\ timer[t] \in Nat
    BY WaitingHasPartner DEF MediumInv, GoesOnAlone
  <2>2. CASE partner[t] = s
    <3>1. Remaining(air'[s]) = PsduDuration
      BY <1>1 DEF Remaining
    <3>2. QED
      BY <1>1, <2>1, <2>2, <3>1
  <2>3. CASE partner[t] # s
    BY <1>0, <1>1, <2>1, <2>3 DEF Sending
  <2>4. QED
    BY <2>2, <2>3
<1>10. OwnerAlone'
  BY <1>0 DEF MediumInv, OwnerAlone
<1>11. QED
  BY <1>3, <1>6, <1>8, <1>9, <1>10 DEF MediumInv

\* The acknowledgment that is due is transmitted: its sender is silent, and has no
\* other.
LEMMA TransmitAckMedium ==
    ASSUME IInv, MediumInv, NEW r \in Stations, TransmitAck(r)
    PROVE  MediumInv'
<1> USE Constants
<1>1. PICK due \in acks[r] :
        /\ due.in = 0
        /\ acks' = [acks EXCEPT ![r] = @ \ {due}]
        /\ IF air[r] = Silent
           THEN Transmit(r, Frame("ACK_PREAMBLE", due.to, 0, due.exchange, AckDuration))
           ELSE UNCHANGED mediumVars
        /\ UNCHANGED <<partner, timer, isWaitingSIFS, quiet, reservation>>
  BY DEF TransmitAck, senderVars, reserved
<1>2. Pending(r, due) /\ due.to \in Stations /\ partner[due.to] = r
  BY AckTypes DEF MediumInv, AckAlone
<1> DEFINE f == Frame("ACK_PREAMBLE", due.to, 0, due.exchange, AckDuration)
<1>3. air[r] = Silent /\ Transmit(r, f)
  BY <1>1, <1>2 DEF Pending
<1>4. f.type = "ACK_PREAMBLE" /\ f.to = due.to
  BY DEF Frame
<1> HIDE DEF f
<1>5. /\ air'[r] = f /\ locked'[r] = NoStation /\ acks'[r] = {}
      /\ \A t \in Stations \ {r} :
            air'[t] = air[t] /\ locked'[t] = locked[t] /\ acks'[t] = acks[t]
      /\ locked' \in [Stations -> Stations \cup {NoStation}]
  <2>1. acks[r] = {due}
    BY <1>2 DEF Pending
  <2>2. QED
    BY <1>1, <1>3, <2>1 DEF IInv, TypeOK, MediumInv, MediumTypeOK, Transmit
<1>6. MediumTypeOK' /\ CarrierSensed'
  <2>1. quiet' = quiet /\ reservation' \in Links \cup {NoReservation}
    BY <1>1 DEF MediumInv, MediumTypeOK
  <2>2. f.type # "NONE"
    BY <1>4
  <2>3. QED
    BY <1>3, <2>1, <2>2, TransmitCarrier DEF MediumInv, IInv, TypeOK
<1>8. ReceptionAlone'
  <2> SUFFICES ASSUME NEW t \in Stations, locked'[t] # NoStation
               PROVE  Receiving(t, locked[t])'
    BY DEF ReceptionAlone
  <2>1. t # r /\ locked'[t] = locked[t]
    BY <1>5
  <2>2. Receiving(t, locked[t]) /\ locked[t] \in Stations
    BY <2>1 DEF MediumInv, MediumTypeOK, ReceptionAlone
  <2>3. locked[t] # r
    BY <1>3, <2>2 DEF Receiving
  <2>4. QED
    BY <1>1, <1>5, <2>1, <2>2, <2>3 DEF Receiving
<1>9. AckAlone'
  <2> SUFFICES ASSUME NEW t \in Stations
               PROVE  /\ \A ack \in acks'[t] : Pending(t, ack)'
                      /\ air'[t].type = "ACK_PREAMBLE" =>
                           air'[t].to # t /\ quiet[t] <= SifsDuration
    BY <1>1 DEF AckAlone
  <2>1. ASSUME NEW ack \in acks'[t] PROVE Pending(t, ack)'
    <3>1. t # r /\ ack \in acks[t]
      BY <1>5, <2>1
    <3>2. Pending(t, ack) /\ ack.to \in Stations
      BY <3>1, AckTypes DEF MediumInv, AckAlone
    <3>3. ack.to # r
      BY <3>2 DEF Pending
    <3>4. QED
      BY <1>1, <1>5, <3>1, <3>2, <3>3 DEF Pending
  <2>2. CASE t = r
    <3>1. due.to # r /\ quiet[r] + due.in <= SifsDuration /\ quiet[r] \in Nat
      BY <1>2 DEF Pending, MediumInv, MediumTypeOK
    <3>2. QED
      BY <1>1, <1>4, <1>5, <2>1, <2>2, <3>1
  <2>3. CASE t # r
    BY <1>5, <2>1, <2>3 DEF MediumInv, AckAlone
  <2>4. QED
    BY <2>2, <2>3
<1>10. GoesOnAlone'
  <2> SUFFICES ASSUME NEW t \in Stations, isWaitingSIFS[t]
               PROVE  /\ timer[t] # Off /\ timer[t] <= SifsDuration
                      /\ acks'[t] = {}
                      /\ air'[t].type # "ACK_PREAMBLE"
                      /\ Sending(partner[t])' => Remaining(air'[partner[t]]) > timer[t]
    BY <1>1 DEF GoesOnAlone, Remaining
  <2>1. /\ timer[t] # Off /\ timer[t] <= SifsDuration
        /\ acks[t] = {}
        /\ air[t].type # "ACK_PREAMBLE"
        /\ Sending(partner[t]) => Remaining(air[partner[t]]) > timer[t]
        /\ partner[t] \in Stations
    BY WaitingHasPartner DEF MediumInv, GoesOnAlone
  <2>2. t # r
    BY <2>1
  <2>3. CASE partner[t] = r
    BY <1>1, <1>4, <1>5, <2>1, <2>2, <2>3 DEF Sending
  <2>4. CASE partner[t] # r
    BY <1>1, <1>5, <2>1, <2>2, <2>4 DEF Sending
  <2>5. QED
    BY <2>3, <2>4
<1>11. OwnerAlone'
  BY <1>1 DEF MediumInv, OwnerAlone
<1>12. QED
  BY <1>6, <1>8, <1>9, <1>10, <1>11 DEF MediumInv

\* A payload ends: who takes it has heard nothing but it, so that it has nothing
\* else to acknowledge, and its sender waits in silence.
LEMMA PayloadMedium ==
    ASSUME IInv, MediumInv, NEW s \in Stations, PayloadOver(s)
    PROVE  MediumInv'
<1> USE Constants
<1>1. /\ air[s].type = "PAYLOAD" /\ air[s].left = 0
      /\ air[s] \in Frames /\ air[s] # Silent
      /\ air' = [air EXCEPT ![s] = Silent]
      /\ UNCHANGED <<acked, partner, timer, isWaitingSIFS, quiet, reservation>>
  BY DEF PayloadOver, senderVars, reserved, IInv, TypeOK
<1>2. air'[s] = Silent /\ \A t \in Stations \ {s} : air'[t] = air[t]
  BY <1>1 DEF IInv, TypeOK
<1> DEFINE r == air[s].to
           receiving == {q \in Stations : locked[q] = s}
<1>3. /\ r \in Stations /\ partner[s] = r /\ ~isWaitingSIFS[s]
      /\ Sending(s)
  BY <1>1 DEF IInv, SendingAwaits, Sending
<1>4. /\ locked' = [q \in Stations |-> IF q \in receiving THEN NoStation ELSE locked[q]]
      /\ \E T \in SUBSET receiving :
           LET takers == {q \in T : Takes(q, s, r)}
           IN  IF takers = {} THEN UNCHANGED receiverVars
               ELSE \E q \in takers :
                       /\ delivered' = [delivered EXCEPT ![<<s, q>>] = air[s].number]
                       /\ CreateACK(q, s, air[s].exchange)
  BY DEF PayloadOver
<1>5. PICK T \in SUBSET receiving :
        \/ acks' = acks
        \/ r \in T /\ TakesFrom(r, s) /\ CreateACK(r, s, air[s].exchange)
  BY <1>4 DEF Takes, receiverVars
<1>6. MediumTypeOK' /\ CarrierSensed'
  BY PayloadCarrier DEF MediumInv
<1>8. \A q \in Stations : locked'[q] # NoStation => locked'[q] = locked[q] /\ locked[q] # s
  BY <1>4
\* The new acknowledgment.
<1>9. ASSUME acks' # acks
      PROVE  /\ locked[r] = s /\ r # s
             /\ air[r] = Silent /\ quiet[r] = 0 /\ acks[r] = {}
             /\ partner[r] \in {s, NoStation}
             /\ \A q \in Stations \ {r} : acks'[q] = acks[q]
             /\ \E new : new.to = s /\ new.in = SifsDuration /\ acks'[r] = {new}
  <2>1. r \in T /\ TakesFrom(r, s) /\ CreateACK(r, s, air[s].exchange)
    BY <1>5, <1>9
  <2>2. locked[r] = s
    BY <2>1
  <2>3. Receiving(r, s)
    BY <1>3, <2>2, StationAssumption DEF MediumInv, ReceptionAlone
  <2>4. r # s /\ air[r] = Silent /\ quiet[r] = 0
    BY <1>1, <2>3 DEF Receiving
  <2>5. acks[r] = {}
    <3> SUFFICES ASSUME NEW ack \in acks[r] PROVE FALSE
      OBVIOUS
    <3>1. ack.in < 0 /\ ack.in \in Nat
      BY <1>1, <1>3, <2>3, AckTypes DEF Receiving
    <3>2. QED
      BY <3>1
  <2> DEFINE fxDur == air[s].exchange - SifsDuration - AckDuration
             new == [to |-> s, in |-> SifsDuration,
                     exchange |-> IF fxDur < SifsDuration THEN 0 ELSE fxDur]
  <2>6. new.to = s /\ new.in = SifsDuration
    OBVIOUS
  <2>7. acks' = [acks EXCEPT ![r] = acks[r] \cup {new}] /\ acks \in [Stations -> SUBSET Acks]
    BY <2>1 DEF CreateACK, IInv, TypeOK
  <2> HIDE DEF new
  <2>8. acks'[r] = {new} /\ \A q \in Stations \ {r} : acks'[q] = acks[q]
    BY <1>3, <2>5, <2>7
  <2>9. partner[r] \in {s, NoStation}
    BY <2>1 DEF TakesFrom
  <2>10. QED
    BY <2>2, <2>4, <2>5, <2>6, <2>8, <2>9
<1> HIDE DEF receiving
<1>10. ReceptionAlone'
  <2> SUFFICES ASSUME NEW t \in Stations, locked'[t] # NoStation
               PROVE  Receiving(t, locked[t])'
    BY DEF ReceptionAlone
  <2>1. locked'[t] = locked[t] /\ locked[t] # s
    BY <1>8
  <2>2. Receiving(t, locked[t]) /\ locked[t] \in Stations
    BY <2>1 DEF MediumInv, MediumTypeOK, ReceptionAlone
  <2>3. t # s
    BY <1>1, <2>2 DEF Receiving
  <2>4. acks'[t] = acks[t]
    BY <1>9, <2>1
  <2>5. QED
    BY <1>1, <1>2, <2>1, <2>2, <2>3, <2>4 DEF Receiving
<1>11. AckAlone'
  <2> SUFFICES ASSUME NEW t \in Stations
               PROVE  /\ \A ack \in acks'[t] : Pending(t, ack)'
                      /\ air'[t].type = "ACK_PREAMBLE" =>
                           air'[t].to # t /\ quiet[t] <= SifsDuration
    BY <1>1 DEF AckAlone
  <2>1. ASSUME NEW ack \in acks'[t], ack \in acks[t] PROVE Pending(t, ack)'
    <3>1. Pending(t, ack) /\ ack.to \in Stations /\ partner[ack.to] = t
      BY <2>1, AckTypes DEF MediumInv, AckAlone
    <3>2. t # s /\ ack.to # s
      BY <1>1, <3>1 DEF Pending
    <3>3. acks'[t] = acks[t] /\ acks'[ack.to] = acks[ack.to]
      BY <1>9, <2>1, <3>1, <3>2
    <3>4. QED
      BY <1>1, <1>2, <3>1, <3>2, <3>3 DEF Pending
  <2>2. ASSUME NEW ack \in acks'[t], ack \notin acks[t] PROVE Pending(t, ack)'
    <3>1. acks' # acks /\ t = r
      BY <1>9, <2>2
    <3>2. /\ r # s /\ air[r] = Silent /\ quiet[r] = 0
          /\ partner[r] \in {s, NoStation}
          /\ acks'[s] = acks[s] /\ acks'[r] = {ack}
          /\ ack.to = s /\ ack.in = SifsDuration
      BY <1>9, <2>2, <3>1
    <3>3. acks[s] = {}
      BY <1>1 DEF MediumInv, AckAlone, Pending
    <3>4. QED
      BY <1>1, <1>2, <1>3, <3>1, <3>2, <3>3 DEF Pending
  <2>3. air'[t].type = "ACK_PREAMBLE" => air'[t].to # t /\ quiet[t] <= SifsDuration
    BY <1>2 DEF MediumInv, AckAlone
  <2>4. QED
    BY <2>1, <2>2, <2>3
<1>12. GoesOnAlone'
  <2> SUFFICES ASSUME NEW t \in Stations, isWaitingSIFS[t]
               PROVE  /\ timer[t] # Off /\ timer[t] <= SifsDuration
                      /\ acks'[t] = {}
                      /\ air'[t].type # "ACK_PREAMBLE"
                      /\ Sending(partner[t])' => Remaining(air'[partner[t]]) > timer[t]
    BY <1>1 DEF GoesOnAlone, Remaining
  <2>1. /\ timer[t] # Off /\ timer[t] <= SifsDuration
        /\ acks[t] = {}
        /\ air[t].type # "ACK_PREAMBLE"
        /\ Sending(partner[t]) => Remaining(air[partner[t]]) > timer[t]
        /\ partner[t] \in Stations /\ timer[t] \in Nat
    BY WaitingHasPartner DEF MediumInv, GoesOnAlone
  <2>2. partner[t] # s
    <3> SUFFICES ASSUME partner[t] = s PROVE FALSE
      OBVIOUS
    <3>1. 0 > timer[t]
      BY <1>1, <1>3, <2>1 DEF Remaining
    <3>2. QED
      BY <2>1, <3>1
  <2>3. acks'[t] = {}
    <3>1. CASE acks' = acks
      BY <2>1, <3>1
    <3>2. CASE acks' # acks
      BY <1>9, <2>1, <2>2, <3>2
    <3>3. QED
      BY <3>1, <3>2
  <2>4. QED
    BY <1>1, <1>2, <2>1, <2>2, <2>3 DEF Sending
<1>13. OwnerAlone'
  BY <1>1 DEF MediumInv, OwnerAlone
<1>14. QED
  BY <1>6, <1>10, <1>11, <1>12, <1>13 DEF MediumInv

\* An acknowledgment ends: who goes on after it has nothing to acknowledge, for only
\* its partner could have sent to it, and that has just acknowledged.
LEMMA AckOverMedium ==
    ASSUME IInv, MediumInv, NEW s \in Stations, AckOver(s)
    PROVE  MediumInv'
<1> USE Constants
<1>1. /\ air[s].type = "ACK_PREAMBLE" /\ air[s].left = 0
      /\ air[s] \in Frames /\ air[s] # Silent
      /\ air' = [air EXCEPT ![s] = Silent]
      /\ UNCHANGED <<acks, quiet, reservation>>
  BY DEF AckOver, receiverVars, reserved, IInv, TypeOK
<1>2. air'[s] = Silent /\ \A t \in Stations \ {s} : air'[t] = air[t]
  BY <1>1 DEF IInv, TypeOK
<1> DEFINE r == air[s].to
<1>3. PICK T \in SUBSET Listeners(s) :
        /\ locked' = [q \in Stations |-> IF q \in T THEN NoStation ELSE locked[q]]
        /\ LET takers == {q \in T : Takes(q, s, r)}
           IN  IF takers = {} THEN UNCHANGED senderVars
               ELSE \E q \in takers : ImmAck(q, s)
  BY DEF AckOver
<1>4. UNCHANGED senderVars \/ (r \in T /\ ImmAck(r, s))
  BY <1>3 DEF Takes
<1>5. r \in Stations /\ partner[r] = s
  BY <1>1 DEF IInv, AckAwaited, Awaits
<1>6. MediumTypeOK' /\ CarrierSensed'
  BY AckOverCarrier DEF MediumInv
<1>8. partner' = partner
  BY <1>4 DEF senderVars, ImmAck
<1>9. ReceptionAlone'
  <2> SUFFICES ASSUME NEW t \in Stations, locked'[t] # NoStation
               PROVE  Receiving(t, locked[t])'
    BY DEF ReceptionAlone
  <2>1. locked'[t] = locked[t]
    BY <1>3
  <2>2. Receiving(t, locked[t]) /\ locked[t] \in Stations
    BY <2>1 DEF MediumInv, MediumTypeOK, ReceptionAlone
  <2>3. t # s /\ locked[t] # s
    BY <1>1, <2>2 DEF Receiving
  <2>4. QED
    BY <1>1, <1>2, <2>1, <2>2, <2>3 DEF Receiving
<1>10. AckAlone'
  <2> SUFFICES ASSUME NEW t \in Stations
               PROVE  /\ \A ack \in acks[t] : Pending(t, ack)'
                      /\ air'[t].type = "ACK_PREAMBLE" =>
                           air'[t].to # t /\ quiet[t] <= SifsDuration
    BY <1>1 DEF AckAlone
  <2>1. ASSUME NEW ack \in acks[t] PROVE Pending(t, ack)'
    <3>1. Pending(t, ack) /\ ack.to \in Stations
      BY <2>1, AckTypes DEF MediumInv, AckAlone
    <3>2. t # s /\ ack.to # s
      BY <1>1, <3>1 DEF Pending
    <3>3. QED
      BY <1>1, <1>2, <1>8, <3>1, <3>2 DEF Pending
  <2>2. air'[t].type = "ACK_PREAMBLE" => air'[t].to # t /\ quiet[t] <= SifsDuration
    BY <1>2 DEF MediumInv, AckAlone
  <2>3. QED
    BY <2>1, <2>2
<1>11. GoesOnAlone'
  <2> SUFFICES ASSUME NEW t \in Stations, isWaitingSIFS'[t]
               PROVE  /\ timer'[t] # Off /\ timer'[t] <= SifsDuration
                      /\ acks[t] = {}
                      /\ air'[t].type # "ACK_PREAMBLE"
                      /\ Sending(partner[t])' => Remaining(air'[partner[t]]) > timer'[t]
    BY <1>1, <1>8 DEF GoesOnAlone, Remaining
  <2>1. CASE isWaitingSIFS'[t] = isWaitingSIFS[t] /\ timer'[t] = timer[t]
    <3>1. /\ timer[t] # Off /\ timer[t] <= SifsDuration
          /\ acks[t] = {}
          /\ air[t].type # "ACK_PREAMBLE"
          /\ Sending(partner[t]) => Remaining(air[partner[t]]) > timer[t]
          /\ partner[t] \in Stations
      BY <2>1, WaitingHasPartner DEF MediumInv, GoesOnAlone
    <3>2. t # s
      BY <1>1, <3>1
    <3>3. Sending(partner[t])' => partner[t] # s
      BY <1>2, <1>8 DEF Sending
    <3>4. QED
      BY <1>2, <1>8, <2>1, <3>1, <3>2, <3>3 DEF Sending
  <2>2. CASE t = r /\ r \in T /\ ImmAck(r, s)
    <3>1. timer'[t] = SifsDuration
      BY <1>5, <2>2 DEF ImmAck, IInv, TypeOK
    <3>2. timer'[t] # Off /\ timer'[t] <= SifsDuration
      BY <3>1 DEF Off
    <3>3. acks[t] = {}
      <4> SUFFICES ASSUME NEW ack \in acks[t] PROVE FALSE
        OBVIOUS
      <4>1. Pending(t, ack) /\ ack.to \in Stations
        BY AckTypes DEF MediumInv, AckAlone
      <4>2. ack.to = s
        BY <1>5, <2>2, <4>1, StationAssumption DEF Pending
      <4>3. QED
        BY <1>1, <4>1, <4>2 DEF Pending
    <3>4. air[t] = Silent /\ t # s
      BY <1>1, <2>2 DEF Listeners
    <3>5. ~Sending(partner[t])'
      BY <1>2, <1>5, <1>8, <2>2 DEF Sending
    <3>6. QED
      BY <1>2, <3>2, <3>3, <3>4, <3>5
  <2>3. QED
    <3>1. CASE UNCHANGED senderVars
      BY <2>1, <3>1 DEF senderVars
    <3>2. CASE r \in T /\ ImmAck(r, s) /\ t # r
      <4>1. isWaitingSIFS'[t] = isWaitingSIFS[t] /\ timer'[t] = timer[t]
        BY <3>2 DEF ImmAck, IInv, TypeOK
      <4>2. QED
        BY <2>1, <4>1
    <3>3. QED
      BY <1>4, <2>2, <3>1, <3>2
<1>12. OwnerAlone'
  BY <1>1, <1>8 DEF MediumInv, OwnerAlone
<1>13. QED
  BY <1>6, <1>9, <1>10, <1>11, <1>12 DEF MediumInv

\* Time goes on: a channel that is in use is not quiet.
LEMMA TickMedium ==
    ASSUME IInv, MediumInv, Tick
    PROVE  MediumInv'
<1> USE Constants
<1>1. /\ \A s \in Stations : timer[s] # 0
      /\ timer' = [s \in Stations |-> Left(timer[s])]
      /\ acks' = [s \in Stations |-> {[ack EXCEPT !.in = @ - 1] : ack \in acks[s]}]
      /\ UNCHANGED <<partner, isWaitingSIFS, locked, reservation>>
  BY DEF Tick, reserved
<1>2. /\ MediumTypeOK' /\ CarrierSensed'
      /\ \A s \in Stations :
           /\ air'[s].type = air[s].type /\ air'[s].to = air[s].to
           /\ air[s] = Silent => air'[s] = Silent
           /\ air[s] # Silent => air'[s].left = air[s].left - 1 /\ air'[s] # Silent
           /\ air[s].left \in Nat
  BY TickCarrier DEF MediumInv
<1>3. \A s \in Stations :
        /\ quiet[s] \in Nat /\ quiet'[s] \in Nat
        /\ air[s] # Silent \/ Hears(s) => quiet'[s] = 0
        /\ quiet[s] <= SifsDuration => quiet'[s] <= quiet[s] + 1
  BY TickCarrier DEF MediumInv, MediumTypeOK
<1>4. ASSUME NEW s \in Stations, NEW a \in acks'[s]
      PROVE  \E ack \in acks[s] : a.to = ack.to /\ a.in = ack.in - 1 /\ ack.in \in Nat
                                  /\ a = [ack EXCEPT !.in = ack.in - 1]
  <2>1. PICK ack \in acks[s] : a = [ack EXCEPT !.in = ack.in - 1]
    BY <1>1, <1>4
  <2>2. ack \in Acks
    BY DEF IInv, TypeOK
  <2>3. QED
    BY <2>1, <2>2 DEF Acks
<1>5. \A s \in Stations : acks[s] = {} => acks'[s] = {}
  BY <1>4
<1>9. ReceptionAlone'
  <2> SUFFICES ASSUME NEW t \in Stations, locked[t] # NoStation
               PROVE  Receiving(t, locked[t])'
    BY <1>1 DEF ReceptionAlone
  <2> DEFINE s == locked[t]
  <2>1. Receiving(t, s) /\ s \in Stations
    BY DEF MediumInv, MediumTypeOK, ReceptionAlone
  <2>2. air[s] # Silent
    BY <2>1 DEF Receiving
  <2>3. quiet'[t] = 0
    BY <1>3, <2>1, <2>2 DEF Receiving, Hears
  <2>4. \A a \in acks'[t] : a.in < air'[s].left
    <3> SUFFICES ASSUME NEW a \in acks'[t] PROVE a.in < air'[s].left
      OBVIOUS
    <3>1. PICK ack \in acks[t] : a.in = ack.in - 1 /\ ack.in \in Nat
      BY <1>4
    <3>2. ack.in < air[s].left
      BY <2>1 DEF Receiving
    <3>3. air'[s].left = air[s].left - 1 /\ air[s].left \in Nat
      BY <1>2, <2>1, <2>2
    <3>4. QED
      BY <3>1, <3>2, <3>3
  <2>5. /\ s \in Neighbours[t] /\ air'[s].type = "PAYLOAD" /\ air'[t] = Silent
    BY <1>2, <2>1 DEF Receiving
  <2>6. locked'[t] = s
    BY <1>1
  <2>7. QED
    BY <2>3, <2>4, <2>5, <2>6 DEF Receiving
<1>10. AckAlone'
  <2> SUFFICES ASSUME NEW t \in Stations
               PROVE  /\ \A ack \in acks'[t] : Pending(t, ack)'
                      /\ air'[t].type = "ACK_PREAMBLE" =>
                           air'[t].to # t /\ quiet'[t] <= SifsDuration
    BY DEF AckAlone
  <2>1. ASSUME NEW a \in acks'[t] PROVE Pending(t, a)'
    <3>1. PICK ack \in acks[t] : /\ a.to = ack.to /\ a.in = ack.in - 1 /\ ack.in \in Nat
                                 /\ a = [ack EXCEPT !.in = ack.in - 1]
      BY <1>4, <2>1
    <3>2. Pending(t, ack) /\ ack.to \in Stations
      BY AckTypes DEF MediumInv, AckAlone
    <3>3. quiet'[t] + a.in <= SifsDuration
      <4>1. quiet[t] + ack.in <= SifsDuration
        BY <3>2 DEF Pending
      <4>2. quiet'[t] <= quiet[t] + 1 /\ quiet[t] \in Nat /\ quiet'[t] \in Nat
        BY <1>3, <3>1, <4>1
      <4>3. QED
        BY <3>1, <4>1, <4>2
    <3>4. air'[t] = Silent /\ air'[ack.to] = Silent /\ acks'[ack.to] = {}
      BY <1>2, <1>5, <3>2 DEF Pending
    <3>5. \A b \in acks'[t] : b = a
      <4> SUFFICES ASSUME NEW b \in acks'[t] PROVE b = a
        OBVIOUS
      <4>1. PICK old \in acks[t] : b = [old EXCEPT !.in = old.in - 1]
        BY <1>4
      <4>2. old = ack
        BY <3>2 DEF Pending
      <4>3. QED
        BY <3>1, <4>1, <4>2
    <3>6. QED
      BY <1>1, <3>1, <3>2, <3>3, <3>4, <3>5 DEF Pending
  <2>2. ASSUME air'[t].type = "ACK_PREAMBLE"
        PROVE  air'[t].to # t /\ quiet'[t] <= SifsDuration
    <3>1. air[t].type = "ACK_PREAMBLE" /\ air'[t].to = air[t].to /\ air[t] # Silent
      BY <1>2, <2>2
    <3>2. quiet'[t] = 0
      BY <1>3, <3>1
    <3>3. QED
      BY <3>1, <3>2 DEF MediumInv, AckAlone
  <2>3. QED
    BY <2>1, <2>2
<1>11. GoesOnAlone'
  <2> SUFFICES ASSUME NEW t \in Stations, isWaitingSIFS[t]
               PROVE  /\ timer'[t] # Off /\ timer'[t] <= SifsDuration
                      /\ acks'[t] = {}
                      /\ air'[t].type # "ACK_PREAMBLE"
                      /\ Sending(partner[t])' => Remaining(air'[partner[t]]) > timer'[t]
    BY <1>1 DEF GoesOnAlone, Remaining
  <2>1. /\ timer[t] # Off /\ timer[t] <= SifsDuration
        /\ acks[t] = {}
        /\ air[t].type # "ACK_PREAMBLE"
        /\ Sending(partner[t]) => Remaining(air[partner[t]]) > timer[t]
        /\ partner[t] \in Stations /\ timer[t] \in Nat
    BY WaitingHasPartner DEF MediumInv, GoesOnAlone
  <2>2. timer'[t] = timer[t] - 1 /\ timer'[t] \in Nat
    BY <1>1, <2>1 DEF Left
  <2>3. ASSUME Sending(partner[t])' PROVE Remaining(air'[partner[t]]) > timer'[t]
    <3> DEFINE s == partner[t]
    <3>1. s \in Stations /\ partner'[t] = s
      BY <1>1, <2>1
    <3>2. air'[s].type \in {"DATA_PREAMBLE", "PAYLOAD"}
      BY <1>1, <2>3 DEF Sending
    <3>3. /\ Sending(s) /\ air[s] # Silent
          /\ air'[s].type = air[s].type
          /\ air'[s].left = air[s].left - 1 /\ air[s].left \in Nat
      BY <1>2, <3>1, <3>2 DEF Sending
    <3>4. Remaining(air[s]) > timer[t]
      BY <2>1, <3>3
    <3>5. Remaining(air'[s]) = Remaining(air[s]) - 1 /\ Remaining(air[s]) \in Nat
      BY <3>3 DEF Remaining
    <3>6. QED
      BY <2>1, <2>2, <3>4, <3>5
  <2>4. QED
    BY <1>2, <1>5, <2>1, <2>2, <2>3 DEF Off
<1>12. OwnerAlone'
  BY <1>1 DEF MediumInv, OwnerAlone
<1>13. QED
  BY <1>2, <1>9, <1>10, <1>11, <1>12 DEF MediumInv

-----------------------------------------------------------------------------
\* Steps that leave frames and accesses alone.
LEMMA UnchangedMedium ==
    ASSUME MediumInv, MediumTypeOK', CarrierSensed',
           UNCHANGED <<partner, timer, isWaitingSIFS, acks, air, locked, quiet, reservation>>
    PROVE  MediumInv'
<1>1. ReceptionAlone' /\ AckAlone' /\ OwnerAlone'
  BY DEF MediumInv, ReceptionAlone, Receiving, AckAlone, Pending, OwnerAlone
<1>2. GoesOnAlone'
  BY DEF MediumInv, GoesOnAlone, Sending, Remaining
<1>3. QED
  BY <1>1, <1>2 DEF MediumInv

\* The end of a NAV changes nothing that the medium's invariant says.
LEMMA NAVMedium ==
    ASSUME IInv, MediumInv, NEW s \in Stations, NAVTimeout(s)
    PROVE  MediumInv'
  BY NAVCarrier, UnchangedMedium DEF MediumInv, NAVTimeout, senderVars, receiverVars, reserved

\* A station whose timer is off does not wait for SIFS.
LEMMA OffNotWaiting ==
    ASSUME IInv, MediumInv, NEW s \in Stations, timer[s] = Off
    PROVE  ~isWaitingSIFS[s]
  BY DEF MediumInv, GoesOnAlone

\* Contention accesses begin after AIFS, and end.
LEMMA ContentionMedium ==
    ASSUME SifsDuration < PsduDuration, IInv, MediumInv, NEW s \in Stations,
           \/ \E r \in Stations : StartAccess(s, r) \/ StartIdleAccess(s, r)
           \/ EndIdleAccess(s)
    PROVE  MediumInv'
<1>0. reservation \in Links \cup {NoReservation}
  BY DEF MediumInv, MediumTypeOK
<1>1. ASSUME NEW r \in Stations, StartAccess(s, r) PROVE MediumInv'
  <2>1. /\ partner[s] = NoStation /\ quiet[s] = Aifs /\ SendCompound(s, r)
        /\ partner' = [partner EXCEPT ![s] = r]
        /\ reservation = NoReservation
        /\ UNCHANGED <<acks, quiet, reservation>>
    BY <1>1 DEF StartAccess, receiverVars, reserved
  <2>2. timer[s] = Off /\ acks[s] = {}
    BY <2>1, NoAccess, NothingToAcknowledge
  <2>3. OwnerAlone'
    BY <2>1 DEF OwnerAlone
  <2>4. QED
    BY <1>0, <2>1, <2>2, <2>3, SendMedium
<1>2. ASSUME NEW r \in Stations, StartIdleAccess(s, r) PROVE MediumInv'
  <2>1. /\ partner[s] = NoStation /\ quiet[s] = Aifs
        /\ partner' = [partner EXCEPT ![s] = r]
        /\ reservation = NoReservation
        /\ UNCHANGED <<timer, isWaitingSIFS, acks, quiet, mediumVars, reservation>>
    BY <1>2 DEF StartIdleAccess, receiverVars, reserved
  <2>2. timer[s] = Off /\ acks[s] = {}
    BY <2>1, NoAccess, NothingToAcknowledge
  <2>3. OwnerAlone' /\ ~isWaitingSIFS'[s]
    BY <2>1, <2>2, OffNotWaiting DEF OwnerAlone
  <2>4. QED
    BY <1>0, <2>1, <2>2, <2>3, AccessMedium
<1>3. ASSUME EndIdleAccess(s) PROVE MediumInv'
  <2>1. /\ timer[s] = Off
        /\ partner' = [partner EXCEPT ![s] = NoStation]
        /\ reservation = NoReservation
        /\ UNCHANGED <<timer, isWaitingSIFS, acks, quiet, mediumVars, reservation>>
    BY <1>3 DEF EndIdleAccess, receiverVars, reserved
  <2>2. OwnerAlone' /\ ~isWaitingSIFS'[s]
    BY <2>1, OffNotWaiting DEF OwnerAlone
  <2>3. QED
    BY <1>0, <2>1, <2>2, AccessMedium
<1>4. QED
  BY <1>1, <1>2, <1>3

\* The timer of a buffer runs out: in contention it waited alone, in a reservation
\* it is the owner's, to which nobody else sends.
LEMMA OnTimeoutMedium ==
    ASSUME SifsDuration < PsduDuration, IInv, MediumInv, NEW s \in Stations,
           NextFrame(s) \/ LastFrame(s)
    PROVE  MediumInv'
<1>0. reservation \in Links \cup {NoReservation} /\ timer[s] = 0
  BY DEF NextFrame, LastFrame, MediumInv, MediumTypeOK
<1>1. partner[s] \in Stations /\ partner \in [Stations -> Stations \cup {NoStation}]
  BY <1>0 DEF IInv, TypeOK, TimerInAccess, Off
<1>2. ASSUME NextFrame(s) PROVE MediumInv'
  <2>1. /\ SendCompound(s, partner[s])
        /\ reservation = NoReservation => isWaitingSIFS[s]
        /\ UNCHANGED <<partner, acks, quiet, reservation>>
    BY <1>2 DEF NextFrame, receiverVars, reserved
  <2>2. acks[s] = {}
    <3>1. CASE reservation = NoReservation
      BY <2>1, <3>1 DEF MediumInv, GoesOnAlone
    <3>2. CASE reservation # NoReservation
      <4> SUFFICES ASSUME NEW ack \in acks[s] PROVE FALSE
        OBVIOUS
      <4>1. s = reservation[1]
        BY <1>1, <3>2, Constants DEF MediumInv, OwnerAlone
      <4>2. ack.to \in Stations /\ partner[ack.to] = s /\ ack.to # s
        BY AckTypes DEF MediumInv, AckAlone, Pending
      <4>3. ack.to = reservation[1]
        BY <3>2, <4>2, Constants DEF MediumInv, OwnerAlone
      <4>4. QED
        BY <4>1, <4>2, <4>3
    <3>3. QED
      BY <3>1, <3>2
  <2>3. OwnerAlone' /\ partner' = [partner EXCEPT ![s] = partner[s]]
    BY <1>1, <2>1 DEF MediumInv, OwnerAlone
  <2>4. QED
    BY <1>0, <1>1, <2>1, <2>2, <2>3, SendMedium
<1>3. ASSUME LastFrame(s) PROVE MediumInv'
  <2>1. PICK p \in {NoStation, partner[s]} : partner' = [partner EXCEPT ![s] = p]
    BY <1>1, <1>3 DEF LastFrame
  <2>2. /\ timer' = [timer EXCEPT ![s] = Off]
        /\ isWaitingSIFS' = [isWaitingSIFS EXCEPT ![s] = FALSE]
        /\ UNCHANGED <<acks, quiet, mediumVars, reservation>>
    BY <1>3 DEF LastFrame, receiverVars, reserved
  <2>3. /\ ~isWaitingSIFS'[s]
        /\ \A t \in Stations \ {s} :
              timer'[t] = timer[t] /\ isWaitingSIFS'[t] = isWaitingSIFS[t]
    BY <2>2 DEF IInv, TypeOK
  <2>4. OwnerAlone'
    BY <1>1, <2>1, <2>2 DEF MediumInv, OwnerAlone
  <2>5. p \in Stations \cup {NoStation}
    BY <1>1
  <2>6. QED
    BY <1>0, <2>1, <2>2, <2>3, <2>4, <2>5, AccessMedium
<1>4. QED
  BY <1>2, <1>3

\* Reservations begin when all accesses are over, so that no acknowledgment waits.
LEMMA ReservationMedium ==
    ASSUME SifsDuration < PsduDuration, IInv, MediumInv,
           \/ ReservationNears \/ ReservationStops
           \/ \E s, r \in Stations : ReservationStarts(s, r)
    PROVE  MediumInv'
<1>1. ASSUME ReservationNears PROVE MediumInv'
  <2>1. UNCHANGED <<partner, timer, isWaitingSIFS, acks, mediumVars, quiet, reservation>>
    BY <1>1 DEF ReservationNears, senderVars, receiverVars
  <2>2. MediumTypeOK' /\ CarrierSensed'
    BY <2>1, UnchangedCarrier DEF MediumInv, MediumTypeOK
  <2>3. QED
    BY <2>1, <2>2, UnchangedMedium DEF mediumVars
<1>2. ASSUME ReservationStops PROVE MediumInv'
  <2> DEFINE s == reservation[1]
  <2>1. /\ timer[s] = Off /\ reservation # NoReservation
        /\ partner' = [partner EXCEPT ![s] = NoStation]
        /\ reservation' = NoReservation
        /\ UNCHANGED <<timer, isWaitingSIFS, acks, quiet, mediumVars>>
    BY <1>2 DEF ReservationStops, receiverVars
  <2>2. s \in Stations
    BY <2>1 DEF MediumInv, MediumTypeOK, Links
  <2>3. OwnerAlone' /\ ~isWaitingSIFS'[s]
    BY <2>1, <2>2, OffNotWaiting DEF OwnerAlone
  <2> HIDE DEF s
  <2>4. QED
    BY <2>1, <2>2, <2>3, AccessMedium
<1>3. ASSUME NEW s \in Stations, NEW r \in Stations, ReservationStarts(s, r)
      PROVE  MediumInv'
  <2>1. /\ \A t \in Stations : partner[t] = NoStation
        /\ partner' = [partner EXCEPT ![s] = r]
        /\ reservation' = <<s, r>>
        /\ UNCHANGED <<acks, quiet>>
        /\ SendCompound(s, r) \/ UNCHANGED <<timer, isWaitingSIFS, mediumVars>>
    BY <1>3 DEF ReservationStarts, receiverVars
  <2>2. timer[s] = Off
    BY <2>1, NoAccess
  <2>3. acks[s] = {}
    BY <2>1, AckTypes, Constants
  <2>4. <<s, r>> \in Links /\ <<s, r>>[1] = s
    BY DEF Links
  <2>5. OwnerAlone'
    BY <2>1, <2>4 DEF OwnerAlone, IInv, TypeOK
  <2>6. CASE SendCompound(s, r)
    BY <2>1, <2>2, <2>3, <2>4, <2>5, <2>6, SendMedium
  <2>7. CASE UNCHANGED <<timer, isWaitingSIFS, mediumVars>>
    <3>1. ~isWaitingSIFS'[s]
      BY <2>2, <2>7, OffNotWaiting
    <3>2. QED
      BY <2>1, <2>3, <2>4, <2>5, <2>7, <3>1, AccessMedium
  <2>8. QED
    BY <2>1, <2>6, <2>7
<1>4. QED
  BY <1>1, <1>2, <1>3

-----------------------------------------------------------------------------
\* Initially nothing is on the air.
LEMMA InitMedium == Init => MediumInv
<1> SUFFICES ASSUME Init PROVE MediumInv
  OBVIOUS
<1> USE Constants DEF Init
<1>1. InitialState \in ChannelStates /\ Sound(InitialState)
  BY DEF InitialState, ChannelStates, Sound, Current, NAVExact, NavNotSet
<1>2. \A s \in Stations : /\ air[s] = Silent /\ cs[s] = InitialState /\ acks[s] = {}
                          /\ locked[s] = NoStation /\ isWaitingSIFS[s] = FALSE
  OBVIOUS
<1>3. MediumTypeOK
  BY <1>1, <1>2 DEF MediumTypeOK
<1>4. CarrierSensed
  BY <1>1, <1>2, StationAssumption DEF CarrierSensed, Hears
<1>5. ReceptionAlone /\ AckAlone /\ GoesOnAlone /\ OwnerAlone
  BY <1>2 DEF ReceptionAlone, AckAlone, GoesOnAlone, OwnerAlone
<1>6. QED
  BY <1>3, <1>4, <1>5 DEF MediumInv

\* Every step keeps the medium's invariant.
LEMMA NextMedium ==
    ASSUME SifsDuration < PsduDuration
    PROVE  IInv /\ MediumInv /\ [Next]_vars => MediumInv'
<1> SUFFICES ASSUME IInv, MediumInv, [Next]_vars PROVE MediumInv'
  OBVIOUS
<1>1. CASE \E s \in Stations :
             \/ \E r \in Stations : StartAccess(s, r) \/ StartIdleAccess(s, r)
             \/ EndIdleAccess(s)
  BY <1>1, ContentionMedium
<1>2. CASE \E s \in Stations : PreambleOver(s)
  BY <1>2, PreambleMedium
<1>3. CASE \E s \in Stations : PayloadOver(s)
  BY <1>3, PayloadMedium
<1>4. CASE \E s \in Stations : TransmitAck(s)
  BY <1>4, TransmitAckMedium
<1>5. CASE \E s \in Stations : AckOver(s)
  BY <1>5, AckOverMedium
<1>6. CASE \E s \in Stations : NextFrame(s) \/ LastFrame(s)
  BY <1>6, OnTimeoutMedium
<1>7. CASE \/ ReservationNears \/ ReservationStops
           \/ \E s, r \in Stations : ReservationStarts(s, r)
  BY <1>7, ReservationMedium
<1>8. CASE \E s \in Stations : NAVTimeout(s)
  BY <1>8, NAVMedium
<1>9. CASE Tick
  BY <1>9, TickMedium
<1>10. CASE UNCHANGED vars
  <2>1. UNCHANGED <<partner, timer, isWaitingSIFS, acks, mediumVars, quiet, reservation>>
    BY <1>10 DEF vars, senderVars, receiverVars, reserved
  <2>2. MediumTypeOK' /\ CarrierSensed'
    BY <2>1, UnchangedCarrier DEF MediumInv, MediumTypeOK
  <2>3. QED
    BY <2>1, <2>2, UnchangedMedium DEF mediumVars
<1>11. QED
  BY <1>1, <1>2, <1>3, <1>4, <1>5, <1>6, <1>7, <1>8, <1>9, <1>10 DEF Next

\* Where payloads are longer than SIFS, what a station hears keeps it silent: nobody
\* else is heard during a reception once an acknowledgment is due, and nobody begins
\* an access within SIFS of what it has heard.
THEOREM MediumInvariant == SifsDuration < PsduDuration => (Spec => []MediumInv)
<1> SUFFICES ASSUME SifsDuration < PsduDuration PROVE Spec => []MediumInv
  OBVIOUS
<1>1. IInv /\ MediumInv /\ [Next]_vars => MediumInv'
  BY NextMedium
<1>2. QED
  BY <1>1, InitMedium, InductiveInvariant, PTL DEF Spec

\* Neither "can't send ACK" (ARQ.cpp:119) nor the assertion of PhyUser.cpp:96 is
\* reached by what a station sends without listening first.  The hypothesis, that the
\* payload is longer than SIFS, is needed: see OneTransmission.
THEOREM OneTransmissionHolds == SifsDuration < PsduDuration => (Spec => []OneTransmission)
<1> SUFFICES ASSUME SifsDuration < PsduDuration PROVE Spec => []OneTransmission
  OBVIOUS
<1>1. IInv /\ MediumInv => OneTransmission
  <2> SUFFICES ASSUME IInv, MediumInv, NEW r \in Stations,
                      \/ acks[r] # {}
                      \/ /\ timer[r] = 0
                         /\ reservation # NoReservation \/ (isWaitingSIFS[r] /\ txop[r])
               PROVE  air[r] = Silent
    BY DEF OneTransmission
  <2>1. CASE acks[r] # {}
    BY <2>1 DEF MediumInv, AckAlone, Pending
  <2>2. CASE /\ timer[r] = 0
             /\ reservation # NoReservation \/ isWaitingSIFS[r]
    <3>1. ~Sending(r)
      BY <2>2, NothingUnderWay
    <3>2. air[r].type # "ACK_PREAMBLE"
      <4> SUFFICES ASSUME air[r].type = "ACK_PREAMBLE" PROVE FALSE
        OBVIOUS
      <4>1. ~isWaitingSIFS[r]
        BY DEF MediumInv, GoesOnAlone
      <4>2. reservation # NoReservation
        BY <2>2, <4>1
      <4>3. air[r].to \in Stations /\ partner[air[r].to] = r /\ air[r].to # r
        BY DEF IInv, AckAwaited, Awaits, MediumInv, AckAlone
      <4>4. partner[r] # NoStation
        BY <2>2 DEF IInv, TimerInAccess, Off
      <4>5. QED
        BY <4>2, <4>3, <4>4, Constants DEF MediumInv, OwnerAlone
    <3>3. air[r].type = "NONE"
      BY <3>1, <3>2 DEF IInv, TypeOK, Frames, Sending
    <3>4. QED
      BY <3>3 DEF MediumInv, MediumTypeOK
  <2>3. QED
    BY <2>1, <2>2
<1>2. QED
  BY <1>1, InductiveInvariant, MediumInvariant, PTL

-----------------------------------------------------------------------------
(***************************************************************************)
(* Announced exchanges.  What a preamble announces is covered by the NAV   *)
(* of those that hear it up to the last acknowledgment, and by their       *)
(* interframe space for the SIFS after it; so that AIFS of silence means   *)
(* that nothing announced is still to come.                                *)
(***************************************************************************)
AnnouncedType ==
    /\ announced \in [Stations -> [Stations -> 0..2]]
    /\ txop \in [Stations -> BOOLEAN]

\* A preamble announces what its sender intends, and is heard.
PreamblesAnnounce ==
    \A s \in Stations : air[s].type = "DATA_PREAMBLE" =>
        /\ air[s].exchange = Exchange(txop[s])
        /\ air[s].left <= PreambleDuration
        /\ air[s].left < PreambleDuration => \A r \in Neighbours[s] : quiet[r] = 0

\* From now to the end of the last acknowledgment that t has announced to r.
Rest(t, r) == timer[t] + (IF announced[t][r] = 2 THEN FT ELSE 0) - SifsDuration

KeptFree(t, r) ==
    \/ cs[r].nav # NavNotSet /\ cs[r].nav >= Rest(t, r) /\ quiet[r] = 0
    \/ quiet[r] + Rest(t, r) <= 0

AnnouncedKeptFree ==
    \A t, r \in Stations : timer[t] # Off /\ announced[t][r] > 0 => KeptFree(t, r)

NAVInv ==
    /\ MediumTypeOK /\ CarrierSensed
    /\ AnnouncedType /\ PreamblesAnnounce /\ AnnouncedKeptFree

\* The values of the timers.
LEMMA NAVTypes ==
    ASSUME IInv, NAVInv, NEW t \in Stations, NEW r \in Stations
    PROVE  /\ timer[t] # Off => timer[t] \in Nat
           /\ announced[t][r] \in 0..2
           /\ timer[t] # Off => Rest(t, r) \in Int /\ Rest(t, r) >= 0 - SifsDuration
           /\ quiet[r] \in Nat
           /\ cs[r].nav \in Int
           /\ cs[r].nav # NavNotSet => cs[r].nav \in Nat
<1>1. /\ timer[t] # Off => timer[t] \in Nat
      /\ announced[t][r] \in 0..2 /\ quiet[r] \in Nat
  BY DEF IInv, TypeOK, NAVInv, AnnouncedType, MediumTypeOK
<1>2. cs[r] \in ChannelStates /\ NAVExact(cs[r])
  BY DEF NAVInv, MediumTypeOK, CarrierSensed, Sound
<1>3. cs[r].nav \in Int /\ (cs[r].nav # NavNotSet => cs[r].nav \in Nat)
  BY <1>2 DEF ChannelStates, NAVExact
<1>4. timer[t] # Off => Rest(t, r) \in Int /\ Rest(t, r) >= 0 - SifsDuration
  BY <1>1, Constants DEF Rest
<1>5. QED
  BY <1>1, <1>3, <1>4

\* As long as neither the NAV is shortened nor the rest of the exchange gets longer.
LEMMA KeptFreeStays ==
    ASSUME IInv, NAVInv, NEW t \in Stations, NEW r \in Stations,
           timer[t] # Off, announced[t][r] > 0,
           cs'[r].nav \in Int, cs'[r].nav >= cs[r].nav, quiet'[r] = quiet[r],
           Rest(t, r)' = Rest(t, r)
    PROVE  KeptFree(t, r)'
<1>1. KeptFree(t, r)
  BY DEF NAVInv, AnnouncedKeptFree
<1>2. cs[r].nav # NavNotSet => cs'[r].nav # NavNotSet
  BY NAVTypes DEF NavNotSet
<1>3. QED
  BY <1>1, <1>2, NAVTypes DEF KeptFree

\* Steps that announce nothing, and set no timer to another value than Off.
LEMMA NothingAnnounced ==
    ASSUME IInv, NAVInv, MediumTypeOK', CarrierSensed',
           announced' = [t \in Stations |-> announced'[t]],
           \A t \in Stations : announced'[t] = [r \in Stations |-> announced'[t][r]],
           \A r \in Stations :
              \/ \A t \in Stations : announced'[t][r] = 0
              \/ /\ cs'[r].nav >= cs[r].nav
                 /\ \A t \in Stations : announced'[t][r] \in {0, announced[t][r]},
           \A t \in Stations : timer'[t] \in {Off, timer[t]},
           \A t \in Stations : air'[t].type = "DATA_PREAMBLE" =>
              air'[t] = air[t] /\ txop'[t] = txop[t],
           txop' \in [Stations -> BOOLEAN],
           quiet' = quiet
    PROVE  NAVInv'
<1>1. AnnouncedType'
  <2>1. \A t \in Stations, r \in Stations : announced'[t][r] \in 0..2
    BY DEF NAVInv, AnnouncedType
  <2>2. \A t \in Stations : announced'[t] \in [Stations -> 0..2]
    BY <2>1
  <2>3. announced' \in [Stations -> [Stations -> 0..2]]
    BY <2>2
  <2>4. QED
    BY <2>3 DEF AnnouncedType
<1>2. PreamblesAnnounce'
  <2> SUFFICES ASSUME NEW s \in Stations, air'[s].type = "DATA_PREAMBLE"
               PROVE  /\ air'[s].exchange = Exchange(txop'[s])
                      /\ air'[s].left <= PreambleDuration
                      /\ air'[s].left < PreambleDuration =>
                           \A r \in Neighbours[s] : quiet'[r] = 0
    BY DEF PreamblesAnnounce, Exchange
  <2>1. QED
    BY DEF NAVInv, PreamblesAnnounce
<1>3. AnnouncedKeptFree'
  <2> SUFFICES ASSUME NEW t \in Stations, NEW r \in Stations,
                      timer'[t] # Off, announced'[t][r] > 0
               PROVE  KeptFree(t, r)'
    BY DEF AnnouncedKeptFree
  <2>1. /\ timer'[t] = timer[t] /\ announced'[t][r] = announced[t][r]
        /\ cs'[r].nav >= cs[r].nav
    OBVIOUS
  <2>2. Rest(t, r)' = Rest(t, r)
    BY <2>1 DEF Rest
  <2>3. cs'[r].nav \in Int
    BY DEF MediumTypeOK, ChannelStates
  <2>4. QED
    BY <2>1, <2>2, <2>3, KeptFreeStays
<1>4. QED
  BY <1>1, <1>2, <1>3 DEF NAVInv

\* Some announcements end with the exchange they were for, or are withdrawn.
LEMMA Withdrawn ==
    ASSUME AnnouncedType, NEW s \in Stations,
           announced' = announced \/ NoneAnnounced(s)
    PROVE  /\ announced' = [t \in Stations |-> announced'[t]]
           /\ \A t \in Stations : announced'[t] = [r \in Stations |-> announced'[t][r]]
           /\ \A t, r \in Stations :
                announced'[t][r] \in {0, announced[t][r]}
<1>1. CASE announced' = announced
  BY <1>1 DEF AnnouncedType
<1>2. CASE NoneAnnounced(s)
  <2>1. announced' = [announced EXCEPT ![s] = [r \in Stations |-> 0]]
    BY <1>2 DEF NoneAnnounced
  <2>2. QED
    BY <2>1 DEF AnnouncedType
<1>3. QED
  BY <1>1, <1>2

\* A frame begins: its preamble announces nothing yet.
LEMMA SendNAV ==
    ASSUME IInv, NAVInv, NEW s \in Stations, NEW r \in Stations, SendCompound(s, r),
           NoneAnnounced(s) \/ (timer[s] = 0 /\ OneLessAnnounced(s)),
           quiet' = quiet, reservation' \in Links \cup {NoReservation}
    PROVE  NAVInv'
<1> USE Constants
<1>1. PICK more \in BOOLEAN :
        /\ Transmit(s, Frame("DATA_PREAMBLE", r, acked[<<s, r>>] + 1, Exchange(more),
                             PreambleDuration))
        /\ timer' = [timer EXCEPT ![s] = FT]
        /\ txop' = [txop EXCEPT ![s] = more]
  BY DEF SendCompound
<1> DEFINE f == Frame("DATA_PREAMBLE", r, acked[<<s, r>>] + 1, Exchange(more),
                      PreambleDuration)
<1>2. /\ f.type = "DATA_PREAMBLE" /\ f.left = PreambleDuration
      /\ f.exchange = Exchange(more)
      /\ Transmit(s, f)
  BY <1>1 DEF Frame
<1> HIDE DEF f
<1>3. /\ MediumTypeOK' /\ CarrierSensed'
      /\ \A q \in Stations : cs'[q].nav = cs[q].nav
  BY <1>1, <1>2, TransmitCarrier DEF NAVInv, IInv, TypeOK
<1>4. /\ air'[s] = f /\ timer'[s] = FT /\ txop'[s] = more
      /\ \A t \in Stations \ {s} :
           air'[t] = air[t] /\ timer'[t] = timer[t] /\ txop'[t] = txop[t]
      /\ txop' \in [Stations -> BOOLEAN]
  BY <1>1, <1>2 DEF Transmit, IInv, TypeOK, NAVInv, AnnouncedType
<1>5. /\ announced' \in [Stations -> [Stations -> 0..2]]
      /\ \A t \in Stations \ {s} : announced'[t] = announced[t]
      /\ \A q \in Stations : announced'[s][q] > 0 =>
           timer[s] = 0 /\ announced[s][q] = 2 /\ announced'[s][q] = 1
  <2> DEFINE less == [q \in Stations |-> IF announced[s][q] > 0 THEN announced[s][q] - 1 ELSE 0]
             none == [q \in Stations |-> 0]
  <2>1. announced \in [Stations -> [Stations -> 0..2]]
    BY DEF NAVInv, AnnouncedType
  <2>2. /\ less \in [Stations -> 0..2] /\ none \in [Stations -> 0..2]
        /\ \A q \in Stations : /\ announced[s][q] \in 0..2
                               /\ none[q] = 0
                               /\ less[q] > 0 => announced[s][q] = 2 /\ less[q] = 1
    BY <2>1
  <2>3. \/ announced' = [announced EXCEPT ![s] = none]
        \/ timer[s] = 0 /\ announced' = [announced EXCEPT ![s] = less]
    BY DEF NoneAnnounced, OneLessAnnounced
  <2> HIDE DEF less, none
  <2>4. QED
    BY <2>1, <2>2, <2>3
<1>6. PreamblesAnnounce'
  <2> SUFFICES ASSUME NEW t \in Stations, air'[t].type = "DATA_PREAMBLE"
               PROVE  /\ air'[t].exchange = Exchange(txop'[t])
                      /\ air'[t].left <= PreambleDuration
                      /\ air'[t].left < PreambleDuration =>
                           \A q \in Neighbours[t] : quiet[q] = 0
    BY DEF PreamblesAnnounce, Exchange
  <2>1. CASE t = s
    BY <1>2, <1>4, <2>1
  <2>2. CASE t # s
    BY <1>4, <2>2 DEF NAVInv, PreamblesAnnounce
  <2>3. QED
    BY <2>1, <2>2
<1>7. AnnouncedKeptFree'
  <2> SUFFICES ASSUME NEW t \in Stations, NEW q \in Stations,
                      timer'[t] # Off, announced'[t][q] > 0
               PROVE  KeptFree(t, q)'
    BY DEF AnnouncedKeptFree
  <2>1. cs'[q].nav \in Int /\ cs'[q].nav >= cs[q].nav
    BY <1>3, NAVTypes
  <2>2. CASE t = s
    <3>1. /\ timer[s] = 0 /\ announced[s][q] = 2 /\ announced'[s][q] = 1
          /\ timer'[s] = FT
      BY <1>4, <1>5, <2>2
    <3>2. Rest(t, q)' = Rest(t, q)
      BY <2>2, <3>1 DEF Rest
    <3>3. QED
      BY <2>1, <2>2, <3>1, <3>2, KeptFreeStays DEF Off
  <2>3. CASE t # s
    <3>1. timer'[t] = timer[t] /\ announced'[t] = announced[t]
      BY <1>4, <1>5, <2>3
    <3>2. Rest(t, q)' = Rest(t, q)
      BY <3>1 DEF Rest
    <3>3. QED
      BY <2>1, <3>1, <3>2, KeptFreeStays
  <2>4. QED
    BY <2>2, <2>3
<1>8. QED
  BY <1>3, <1>4, <1>5, <1>6, <1>7 DEF NAVInv, AnnouncedType

\* A preamble is over: those that take it up keep the exchange free by their NAV.
LEMMA PreambleNAV ==
    ASSUME IInv, NAVInv, NEW s \in Stations, PreambleOver(s)
    PROVE  NAVInv'
<1> USE Constants
<1>1. /\ MediumTypeOK' /\ CarrierSensed'
      /\ \A r \in Stations : cs'[r].nav >= cs[r].nav
  BY PreambleCarrier DEF NAVInv
<1>2. PICK T \in SUBSET Listeners(s) :
        /\ announced' = [announced EXCEPT ![s] = [r \in Stations |->
             IF r \in T THEN (IF txop[s] THEN 2 ELSE 1) ELSE announced[s][r]]]
        /\ \A r \in T \cap Stations :
             PsduDuration + air[s].exchange >= SifsDuration =>
                cs'[r].nav >= PsduDuration + air[s].exchange
  BY PreambleCarrier DEF NAVInv
<1>3. /\ air[s].type = "DATA_PREAMBLE" /\ air[s].left = 0
      /\ UNCHANGED <<timer, txop, quiet>>
      /\ air'[s].type = "PAYLOAD"
      /\ \A t \in Stations \ {s} : air'[t] = air[t]
  BY DEF PreambleOver, senderVars, IInv, TypeOK, Frames
<1>4. /\ announced' \in [Stations -> [Stations -> 0..2]]
      /\ \A t \in Stations \ {s} : announced'[t] = announced[t]
      /\ \A r \in Stations : announced'[s][r] =
             IF r \in T THEN (IF txop[s] THEN 2 ELSE 1) ELSE announced[s][r]
  <2> DEFINE told == [r \in Stations |->
             IF r \in T THEN (IF txop[s] THEN 2 ELSE 1) ELSE announced[s][r]]
  <2>1. announced \in [Stations -> [Stations -> 0..2]]
    BY DEF NAVInv, AnnouncedType
  <2>2. told \in [Stations -> 0..2]
    BY <2>1
  <2>3. \A r \in Stations : told[r] =
             IF r \in T THEN (IF txop[s] THEN 2 ELSE 1) ELSE announced[s][r]
    OBVIOUS
  <2>4. announced' = [announced EXCEPT ![s] = told]
    BY <1>2
  <2> HIDE DEF told
  <2>5. QED
    BY <2>1, <2>2, <2>3, <2>4
<1>5. PreamblesAnnounce'
  <2> SUFFICES ASSUME NEW t \in Stations, air'[t].type = "DATA_PREAMBLE"
               PROVE  /\ air'[t].exchange = Exchange(txop'[t])
                      /\ air'[t].left <= PreambleDuration
                      /\ air'[t].left < PreambleDuration =>
                           \A q \in Neighbours[t] : quiet'[q] = 0
    BY DEF PreamblesAnnounce, Exchange
  <2>1. t # s
    BY <1>3
  <2>2. QED
    BY <1>3, <2>1 DEF NAVInv, PreamblesAnnounce
<1>6. ASSUME NEW r \in T
      PROVE  cs'[r].nav # NavNotSet /\ cs'[r].nav >= Rest(s, r)' /\ quiet'[r] = 0
  <2>1. r \in Stations /\ r \in Neighbours[s]
    BY StationAssumption DEF Listeners
  <2>2. timer[s] = PsduDuration + SifsDuration + AckDuration + SifsDuration
    <3>1. timer[s] = air[s].left + After(air[s])
      BY <1>3 DEF IInv, SendingAwaits, Sending
    <3>2. After(air[s]) = PsduDuration + SifsDuration + AckDuration + SifsDuration
      BY <1>3 DEF After
    <3>3. QED
      BY <1>3, <3>1, <3>2
  <2>3. air[s].exchange = Exchange(txop[s]) /\ quiet[r] = 0 /\ txop[s] \in BOOLEAN
    BY <1>3, <2>1 DEF NAVInv, PreamblesAnnounce, AnnouncedType
  <2>4. /\ Rest(s, r)' = PsduDuration + air[s].exchange
        /\ PsduDuration + air[s].exchange \in Nat
        /\ PsduDuration + air[s].exchange >= SifsDuration
    BY <1>3, <1>4, <2>1, <2>2, <2>3 DEF Rest, Exchange, replyDuration
  <2>5. cs'[r].nav \in Int
    BY <1>1, <2>1 DEF MediumTypeOK, ChannelStates
  <2>6. QED
    BY <1>2, <1>3, <2>1, <2>3, <2>4, <2>5 DEF NavNotSet
<1>7. AnnouncedKeptFree'
  <2> SUFFICES ASSUME NEW t \in Stations, NEW r \in Stations,
                      timer'[t] # Off, announced'[t][r] > 0
               PROVE  KeptFree(t, r)'
    BY DEF AnnouncedKeptFree
  <2>1. CASE t = s /\ r \in T
    BY <1>6, <2>1 DEF KeptFree
  <2>2. CASE ~(t = s /\ r \in T)
    <3>1. announced'[t][r] = announced[t][r] /\ timer'[t] = timer[t]
      BY <1>3, <1>4, <2>2
    <3>2. Rest(t, r)' = Rest(t, r)
      BY <3>1 DEF Rest
    <3>3. cs'[r].nav \in Int
      BY <1>1 DEF MediumTypeOK, ChannelStates
    <3>4. QED
      BY <1>1, <1>3, <3>1, <3>2, <3>3, KeptFreeStays
  <2>3. QED
    BY <2>1, <2>2
<1>8. QED
  BY <1>1, <1>3, <1>4, <1>5, <1>7 DEF NAVInv, AnnouncedType

\* The NAV of an exchange runs out with its acknowledgment: what remains is SIFS of
\* silence, too short for an access.
LEMMA TimeoutNAV ==
    ASSUME IInv, NAVInv, NEW s \in Stations, NAVTimeout(s)
    PROVE  NAVInv'
<1>1. MediumTypeOK' /\ CarrierSensed'
  BY NAVCarrier DEF NAVInv
<1>2. /\ cs[s].nav = 0
      /\ \A r \in Stations \ {s} : cs'[r] = cs[r]
      /\ UNCHANGED <<timer, txop, air, quiet, announced>>
  BY DEF NAVTimeout, senderVars, NAVInv, MediumTypeOK
<1>3. AnnouncedType' /\ PreamblesAnnounce'
  BY <1>2 DEF NAVInv, AnnouncedType, PreamblesAnnounce, Exchange
<1>4. AnnouncedKeptFree'
  <2> SUFFICES ASSUME NEW t \in Stations, NEW r \in Stations,
                      timer[t] # Off, announced[t][r] > 0
               PROVE  KeptFree(t, r)'
    BY <1>2 DEF AnnouncedKeptFree
  <2>1. Rest(t, r)' = Rest(t, r)
    BY <1>2 DEF Rest
  <2>2. CASE r = s
    <3>1. quiet[r] + Rest(t, r) <= 0
      BY <1>2, <2>2, NAVTypes DEF NAVInv, AnnouncedKeptFree, KeptFree
    <3>2. QED
      BY <1>2, <2>1, <3>1 DEF KeptFree
  <2>3. CASE r # s
    BY <1>2, <2>1, <2>3, NAVTypes, KeptFreeStays
  <2>4. QED
    BY <2>2, <2>3
<1>5. QED
  BY <1>1, <1>3, <1>4 DEF NAVInv

\* Time goes on: NAV and exchange get shorter together, and silence longer only where
\* the exchange is all but over.
LEMMA TickNAV ==
    ASSUME IInv, NAVInv, Tick
    PROVE  NAVInv'
<1> USE Constants
<1>1. /\ MediumTypeOK' /\ CarrierSensed'
      /\ \A s \in Stations :
           /\ air'[s].type = air[s].type /\ air'[s].exchange = air[s].exchange
           /\ air[s] = Silent => air'[s] = Silent
           /\ air[s] # Silent => air'[s].left = air[s].left - 1
           /\ air[s].left \in Nat
           /\ cs[s].nav # NavNotSet => cs'[s].nav = cs[s].nav - 1
           /\ quiet'[s] \in Nat
           /\ air[s] # Silent \/ Hears(s) \/ cs[s].nav # NavNotSet => quiet'[s] = 0
           /\ quiet[s] <= SifsDuration => quiet'[s] <= quiet[s] + 1
  BY TickCarrier DEF NAVInv
<1>2. /\ \A s \in Stations : timer[s] # 0 /\ cs[s].nav # 0
      /\ \A s \in Stations : timer'[s] = Left(timer[s])
      /\ UNCHANGED <<txop, announced>>
  BY DEF Tick
<1>3. AnnouncedType'
  BY <1>2 DEF NAVInv, AnnouncedType
<1>4. PreamblesAnnounce'
  <2> SUFFICES ASSUME NEW s \in Stations, air'[s].type = "DATA_PREAMBLE"
               PROVE  /\ air'[s].exchange = Exchange(txop'[s])
                      /\ air'[s].left <= PreambleDuration
                      /\ air'[s].left < PreambleDuration =>
                           \A r \in Neighbours[s] : quiet'[r] = 0
    BY DEF PreamblesAnnounce, Exchange
  <2>1. air[s].type = "DATA_PREAMBLE" /\ air[s] # Silent
    BY <1>1
  <2>2. air'[s].exchange = Exchange(txop'[s]) /\ air'[s].left <= PreambleDuration
    BY <1>1, <1>2, <2>1 DEF NAVInv, PreamblesAnnounce
  <2>3. ASSUME NEW r \in Neighbours[s] PROVE quiet'[r] = 0
    <3>1. r \in Stations /\ s \in Neighbours[r]
      BY StationAssumption
    <3>2. Hears(r)
      BY <2>1, <3>1 DEF Hears
    <3>3. QED
      BY <1>1, <3>1, <3>2
  <2>4. QED
    BY <2>2, <2>3
<1>5. AnnouncedKeptFree'
  <2> SUFFICES ASSUME NEW t \in Stations, NEW r \in Stations,
                      timer'[t] # Off, announced'[t][r] > 0
               PROVE  KeptFree(t, r)'
    BY DEF AnnouncedKeptFree
  <2>1. timer[t] # Off /\ timer[t] # 0 /\ announced[t][r] > 0
    BY <1>2 DEF Left, Off
  <2>2. timer[t] \in Nat /\ timer'[t] = timer[t] - 1
    BY <1>2, <2>1, NAVTypes DEF Left
  <2>3. /\ Rest(t, r) \in Int /\ Rest(t, r) >= 0 - SifsDuration
        /\ quiet[r] \in Nat /\ announced[t][r] \in 0..2
        /\ cs[r].nav # NavNotSet => cs[r].nav \in Nat
    BY <2>1, NAVTypes
  <2>4. Rest(t, r)' = Rest(t, r) - 1
    BY <1>2, <2>2, <2>3 DEF Rest
  <2>5. KeptFree(t, r)
    BY <2>1 DEF NAVInv, AnnouncedKeptFree
  <2>6. CASE cs[r].nav # NavNotSet /\ cs[r].nav >= Rest(t, r) /\ quiet[r] = 0
    <3>1. cs'[r].nav = cs[r].nav - 1 /\ quiet'[r] = 0 /\ cs[r].nav # 0
      BY <1>1, <1>2, <2>6
    <3>2. cs'[r].nav # NavNotSet /\ cs'[r].nav >= Rest(t, r)'
      BY <2>3, <2>4, <2>6, <3>1 DEF NavNotSet
    <3>3. QED
      BY <3>1, <3>2 DEF KeptFree
  <2>7. CASE quiet[r] + Rest(t, r) <= 0
    <3>1. quiet[r] <= SifsDuration
      BY <2>3, <2>7
    <3>2. quiet'[r] + Rest(t, r)' <= 0
      BY <1>1, <2>3, <2>4, <2>7, <3>1
    <3>3. QED
      BY <3>2 DEF KeptFree
  <2>8. QED
    BY <2>5, <2>6, <2>7 DEF KeptFree
<1>6. QED
  BY <1>1, <1>3, <1>4, <1>5 DEF NAVInv

\* Steps of an access that send nothing.
LEMMA StutterNAV ==
    ASSUME IInv, NAVInv, UNCHANGED <<timer, txop, announced, mediumVars, quiet>>,
           reservation' \in Links \cup {NoReservation}
    PROVE  NAVInv'
<1>1. MediumTypeOK' /\ CarrierSensed'
  BY UnchangedCarrier DEF NAVInv
<1>2. UNCHANGED <<air, cs>>
  BY DEF mediumVars
<1>3. AnnouncedType' /\ PreamblesAnnounce' /\ AnnouncedKeptFree'
  BY <1>2 DEF NAVInv, AnnouncedType, PreamblesAnnounce, Exchange, AnnouncedKeptFree, KeptFree,
              Rest
<1>4. QED
  BY <1>1, <1>3 DEF NAVInv

\* ... one that may withdraw what its station has announced.
LEMMA QuietNAV ==
    ASSUME IInv, NAVInv, NEW s \in Stations, timer' = timer, txop' = txop,
           announced' = announced \/ NoneAnnounced(s),
           UNCHANGED <<mediumVars, quiet>>, reservation' \in Links \cup {NoReservation}
    PROVE  NAVInv'
<1>1. MediumTypeOK' /\ CarrierSensed'
  BY UnchangedCarrier DEF NAVInv
<1>2. /\ announced' = [t \in Stations |-> announced'[t]]
      /\ \A t \in Stations : announced'[t] = [r \in Stations |-> announced'[t][r]]
      /\ \A t, r \in Stations : announced'[t][r] \in {0, announced[t][r]}
  BY Withdrawn DEF NAVInv
<1>3. /\ UNCHANGED <<air, cs>>
      /\ txop \in [Stations -> BOOLEAN]
      /\ \A r \in Stations : cs[r].nav >= cs[r].nav
  BY NAVTypes DEF mediumVars, NAVInv, AnnouncedType, MediumTypeOK, ChannelStates
<1>4. QED
  BY <1>1, <1>2, <1>3, NothingAnnounced

\* A payload ends: the NAVs its header sets or extends are no shorter.
LEMMA PayloadNAV ==
    ASSUME IInv, NAVInv, NEW s \in Stations, PayloadOver(s)
    PROVE  NAVInv'
<1>1. /\ MediumTypeOK' /\ CarrierSensed'
      /\ \A r \in Stations : cs'[r].nav >= cs[r].nav
  BY PayloadCarrier DEF NAVInv
<1>2. /\ air' = [air EXCEPT ![s] = Silent]
      /\ UNCHANGED <<timer, txop, quiet, announced>>
  BY DEF PayloadOver, senderVars
<1>3. \A t \in Stations : air'[t].type = "DATA_PREAMBLE" => air'[t] = air[t]
  BY <1>2, Constants DEF IInv, TypeOK
<1>4. /\ announced' = [t \in Stations |-> announced'[t]]
      /\ \A t \in Stations : announced'[t] = [r \in Stations |-> announced'[t][r]]
      /\ txop' \in [Stations -> BOOLEAN]
  BY <1>2 DEF NAVInv, AnnouncedType
<1>5. QED
  BY <1>1, <1>2, <1>3, <1>4, NothingAnnounced

\* An acknowledgment announces nothing.
LEMMA TransmitAckNAV ==
    ASSUME IInv, NAVInv, NEW s \in Stations, TransmitAck(s)
    PROVE  NAVInv'
<1>1. PICK ack \in acks[s] :
        /\ IF air[s] = Silent
           THEN Transmit(s, Frame("ACK_PREAMBLE", ack.to, 0, ack.exchange, AckDuration))
           ELSE UNCHANGED mediumVars
        /\ UNCHANGED <<timer, txop, quiet, reservation, announced>>
  BY DEF TransmitAck, senderVars, reserved
<1> DEFINE f == Frame("ACK_PREAMBLE", ack.to, 0, ack.exchange, AckDuration)
<1>2. f.type = "ACK_PREAMBLE"
  BY DEF Frame
<1>3. reservation' \in Links \cup {NoReservation}
  BY <1>1 DEF NAVInv, MediumTypeOK
<1>4. CASE UNCHANGED mediumVars
  BY <1>1, <1>3, <1>4, QuietNAV
<1>5. CASE Transmit(s, f)
  <2> HIDE DEF f
  <2>1. /\ MediumTypeOK' /\ CarrierSensed'
        /\ \A r \in Stations : cs'[r].nav = cs[r].nav
    BY <1>1, <1>2, <1>3, <1>5, TransmitCarrier DEF NAVInv, IInv, TypeOK
  <2>2. \A r \in Stations : cs'[r].nav >= cs[r].nav
    BY <2>1, NAVTypes
  <2>3. \A t \in Stations : air'[t].type = "DATA_PREAMBLE" => air'[t] = air[t]
    BY <1>2, <1>5 DEF Transmit, IInv, TypeOK
  <2>4. /\ announced' = [t \in Stations |-> announced'[t]]
        /\ \A t \in Stations : announced'[t] = [r \in Stations |-> announced'[t][r]]
        /\ txop' \in [Stations -> BOOLEAN]
    BY <1>1 DEF NAVInv, AnnouncedType
  <2>5. QED
    BY <1>1, <2>1, <2>2, <2>3, <2>4, NothingAnnounced
<1>6. QED
  BY <1>1, <1>4, <1>5

\* One that arrives cancels the NAV of a station that awaits it, with what was announced
\* to it, and gives its sender's timer another SIFS, as much as it had left.
LEMMA AckOverNAV ==
    ASSUME IInv, NAVInv, NEW s \in Stations, AckOver(s)
    PROVE  NAVInv'
<1>1. /\ MediumTypeOK' /\ CarrierSensed'
      /\ announced' = [t \in Stations |-> announced'[t]]
      /\ \A t \in Stations : announced'[t] = [r \in Stations |-> announced'[t][r]]
      /\ \A r \in Stations :
           \/ \A t \in Stations : announced'[t][r] = 0
           \/ /\ cs'[r].nav >= cs[r].nav
              /\ \A t \in Stations : announced'[t][r] = announced[t][r]
  BY AckOverCarrier DEF NAVInv
<1>2. /\ air' = [air EXCEPT ![s] = Silent]
      /\ txop' = txop /\ quiet' = quiet
      /\ air[s].type = "ACK_PREAMBLE" /\ air[s].left = 0
  BY DEF AckOver, senderVars, ImmAck
<1>3. \A t \in Stations : air'[t].type = "DATA_PREAMBLE" => air'[t] = air[t]
  BY <1>2, Constants DEF IInv, TypeOK
<1>4. txop' \in [Stations -> BOOLEAN]
  BY <1>2 DEF NAVInv, AnnouncedType
<1>5. timer' = timer
  <2>1. CASE UNCHANGED senderVars
    BY <2>1 DEF senderVars
  <2>2. ASSUME NEW r \in Listeners(s), Takes(r, s, air[s].to), ImmAck(r, s)
        PROVE  timer' = timer
    <3>1. r = air[s].to
      BY <2>2 DEF Takes
    <3>2. Awaits(r, s, 0)
      BY <1>2, <3>1 DEF IInv, AckAwaited
    <3>3. r \in Stations /\ timer[r] = SifsDuration
      BY <3>2, Constants DEF Awaits
    <3>4. timer' = [timer EXCEPT ![r] = SifsDuration]
      BY <2>2 DEF ImmAck
    <3>5. QED
      BY <3>3, <3>4 DEF IInv, TypeOK
  <2>3. \/ UNCHANGED senderVars
        \/ \E r \in Listeners(s) : Takes(r, s, air[s].to) /\ ImmAck(r, s)
    BY DEF AckOver
  <2>4. QED
    BY <2>1, <2>2, <2>3
<1>6. QED
  BY <1>1, <1>2, <1>3, <1>4, <1>5, NothingAnnounced

\* A buffer that is through withdraws what it has announced.
LEMMA LastFrameNAV ==
    ASSUME IInv, NAVInv, NEW s \in Stations, LastFrame(s)
    PROVE  NAVInv'
<1>1. /\ timer[s] = 0
      /\ timer' = [timer EXCEPT ![s] = Off]
      /\ txop' = [txop EXCEPT ![s] = FALSE]
      /\ NoneAnnounced(s)
      /\ UNCHANGED <<mediumVars, air, cs, quiet, reservation>>
  BY DEF LastFrame, reserved, mediumVars
<1>2. MediumTypeOK' /\ CarrierSensed'
  BY <1>1, UnchangedCarrier DEF NAVInv, MediumTypeOK
<1>3. /\ announced' = [t \in Stations |-> announced'[t]]
      /\ \A t \in Stations : announced'[t] = [r \in Stations |-> announced'[t][r]]
      /\ \A t, r \in Stations : announced'[t][r] \in {0, announced[t][r]}
  BY <1>1, Withdrawn DEF NAVInv
<1>4. /\ \A t \in Stations : timer'[t] \in {Off, timer[t]}
      /\ txop' \in [Stations -> BOOLEAN]
      /\ \A t \in Stations \ {s} : txop'[t] = txop[t]
  BY <1>1 DEF IInv, TypeOK, NAVInv, AnnouncedType
<1>5. air[s].type # "DATA_PREAMBLE"
  BY <1>1, NothingUnderWay DEF Sending
<1>6. \A r \in Stations : cs'[r].nav >= cs[r].nav
  BY <1>1, NAVTypes
<1>7. \A t \in Stations : air'[t].type = "DATA_PREAMBLE" =>
         air'[t] = air[t] /\ txop'[t] = txop[t]
  BY <1>1, <1>4, <1>5
<1>8. QED
  BY <1>1, <1>2, <1>3, <1>4, <1>6, <1>7, NothingAnnounced

\* A reservation starts, when all accesses are over.
LEMMA ReservationNAV ==
    ASSUME IInv, NAVInv, NEW s \in Stations, NEW r \in Stations, ReservationStarts(s, r)
    PROVE  NAVInv'
<1>1. /\ NoneAnnounced(s) /\ quiet' = quiet
      /\ reservation' \in Links \cup {NoReservation}
  BY DEF ReservationStarts, Links
<1>2. CASE SendCompound(s, r)
  BY <1>1, <1>2, SendNAV
<1>3. CASE UNCHANGED <<timer, isWaitingSIFS, txop, mediumVars>>
  BY <1>1, <1>3, QuietNAV
<1>4. QED
  BY <1>2, <1>3 DEF ReservationStarts

-----------------------------------------------------------------------------
\* Initially nothing is announced.
LEMMA InitNAV == Init => NAVInv
<1> SUFFICES ASSUME Init PROVE NAVInv
  OBVIOUS
<1>1. MediumTypeOK /\ CarrierSensed
  BY InitMedium DEF MediumInv
<1>2. AnnouncedType
  BY DEF Init, AnnouncedType
<1>3. PreamblesAnnounce
  BY Constants DEF Init, PreamblesAnnounce
<1>4. AnnouncedKeptFree
  BY DEF Init, AnnouncedKeptFree
<1>5. QED
  BY <1>1, <1>2, <1>3, <1>4 DEF NAVInv

\* Every step keeps what was announced free.
LEMMA NextNAV == IInv /\ NAVInv /\ [Next]_vars => NAVInv'
<1> SUFFICES ASSUME IInv, NAVInv, [Next]_vars PROVE NAVInv'
  OBVIOUS
<1>0. reservation \in Links \cup {NoReservation}
  BY DEF NAVInv, MediumTypeOK
<1>1. ASSUME NEW s \in Stations, NEW r \in Stations, StartAccess(s, r)
      PROVE  NAVInv'
  <2>1. SendCompound(s, r) /\ NoneAnnounced(s) /\ UNCHANGED <<quiet, reservation>>
    BY <1>1 DEF StartAccess, reserved
  <2>2. QED
    BY <1>0, <2>1, SendNAV
<1>2. ASSUME NEW s \in Stations, NEW r \in Stations, StartIdleAccess(s, r)
      PROVE  NAVInv'
  BY <1>0, <1>2, QuietNAV DEF StartIdleAccess, reserved
<1>3. ASSUME NEW s \in Stations, EndIdleAccess(s)
      PROVE  NAVInv'
  BY <1>0, <1>3, QuietNAV DEF EndIdleAccess, reserved
<1>4. ASSUME NEW s \in Stations, NextFrame(s)
      PROVE  NAVInv'
  <2>1. /\ timer[s] = 0 /\ SendCompound(s, partner[s]) /\ OneLessAnnounced(s)
        /\ UNCHANGED <<quiet, reservation>>
    BY <1>4 DEF NextFrame, reserved
  <2>2. partner[s] \in Stations
    BY <2>1 DEF IInv, TimerInAccess, TypeOK, Off
  <2>3. QED
    BY <1>0, <2>1, <2>2, SendNAV
<1>5. CASE ReservationNears
  <2>1. UNCHANGED <<timer, txop, announced, mediumVars, quiet, reservation>>
    BY <1>5 DEF ReservationNears, senderVars
  <2>2. QED
    BY <1>0, <2>1, StutterNAV
<1>6. CASE ReservationStops
  <2>1. /\ UNCHANGED <<timer, txop, announced, mediumVars, quiet>>
        /\ reservation' = NoReservation
    BY <1>6 DEF ReservationStops
  <2>2. QED
    BY <2>1, StutterNAV
<1>7. CASE UNCHANGED vars
  <2>1. UNCHANGED <<timer, txop, announced, mediumVars, quiet, reservation>>
    BY <1>7 DEF vars, senderVars, reserved
  <2>2. QED
    BY <1>0, <2>1, StutterNAV
<1>8. QED
  BY <1>1, <1>2, <1>3, <1>4, <1>5, <1>6, <1>7, PreambleNAV, PayloadNAV, TransmitAckNAV,
     AckOverNAV, LastFrameNAV, ReservationNAV, TimeoutNAV, TickNAV DEF Next

\* What a preamble has announced is kept free by those that took it up: by their NAV up to
\* the end of the last acknowledgment, and for the SIFS that follows it by their backoff,
\* since AIFS is longer.
THEOREM NAVInvariant == Spec => []NAVInv
  BY InitNAV, NextNAV, InductiveInvariant, PTL DEF Spec

\* A contention access (DRPScheduler::startPCAtransmission) never begins in an exchange
\* that was announced to its station, whatever gets lost, and however frames of hidden
\* stations overlap (ChannelState.cpp:231-269).
THEOREM ExchangeUndisturbedHolds == Spec => ExchangeUndisturbed
<1>1. ASSUME IInv, NAVInv, NEW r \in Stations, NEW s \in Stations, StartAccess(r, s),
             NEW t \in Stations, timer[t] # Off
      PROVE  announced[t][r] = 0
  <2> SUFFICES ASSUME announced[t][r] # 0 PROVE FALSE
    OBVIOUS
  <2>1. announced[t][r] > 0
    BY <1>1, NAVTypes
  <2>2. KeptFree(t, r)
    BY <1>1, <2>1 DEF NAVInv, AnnouncedKeptFree
  <2>3. quiet[r] = Aifs /\ SifsDuration < Aifs /\ Aifs \in Nat
    BY <1>1, DurationAssumption DEF StartAccess
  <2>4. Rest(t, r) \in Int /\ Rest(t, r) >= 0 - SifsDuration
    BY <1>1, NAVTypes
  <2>5. QED
    BY <2>2, <2>3, <2>4, Constants DEF KeptFree
<1>2. IInv /\ NAVInv /\ [Next]_vars =>
        [\A r, s \in Stations : StartAccess(r, s) =>
           \A t \in Stations : timer[t] # Off => announced[t][r] = 0]_vars
  BY <1>1
<1>3. QED
  BY <1>2, InductiveInvariant, NAVInvariant, PTL DEF Spec, ExchangeUndisturbed
=============================================================================
