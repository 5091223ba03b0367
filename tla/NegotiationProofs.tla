------------------------- MODULE NegotiationProofs -------------------------
(***************************************************************************)
(* Theorems about Negotiation, for any number of stations, links, slots    *)
(* and lost beacons.  The inductive invariant says what the two ends of a  *)
(* link have in common (Agree), that the slots of each are in its          *)
(* station's map, that a target's reservations exclude each other, and, as *)
(* long as no beacon is lost, that they are in every other station's map.  *)
(* The proof goes through the stages of a wake-up: each changes a manager  *)
(* in a way that is stated member by member, the loops over the links of a *)
(* station are handled by induction, and a beacon changes only the links   *)
(* of its sender.                                                          *)
(***************************************************************************)
EXTENDS Negotiation, FiniteSetTheorems, Induction

Reasons == {"Accept", "Conflict", "Modified"}

Managers ==
    [known : BOOLEAN, reason : Reasons, status : BOOLEAN, alloc : SUBSET Slots,
     mergeReason : Reasons, mergeStatus : BOOLEAN, merge : SUBSET Slots,
     pendingMerge : BOOLEAN]

Elements == [reason : Reasons, status : BOOLEAN, alloc : SUBSET Slots]

\* d has the reservation, or the slots to be merged, of c.
SameReservation(c, d) ==
    /\ d.known = c.known
    /\ d.reason = c.reason
    /\ d.status = c.status
    /\ d.alloc = c.alloc

SameMerge(c, d) ==
    /\ d.mergeReason = c.mergeReason
    /\ d.mergeStatus = c.mergeStatus
    /\ d.merge = c.merge
    /\ d.pendingMerge = c.pendingMerge

-----------------------------------------------------------------------------
\* What the operators of DRPManager make of a manager, member by member.
LEMMA NewManagerFields ==
    ASSUME NEW r \in Reasons, NEW slots \in SUBSET Slots
    PROVE  LET d == NewManager(r, slots) IN
           /\ d \in Managers
           /\ d.known /\ d.reason = r /\ ~d.status /\ d.alloc = slots
           /\ ~d.mergeStatus /\ d.merge = {} /\ ~d.pendingMerge
  BY DEF NewManager, Managers, Reasons

\* A manager that does not exist yet.
LEMMA NoManagerFields ==
    /\ NoManager \in Managers
    /\ ~NoManager.known /\ NoManager.reason = "Accept"
    /\ ~NoManager.status /\ NoManager.alloc = {}
    /\ ~NoManager.mergeStatus /\ NoManager.merge = {} /\ ~NoManager.pendingMerge
  BY DEF NoManager, NewManager, Managers, Reasons

\* MergePatterns adds the slots to be merged to the reservation.
LEMMA MergePatternsFields ==
    ASSUME NEW c \in Managers
    PROVE  LET d == MergePatterns(c) IN
           /\ d \in Managers
           /\ d.known = c.known /\ d.reason = c.reason /\ d.status = c.status
           /\ d.alloc = c.alloc \cup c.merge
           /\ d.mergeReason = "Accept" /\ ~d.mergeStatus
           /\ d.merge = {} /\ ~d.pendingMerge
  BY DEF MergePatterns, Managers, Reasons

\* AfterHasPending changes nothing but the flag.
LEMMA AfterHasPendingFields ==
    ASSUME NEW c \in Managers
    PROVE  LET d == AfterHasPending(c) IN
           /\ d \in Managers
           /\ SameReservation(c, d)
           /\ d.mergeReason = c.mergeReason
           /\ d.mergeStatus = c.mergeStatus
           /\ d.merge = c.merge
           /\ d.pendingMerge = HasPendingDRPMerge(c)
  BY DEF AfterHasPending, HasPendingDRPMerge, Managers, SameReservation

\* What the owner of a link does before it proposes: it gives up slots in
\* conflict.
LEMMA EvaluateOutgoingFields ==
    ASSUME NEW c \in Managers
    PROVE  LET d == EvaluateOutgoing(c) IN
           /\ d \in Managers
           /\ d.known = c.known
           /\ IF c.reason = "Conflict"
              THEN d.alloc = {} /\ ~d.status /\ d.reason = "Modified"
              ELSE SameReservation(c, d)
           /\ IF c.mergeReason = "Conflict"
              THEN /\ d.merge = {} /\ ~d.mergeStatus /\ d.mergeReason = "Modified"
                   /\ d.pendingMerge = c.pendingMerge
              ELSE SameMerge(c, d)
<1> DEFINE e == IF c.reason = "Conflict" THEN ResolveConflict(c) ELSE c
<1>1. /\ e \in Managers
      /\ e.known = c.known
      /\ IF c.reason = "Conflict"
         THEN e.alloc = {} /\ ~e.status /\ e.reason = "Modified"
         ELSE SameReservation(c, e)
      /\ SameMerge(c, e)
  BY DEF ResolveConflict, Managers, Reasons, SameReservation, SameMerge
<1> HIDE DEF e
<1>2. EvaluateOutgoing(c) = IF e.mergeReason = "Conflict" THEN ResolveMergeConflict(e)
                            ELSE e
  BY DEF EvaluateOutgoing, e
<1>3. CASE e.mergeReason = "Conflict"
  <2>1. LET d == ResolveMergeConflict(e) IN
        /\ d \in Managers /\ SameReservation(e, d)
        /\ d.merge = {} /\ ~d.mergeStatus /\ d.mergeReason = "Modified"
        /\ d.pendingMerge = e.pendingMerge
    BY <1>1 DEF ResolveMergeConflict, Managers, Reasons, SameReservation
  <2>2. QED
    BY <1>1, <1>2, <1>3, <2>1 DEF SameReservation, SameMerge
<1>4. CASE e.mergeReason # "Conflict"
  BY <1>1, <1>2, <1>4 DEF SameReservation, SameMerge
<1>5. QED
  BY <1>3, <1>4

\* The answer of a target that sees the slots of m.
Answer(m, c) == AfterHasPending(EvaluateMerge(m, EvaluatePattern(m, c)))

Answered(m, c, d) ==
    /\ d.known = c.known /\ d.alloc = c.alloc
    /\ d.merge = c.merge /\ d.pendingMerge = HasPendingDRPMerge(c)
    /\ \/ d.status = c.status /\ d.reason = c.reason
       \/ /\ ~c.status /\ c.reason # "Conflict" /\ PossiblePattern(m, c.alloc)
          /\ d.status /\ d.reason = "Accept"
       \/ ~c.status /\ ~d.status /\ d.reason = "Conflict"
    /\ \/ d.mergeStatus = c.mergeStatus /\ d.mergeReason = c.mergeReason
       \/ /\ HasPendingDRPMerge(c) /\ ~c.mergeStatus /\ c.mergeReason # "Conflict"
          /\ PossiblePattern(m, c.merge)
          /\ d.mergeStatus /\ d.mergeReason = "Accept"
       \/ ~c.mergeStatus /\ ~d.mergeStatus /\ d.mergeReason = "Conflict"

\* EvaluatePattern decides an open proposal, and only that.
LEMMA EvaluatePatternFields ==
    ASSUME NEW m, NEW c \in Managers
    PROVE  LET d == EvaluatePattern(m, c) IN
           /\ d \in Managers
           /\ d.known = c.known /\ d.alloc = c.alloc
           /\ SameMerge(c, d)
           /\ \/ d.status = c.status /\ d.reason = c.reason
              \/ /\ ~c.status /\ c.reason # "Conflict" /\ PossiblePattern(m, c.alloc)
                 /\ d.status /\ d.reason = "Accept"
              \/ ~c.status /\ ~d.status /\ d.reason = "Conflict"
<1>1. CASE c.status \/ c.reason = "Conflict"
  BY <1>1 DEF EvaluatePattern, SameMerge
<1>2. CASE ~(c.status \/ c.reason = "Conflict") /\ PossiblePattern(m, c.alloc)
  BY <1>2 DEF EvaluatePattern, SameMerge, Managers, Reasons
<1>3. CASE ~(c.status \/ c.reason = "Conflict") /\ ~PossiblePattern(m, c.alloc)
  BY <1>3 DEF EvaluatePattern, SameMerge, Managers, Reasons
<1>4. QED
  BY <1>1, <1>2, <1>3

\* EvaluateMerge does the same for slots to be merged.
LEMMA EvaluateMergeFields ==
    ASSUME NEW m, NEW c \in Managers
    PROVE  LET d == EvaluateMerge(m, c) IN
           /\ d \in Managers
           /\ SameReservation(c, d)
           /\ d.merge = c.merge /\ d.pendingMerge = c.pendingMerge
           /\ \/ d.mergeStatus = c.mergeStatus /\ d.mergeReason = c.mergeReason
              \/ /\ HasPendingDRPMerge(c) /\ ~c.mergeStatus
                 /\ c.mergeReason # "Conflict" /\ PossiblePattern(m, c.merge)
                 /\ d.mergeStatus /\ d.mergeReason = "Accept"
              \/ ~c.mergeStatus /\ ~d.mergeStatus /\ d.mergeReason = "Conflict"
<1> DEFINE done == \/ ~HasPendingDRPMerge(c)
                   \/ c.mergeStatus
                   \/ c.mergeReason = "Conflict"
<1>1. CASE done
  BY <1>1 DEF EvaluateMerge, SameReservation
<1>2. CASE ~done /\ PossiblePattern(m, c.merge)
  BY <1>2 DEF EvaluateMerge, SameReservation, Managers, Reasons
<1>3. CASE ~done /\ ~PossiblePattern(m, c.merge)
  BY <1>3 DEF EvaluateMerge, SameReservation, Managers, Reasons
<1>4. QED
  BY <1>1, <1>2, <1>3

\* The stages of the evaluation together.
LEMMA AnswerFields ==
    ASSUME NEW m, NEW c \in Managers
    PROVE  Answer(m, c) \in Managers /\ Answered(m, c, Answer(m, c))
<1> DEFINE d == EvaluatePattern(m, c)
           e == EvaluateMerge(m, d)
           f == AfterHasPending(e)
<1>1. Answer(m, c) = f
  BY DEF Answer
<1>2. /\ d \in Managers
      /\ d.known = c.known /\ d.alloc = c.alloc
      /\ SameMerge(c, d)
      /\ \/ d.status = c.status /\ d.reason = c.reason
         \/ /\ ~c.status /\ c.reason # "Conflict" /\ PossiblePattern(m, c.alloc)
            /\ d.status /\ d.reason = "Accept"
         \/ ~c.status /\ ~d.status /\ d.reason = "Conflict"
  BY EvaluatePatternFields
<1> HIDE DEF d
<1>3. /\ e \in Managers
      /\ SameReservation(d, e)
      /\ e.merge = d.merge /\ e.pendingMerge = d.pendingMerge
      /\ \/ e.mergeStatus = d.mergeStatus /\ e.mergeReason = d.mergeReason
         \/ /\ HasPendingDRPMerge(d) /\ ~d.mergeStatus
            /\ d.mergeReason # "Conflict" /\ PossiblePattern(m, d.merge)
            /\ e.mergeStatus /\ e.mergeReason = "Accept"
         \/ ~d.mergeStatus /\ ~e.mergeStatus /\ e.mergeReason = "Conflict"
  BY <1>2, EvaluateMergeFields
<1> HIDE DEF e
<1>4. /\ f \in Managers
      /\ SameReservation(e, f)
      /\ f.mergeReason = e.mergeReason
      /\ f.mergeStatus = e.mergeStatus
      /\ f.merge = e.merge
      /\ f.pendingMerge = HasPendingDRPMerge(e)
  BY <1>3, AfterHasPendingFields
<1> HIDE DEF f
<1>5. Answered(m, c, f)
  BY <1>2, <1>3, <1>4
  DEF Answered, SameReservation, SameMerge, HasPendingDRPMerge
<1>6. QED
  BY <1>1, <1>4, <1>5

-----------------------------------------------------------------------------
(***************************************************************************)
(* What owner and target have in common, o at the owner and i at the       *)
(* target of a link, whatever beacons are lost.                            *)
(***************************************************************************)
ReservationAgreed(o, i) ==
    /\ i.known => o.known /\ i.alloc # {}
    /\ o.status => o.reason = "Accept" /\ i.status
    /\ i.status => i.known /\ i.reason = "Accept"
    /\ i.known /\ i.reason # "Conflict" =>
        o.reason # "Conflict" /\ o.alloc # {} /\ o.alloc \subseteq i.alloc

MergeToBeAgreed(o, i) ==
    /\ i.pendingMerge => i.known
    /\ HasPendingDRPMerge(i) /\ i.mergeReason # "Conflict" =>
        o.merge = i.merge /\ o.mergeReason # "Conflict"
    /\ ~o.mergeStatus /\ ~i.mergeStatus
    /\ o.merge # {} => o.pendingMerge

Agree(o, i) == ReservationAgreed(o, i) /\ MergeToBeAgreed(o, i)

\* The two elements of a beacon for a manager d.
Base(d) == [reason |-> d.reason, status |-> d.status, alloc |-> d.alloc]
Additional(d) == [reason |-> d.mergeReason, status |-> d.mergeStatus, alloc |-> d.merge]

\* DRPIEs(d) are none, the first, or both of these elements.
LEMMA ElementsSent ==
    ASSUME NEW d \in Managers
    PROVE  /\ Base(d) \in Elements /\ Additional(d) \in Elements
           /\ Base(d).reason = d.reason /\ Base(d).status = d.status
           /\ Base(d).alloc = d.alloc
           /\ Additional(d).reason = d.mergeReason
           /\ Additional(d).status = d.mergeStatus
           /\ Additional(d).alloc = d.merge
           /\ DRPIEs(d) = IF ~d.known \/ d.alloc = {} THEN <<>>
                          ELSE IF ~HasPendingDRPMerge(d) THEN <<Base(d)>>
                          ELSE <<Base(d), Additional(d)>>
<1>1. /\ Base(d) \in Elements /\ Additional(d) \in Elements
      /\ Base(d).reason = d.reason /\ Base(d).status = d.status
      /\ Base(d).alloc = d.alloc
      /\ Additional(d).reason = d.mergeReason
      /\ Additional(d).status = d.mergeStatus
      /\ Additional(d).alloc = d.merge
  BY DEF Base, Additional, Elements, Managers
<1>2. DRPIEs(d) = IF ~d.known \/ d.alloc = {} THEN <<>>
                  ELSE IF ~HasPendingDRPMerge(d) THEN <<Base(d)>>
                  ELSE <<Base(d), Additional(d)>>
  BY DEF DRPIEs, IsMapCreated, Base, Additional
<1>3. QED
  BY <1>1, <1>2

\* What stations make of them.
FromBeaconOfOwner(c, ies) == Examined(c, ies, FromOwner, MergeFromOwner)
FromBeaconOfTarget(c, ies) == Examined(c, ies, FromTarget, MergeFromTarget)

\* A beacon without elements of the link changes nothing, ...
LEMMA ExaminedNone ==
    ASSUME NEW c, NEW ies, ies = <<>>
    PROVE  FromBeaconOfOwner(c, ies) = c /\ FromBeaconOfTarget(c, ies) = c
  BY DEF FromBeaconOfOwner, FromBeaconOfTarget, Examined

\* ... one element is examined as the reservation, ...
LEMMA ExaminedOne ==
    ASSUME NEW c, NEW a, NEW ies, ies = <<a>>
    PROVE  /\ FromBeaconOfOwner(c, ies) = FromOwner(c, a)
           /\ FromBeaconOfTarget(c, ies) = FromTarget(c, a)
  BY DEF FromBeaconOfOwner, FromBeaconOfTarget, Examined

\* ... and a second one as the slots to be merged.
LEMMA ExaminedTwo ==
    ASSUME NEW c, NEW a, NEW b, NEW ies, ies = <<a, b>>
    PROVE  /\ FromBeaconOfOwner(c, ies) = MergeFromOwner(FromOwner(c, a), b)
           /\ FromBeaconOfTarget(c, ies) = MergeFromTarget(FromTarget(c, a), b)
  BY DEF FromBeaconOfOwner, FromBeaconOfTarget, Examined

\* What a target makes of the owner's reservation, ...
LEMMA FromOwnerFields ==
    ASSUME NEW c \in Managers, NEW ie \in Elements
    PROVE  LET d == FromOwner(c, ie) IN
           /\ d \in Managers
           /\ d.known
           /\ IF ~c.known
              THEN /\ d.reason = ie.reason /\ ~d.status /\ d.alloc = ie.alloc
                   /\ ~d.mergeStatus /\ d.merge = {} /\ ~d.pendingMerge
              ELSE /\ SameMerge(c, d)
                   /\ IF ie.reason = "Accept" THEN SameReservation(c, d)
                      ELSE /\ d.reason = ie.reason
                           /\ d.status = (c.status /\ ie.status)
                           /\ d.alloc = IF ie.reason = "Modified" THEN ie.alloc
                                        ELSE c.alloc
<1>1. CASE ~c.known
  <2>1. ie.reason \in Reasons /\ ie.alloc \in SUBSET Slots
    BY DEF Elements
  <2>2. FromOwner(c, ie) = NewManager(ie.reason, ie.alloc)
    BY <1>1 DEF FromOwner
  <2>3. QED
    BY <1>1, <2>1, <2>2, NewManagerFields
<1>2. CASE c.known /\ ie.reason = "Accept"
  BY <1>2 DEF FromOwner, SameReservation, SameMerge
<1>3. CASE c.known /\ ie.reason # "Accept"
  BY <1>3 DEF FromOwner, Managers, Reasons, Elements, SameMerge
<1>4. QED
  BY <1>1, <1>2, <1>3

\* ... and of the slots to be merged into it.
LEMMA MergeFromOwnerFields ==
    ASSUME NEW c \in Managers, NEW ie \in Elements
    PROVE  LET d == MergeFromOwner(c, ie) IN
           /\ d \in Managers
           /\ SameReservation(c, d)
           /\ IF ~HasPendingDRPMerge(c)
              THEN /\ d.mergeReason = ie.reason /\ d.merge = ie.alloc
                   /\ d.pendingMerge /\ d.mergeStatus = c.mergeStatus
              ELSE IF ie.reason = "Accept" THEN SameMerge(c, d)
              ELSE /\ d.mergeReason = ie.reason
                   /\ d.mergeStatus = (c.mergeStatus /\ ie.status)
                   /\ d.merge = IF ie.reason = "Modified" THEN ie.alloc ELSE c.merge
                   /\ d.pendingMerge = c.pendingMerge
<1>1. CASE ~HasPendingDRPMerge(c)
  BY <1>1 DEF MergeFromOwner, AddReservation, Managers, Elements, SameReservation
<1>2. CASE HasPendingDRPMerge(c) /\ ie.reason = "Accept"
  BY <1>2 DEF MergeFromOwner, SameReservation, SameMerge
<1>3. CASE HasPendingDRPMerge(c) /\ ie.reason # "Accept"
  BY <1>3 DEF MergeFromOwner, Managers, Reasons, Elements, SameReservation
<1>4. QED
  BY <1>1, <1>2, <1>3

\* What an owner makes of the target's answer, ...
LEMMA FromTargetFields ==
    ASSUME NEW c \in Managers, NEW ie \in Elements
    PROVE  LET d == FromTarget(c, ie) IN
           /\ d \in Managers
           /\ d.known = c.known /\ d.alloc = c.alloc
           /\ d.reason = ie.reason /\ d.status = ie.status
           /\ SameMerge(c, d)
  BY DEF FromTarget, Managers, Elements, SameMerge

\* ... and of the answer about slots to be merged.
LEMMA MergeFromTargetFields ==
    ASSUME NEW c \in Managers, NEW ie \in Elements
    PROVE  LET d == MergeFromTarget(c, ie) IN
           /\ d \in Managers
           /\ d.known = c.known /\ d.reason = c.reason /\ d.status = c.status
           /\ IF ie.status /\ ie.reason = "Accept"
              THEN /\ d.alloc = c.alloc \cup c.merge
                   /\ d.mergeReason = "Accept" /\ ~d.mergeStatus
                   /\ d.merge = {} /\ ~d.pendingMerge
              ELSE /\ d.alloc = c.alloc
                   /\ d.mergeReason = ie.reason /\ d.mergeStatus = ie.status
                   /\ d.merge = c.merge /\ d.pendingMerge = c.pendingMerge
<1> DEFINE e == [c EXCEPT !.mergeReason = ie.reason, !.mergeStatus = ie.status]
<1>1. /\ e \in Managers
      /\ SameReservation(c, e)
      /\ e.mergeReason = ie.reason /\ e.mergeStatus = ie.status
      /\ e.merge = c.merge /\ e.pendingMerge = c.pendingMerge
  BY DEF Managers, Elements, SameReservation
<1>2. MergeFromTarget(c, ie) = IF ie.status /\ ie.reason = "Accept"
                               THEN MergePatterns(e) ELSE e
  BY DEF MergeFromTarget
<1> HIDE DEF e
<1>3. CASE ie.status /\ ie.reason = "Accept"
  BY <1>1, <1>2, <1>3, MergePatternsFields DEF SameReservation
<1>4. CASE ~(ie.status /\ ie.reason = "Accept")
  BY <1>1, <1>2, <1>4 DEF SameReservation
<1>5. QED
  BY <1>3, <1>4

-----------------------------------------------------------------------------
(***************************************************************************)
(* A wake-up and Agree.                                                    *)
(***************************************************************************)
\* What an owner proposes, where it had e after the evaluation.
Proposes(e, d) ==
    /\ d.known = e.known /\ d.reason = e.reason /\ d.status = e.status
    /\ d.mergeReason = e.mergeReason /\ d.mergeStatus = e.mergeStatus
    /\ e.alloc # {} => d.alloc = e.alloc
    /\ \/ d.merge = e.merge /\ d.pendingMerge = e.pendingMerge
       \/ ~e.pendingMerge /\ d.pendingMerge

\* Sending a beacon changes only the flag at the owner, ...
LEMMA SentAsOwnerFields ==
    ASSUME NEW c \in Managers
    PROVE  LET d == SentAsOwner(c) IN
           /\ d \in Managers
           /\ SameReservation(c, d)
           /\ d.mergeReason = c.mergeReason /\ d.mergeStatus = c.mergeStatus
           /\ d.merge = c.merge
           /\ d.pendingMerge = IF c.alloc # {} THEN HasPendingDRPMerge(c)
                               ELSE c.pendingMerge
<1>1. CASE c.alloc # {}
  BY <1>1, AfterHasPendingFields DEF SentAsOwner, IsMapCreated
<1>2. CASE c.alloc = {}
  BY <1>2 DEF SentAsOwner, IsMapCreated, SameReservation
<1>3. QED
  BY <1>1, <1>2

\* ... and merges what has been accepted at the target.
LEMMA SentAsTargetFields ==
    ASSUME NEW c \in Managers
    PROVE  LET d == SentAsTarget(c) IN
           /\ d \in Managers
           /\ d.known = c.known /\ d.reason = c.reason /\ d.status = c.status
           /\ IF c.alloc # {} /\ IsMergeReserved(c)
              THEN /\ d.alloc = c.alloc \cup c.merge
                   /\ d.mergeReason = "Accept" /\ ~d.mergeStatus
                   /\ d.merge = {} /\ ~d.pendingMerge
              ELSE /\ d.alloc = c.alloc
                   /\ d.mergeReason = c.mergeReason /\ d.mergeStatus = c.mergeStatus
                   /\ d.merge = c.merge /\ d.pendingMerge = HasPendingDRPMerge(c)
<1>1. CASE c.alloc # {} /\ IsMergeReserved(c)
  BY <1>1, MergePatternsFields DEF SentAsTarget, IsMapCreated
<1>2. CASE ~(c.alloc # {} /\ IsMergeReserved(c))
  BY <1>2, AfterHasPendingFields DEF SentAsTarget, IsMapCreated, SameReservation
<1>3. QED
  BY <1>1, <1>2

\* A target has no more reserved than before when a beacon of the owner came.
KeepsReservation(i, j) ==
    IsReserved(j) => IsReserved(i) /\ j.alloc = i.alloc

\* The beacon of an owner: the ends agree whether the target has received it or
\* not, and the target has not reserved more by it.
LEMMA OwnerStep ==
    ASSUME NEW o \in Managers, NEW i \in Managers, NEW d \in Managers,
           Agree(o, i), o.known, Proposes(EvaluateOutgoing(o), d)
    PROVE  /\ Agree(SentAsOwner(d), i)
           /\ FromBeaconOfOwner(i, DRPIEs(d)) \in Managers
           /\ Agree(SentAsOwner(d), FromBeaconOfOwner(i, DRPIEs(d)))
           /\ KeepsReservation(i, FromBeaconOfOwner(i, DRPIEs(d)))
<1> DEFINE e == EvaluateOutgoing(o)
           p == SentAsOwner(d)
           f == FromOwner(i, Base(d))
           g == MergeFromOwner(f, Additional(d))
<1>1. /\ e \in Managers
      /\ e.known = o.known
      /\ IF o.reason = "Conflict"
         THEN e.alloc = {} /\ ~e.status /\ e.reason = "Modified"
         ELSE SameReservation(o, e)
      /\ IF o.mergeReason = "Conflict"
         THEN /\ e.merge = {} /\ ~e.mergeStatus /\ e.mergeReason = "Modified"
              /\ e.pendingMerge = o.pendingMerge
         ELSE SameMerge(o, e)
  BY EvaluateOutgoingFields
<1>2. Proposes(e, d)
  OBVIOUS
<1> HIDE DEF e
<1>3. /\ p \in Managers
      /\ SameReservation(d, p)
      /\ p.mergeReason = d.mergeReason /\ p.mergeStatus = d.mergeStatus
      /\ p.merge = d.merge
      /\ p.pendingMerge = IF d.alloc # {} THEN HasPendingDRPMerge(d)
                          ELSE d.pendingMerge
  BY SentAsOwnerFields
<1> HIDE DEF p
<1>4. Agree(p, i)
  BY <1>1, <1>2, <1>3
  DEF Agree, ReservationAgreed, MergeToBeAgreed, Proposes, SameReservation,
      SameMerge, HasPendingDRPMerge
<1>5. /\ Base(d) \in Elements /\ Additional(d) \in Elements
      /\ Base(d).reason = d.reason /\ Base(d).status = d.status
      /\ Base(d).alloc = d.alloc
      /\ Additional(d).reason = d.mergeReason
      /\ Additional(d).status = d.mergeStatus
      /\ Additional(d).alloc = d.merge
  BY ElementsSent
<1>6. /\ f \in Managers
      /\ f.known
      /\ IF ~i.known
         THEN /\ f.reason = d.reason /\ ~f.status /\ f.alloc = d.alloc
              /\ ~f.mergeStatus /\ f.merge = {} /\ ~f.pendingMerge
         ELSE /\ SameMerge(i, f)
              /\ IF d.reason = "Accept" THEN SameReservation(i, f)
                 ELSE /\ f.reason = d.reason
                      /\ f.status = (i.status /\ d.status)
                      /\ f.alloc = IF d.reason = "Modified" THEN d.alloc
                                   ELSE i.alloc
  BY <1>5, FromOwnerFields
<1> HIDE DEF f
<1>7. /\ g \in Managers
      /\ SameReservation(f, g)
      /\ IF ~HasPendingDRPMerge(f)
         THEN /\ g.mergeReason = d.mergeReason /\ g.merge = d.merge
              /\ g.pendingMerge /\ g.mergeStatus = f.mergeStatus
         ELSE IF d.mergeReason = "Accept" THEN SameMerge(f, g)
         ELSE /\ g.mergeReason = d.mergeReason
              /\ g.mergeStatus = (f.mergeStatus /\ d.mergeStatus)
              /\ g.merge = IF d.mergeReason = "Modified" THEN d.merge ELSE f.merge
              /\ g.pendingMerge = f.pendingMerge
  BY <1>5, <1>6, MergeFromOwnerFields
<1> HIDE DEF g
<1>8. CASE d.alloc = {}
  <2>1. FromBeaconOfOwner(i, DRPIEs(d)) = i
    BY <1>8, ElementsSent, ExaminedNone
  <2>2. QED
    BY <1>3, <1>4, <2>1 DEF KeepsReservation, p
<1>9. d.known /\ d.reason \in {"Accept", "Modified"} /\ d.mergeReason \in {"Accept", "Modified"}
  BY <1>1, <1>2 DEF Proposes, SameReservation, SameMerge, Managers, Reasons
<1>10. CASE d.alloc # {} /\ ~HasPendingDRPMerge(d)
  <2>1. FromBeaconOfOwner(i, DRPIEs(d)) = f
    BY <1>9, <1>10, ElementsSent, ExaminedOne DEF f
  <2>2. Agree(p, f)
    <3>1. ReservationAgreed(p, f)
      BY <1>1, <1>2, <1>3, <1>4, <1>6, <1>9, <1>10
      DEF Agree, ReservationAgreed, Proposes, SameReservation
    <3>2. MergeToBeAgreed(p, f)
      BY <1>1, <1>2, <1>3, <1>4, <1>6, <1>9, <1>10
      DEF Agree, MergeToBeAgreed, Proposes, SameReservation, SameMerge, HasPendingDRPMerge
    <3>3. QED
      BY <3>1, <3>2 DEF Agree
  <2>3. KeepsReservation(i, f)
    BY <1>6, <1>9 DEF KeepsReservation, IsReserved, SameReservation
  <2>4. QED
    BY <1>4, <1>6, <2>1, <2>2, <2>3 DEF p
<1>11. CASE d.alloc # {} /\ HasPendingDRPMerge(d)
  <2>1. FromBeaconOfOwner(i, DRPIEs(d)) = g
    <3>1. DRPIEs(d) = <<Base(d), Additional(d)>>
      BY <1>9, <1>11, ElementsSent
    <3>2. QED
      BY <3>1, ExaminedTwo DEF f, g
  <2>2. Agree(p, g)
    <3>1. ReservationAgreed(p, g)
      BY <1>1, <1>2, <1>3, <1>4, <1>6, <1>7, <1>9, <1>11
      DEF Agree, ReservationAgreed, Proposes, SameReservation
    <3>2. MergeToBeAgreed(p, g)
      BY <1>1, <1>2, <1>3, <1>4, <1>6, <1>7, <1>9, <1>11
      DEF Agree, MergeToBeAgreed, Proposes, SameReservation, SameMerge, HasPendingDRPMerge
    <3>3. QED
      BY <3>1, <3>2 DEF Agree
  <2>3. KeepsReservation(i, g)
    BY <1>6, <1>7, <1>9 DEF KeepsReservation, IsReserved, SameReservation
  <2>4. QED
    BY <1>4, <1>7, <2>1, <2>2, <2>3 DEF p
<1>12. QED
  BY <1>3, <1>8, <1>10, <1>11 DEF p

\* The slots that are sent as reserved.
SentReserved(ies) == UNION {ies[n].alloc : n \in {k \in 1 .. Len(ies) : ies[k].status}}

\* The beacon of a target: the ends agree whether the owner has received it or
\* not, additional slots that are accepted are those of the owner, and what the
\* target has reserved is sent as reserved.
LEMMA TargetStep ==
    ASSUME NEW o \in Managers, NEW i \in Managers, NEW d \in Managers, NEW m,
           Agree(o, i), i.known, Answered(m, i, d)
    PROVE  /\ Agree(o, SentAsTarget(d))
           /\ FromBeaconOfTarget(o, DRPIEs(d)) \in Managers
           /\ Agree(FromBeaconOfTarget(o, DRPIEs(d)), SentAsTarget(d))
           /\ Len(DRPIEs(d)) = 2 /\ DRPIEs(d)[2].status => DRPIEs(d)[2].alloc = o.merge
           /\ IsReserved(SentAsTarget(d)) =>
                /\ SentAsTarget(d).alloc \subseteq ReservedSlots(d)
                /\ SentAsTarget(d).alloc \subseteq SentReserved(DRPIEs(d))
<1> DEFINE p == SentAsTarget(d)
           f == FromTarget(o, Base(d))
           g == MergeFromTarget(f, Additional(d))
<1>1. i.alloc # {} /\ d.known /\ d.alloc # {} /\ o.known
  BY DEF Agree, ReservationAgreed, MergeToBeAgreed, Answered
<1>2. /\ p \in Managers
      /\ p.known = d.known /\ p.reason = d.reason /\ p.status = d.status
      /\ IF IsMergeReserved(d)
         THEN /\ p.alloc = d.alloc \cup d.merge
              /\ p.mergeReason = "Accept" /\ ~p.mergeStatus
              /\ p.merge = {} /\ ~p.pendingMerge
         ELSE /\ p.alloc = d.alloc
              /\ p.mergeReason = d.mergeReason /\ p.mergeStatus = d.mergeStatus
              /\ p.merge = d.merge /\ p.pendingMerge = HasPendingDRPMerge(d)
  BY <1>1, SentAsTargetFields
<1> HIDE DEF p
<1>3. /\ Base(d) \in Elements /\ Additional(d) \in Elements
      /\ Base(d).reason = d.reason /\ Base(d).status = d.status
      /\ Base(d).alloc = d.alloc
      /\ Additional(d).reason = d.mergeReason
      /\ Additional(d).status = d.mergeStatus
      /\ Additional(d).alloc = d.merge
  BY ElementsSent
<1>4. /\ f \in Managers
      /\ f.known = o.known /\ f.alloc = o.alloc
      /\ f.reason = d.reason /\ f.status = d.status
      /\ SameMerge(o, f)
  BY <1>3, FromTargetFields
<1> HIDE DEF f
<1>5. /\ g \in Managers
      /\ g.known = f.known /\ g.reason = f.reason /\ g.status = f.status
      /\ IF d.mergeStatus /\ d.mergeReason = "Accept"
         THEN /\ g.alloc = f.alloc \cup f.merge
              /\ g.mergeReason = "Accept" /\ ~g.mergeStatus
              /\ g.merge = {} /\ ~g.pendingMerge
         ELSE /\ g.alloc = f.alloc
              /\ g.mergeReason = d.mergeReason /\ g.mergeStatus = d.mergeStatus
              /\ g.merge = f.merge /\ g.pendingMerge = f.pendingMerge
  BY <1>3, <1>4, MergeFromTargetFields
<1> HIDE DEF g
<1>6. /\ HasPendingDRPMerge(d) <=> HasPendingDRPMerge(i)
      /\ IsMergeReserved(d) <=> d.mergeStatus
      /\ d.mergeStatus => d.mergeReason = "Accept" /\ d.merge = o.merge
      /\ d.mergeStatus => HasPendingDRPMerge(d)
  BY DEF Agree, ReservationAgreed, MergeToBeAgreed, Answered, HasPendingDRPMerge,
         IsMergeReserved
<1>7. Agree(o, p)
  BY <1>1, <1>2, <1>6
  DEF Agree, ReservationAgreed, MergeToBeAgreed, Answered, HasPendingDRPMerge
<1>8. IsReserved(p) => p.alloc \subseteq ReservedSlots(d)
  BY <1>2 DEF IsReserved, ReservedSlots
<1>9. CASE ~HasPendingDRPMerge(d)
  <2>1. DRPIEs(d) = <<Base(d)>>
    BY <1>1, <1>9, ElementsSent
  <2>2. FromBeaconOfTarget(o, DRPIEs(d)) = f
    BY <2>1, ExaminedOne DEF f
  <2>3. Agree(f, p)
    BY <1>1, <1>2, <1>4, <1>6, <1>7, <1>9
    DEF Agree, ReservationAgreed, MergeToBeAgreed, Answered, HasPendingDRPMerge, SameMerge
  <2>4. Len(DRPIEs(d)) = 1 /\ DRPIEs(d)[1] = Base(d)
    BY <2>1
  <2>5. IsReserved(p) => p.alloc \subseteq SentReserved(DRPIEs(d))
    <3>1. IsReserved(p) => p.alloc = Base(d).alloc /\ Base(d).status
      BY <1>2, <1>3, <1>6, <1>9 DEF IsReserved
    <3>2. QED
      BY <2>4, <3>1 DEF SentReserved
  <2>6. QED
    BY <1>4, <1>7, <1>8, <2>2, <2>3, <2>4, <2>5 DEF p
<1>10. CASE HasPendingDRPMerge(d)
  <2>1. DRPIEs(d) = <<Base(d), Additional(d)>>
    BY <1>1, <1>10, ElementsSent
  <2>2. FromBeaconOfTarget(o, DRPIEs(d)) = g
    BY <2>1, ExaminedTwo DEF f, g
  <2>3. Agree(g, p)
    BY <1>1, <1>2, <1>4, <1>5, <1>6, <1>7, <1>10
    DEF Agree, ReservationAgreed, MergeToBeAgreed, Answered, HasPendingDRPMerge, SameMerge
  <2>4. Len(DRPIEs(d)) = 2 /\ DRPIEs(d)[1] = Base(d) /\ DRPIEs(d)[2] = Additional(d)
    BY <2>1
  <2>5. IsReserved(p) => p.alloc \subseteq SentReserved(DRPIEs(d))
    <3>1. IsReserved(p) => /\ Base(d).status
                           /\ \/ p.alloc = Base(d).alloc
                              \/ /\ p.alloc = Base(d).alloc \cup Additional(d).alloc
                                 /\ Additional(d).status
      BY <1>2, <1>3, <1>6 DEF IsReserved
    <3>2. QED
      BY <2>4, <3>1 DEF SentReserved
  <2>6. QED
    BY <1>3, <1>5, <1>6, <1>7, <1>8, <2>2, <2>3, <2>4, <2>5 DEF p
<1>11. QED
  BY <1>9, <1>10

-----------------------------------------------------------------------------
(***************************************************************************)
(* The maps.                                                               *)
(***************************************************************************)
Ages == [Slots -> 0 .. Fresh]
Proposals == [map : SUBSET Slots, left : 0 .. Fresh]
Maps == [hard : Ages, soft : Ages, pending : [Links -> Proposals]]

\* An entry is seen for at least one more superframe.
LEMMA FreshAge == Fresh \in Nat /\ Fresh >= 2 /\ Fresh - 1 = MaxLostBeacons
  BY SlotsAssumption DEF Fresh

\* Refreshed makes the given slots fresh and leaves the others.
LEMMA RefreshedAges ==
    ASSUME NEW ages \in Ages, NEW slots \in SUBSET Slots
    PROVE  /\ Refreshed(ages, slots) \in Ages
           /\ \A s \in Slots : Refreshed(ages, slots)[s]
                                    = IF s \in slots THEN Fresh ELSE ages[s]
  BY FreshAge DEF Ages, Refreshed

\* A fresh entry that grows older is still seen.
LEMMA OlderAges ==
    ASSUME NEW age \in 0 .. Fresh
    PROVE  Older(age) \in 0 .. Fresh /\ (age = Fresh => Older(age) = MaxLostBeacons)
  BY FreshAge DEF Older

\* UpdateHardDRPmap changes the reserved slots only, ...
LEMMA UpdateHardFields ==
    ASSUME NEW m \in Maps, NEW slots \in SUBSET Slots
    PROVE  LET n == UpdateHardDRPmap(m, slots) IN
           /\ n \in Maps
           /\ n.hard = Refreshed(m.hard, slots)
           /\ n.pending = m.pending /\ n.soft = m.soft
<1>1. m.hard \in Ages /\ m.soft \in Ages /\ m.pending \in [Links -> Proposals]
  BY DEF Maps
<1>2. Refreshed(m.hard, slots) \in Ages
  BY <1>1, RefreshedAges
<1>3. QED
  BY <1>1, <1>2 DEF UpdateHardDRPmap, Maps

\* ... UpdateSoftDRPmap the proposed ones only.
LEMMA UpdateSoftFields ==
    ASSUME NEW m \in Maps, NEW slots \in SUBSET Slots
    PROVE  LET n == UpdateSoftDRPmap(m, slots) IN
           /\ n \in Maps
           /\ n.soft = Refreshed(m.soft, slots)
           /\ n.pending = m.pending /\ n.hard = m.hard
<1>1. m.hard \in Ages /\ m.soft \in Ages /\ m.pending \in [Links -> Proposals]
  BY DEF Maps
<1>2. Refreshed(m.soft, slots) \in Ages
  BY <1>1, RefreshedAges
<1>3. QED
  BY <1>1, <1>2 DEF UpdateSoftDRPmap, Maps

\* No proposal is a value of the pending map.
LEMMA NoProposal == NoPending \in Proposals
  BY FreshAge DEF NoPending, Proposals

\* Overheard proposals leave the reserved slots alone, ...
LEMMA UpdatePendingFields ==
    ASSUME NEW m \in Maps, NEW l \in Links, NEW slots \in SUBSET Slots
    PROVE  LET n == UpdatePendingDRPMap(m, l, slots) IN
           n \in Maps /\ n.hard = m.hard
<1> DEFINE p == [map |-> slots, left |-> Fresh]
           q == [m.pending EXCEPT ![l] = p]
<1>1. m.hard \in Ages /\ m.soft \in Ages /\ m.pending \in [Links -> Proposals]
  BY DEF Maps
<1>2. p \in Proposals
  BY FreshAge DEF Proposals
<1>3. UpdatePendingDRPMap(m, l, slots) = [m EXCEPT !.pending = q]
  BY DEF UpdatePendingDRPMap, Maps
<1> HIDE DEF p
<1>4. q \in [Links -> Proposals]
  BY <1>1, <1>2
<1> HIDE DEF q
<1>5. QED
  BY <1>1, <1>3, <1>4 DEF Maps

\* ... and so does their release.
LEMMA ReleasePendingFields ==
    ASSUME NEW m \in Maps, NEW l \in Links
    PROVE  LET n == ReleasePendingDRPMap(m, l) IN
           n \in Maps /\ n.hard = m.hard
<1> DEFINE q == [m.pending EXCEPT ![l] = NoPending]
<1>1. m.hard \in Ages /\ m.soft \in Ages /\ m.pending \in [Links -> Proposals]
  BY DEF Maps
<1>2. q \in [Links -> Proposals]
  BY <1>1, NoProposal
<1>3. ReleasePendingDRPMap(m, l) = [m EXCEPT !.pending = q]
  BY DEF ReleasePendingDRPMap, Maps
<1> HIDE DEF q
<1>4. QED
  BY <1>1, <1>2, <1>3 DEF Maps

\* When a beacon period begins every entry grows older.
LEMMA BPStartedFields ==
    ASSUME NEW m \in Maps
    PROVE  LET n == onBPStarted(m) IN
           /\ n \in Maps
           /\ \A s \in Slots : n.hard[s] = Older(m.hard[s])
<1>1. m.hard \in Ages /\ m.soft \in Ages /\ m.pending \in [Links -> Proposals]
  BY DEF Maps
<1> DEFINE hard == [s \in Slots |-> Older(m.hard[s])]
           soft == [s \in Slots |-> Older(m.soft[s])]
           kept(l) == [m.pending[l] EXCEPT !.left = Older(@)]
           pending == [l \in Links |-> IF m.pending[l].left <= 1 THEN NoPending
                                       ELSE kept(l)]
<1>2. hard \in Ages /\ soft \in Ages
  BY <1>1, OlderAges DEF Ages
<1>3. ASSUME NEW l \in Links
      PROVE  kept(l) \in Proposals
  <2> DEFINE p == m.pending[l]
             left == Older(p.left)
  <2>1. p \in Proposals /\ p.left \in 0 .. Fresh
    BY <1>1 DEF Proposals
  <2> HIDE DEF p
  <2>2. left \in 0 .. Fresh
    BY <2>1, OlderAges
  <2> HIDE DEF left
  <2>3. [p EXCEPT !.left = left] \in Proposals
    BY <2>1, <2>2 DEF Proposals
  <2>4. QED
    BY <2>3 DEF p, left
<1> HIDE DEF kept
<1>4. pending \in [Links -> Proposals]
  BY <1>3, NoProposal
<1>5. onBPStarted(m) = [hard |-> hard, soft |-> soft, pending |-> pending]
  BY DEF onBPStarted, kept
<1>6. \A s \in Slots : hard[s] = Older(m.hard[s])
  OBVIOUS
<1> HIDE DEF hard, soft, pending
<1>7. QED
  BY <1>2, <1>4, <1>5, <1>6 DEF Maps

\* The global pattern has all reserved slots that are seen.
LEMMA GlobalPatternSlots ==
    ASSUME NEW m \in Maps
    PROVE  /\ GetGlobalPattern(m) \subseteq Slots
           /\ Seen(m.hard) \subseteq GetGlobalPattern(m)
<1>1. \A l \in Links : m.pending[l].map \subseteq Slots
  BY DEF Maps, Proposals
<1>2. GetPendingDRPmap(m) \subseteq Slots
  BY <1>1 DEF GetPendingDRPmap
<1>3. QED
  BY <1>2 DEF GetGlobalPattern, Seen

\* A possible pattern has none of them.
LEMMA PossibleSlots ==
    ASSUME NEW m \in Maps, NEW slots, PossiblePattern(m, slots)
    PROVE  slots \cap Seen(m.hard) = {}
  BY GlobalPatternSlots DEF PossiblePattern

-----------------------------------------------------------------------------
(***************************************************************************)
(* The wake-up: a target evaluates what it was asked.                      *)
(***************************************************************************)
WakeUps ==
    [outgoing : [Links -> Managers], incoming : [Links -> Managers], map : Maps,
     availability : 0 .. 3]

\* Reserved slots are slots.
LEMMA ReservedSlotsType ==
    ASSUME NEW c \in Managers
    PROVE  ReservedSlots(c) \in SUBSET Slots
  BY DEF ReservedSlots, Managers

\* An answer reserves no further slot that is in the map already.
LEMMA ReservedByAnswer ==
    ASSUME NEW m \in Maps, NEW c \in Managers
    PROVE  LET d == Answer(m, c) IN
           \A s \in ReservedSlots(d) : s \in ReservedSlots(c) \/ s \notin Seen(m.hard)
<1> DEFINE d == Answer(m, c)
<1>1. Answered(m, c, d)
  BY AnswerFields
<1> HIDE DEF d
<1>2. IsReserved(d) => IsReserved(c) \/ c.alloc \cap Seen(m.hard) = {}
  BY <1>1, PossibleSlots DEF Answered, IsReserved
<1>3. IsMergeReserved(d) => IsMergeReserved(c) \/ c.merge \cap Seen(m.hard) = {}
  BY <1>1, PossibleSlots DEF Answered, IsMergeReserved, HasPendingDRPMerge
<1>4. d.alloc = c.alloc /\ d.merge = c.merge
  BY <1>1 DEF Answered
<1>5. \A s \in ReservedSlots(d) : s \in ReservedSlots(c) \/ s \notin Seen(m.hard)
  BY <1>2, <1>3, <1>4 DEF ReservedSlots
<1>6. QED
  BY <1>5 DEF d

\* AfterHasPending does not change what is reserved.
LEMMA ReservedAfterHasPending ==
    ASSUME NEW c \in Managers
    PROVE  ReservedSlots(AfterHasPending(c)) = ReservedSlots(c)
<1> DEFINE d == AfterHasPending(c)
<1>1. /\ SameReservation(c, d)
      /\ d.mergeReason = c.mergeReason
      /\ d.mergeStatus = c.mergeStatus
      /\ d.merge = c.merge
      /\ d.pendingMerge = HasPendingDRPMerge(c)
  BY AfterHasPendingFields
<1> HIDE DEF d
<1>2. (IsReserved(d) <=> IsReserved(c)) /\ d.alloc = c.alloc
  BY <1>1 DEF IsReserved, SameReservation
<1>3. (IsMergeReserved(d) <=> IsMergeReserved(c)) /\ d.merge = c.merge
  BY <1>1 DEF IsMergeReserved, HasPendingDRPMerge
<1>4. ReservedSlots(d) = ReservedSlots(c)
  BY <1>2, <1>3 DEF ReservedSlots
<1>5. QED
  BY <1>4 DEF d

\* EvaluateIncoming puts the answer in place of the manager, and what it
\* reserves into the map.
LEMMA EvaluateIncomingFields ==
    ASSUME NEW x \in WakeUps, NEW l \in Links
    PROVE  LET y == EvaluateIncoming(x, l)
               d == Answer(x.map, x.incoming[l])
           IN  /\ y \in WakeUps
               /\ y.outgoing = x.outgoing
               /\ y.incoming = [x.incoming EXCEPT ![l] = d]
               /\ y.map = UpdateHardDRPmap(x.map, ReservedSlots(d))
<1> DEFINE c == x.incoming[l]
           b == EvaluateMerge(x.map, EvaluatePattern(x.map, c))
           d == Answer(x.map, c)
           in == [x.incoming EXCEPT ![l] = d]
           m == UpdateHardDRPmap(x.map, ReservedSlots(b))
           conflict == \/ b.reason = "Conflict" /\ c.reason # "Conflict"
                       \/ b.mergeReason = "Conflict" /\ c.mergeReason # "Conflict"
           a == IF conflict THEN 3 ELSE x.availability
<1>1. /\ x.outgoing \in [Links -> Managers] /\ x.incoming \in [Links -> Managers]
      /\ x.map \in Maps /\ x.availability \in 0 .. 3 /\ c \in Managers
  BY DEF WakeUps
<1>2. EvaluateIncoming(x, l) = [x EXCEPT !.incoming = in, !.map = m, !.availability = a]
  BY DEF EvaluateIncoming, WakeUps, Answer
<1> HIDE DEF conflict, c
<1>3. b \in Managers /\ d = AfterHasPending(b)
  <2>1. EvaluatePattern(x.map, c) \in Managers
    BY <1>1, EvaluatePatternFields
  <2>2. QED
    BY <1>1, <2>1, EvaluateMergeFields DEF Answer
<1>4. d \in Managers
  BY <1>1, AnswerFields
<1> HIDE DEF b, d
<1>5. ReservedSlots(b) = ReservedSlots(d)
  BY <1>3, ReservedAfterHasPending
<1>6. m \in Maps
  BY <1>1, <1>3, ReservedSlotsType, UpdateHardFields
<1>7. in \in [Links -> Managers]
  BY <1>1, <1>4
<1>8. a \in 0 .. 3
  BY <1>1
<1> HIDE DEF in, a, m
<1>9. LET y == EvaluateIncoming(x, l) IN
      y \in WakeUps /\ y.outgoing = x.outgoing /\ y.incoming = in /\ y.map = m
  BY <1>1, <1>2, <1>6, <1>7, <1>8 DEF WakeUps
<1>10. QED
  BY <1>5, <1>9 DEF in, m, d, c

\* The slots station s has accepted are in its map, none for two owners.
Accepted(x, s) ==
    \A k, l \in Links : Target(k) = s /\ Target(l) = s =>
        /\ ReservedSlots(x.incoming[l]) \subseteq Seen(x.map.hard)
        /\ k # l => ReservedSlots(x.incoming[k]) \cap ReservedSlots(x.incoming[l]) = {}

\* What y has reserved in addition to x, the map of x has not.
ReservedFree(x, y) ==
    \A l \in Links : \A slot \in ReservedSlots(y.incoming[l]) :
        slot \in ReservedSlots(x.incoming[l]) \/ slot \notin Seen(x.map.hard)

\* y is x after the connections from the owners up to n to station s.
EvaluatedTo(x, y, s, n) ==
    /\ y.outgoing = x.outgoing
    /\ \A l \in Links :
        IF Target(l) = s /\ x.incoming[l].known /\ Owner(l) <= n
        THEN \E m \in Maps : y.incoming[l] = Answer(m, x.incoming[l])
        ELSE y.incoming[l] = x.incoming[l]
    /\ \A slot \in Slots : y.map.hard[slot] \in {x.map.hard[slot], Fresh}
    /\ Accepted(y, s)
    /\ ReservedFree(x, y)

\* So what is accepted stays without overlap.
LEMMA AcceptedStep ==
    ASSUME NEW x \in WakeUps, NEW l \in Links, Accepted(x, Target(l))
    PROVE  Accepted(EvaluateIncoming(x, l), Target(l))
<1> DEFINE y == EvaluateIncoming(x, l)
           d == Answer(x.map, x.incoming[l])
           s == Target(l)
<1>1. /\ y \in WakeUps
      /\ y.incoming = [x.incoming EXCEPT ![l] = d]
      /\ y.map = UpdateHardDRPmap(x.map, ReservedSlots(d))
  BY EvaluateIncomingFields
<1>2. /\ x.incoming \in [Links -> Managers] /\ x.map \in Maps
      /\ x.incoming[l] \in Managers /\ x.map.hard \in Ages
  BY DEF WakeUps, Maps
<1>3. \A slot \in ReservedSlots(d) :
        slot \in ReservedSlots(x.incoming[l]) \/ slot \notin Seen(x.map.hard)
  BY <1>2, ReservedByAnswer
<1>4. d \in Managers /\ ReservedSlots(d) \in SUBSET Slots
  BY <1>2, AnswerFields, ReservedSlotsType
<1>5. y.map.hard = Refreshed(x.map.hard, ReservedSlots(d))
  BY <1>1, <1>2, <1>4, UpdateHardFields
<1> HIDE DEF y, d
<1>6. Seen(y.map.hard) = Seen(x.map.hard) \cup ReservedSlots(d)
  BY <1>2, <1>4, <1>5, RefreshedAges, FreshAge DEF Seen
<1>7. \A k \in Links : y.incoming[k] = IF k = l THEN d ELSE x.incoming[k]
  BY <1>1, <1>2
<1>8. SUFFICES ASSUME NEW j \in Links, NEW k \in Links, Target(j) = s, Target(k) = s
      PROVE  /\ ReservedSlots(y.incoming[k]) \subseteq Seen(y.map.hard)
             /\ j # k => ReservedSlots(y.incoming[j])
                            \cap ReservedSlots(y.incoming[k]) = {}
  BY DEF Accepted, y
<1>9. /\ ReservedSlots(x.incoming[k]) \subseteq Seen(x.map.hard)
      /\ ReservedSlots(x.incoming[j]) \subseteq Seen(x.map.hard)
      /\ j # k => ReservedSlots(x.incoming[j]) \cap ReservedSlots(x.incoming[k]) = {}
  BY <1>8 DEF Accepted
<1>10. QED
  BY <1>3, <1>6, <1>7, <1>9

\* The loop of EvaluateConnection over the owners as a function f.
EvaluatedOne(x, s, o) ==
    IF <<o, s>> \in Links /\ x.incoming[<<o, s>>].known
    THEN EvaluateIncoming(x, <<o, s>>) ELSE x

Evaluates(x, s, f) ==
    f = [o \in 0 .. NumStations |-> IF o = 0 THEN x ELSE EvaluatedOne(f[o-1], s, o)]

\* A pass of the loop ends in a state of the wake-up.
LEMMA EvaluatedOneType ==
    ASSUME NEW x \in WakeUps, NEW s, NEW o
    PROVE  EvaluatedOne(x, s, o) \in WakeUps
  BY EvaluateIncomingFields DEF EvaluatedOne

\* There is such a function.
LEMMA EvaluatesExists ==
    ASSUME NEW x \in WakeUps, NEW s
    PROVE  \E f \in [0 .. NumStations -> WakeUps] : Evaluates(x, s, f)
<1> DEFINE step == [o \in Nat |-> [w \in WakeUps |-> EvaluatedOne(w, s, o)]]
<1>1. step \in [Nat -> [WakeUps -> WakeUps]]
  BY EvaluatedOneType
<1>2. PICK f \in [0 .. NumStations -> WakeUps] : Goes(f, x, step, NumStations)
  <2> HIDE DEF step
  <2>1. QED
    BY <1>1, RecursiveFunction, LinksAssumption
<1>3. ASSUME NEW o \in 1 .. NumStations
      PROVE  f[o] = EvaluatedOne(f[o-1], s, o)
  <2>1. o - 1 \in 0 .. NumStations /\ o \in Nat
    BY LinksAssumption
  <2>2. f[o-1] \in WakeUps
    BY <2>1
  <2>3. step[o][f[o-1]] = EvaluatedOne(f[o-1], s, o)
    BY <2>1, <2>2
  <2>4. f[o] = step[o][f[o-1]]
    BY <1>2 DEF Goes
  <2>5. QED
    BY <2>3, <2>4
<1>4. f[0] = x
  BY <1>2 DEF Goes
<1>5. \A o \in 0 .. NumStations : f[o] = IF o = 0 THEN x ELSE EvaluatedOne(f[o-1], s, o)
  BY <1>3, <1>4
<1>6. Evaluates(x, s, f)
  BY <1>5 DEF Evaluates
<1>7. QED
  BY <1>6

AfterEvaluation(y, s) ==
    [y EXCEPT !.outgoing = [l \in Links |-> IF Owner(l) = s /\ y.outgoing[l].known
                                            THEN EvaluateOutgoing(y.outgoing[l])
                                            ELSE y.outgoing[l]]]

\* EvaluateConnection ends with the last value of one.
LEMMA EvaluateConnectionLast ==
    ASSUME NEW x \in WakeUps, NEW s
    PROVE  \E f : /\ Evaluates(x, s, f)
                  /\ EvaluateConnection(x, s) = AfterEvaluation(f[NumStations], s)
<1> DEFINE last == CHOOSE f : Evaluates(x, s, f)
<1>1. Evaluates(x, s, last)
  BY EvaluatesExists
<1>2. EvaluateConnection(x, s) = AfterEvaluation(last[NumStations], s)
  BY DEF EvaluateConnection, Evaluates, EvaluatedOne, AfterEvaluation
<1>3. QED
  BY <1>1, <1>2

\* Before the first pass nothing is evaluated.
LEMMA EvaluatedFirst ==
    ASSUME NEW x \in WakeUps, NEW s, Accepted(x, s)
    PROVE  EvaluatedTo(x, x, s, 0)
<1>1. \A l \in Links : ~(Owner(l) <= 0)
  BY LinksAssumption DEF Owner, Stations
<1>2. QED
  BY <1>1 DEF EvaluatedTo, ReservedFree

\* One pass evaluates the connection of the next owner.
LEMMA EvaluatedNext ==
    ASSUME NEW x \in WakeUps, NEW y \in WakeUps, NEW s, NEW n \in Nat,
           EvaluatedTo(x, y, s, n)
    PROVE  EvaluatedTo(x, EvaluatedOne(y, s, n + 1), s, n + 1)
<1> DEFINE l == <<n + 1, s>>
           z == EvaluatedOne(y, s, n + 1)
           d == Answer(y.map, y.incoming[l])
<1>1. /\ y.incoming \in [Links -> Managers] /\ y.map \in Maps /\ y.map.hard \in Ages
  BY DEF WakeUps, Maps
<1>2. \A k \in Links : /\ Owner(k) \in Nat
                       /\ (Target(k) = s /\ Owner(k) = n + 1 <=> k = l)
  BY LinksAssumption DEF Owner, Target, Stations
<1>3. \A k \in Links : Target(k) = s /\ k # l => (Owner(k) <= n + 1 <=> Owner(k) <= n)
  BY <1>2
<1>4. l \in Links => Owner(l) = n + 1 /\ Target(l) = s
  BY <1>2
<1> HIDE DEF l
<1>5. l \in Links => y.incoming[l] = x.incoming[l]
  BY <1>4 DEF EvaluatedTo
<1>6. CASE l \in Links /\ y.incoming[l].known
  <2>1. z = EvaluateIncoming(y, l)
    BY <1>6 DEF EvaluatedOne, l
  <2>2. /\ z \in WakeUps
        /\ z.outgoing = y.outgoing
        /\ z.incoming = [y.incoming EXCEPT ![l] = d]
        /\ z.map = UpdateHardDRPmap(y.map, ReservedSlots(d))
    BY <1>6, <2>1, EvaluateIncomingFields
  <2>3. Accepted(z, s)
    BY <1>4, <1>6, <2>1, AcceptedStep DEF EvaluatedTo
  <2>4. d \in Managers /\ ReservedSlots(d) \in SUBSET Slots
    BY <1>1, <1>6, AnswerFields, ReservedSlotsType
  <2>5. \A slot \in Slots : z.map.hard[slot] \in {y.map.hard[slot], Fresh}
    BY <1>1, <2>2, <2>4, UpdateHardFields, RefreshedAges
  <2>6. \A k \in Links : z.incoming[k] = IF k = l THEN d ELSE y.incoming[k]
    BY <1>1, <2>2
  <2> HIDE DEF z
  <2>7. d = Answer(y.map, x.incoming[l])
    BY <1>5, <1>6
  <2> HIDE DEF d
  <2>8. \A slot \in Slots : z.map.hard[slot] \in {x.map.hard[slot], Fresh}
    BY <2>5 DEF EvaluatedTo
  <2>9. ASSUME NEW k \in Links
        PROVE  IF Target(k) = s /\ x.incoming[k].known /\ Owner(k) <= n + 1
               THEN \E m \in Maps : z.incoming[k] = Answer(m, x.incoming[k])
               ELSE z.incoming[k] = x.incoming[k]
    <3>1. CASE k = l
      BY <1>1, <1>4, <1>5, <1>6, <2>6, <2>7, <3>1
    <3>2. CASE k # l
      <4>1. z.incoming[k] = y.incoming[k]
        BY <2>6, <3>2
      <4>2. (Target(k) = s /\ x.incoming[k].known /\ Owner(k) <= n + 1)
                <=> (Target(k) = s /\ x.incoming[k].known /\ Owner(k) <= n)
        BY <1>3, <3>2
      <4>3. QED
        BY <4>1, <4>2 DEF EvaluatedTo
    <3>3. QED
      BY <3>1, <3>2
  <2>10. ReservedFree(x, z)
    <3>1. \A slot \in Seen(x.map.hard) : slot \in Seen(y.map.hard)
      <4>1. \A slot \in Slots : y.map.hard[slot] \in {x.map.hard[slot], Fresh}
        BY DEF EvaluatedTo
      <4>2. Fresh > 0
        BY FreshAge
      <4>3. ASSUME NEW slot \in Slots, x.map.hard[slot] > 0
            PROVE  y.map.hard[slot] > 0
        BY <4>1, <4>2, <4>3
      <4>4. QED
        BY <4>3 DEF Seen
    <3>2. \A slot \in ReservedSlots(d) :
            slot \in ReservedSlots(x.incoming[l]) \/ slot \notin Seen(y.map.hard)
      BY <1>1, <1>5, <1>6, ReservedByAnswer DEF d
    <3>3. QED
      BY <2>6, <3>1, <3>2 DEF EvaluatedTo, ReservedFree
  <2>11. EvaluatedTo(x, z, s, n + 1)
    BY <2>2, <2>3, <2>8, <2>9, <2>10 DEF EvaluatedTo
  <2>12. QED
    BY <2>11 DEF z
<1>7. CASE ~(l \in Links /\ y.incoming[l].known)
  <2>1. z = y
    BY <1>7 DEF EvaluatedOne, l
  <2> HIDE DEF z
  <2>2. ASSUME NEW k \in Links
        PROVE  (Target(k) = s /\ x.incoming[k].known /\ Owner(k) <= n + 1)
                <=> (Target(k) = s /\ x.incoming[k].known /\ Owner(k) <= n)
    <3>1. CASE k = l
      BY <1>2, <1>4, <1>5, <1>7, <3>1
    <3>2. CASE k # l
      BY <1>3, <3>2
    <3>3. QED
      BY <3>1, <3>2
  <2>3. EvaluatedTo(x, y, s, n + 1)
    BY <2>2 DEF EvaluatedTo
  <2>4. QED
    BY <2>1, <2>3 DEF z
<1>8. QED
  BY <1>6, <1>7

\* After the loop every connection is evaluated.
LEMMA EvaluateConnectionFields ==
    ASSUME NEW x \in WakeUps, NEW s, Accepted(x, s)
    PROVE  \E y \in WakeUps : /\ EvaluatedTo(x, y, s, NumStations)
                              /\ EvaluateConnection(x, s) = AfterEvaluation(y, s)
<1>1. PICK f : /\ Evaluates(x, s, f)
               /\ EvaluateConnection(x, s) = AfterEvaluation(f[NumStations], s)
  BY EvaluateConnectionLast
<1> DEFINE good == {n \in 0 .. NumStations : f[n] \in WakeUps /\ EvaluatedTo(x, f[n], s, n)}
<1>2. f[0] = x /\ \A n \in 0 .. NumStations - 1 : f[n + 1] = EvaluatedOne(f[n], s, n + 1)
  BY <1>1, LinksAssumption DEF Evaluates
<1>3. 0 \in good
  BY <1>2, EvaluatedFirst, LinksAssumption
<1>4. ASSUME NEW n \in 0 .. NumStations - 1, n \in good
      PROVE  n + 1 \in good
  <2>1. n \in Nat /\ n + 1 \in 0 .. NumStations /\ f[n + 1] = EvaluatedOne(f[n], s, n + 1)
    BY <1>2, LinksAssumption
  <2>2. f[n] \in WakeUps /\ EvaluatedTo(x, f[n], s, n)
    BY <1>4
  <2>3. QED
    BY <2>1, <2>2, EvaluatedOneType, EvaluatedNext
<1>5. 0 .. NumStations \subseteq good
  <2> HIDE DEF good
  <2>1. QED
    BY <1>3, <1>4, BoundedInduction, LinksAssumption
<1>6. NumStations \in good
  BY <1>5, LinksAssumption
<1>7. QED
  BY <1>1, <1>6

-----------------------------------------------------------------------------
(***************************************************************************)
(* The wake-up: an owner proposes what it misses.                          *)
(***************************************************************************)
\* y is x after station s has proposed slots for some of its links.
Created(x, y, s) ==
    /\ y.incoming = x.incoming
    /\ y.map.hard = x.map.hard
    /\ \A l \in Links :
        IF Owner(l) = s /\ outgoing[l].known
        THEN Proposes(x.outgoing[l], y.outgoing[l])
        ELSE y.outgoing[l] = x.outgoing[l]

\* Proposing nothing is allowed, ...
LEMMA CreatedSame ==
    ASSUME NEW x, NEW s
    PROVE  Created(x, x, s)
  BY DEF Created, Proposes

\* ... as are further proposals for a link, ...
LEMMA ProposesTwice ==
    ASSUME NEW c \in Managers, NEW d \in Managers, NEW e \in Managers,
           Proposes(c, d), Proposes(d, e)
    PROVE  Proposes(c, e)
  BY DEF Proposes

\* ... and for several links one after the other.
LEMMA CreatedTwice ==
    ASSUME NEW x \in WakeUps, NEW y \in WakeUps, NEW z \in WakeUps, NEW s,
           Created(x, y, s), Created(y, z, s)
    PROVE  Created(x, z, s)
<1>1. SUFFICES ASSUME NEW l \in Links
      PROVE  IF Owner(l) = s /\ outgoing[l].known
             THEN Proposes(x.outgoing[l], z.outgoing[l])
             ELSE z.outgoing[l] = x.outgoing[l]
  BY DEF Created
<1>2. /\ x.outgoing[l] \in Managers /\ y.outgoing[l] \in Managers
      /\ z.outgoing[l] \in Managers
  BY DEF WakeUps
<1>3. QED
  BY <1>2, ProposesTwice DEF Created

\* A new pattern has slots that are free.
LEMMA PatternSlots ==
    ASSUME NEW free, NEW missing, NEW p \in Patterns(free, missing)
    PROVE  p \subseteq free
  BY DEF Patterns, kSubset

\* A manager with a new pattern, in the wake-up of its station.
LEMMA PatternInWakeUp ==
    ASSUME NEW x \in WakeUps, NEW l \in Links, NEW d \in Managers, NEW p \in SUBSET Slots,
           outgoing[l].known, Proposes(x.outgoing[l], d),
           NEW y, y = [x EXCEPT !.outgoing[l] = d, !.map = UpdateSoftDRPmap(@, p)]
    PROVE  y \in WakeUps /\ Created(x, y, Owner(l))
<1> DEFINE out == [x.outgoing EXCEPT ![l] = d]
           m == UpdateSoftDRPmap(x.map, p)
<1>1. /\ x.outgoing \in [Links -> Managers] /\ x.incoming \in [Links -> Managers]
      /\ x.map \in Maps /\ x.availability \in 0 .. 3
  BY DEF WakeUps
<1>2. y = [x EXCEPT !.outgoing = out, !.map = m]
  BY DEF WakeUps
<1>3. out \in [Links -> Managers] /\ \A k \in Links : out[k] = IF k = l THEN d ELSE x.outgoing[k]
  BY <1>1
<1>4. m \in Maps /\ m.hard = x.map.hard
  BY <1>1, UpdateSoftFields
<1> HIDE DEF out, m
<1>5. y \in WakeUps /\ y.outgoing = out /\ y.incoming = x.incoming /\ y.map = m
  BY <1>1, <1>2, <1>3, <1>4 DEF WakeUps
<1>6. \A k \in Links : Proposes(x.outgoing[k], x.outgoing[k])
  BY DEF Proposes
<1>7. QED
  BY <1>3, <1>4, <1>5, <1>6 DEF Created

\* A first pattern is a proposal for its link, ...
LEMMA NewPatternFields ==
    ASSUME NEW x \in WakeUps, NEW l \in Links, outgoing[l].known,
           NEW free \in SUBSET Slots, NEW y \in WithNewPattern(x, l, free)
    PROVE  y \in WakeUps /\ Created(x, y, Owner(l))
<1> DEFINE c == x.outgoing[l]
<1>1. c \in Managers
  BY DEF WakeUps
<1>2. CASE IsMapCreated(c)
  BY <1>2, CreatedSame DEF WithNewPattern
<1>3. CASE ~IsMapCreated(c)
  <2>1. PICK p \in Patterns(free, Missing(c, l)) :
            y = [x EXCEPT !.outgoing[l] = FindNewPattern(c, p),
                          !.map = UpdateSoftDRPmap(@, p)]
    BY <1>3 DEF WithNewPattern
  <2>2. p \in SUBSET Slots
    BY PatternSlots
  <2>3. FindNewPattern(c, p) \in Managers /\ Proposes(c, FindNewPattern(c, p))
    BY <1>1, <1>3, <2>2 DEF FindNewPattern, Managers, Proposes, IsMapCreated
  <2>4. QED
    BY <2>1, <2>2, <2>3, PatternInWakeUp
<1>4. QED
  BY <1>2, <1>3

\* ... and so are additional slots.
LEMMA AdditionalPatternFields ==
    ASSUME NEW x \in WakeUps, NEW l \in Links, outgoing[l].known,
           NEW free \in SUBSET Slots, NEW y \in WithAdditionalPattern(x, l, free)
    PROVE  y \in WakeUps /\ Created(x, y, Owner(l))
<1> DEFINE c == x.outgoing[l]
<1>1. c \in Managers
  BY DEF WakeUps
<1>2. CASE ~NeedsAdditionalPattern(c, Missing(c, l))
  BY <1>2, CreatedSame DEF WithAdditionalPattern
<1>3. CASE NeedsAdditionalPattern(c, Missing(c, l))
  <2>1. PICK p \in Patterns(free \ c.alloc, Missing(c, l)) :
            y = [x EXCEPT !.outgoing[l] = CreateAdditionalPattern(c, p),
                          !.map = UpdateSoftDRPmap(@, p)]
    BY <1>3 DEF WithAdditionalPattern
  <2>2. p \in SUBSET Slots
    BY PatternSlots
  <2>3. /\ CreateAdditionalPattern(c, p) \in Managers
        /\ Proposes(c, CreateAdditionalPattern(c, p))
    BY <1>1, <1>3, <2>2
    DEF CreateAdditionalPattern, Managers, Proposes, NeedsAdditionalPattern
  <2>4. QED
    BY <2>1, <2>2, <2>3, PatternInWakeUp
<1>4. QED
  BY <1>2, <1>3

\* CreateDRPMap proposes for its link only.
LEMMA CreateDRPMapFields ==
    ASSUME NEW x \in WakeUps, NEW l \in Links, outgoing[l].known,
           NEW z \in CreateDRPMap(x, l)
    PROVE  z \in WakeUps /\ Created(x, z, Owner(l))
<1> DEFINE global == UpdateMapWithPeerAvailabilityMap(GetGlobalPattern(x.map), l)
           free == Slots \ global
<1>1. free \in SUBSET Slots
  OBVIOUS
<1>2. CASE ~areMASsAvailable(global)
  BY <1>2, CreatedSame DEF CreateDRPMap
<1>3. CASE areMASsAvailable(global)
  <2>1. z \in UNION {WithAdditionalPattern(y, l, free) : y \in WithNewPattern(x, l, free)}
    BY <1>3 DEF CreateDRPMap
  <2> HIDE DEF free
  <2>2. PICK y \in WithNewPattern(x, l, free) : z \in WithAdditionalPattern(y, l, free)
    BY <2>1
  <2>3. y \in WakeUps /\ Created(x, y, Owner(l))
    BY <1>1, NewPatternFields
  <2>4. z \in WakeUps /\ Created(y, z, Owner(l))
    BY <1>1, <2>2, <2>3, AdditionalPatternFields
  <2>5. QED
    BY <2>3, <2>4, CreatedTwice
<1>4. QED
  BY <1>2, <1>3

\* The loop of CreateDRPMaps over the targets as a function f.
CreatedOne(S, s, t) ==
    IF <<s, t>> \in Links /\ outgoing[<<s, t>>].known
    THEN UNION {CreateDRPMap(y, <<s, t>>) : y \in S} ELSE S

Creates(x, s, f) ==
    f = [t \in 0 .. NumStations |-> IF t = 0 THEN {x} ELSE CreatedOne(f[t-1], s, t)]

\* A pass of the loop ends in states of the wake-up.
LEMMA CreatedOneType ==
    ASSUME NEW S \in SUBSET WakeUps, NEW s, NEW t
    PROVE  CreatedOne(S, s, t) \in SUBSET WakeUps
<1> DEFINE l == <<s, t>>
<1> HIDE DEF l
<1>1. CASE l \in Links /\ outgoing[l].known
  <2>1. CreatedOne(S, s, t) = UNION {CreateDRPMap(y, l) : y \in S}
    BY <1>1 DEF CreatedOne, l
  <2>2. \A y \in S : CreateDRPMap(y, l) \subseteq WakeUps
    BY <1>1, CreateDRPMapFields
  <2>3. QED
    BY <2>1, <2>2
<1>2. CASE ~(l \in Links /\ outgoing[l].known)
  BY <1>2 DEF CreatedOne, l
<1>3. QED
  BY <1>1, <1>2

\* There is such a function.
LEMMA CreatesExists ==
    ASSUME NEW x \in WakeUps, NEW s
    PROVE  \E f \in [0 .. NumStations -> SUBSET WakeUps] : Creates(x, s, f)
<1> DEFINE step == [t \in Nat |-> [S \in SUBSET WakeUps |-> CreatedOne(S, s, t)]]
<1>1. step \in [Nat -> [SUBSET WakeUps -> SUBSET WakeUps]]
  BY CreatedOneType
<1>2. PICK f \in [0 .. NumStations -> SUBSET WakeUps] : Goes(f, {x}, step, NumStations)
  <2> HIDE DEF step
  <2>1. {x} \in SUBSET WakeUps
    OBVIOUS
  <2>2. QED
    BY <1>1, <2>1, RecursiveFunction, LinksAssumption
<1>3. ASSUME NEW t \in 1 .. NumStations
      PROVE  f[t] = CreatedOne(f[t-1], s, t)
  <2>1. t - 1 \in 0 .. NumStations /\ t \in Nat
    BY LinksAssumption
  <2>2. f[t-1] \in SUBSET WakeUps
    BY <2>1
  <2>3. step[t][f[t-1]] = CreatedOne(f[t-1], s, t)
    BY <2>1, <2>2
  <2>4. f[t] = step[t][f[t-1]]
    BY <1>2 DEF Goes
  <2>5. QED
    BY <2>3, <2>4
<1>4. f[0] = {x}
  BY <1>2 DEF Goes
<1>5. \A t \in 0 .. NumStations : f[t] = IF t = 0 THEN {x} ELSE CreatedOne(f[t-1], s, t)
  BY <1>3, <1>4
<1>6. Creates(x, s, f)
  BY <1>5 DEF Creates
<1>7. QED
  BY <1>6

\* A pass proposes for the link to one target.
LEMMA CreatedNext ==
    ASSUME NEW x \in WakeUps, NEW s, NEW t, NEW S \in SUBSET WakeUps,
           \A y \in S : Created(x, y, s)
    PROVE  \A y \in CreatedOne(S, s, t) : Created(x, y, s)
<1> DEFINE l == <<s, t>>
<1>1. Owner(l) = s
  BY DEF Owner
<1> HIDE DEF l
<1>2. CASE l \in Links /\ outgoing[l].known
  <2> SUFFICES ASSUME NEW z \in CreatedOne(S, s, t)
               PROVE  Created(x, z, s)
    OBVIOUS
  <2>1. CreatedOne(S, s, t) = UNION {CreateDRPMap(y, l) : y \in S}
    BY <1>2 DEF CreatedOne, l
  <2>2. PICK y \in S : z \in CreateDRPMap(y, l)
    BY <2>1
  <2>3. z \in WakeUps /\ Created(y, z, s)
    BY <1>1, <1>2, <2>2, CreateDRPMapFields
  <2>4. QED
    BY <2>3, CreatedTwice
<1>3. CASE ~(l \in Links /\ outgoing[l].known)
  BY <1>3 DEF CreatedOne, l
<1>4. QED
  BY <1>2, <1>3

\* Every result of the loop comes from proposals for links of the station.
LEMMA CreateDRPMapsFields ==
    ASSUME NEW x \in WakeUps, NEW s, NEW y \in CreateDRPMaps(x, s)
    PROVE  y \in WakeUps /\ Created(x, y, s)
<1> DEFINE f == CHOOSE g : Creates(x, s, g)
           good == {t \in 0 .. NumStations :
                        f[t] \in SUBSET WakeUps /\ \A z \in f[t] : Created(x, z, s)}
<1>1. Creates(x, s, f)
  BY CreatesExists
<1>2. CreateDRPMaps(x, s) = f[NumStations]
  BY DEF CreateDRPMaps, Creates, CreatedOne
<1> HIDE DEF f
<1>3. f[0] = {x} /\ \A t \in 0 .. NumStations - 1 : f[t + 1] = CreatedOne(f[t], s, t + 1)
  <2>1. \A t \in 0 .. NumStations : f[t] = IF t = 0 THEN {x} ELSE CreatedOne(f[t-1], s, t)
    BY <1>1 DEF Creates
  <2>2. ASSUME NEW t \in 0 .. NumStations - 1
        PROVE  f[t + 1] = CreatedOne(f[t], s, t + 1)
    <3>1. t + 1 \in 0 .. NumStations /\ t + 1 # 0 /\ (t + 1) - 1 = t
      BY LinksAssumption
    <3>2. QED
      BY <2>1, <3>1
  <2>3. 0 \in 0 .. NumStations
    BY LinksAssumption
  <2>4. QED
    BY <2>1, <2>2, <2>3
<1>4. 0 \in good
  BY <1>3, CreatedSame, LinksAssumption
<1>5. ASSUME NEW t \in 0 .. NumStations - 1, t \in good
      PROVE  t + 1 \in good
  <2>1. t + 1 \in 0 .. NumStations /\ f[t + 1] = CreatedOne(f[t], s, t + 1)
    BY <1>3, LinksAssumption
  <2>2. f[t] \in SUBSET WakeUps /\ \A z \in f[t] : Created(x, z, s)
    BY <1>5
  <2>3. QED
    BY <2>1, <2>2, CreatedOneType, CreatedNext
<1>6. 0 .. NumStations \subseteq good
  <2> HIDE DEF good
  <2>1. QED
    BY <1>4, <1>5, BoundedInduction, LinksAssumption
<1>7. NumStations \in good
  BY <1>6, LinksAssumption
<1>8. QED
  BY <1>2, <1>7

-----------------------------------------------------------------------------
(***************************************************************************)
(* The maps after a beacon: of a station that received it ...              *)
(***************************************************************************)

\* An element that is received makes no slot older, and those it has reserved
\* fresh.
LEMMA UpdateMapFields ==
    ASSUME NEW m \in Maps, NEW r, NEW l \in Links, NEW ie \in Elements
    PROVE  LET n == UpdateMap(m, r, l, ie) IN
           /\ n \in Maps
           /\ \A s \in Slots : n.hard[s] \in {m.hard[s], Fresh}
           /\ ie.status => \A s \in ie.alloc : n.hard[s] = Fresh
<1>1. m.hard \in Ages /\ ie.alloc \in SUBSET Slots
  BY DEF Maps, Elements
<1>2. CASE ie.status
  <2>1. UpdateMap(m, r, l, ie) = UpdateHardDRPmap(m, ie.alloc)
    BY <1>2 DEF UpdateMap
  <2>2. QED
    BY <1>1, <2>1, UpdateHardFields, RefreshedAges
<1>3. CASE ~ie.status /\ r \in {Owner(l), Target(l)}
  BY <1>3 DEF UpdateMap
<1>4. CASE ~ie.status /\ r \notin {Owner(l), Target(l)} /\ ie.reason = "Conflict"
  BY <1>4, ReleasePendingFields DEF UpdateMap
<1>5. CASE ~ie.status /\ r \notin {Owner(l), Target(l)} /\ ie.reason # "Conflict"
  BY <1>1, <1>5, UpdatePendingFields DEF UpdateMap
<1>6. QED
  BY <1>2, <1>3, <1>4, <1>5

MapAfterLink(m, r, l, ies) ==
    Examined(m, ies, LAMBDA n, ie : UpdateMap(n, r, l, ie),
                     LAMBDA n, ie : UpdateMap(n, r, l, ie))

\* The elements are those of a manager.
ElementsOf(ies) == \E d \in Managers : ies = DRPIEs(d)

\* The same for all elements of a link.
LEMMA MapAfterLinkFields ==
    ASSUME NEW m \in Maps, NEW r, NEW l \in Links, NEW ies, ElementsOf(ies)
    PROVE  LET n == MapAfterLink(m, r, l, ies) IN
           /\ n \in Maps
           /\ \A s \in Slots : n.hard[s] \in {m.hard[s], Fresh}
           /\ \A s \in SentReserved(ies) : n.hard[s] = Fresh
           /\ SentReserved(ies) \subseteq Slots
<1>1. PICK d \in Managers : ies = DRPIEs(d)
  BY DEF ElementsOf
<1>2. Base(d) \in Elements /\ Additional(d) \in Elements
  BY ElementsSent
<1>3. PICK a \in Elements, b \in Elements : ies = <<>> \/ ies = <<a>> \/ ies = <<a, b>>
  BY <1>1, <1>2, ElementsSent
<1>4. CASE ies = <<>>
  BY <1>4 DEF MapAfterLink, Examined, SentReserved
<1>5. CASE ies = <<a>>
  <2>1. MapAfterLink(m, r, l, ies) = UpdateMap(m, r, l, a)
    BY <1>5 DEF MapAfterLink, Examined
  <2>2. SentReserved(ies) = IF a.status THEN a.alloc ELSE {}
    BY <1>5 DEF SentReserved
  <2>3. a.alloc \subseteq Slots
    BY DEF Elements
  <2> DEFINE n == UpdateMap(m, r, l, a)
  <2>4. /\ n \in Maps
        /\ \A s \in Slots : n.hard[s] \in {m.hard[s], Fresh}
        /\ a.status => \A s \in a.alloc : n.hard[s] = Fresh
    BY UpdateMapFields
  <2> HIDE DEF n
  <2>5. QED
    BY <2>1, <2>2, <2>3, <2>4 DEF n
<1>6. CASE ies = <<a, b>>
  <2> DEFINE n == UpdateMap(m, r, l, a)
             o == UpdateMap(n, r, l, b)
  <2>1. MapAfterLink(m, r, l, ies) = o
    BY <1>6 DEF MapAfterLink, Examined
  <2>2. SentReserved(ies) = (IF a.status THEN a.alloc ELSE {})
                                \cup (IF b.status THEN b.alloc ELSE {})
    <3>1. Len(ies) = 2 /\ ies[1] = a /\ ies[2] = b
      BY <1>6
    <3>2. 1 .. Len(ies) = {1, 2}
      BY <3>1
    <3>3. QED
      BY <3>1, <3>2 DEF SentReserved
  <2>3. a.alloc \subseteq Slots /\ b.alloc \subseteq Slots
    BY DEF Elements
  <2>4. /\ n \in Maps
        /\ \A s \in Slots : n.hard[s] \in {m.hard[s], Fresh}
        /\ a.status => \A s \in a.alloc : n.hard[s] = Fresh
    BY UpdateMapFields
  <2> HIDE DEF n
  <2>5. /\ o \in Maps
        /\ \A s \in Slots : o.hard[s] \in {n.hard[s], Fresh}
        /\ b.status => \A s \in b.alloc : o.hard[s] = Fresh
    BY <2>4, UpdateMapFields
  <2> HIDE DEF o
  <2>6. QED
    BY <2>1, <2>2, <2>3, <2>4, <2>5
<1>7. QED
  BY <1>3, <1>4, <1>5, <1>6

\* The same for a beacon.
LEMMA MapAfterFields ==
    ASSUME NEW r \in Stations, map[r] \in Maps,
           NEW beacon, DOMAIN beacon \subseteq Links,
           \A l \in DOMAIN beacon : ElementsOf(beacon[l])
    PROVE  LET n == MapAfter(r, beacon) IN
           /\ n \in Maps
           /\ \A s \in Slots : n.hard[s] \in {map[r].hard[s], Fresh}
           /\ \A l \in DOMAIN beacon : \A s \in SentReserved(beacon[l]) : n.hard[s] = Fresh
<1> DEFINE m == map[r]
           After(l) == MapAfterLink(m, r, l, beacon[l])
           hard == [s \in Slots |->
                        IF \E l \in DOMAIN beacon : After(l).hard[s] = Fresh THEN Fresh
                        ELSE m.hard[s]]
           pending == [l \in Links |-> IF l \in DOMAIN beacon THEN After(l).pending[l]
                                       ELSE m.pending[l]]
<1>1. /\ m \in Maps /\ m.hard \in Ages /\ m.soft \in Ages
      /\ m.pending \in [Links -> Proposals]
  BY DEF Maps
<1>2. MapAfter(r, beacon) = [m EXCEPT !.hard = hard, !.pending = pending]
  BY DEF MapAfter, MapAfterLink
<1> HIDE DEF m
<1>3. \A l \in DOMAIN beacon :
        /\ After(l) \in Maps
        /\ \A s \in Slots : After(l).hard[s] \in {m.hard[s], Fresh}
        /\ \A s \in SentReserved(beacon[l]) : After(l).hard[s] = Fresh
        /\ SentReserved(beacon[l]) \subseteq Slots
  BY <1>1, MapAfterLinkFields
<1> HIDE DEF After
<1>4. hard \in Ages
  BY <1>1, FreshAge DEF Ages
<1>5. pending \in [Links -> Proposals]
  <2>1. \A l \in DOMAIN beacon : After(l).pending \in [Links -> Proposals]
    BY <1>3 DEF Maps
  <2>2. QED
    BY <1>1, <2>1
<1>6. \A s \in Slots : hard[s] \in {m.hard[s], Fresh}
  OBVIOUS
<1>7. \A l \in DOMAIN beacon : \A s \in SentReserved(beacon[l]) : hard[s] = Fresh
  BY <1>3
<1> HIDE DEF hard, pending
<1>8. LET n == MapAfter(r, beacon) IN n \in Maps /\ n.hard = hard
  BY <1>1, <1>2, <1>4, <1>5 DEF Maps
<1>9. QED
  BY <1>6, <1>7, <1>8 DEF m

-----------------------------------------------------------------------------
(***************************************************************************)
(* ... and of the station that sent it.                                    *)
(***************************************************************************)

\* The sender has in its map what it has reserved at either end.
LEMMA AfterBeaconFields ==
    ASSUME NEW x \in WakeUps, NEW s \in Stations
    PROVE  LET y == AfterBeacon(x, s) IN
           /\ y \in WakeUps
           /\ \A l \in Links :
                /\ y.outgoing[l] = IF Owner(l) = s THEN SentAsOwner(x.outgoing[l])
                                   ELSE x.outgoing[l]
                /\ y.incoming[l] = IF Target(l) = s THEN SentAsTarget(x.incoming[l])
                                   ELSE x.incoming[l]
           /\ \A slot \in Slots : y.map.hard[slot] \in {x.map.hard[slot], Fresh}
           /\ \A l \in Links : Owner(l) = s /\ IsReserved(y.outgoing[l]) =>
                \A slot \in y.outgoing[l].alloc : y.map.hard[slot] = Fresh
           /\ \A l \in Links : Target(l) = s =>
                \A slot \in ReservedSlots(y.incoming[l]) : y.map.hard[slot] = Fresh
<1> DEFINE out == [l \in Links |-> IF Owner(l) = s THEN SentAsOwner(x.outgoing[l])
                                   ELSE x.outgoing[l]]
           in == [l \in Links |-> IF Target(l) = s THEN SentAsTarget(x.incoming[l])
                                  ELSE x.incoming[l]]
           own == UNION ({out[l].alloc : l \in {k \in Links : Owner(k) = s
                                                           /\ IsReserved(out[k])}}
                    \cup {ReservedSlots(in[l]) : l \in {k \in Links : Target(k) = s}})
           m == UpdateHardDRPmap(x.map, own)
           a == IF x.availability > 0 THEN x.availability - 1 ELSE x.availability
           y == AfterBeacon(x, s)
<1>1. /\ x.outgoing \in [Links -> Managers] /\ x.incoming \in [Links -> Managers]
      /\ x.map \in Maps /\ x.map.hard \in Ages /\ x.availability \in 0 .. 3
  BY DEF WakeUps, Maps
<1>2. y = [x EXCEPT !.outgoing = out, !.incoming = in, !.map = m, !.availability = a]
  BY DEF AfterBeacon, WakeUps
<1> HIDE DEF y
<1>3. out \in [Links -> Managers]
  BY <1>1, SentAsOwnerFields
<1>4. in \in [Links -> Managers]
  BY <1>1, SentAsTargetFields
<1>5. \A l \in Links :
                /\ out[l] = IF Owner(l) = s THEN SentAsOwner(x.outgoing[l])
                            ELSE x.outgoing[l]
                /\ in[l] = IF Target(l) = s THEN SentAsTarget(x.incoming[l])
                           ELSE x.incoming[l]
  OBVIOUS
<1> HIDE DEF out, in
<1>6. /\ \A l \in Links : Owner(l) = s /\ IsReserved(out[l]) => out[l].alloc \subseteq own
      /\ \A l \in Links : Target(l) = s => ReservedSlots(in[l]) \subseteq own
  OBVIOUS
<1>7. own \in SUBSET Slots
  <2>1. \A l \in Links : out[l].alloc \subseteq Slots
    BY <1>3 DEF Managers
  <2>2. \A l \in Links : ReservedSlots(in[l]) \subseteq Slots
    BY <1>4, ReservedSlotsType
  <2>3. QED
    BY <2>1, <2>2
<1> HIDE DEF own
<1>8. m \in Maps /\ m.hard = Refreshed(x.map.hard, own)
  BY <1>1, <1>7, UpdateHardFields
<1> HIDE DEF m
<1>9. a \in 0 .. 3
  BY <1>1
<1> HIDE DEF a
<1>10. y \in WakeUps /\ y.outgoing = out /\ y.incoming = in /\ y.map = m
  BY <1>1, <1>2, <1>3, <1>4, <1>8, <1>9 DEF WakeUps
<1>11. \A slot \in Slots : m.hard[slot] = IF slot \in own THEN Fresh ELSE x.map.hard[slot]
  BY <1>1, <1>7, <1>8, RefreshedAges
<1>12. QED
  BY <1>5, <1>6, <1>7, <1>10, <1>11 DEF y

-----------------------------------------------------------------------------
(***************************************************************************)
(* The inductive invariant.                                                *)
(***************************************************************************)
Failures == {"pending", "merge", "unknown"}

TypeOK ==
    /\ turn \in 1 .. NumStations + 1
    /\ outgoing \in [Links -> Managers]
    /\ incoming \in [Links -> Managers]
    /\ map \in [Stations -> Maps]
    /\ availability \in [Stations -> 0 .. 3]
    /\ bitmap \in [Links -> SUBSET Slots]
    /\ demand \in [Links -> Nat]
    /\ registered \in [Links -> SUBSET Slots]
    /\ losses \in Nat
    /\ failed \in SUBSET Failures

AllAgree == \A l \in Links : Agree(outgoing[l], incoming[l])

\* The slots of c are in the map m, received in this superframe.
KeptIn(c, m) == IsReserved(c) => \A slot \in c.alloc : m.hard[slot] = Fresh

OwnKept ==
    \A l \in Links : /\ KeptIn(outgoing[l], map[Owner(l)])
                     /\ KeptIn(incoming[l], map[Target(l)])

\* Station r has begun a superframe after the last beacon of station t.
Woken(r, t) == IF turn > t THEN t < r /\ r < turn ELSE r > t \/ r < turn

OthersKeep ==
    losses = 0 =>
        \A l \in Links, r \in Stations :
            IsReserved(incoming[l]) =>
                \A slot \in incoming[l].alloc :
                    map[r].hard[slot] >= IF Woken(r, Target(l)) THEN MaxLostBeacons
                                         ELSE Fresh

IInv ==
    /\ TypeOK
    /\ AllAgree
    /\ OwnKept
    /\ TargetsExclusive
    /\ OthersKeep
    /\ MergeAgreed

-----------------------------------------------------------------------------
(***************************************************************************)
(* The wake-up of station s.                                               *)
(***************************************************************************)
Start(s) ==
    [outgoing |-> outgoing, incoming |-> incoming, map |-> onBPStarted(map[s]),
     availability |-> availability[s]]

\* When the station wakes up what it has accepted is still in its map.
LEMMA StartFields ==
    ASSUME IInv, NEW s \in Stations
    PROVE  /\ Start(s) \in WakeUps
           /\ Start(s).outgoing = outgoing /\ Start(s).incoming = incoming
           /\ \A slot \in Slots : Start(s).map.hard[slot] = Older(map[s].hard[slot])
           /\ Accepted(Start(s), s)
<1> DEFINE m == onBPStarted(map[s])
<1>1. /\ outgoing \in [Links -> Managers] /\ incoming \in [Links -> Managers]
      /\ map[s] \in Maps /\ availability[s] \in 0 .. 3
  BY DEF IInv, TypeOK
<1>2. m \in Maps /\ \A slot \in Slots : m.hard[slot] = Older(map[s].hard[slot])
  BY <1>1, BPStartedFields
<1> HIDE DEF m
<1>3. /\ Start(s) \in WakeUps
      /\ Start(s).outgoing = outgoing /\ Start(s).incoming = incoming
      /\ Start(s).map = m
  BY <1>1, <1>2 DEF Start, WakeUps, m
<1>4. ASSUME NEW l \in Links
      PROVE  /\ ReservedSlots(incoming[l]) = IF IsReserved(incoming[l])
                                             THEN incoming[l].alloc ELSE {}
             /\ incoming[l].alloc \subseteq Slots
  <2>1. ~incoming[l].mergeStatus
    BY DEF IInv, AllAgree, Agree, MergeToBeAgreed
  <2>2. ~IsMergeReserved(incoming[l])
    BY <2>1 DEF IsMergeReserved
  <2>3. QED
    BY <1>1, <2>2 DEF ReservedSlots, Managers
<1>5. Accepted(Start(s), s)
  <2> SUFFICES ASSUME NEW k \in Links, NEW l \in Links, Target(k) = s, Target(l) = s
               PROVE  /\ ReservedSlots(incoming[l]) \subseteq Seen(m.hard)
                      /\ k # l => ReservedSlots(incoming[k])
                                    \cap ReservedSlots(incoming[l]) = {}
    BY <1>3 DEF Accepted
  <2>1. IsReserved(incoming[l]) => \A slot \in incoming[l].alloc : slot \in Seen(m.hard)
    <3> SUFFICES ASSUME IsReserved(incoming[l]), NEW slot \in incoming[l].alloc
                 PROVE  slot \in Seen(m.hard)
      OBVIOUS
    <3>1. slot \in Slots /\ map[s].hard[slot] = Fresh
      BY <1>4 DEF IInv, OwnKept, KeptIn
    <3>2. m.hard[slot] = MaxLostBeacons
      BY <1>2, <3>1, OlderAges, FreshAge
    <3>3. QED
      BY <3>1, <3>2, SlotsAssumption DEF Seen
  <2>2. k # l /\ IsReserved(incoming[k]) /\ IsReserved(incoming[l])
            => incoming[k].alloc \cap incoming[l].alloc = {}
    BY DEF IInv, TargetsExclusive
  <2>3. QED
    BY <1>4, <2>1, <2>2
<1>6. QED
  BY <1>2, <1>3, <1>5

\* What the station has decided when it builds its beacon.
LEMMA WakeUpFields ==
    ASSUME IInv, NEW s \in Stations,
           NEW x \in CreateDRPMaps(EvaluateConnection(Start(s), s), s)
    PROVE  /\ x \in WakeUps
           /\ \A l \in Links :
                IF Owner(l) = s /\ outgoing[l].known
                THEN Proposes(EvaluateOutgoing(outgoing[l]), x.outgoing[l])
                ELSE x.outgoing[l] = outgoing[l]
           /\ \A l \in Links :
                IF Target(l) = s /\ incoming[l].known
                THEN \E m \in Maps : x.incoming[l] = Answer(m, incoming[l])
                ELSE x.incoming[l] = incoming[l]
           /\ \A slot \in Slots : x.map.hard[slot] \in {Older(map[s].hard[slot]), Fresh}
           /\ Accepted(x, s)
           /\ ReservedFree(Start(s), x)
<1> DEFINE start == Start(s)
<1>1. /\ start \in WakeUps
      /\ start.outgoing = outgoing /\ start.incoming = incoming
      /\ \A slot \in Slots : start.map.hard[slot] = Older(map[s].hard[slot])
      /\ Accepted(start, s)
  BY StartFields
<1>2. x \in CreateDRPMaps(EvaluateConnection(start, s), s)
  OBVIOUS
<1> HIDE DEF start
<1>3. PICK y \in WakeUps : /\ EvaluatedTo(start, y, s, NumStations)
                           /\ EvaluateConnection(start, s) = AfterEvaluation(y, s)
  BY <1>1, EvaluateConnectionFields
<1> DEFINE z == AfterEvaluation(y, s)
           out == [l \in Links |-> IF Owner(l) = s /\ y.outgoing[l].known
                                   THEN EvaluateOutgoing(y.outgoing[l])
                                   ELSE y.outgoing[l]]
<1>4. z = [y EXCEPT !.outgoing = out]
  BY DEF AfterEvaluation
<1>5. y.outgoing \in [Links -> Managers] /\ y.outgoing = outgoing
  BY <1>1, <1>3 DEF WakeUps, EvaluatedTo
<1>6. /\ out \in [Links -> Managers]
      /\ \A l \in Links : out[l] = IF Owner(l) = s /\ outgoing[l].known
                                   THEN EvaluateOutgoing(outgoing[l]) ELSE outgoing[l]
  BY <1>5, EvaluateOutgoingFields
<1> HIDE DEF out, z
<1>7. z \in WakeUps /\ z.outgoing = out /\ z.incoming = y.incoming /\ z.map = y.map
  BY <1>4, <1>6 DEF WakeUps
<1>8. x \in WakeUps /\ Created(z, x, s)
  BY <1>2, <1>3, <1>7, CreateDRPMapsFields DEF z
<1>9. \A l \in Links : IF Owner(l) = s /\ outgoing[l].known
                       THEN Proposes(EvaluateOutgoing(outgoing[l]), x.outgoing[l])
                       ELSE x.outgoing[l] = outgoing[l]
  BY <1>6, <1>7, <1>8 DEF Created
<1>10. ASSUME NEW l \in Links
       PROVE  IF Target(l) = s /\ incoming[l].known
              THEN \E m \in Maps : x.incoming[l] = Answer(m, incoming[l])
              ELSE x.incoming[l] = incoming[l]
  <2>1. Owner(l) <= NumStations
    BY LinksAssumption DEF Owner, Stations
  <2>2. x.incoming[l] = y.incoming[l]
    BY <1>7, <1>8 DEF Created
  <2>3. QED
    BY <1>1, <1>3, <2>1, <2>2 DEF EvaluatedTo
<1>11. x.map.hard = y.map.hard /\ x.incoming = y.incoming
  BY <1>7, <1>8 DEF Created
<1>12. \A slot \in Slots : x.map.hard[slot] \in {Older(map[s].hard[slot]), Fresh}
  BY <1>1, <1>3, <1>11 DEF EvaluatedTo
<1>13. Accepted(x, s)
  BY <1>3, <1>11 DEF EvaluatedTo, Accepted
<1>14. ReservedFree(start, x)
  BY <1>3, <1>11 DEF EvaluatedTo, ReservedFree
<1>15. QED
  BY <1>8, <1>9, <1>10, <1>12, <1>13, <1>14 DEF start

-----------------------------------------------------------------------------
(***************************************************************************)
(* A beacon and the two ends of one link.                                  *)
(***************************************************************************)

\* An owner without the manager sends nothing of the link.
LEMMA SilentOwner ==
    ASSUME NEW o \in Managers, NEW i \in Managers, Agree(o, i), ~o.known
    PROVE  /\ Agree(SentAsOwner(o), i)
           /\ FromBeaconOfOwner(i, DRPIEs(o)) = i
<1> DEFINE p == SentAsOwner(o)
<1>1. /\ SameReservation(o, p)
      /\ p.mergeReason = o.mergeReason /\ p.mergeStatus = o.mergeStatus
      /\ p.merge = o.merge
      /\ p.pendingMerge = IF o.alloc # {} THEN HasPendingDRPMerge(o)
                          ELSE o.pendingMerge
  BY SentAsOwnerFields
<1> HIDE DEF p
<1>2. Agree(p, i)
  BY <1>1 DEF Agree, ReservationAgreed, MergeToBeAgreed, SameReservation, HasPendingDRPMerge
<1>3. FromBeaconOfOwner(i, DRPIEs(o)) = i
  BY ElementsSent, ExaminedNone
<1>4. QED
  BY <1>2, <1>3 DEF p

\* A target without the manager sends nothing of it either.
LEMMA SilentTarget ==
    ASSUME NEW o \in Managers, NEW i \in Managers, Agree(o, i), ~i.known
    PROVE  /\ Agree(o, SentAsTarget(i))
           /\ FromBeaconOfTarget(o, DRPIEs(i)) = o
           /\ Len(DRPIEs(i)) = 0
           /\ ~IsReserved(SentAsTarget(i))
<1> DEFINE p == SentAsTarget(i)
<1>1. ~IsMergeReserved(i)
  BY DEF Agree, MergeToBeAgreed, IsMergeReserved
<1>2. /\ p.known = i.known /\ p.reason = i.reason /\ p.status = i.status
      /\ p.alloc = i.alloc
      /\ p.mergeReason = i.mergeReason /\ p.mergeStatus = i.mergeStatus
      /\ p.merge = i.merge /\ p.pendingMerge = HasPendingDRPMerge(i)
  BY <1>1, SentAsTargetFields
<1> HIDE DEF p
<1>3. Agree(o, p)
  BY <1>2 DEF Agree, ReservationAgreed, MergeToBeAgreed, HasPendingDRPMerge
<1>4. ~IsReserved(p)
  BY <1>2 DEF Agree, ReservationAgreed, IsReserved
<1>5. DRPIEs(i) = <<>>
  BY ElementsSent
<1>6. FromBeaconOfTarget(o, DRPIEs(i)) = o
  BY <1>5, ExaminedNone
<1>7. QED
  BY <1>3, <1>4, <1>5, <1>6 DEF p

\* The beacon of the owner, received or not, where it had o and sends d.
LEMMA OwnerSends ==
    ASSUME NEW o \in Managers, NEW i \in Managers, NEW d \in Managers, Agree(o, i),
           IF o.known THEN Proposes(EvaluateOutgoing(o), d) ELSE d = o,
           NEW j, j = i \/ j = FromBeaconOfOwner(i, DRPIEs(d))
    PROVE  /\ j \in Managers
           /\ Agree(SentAsOwner(d), j)
           /\ KeepsReservation(i, j)
<1>1. CASE o.known
  BY <1>1, OwnerStep DEF KeepsReservation
<1>2. CASE ~o.known
  BY <1>2, SilentOwner DEF KeepsReservation
<1>3. QED
  BY <1>1, <1>2

\* The beacon of the target.
LEMMA TargetSends ==
    ASSUME NEW o \in Managers, NEW i \in Managers, NEW d \in Managers, Agree(o, i),
           IF i.known THEN \E m \in Maps : d = Answer(m, i) ELSE d = i,
           NEW p, p = o \/ p = FromBeaconOfTarget(o, DRPIEs(d))
    PROVE  /\ p \in Managers
           /\ Agree(p, SentAsTarget(d))
           /\ Len(DRPIEs(d)) = 2 /\ DRPIEs(d)[2].status => DRPIEs(d)[2].alloc = o.merge
           /\ IsReserved(SentAsTarget(d)) =>
                /\ SentAsTarget(d).alloc \subseteq ReservedSlots(d)
                /\ SentAsTarget(d).alloc \subseteq SentReserved(DRPIEs(d))
<1>1. CASE i.known
  <2>1. PICK m \in Maps : Answered(m, i, d)
    BY <1>1, AnswerFields
  <2>2. QED
    BY <1>1, <2>1, TargetStep
<1>2. CASE ~i.known
  BY <1>2, SilentTarget
<1>3. QED
  BY <1>1, <1>2

\* What a target has reserved an owner takes for reserved at most.
LEMMA ReservedAgreed ==
    ASSUME NEW o, NEW i, Agree(o, i), IsReserved(o)
    PROVE  IsReserved(i) /\ o.alloc \subseteq i.alloc
  BY DEF Agree, ReservationAgreed, IsReserved

\* Reserved slots stay in a map that gets no older.
LEMMA KeptStays ==
    ASSUME NEW c \in Managers, NEW d \in Managers, NEW m \in Maps, NEW n \in Maps,
           KeptIn(c, m), KeepsReservation(c, d),
           \A slot \in Slots : n.hard[slot] \in {m.hard[slot], Fresh}
    PROVE  KeptIn(d, n)
<1>1. d.alloc \subseteq Slots
  BY DEF Managers
<1>2. QED
  BY <1>1 DEF KeptIn, KeepsReservation

-----------------------------------------------------------------------------
(***************************************************************************)
(* A beacon and the invariant, for the wake-up x.                          *)
(***************************************************************************)
Unheard(s, heard) == Cardinality(Stations \ ({s} \cup heard))

Sends(s, heard, x) ==
    LET ies == CreateDRPIE(x, s)
        y == AfterBeacon(x, s)
    IN  /\ turn = s /\ turn' = turn + 1
        /\ outgoing' = [l \in Links |->
                IF s = Target(l) /\ Owner(l) \in heard /\ outgoing[l].known
                THEN FromBeaconOfTarget(outgoing[l], ies[l]) ELSE y.outgoing[l]]
        /\ incoming' = [l \in Links |->
                IF s = Owner(l) /\ Target(l) \in heard
                THEN FromBeaconOfOwner(incoming[l], ies[l]) ELSE y.incoming[l]]
        /\ map' = [r \in Stations |->
                IF r = s THEN y.map
                ELSE IF r \in heard THEN MapAfter(r, ies) ELSE map[r]]
        /\ availability' = [availability EXCEPT ![s] = y.availability]
        /\ bitmap' \in [Links -> {{}, GetGlobalPattern(y.map)} \cup {bitmap[l] : l \in Links}]
        /\ failed' = FailedWith(s, heard, ies)
        /\ losses' = losses + Unheard(s, heard)
        /\ demand' = demand /\ registered' = registered

\* A beacon in terms of the operators above.
LEMMA BeaconSends ==
    ASSUME NEW s \in Stations, NEW heard \in SUBSET (Stations \ {s}), Beacon(s, heard)
    PROVE  \E x \in CreateDRPMaps(EvaluateConnection(Start(s), s), s) : Sends(s, heard, x)
<1>1. PICK x \in CreateDRPMaps(EvaluateConnection(Start(s), s), s) :
        LET beacon == CreateBeacon(x, s)
            ies == beacon.drpIEs
            y == AfterBeacon(x, s)
        IN  /\ outgoing' = [l \in Links |->
                    IF s = Target(l) /\ Owner(l) \in heard /\ outgoing[l].known
                    THEN Examined(outgoing[l], ies[l], FromTarget, MergeFromTarget)
                    ELSE y.outgoing[l]]
            /\ incoming' = [l \in Links |->
                    IF s = Owner(l) /\ Target(l) \in heard
                    THEN Examined(incoming[l], ies[l], FromOwner, MergeFromOwner)
                    ELSE y.incoming[l]]
            /\ map' = [r \in Stations |->
                    IF r = s THEN y.map
                    ELSE IF r \in heard THEN MapAfter(r, ies) ELSE map[r]]
            /\ availability' = [availability EXCEPT ![s] = y.availability]
            /\ bitmap' = [l \in Links |->
                    IF Target(l) = s /\ Owner(l) \in heard /\ beacon.HasAvailabilityIE
                    THEN beacon.availabilityBitmap
                    ELSE ClearAvailabilityBitmap(s)[l]]
            /\ failed' = FailedWith(s, heard, ies)
  BY DEF Beacon, Start
<1> DEFINE ies == CreateDRPIE(x, s)
           y == AfterBeacon(x, s)
           beacon == CreateBeacon(x, s)
<1>2. beacon.drpIEs = ies /\ beacon.availabilityBitmap = GetGlobalPattern(y.map)
  BY DEF CreateBeacon
<1>3. bitmap' \in [Links -> {{}, GetGlobalPattern(y.map)} \cup {bitmap[l] : l \in Links}]
  <2>1. \A l \in Links : ClearAvailabilityBitmap(s)[l] \in {{}} \cup {bitmap[k] : k \in Links}
    BY DEF ClearAvailabilityBitmap
  <2> DEFINE b == [l \in Links |->
                    IF Target(l) = s /\ Owner(l) \in heard /\ beacon.HasAvailabilityIE
                    THEN beacon.availabilityBitmap
                    ELSE ClearAvailabilityBitmap(s)[l]]
  <2>2. bitmap' = b
    BY <1>1
  <2>3. b \in [Links -> {{}, GetGlobalPattern(y.map)} \cup {bitmap[l] : l \in Links}]
    <3> HIDE DEF y, beacon
    <3>1. QED
      BY <1>2, <2>1
  <2>4. QED
    BY <2>2, <2>3
<1>4. /\ turn = s /\ turn' = turn + 1 /\ losses' = losses + Unheard(s, heard)
      /\ demand' = demand /\ registered' = registered
  BY DEF Beacon, Unheard
<1>5. /\ outgoing' = [l \in Links |->
                IF s = Target(l) /\ Owner(l) \in heard /\ outgoing[l].known
                THEN FromBeaconOfTarget(outgoing[l], ies[l]) ELSE y.outgoing[l]]
      /\ incoming' = [l \in Links |->
                IF s = Owner(l) /\ Target(l) \in heard
                THEN FromBeaconOfOwner(incoming[l], ies[l]) ELSE y.incoming[l]]
  BY <1>1, <1>2 DEF FromBeaconOfTarget, FromBeaconOfOwner
<1>6. /\ map' = [r \in Stations |->
                IF r = s THEN y.map
                ELSE IF r \in heard THEN MapAfter(r, ies) ELSE map[r]]
      /\ availability' = [availability EXCEPT ![s] = y.availability]
      /\ failed' = FailedWith(s, heard, ies)
  BY <1>1, <1>2
<1>7. Sends(s, heard, x)
  BY <1>3, <1>4, <1>5, <1>6 DEF Sends
<1>8. QED
  BY <1>7

\* The ends of a link are different stations.
LEMMA LinkEnds ==
    ASSUME NEW l \in Links
    PROVE  /\ Owner(l) \in Stations /\ Target(l) \in Stations /\ Owner(l) # Target(l)
           /\ Owner(l) \in 1 .. NumStations /\ Target(l) \in 1 .. NumStations
  BY LinksAssumption DEF Owner, Target, Stations

\* What a beacon does to a link and to the maps.
LinkAfter(s, x, l) ==
    /\ outgoing'[l] \in Managers /\ incoming'[l] \in Managers
    /\ Agree(outgoing'[l], incoming'[l])
    /\ s # Target(l) => KeepsReservation(incoming[l], incoming'[l])
    /\ s = Target(l) => /\ incoming'[l] = AfterBeacon(x, s).incoming[l]
                        /\ IsReserved(incoming'[l]) =>
                            /\ incoming'[l].alloc \subseteq ReservedSlots(x.incoming[l])
                            /\ incoming'[l].alloc \subseteq SentReserved(CreateDRPIE(x, s)[l])
    /\ s = Owner(l) => outgoing'[l] = AfterBeacon(x, s).outgoing[l]

\* A beacon changes the links of its sender, and keeps the ends in agreement.
LEMMA BeaconLinks ==
    ASSUME IInv, NEW s \in Stations, NEW heard \in SUBSET (Stations \ {s}),
           NEW x \in CreateDRPMaps(EvaluateConnection(Start(s), s), s),
           Sends(s, heard, x), NEW l \in Links
    PROVE  /\ LinkAfter(s, x, l)
           /\ s \notin {Owner(l), Target(l)} => outgoing'[l] = outgoing[l]
           /\ s = Target(l) =>
                /\ Owner(l) \notin heard => outgoing'[l] = outgoing[l]
                /\ ~MergeDiffers(l, CreateDRPIE(x, s)[l])
<1> DEFINE y == AfterBeacon(x, s)
           ies == CreateDRPIE(x, s)
           o == outgoing[l]
           i == incoming[l]
<1>1. o \in Managers /\ i \in Managers /\ Agree(o, i)
  BY DEF IInv, TypeOK, AllAgree
<1>2. /\ x.outgoing[l] \in Managers /\ x.incoming[l] \in Managers
      /\ IF Owner(l) = s /\ o.known
         THEN Proposes(EvaluateOutgoing(o), x.outgoing[l])
         ELSE x.outgoing[l] = o
      /\ IF Target(l) = s /\ i.known
         THEN \E m \in Maps : x.incoming[l] = Answer(m, i)
         ELSE x.incoming[l] = i
      /\ x \in WakeUps
  <2>1. x \in WakeUps
    BY WakeUpFields
  <2>2. x.outgoing[l] \in Managers /\ x.incoming[l] \in Managers
    BY <2>1 DEF WakeUps
  <2>3. QED
    BY <2>1, <2>2, WakeUpFields
<1>3. /\ y.outgoing[l] = IF Owner(l) = s THEN SentAsOwner(x.outgoing[l]) ELSE x.outgoing[l]
      /\ y.incoming[l] = IF Target(l) = s THEN SentAsTarget(x.incoming[l]) ELSE x.incoming[l]
  BY <1>2, AfterBeaconFields
<1>4. /\ outgoing'[l] = IF s = Target(l) /\ Owner(l) \in heard /\ o.known
                        THEN FromBeaconOfTarget(o, ies[l]) ELSE y.outgoing[l]
      /\ incoming'[l] = IF s = Owner(l) /\ Target(l) \in heard
                        THEN FromBeaconOfOwner(i, ies[l]) ELSE y.incoming[l]
  BY DEF Sends
<1>5. s \in {Owner(l), Target(l)} =>
        ies[l] = DRPIEs(IF s = Owner(l) THEN x.outgoing[l] ELSE x.incoming[l])
  BY DEF CreateDRPIE
<1>6. Owner(l) # Target(l)
  BY LinkEnds
<1> HIDE DEF y, ies, o, i
<1>7. CASE s = Owner(l)
  <2> DEFINE d == x.outgoing[l]
             j == incoming'[l]
  <2>1. d \in Managers /\ IF o.known THEN Proposes(EvaluateOutgoing(o), d) ELSE d = o
    BY <1>2, <1>7
  <2>2. outgoing'[l] = SentAsOwner(d) /\ outgoing'[l] = y.outgoing[l]
    BY <1>3, <1>4, <1>6, <1>7
  <2>3. j = i \/ j = FromBeaconOfOwner(i, DRPIEs(d))
    BY <1>2, <1>3, <1>4, <1>5, <1>6, <1>7
  <2> HIDE DEF d, j
  <2>4. j \in Managers /\ Agree(SentAsOwner(d), j) /\ KeepsReservation(i, j)
    BY <1>1, <2>1, <2>3, OwnerSends
  <2>5. SentAsOwner(d) \in Managers
    BY <2>1, SentAsOwnerFields
  <2>6. LinkAfter(s, x, l)
    BY <1>6, <1>7, <2>2, <2>4, <2>5 DEF LinkAfter, j, y, i
  <2>7. QED
    BY <1>6, <1>7, <2>6
<1>8. CASE s = Target(l)
  <2> DEFINE d == x.incoming[l]
             p == outgoing'[l]
  <2>1. d \in Managers /\ IF i.known THEN \E m \in Maps : d = Answer(m, i) ELSE d = i
    BY <1>2, <1>8
  <2>2. incoming'[l] = SentAsTarget(d) /\ incoming'[l] = y.incoming[l]
    BY <1>3, <1>4, <1>6, <1>8
  <2>3. ies[l] = DRPIEs(d)
    BY <1>5, <1>6, <1>8
  <2>4. p = o \/ p = FromBeaconOfTarget(o, DRPIEs(d))
    BY <1>2, <1>3, <1>4, <1>6, <1>8, <2>3
  <2>5. Owner(l) \notin heard => p = o
    BY <1>2, <1>3, <1>4, <1>6, <1>8
  <2> HIDE DEF d, p
  <2>6. /\ p \in Managers
        /\ Agree(p, SentAsTarget(d))
        /\ Len(DRPIEs(d)) = 2 /\ DRPIEs(d)[2].status => DRPIEs(d)[2].alloc = o.merge
        /\ IsReserved(SentAsTarget(d)) =>
              /\ SentAsTarget(d).alloc \subseteq ReservedSlots(d)
              /\ SentAsTarget(d).alloc \subseteq SentReserved(DRPIEs(d))
    BY <1>1, <2>1, <2>4, TargetSends
  <2>7. SentAsTarget(d) \in Managers
    BY <2>1, SentAsTargetFields
  <2>8. LinkAfter(s, x, l)
    BY <1>6, <1>8, <2>2, <2>3, <2>6, <2>7 DEF LinkAfter, p, d, y, ies
  <2>9. ~MergeDiffers(l, ies[l])
    BY <2>3, <2>6 DEF MergeDiffers, o
  <2>10. QED
    BY <1>6, <1>8, <2>5, <2>8, <2>9 DEF p, o, ies
<1>9. CASE s \notin {Owner(l), Target(l)}
  <2>1. outgoing'[l] = o /\ incoming'[l] = i
    BY <1>2, <1>3, <1>4, <1>9
  <2>2. LinkAfter(s, x, l)
    BY <1>1, <1>9, <2>1 DEF LinkAfter, KeepsReservation, i
  <2>3. QED
    BY <1>9, <2>1, <2>2 DEF o
<1>10. QED
  BY <1>7, <1>8, <1>9

\* What it does to the map of station r.
MapsAfter(s, heard, x, r) ==
    /\ map'[r] \in Maps
    /\ r # s => /\ \A slot \in Slots : map'[r].hard[slot] \in {map[r].hard[slot], Fresh}
                /\ r \in heard =>
                    \A l \in Links : s \in {Owner(l), Target(l)} =>
                        \A slot \in SentReserved(CreateDRPIE(x, s)[l]) :
                            map'[r].hard[slot] = Fresh
    /\ r = s => /\ map'[r] = AfterBeacon(x, s).map
                /\ \A slot \in Slots :
                    map'[r].hard[slot] \in {Older(map[r].hard[slot]), Fresh}

\* A beacon makes entries older at its sender only.
LEMMA BeaconMaps ==
    ASSUME IInv, NEW s \in Stations, NEW heard \in SUBSET (Stations \ {s}),
           NEW x \in CreateDRPMaps(EvaluateConnection(Start(s), s), s),
           Sends(s, heard, x), NEW r \in Stations
    PROVE  MapsAfter(s, heard, x, r)
<1> DEFINE y == AfterBeacon(x, s)
           ies == CreateDRPIE(x, s)
<1>1. map[r] \in Maps
  BY DEF IInv, TypeOK
<1>2. /\ x \in WakeUps
      /\ \A slot \in Slots : x.map.hard[slot] \in {Older(map[s].hard[slot]), Fresh}
  BY WakeUpFields
<1>3. /\ y \in WakeUps
      /\ \A slot \in Slots : y.map.hard[slot] \in {x.map.hard[slot], Fresh}
  BY <1>2, AfterBeaconFields
<1>4. map'[r] = IF r = s THEN y.map ELSE IF r \in heard THEN MapAfter(r, ies) ELSE map[r]
  BY DEF Sends
<1>5. /\ DOMAIN ies = {l \in Links : s \in {Owner(l), Target(l)}}
      /\ \A l \in DOMAIN ies : ElementsOf(ies[l])
  <2>1. \A l \in Links : x.outgoing[l] \in Managers /\ x.incoming[l] \in Managers
    BY <1>2 DEF WakeUps
  <2>2. QED
    BY <2>1 DEF CreateDRPIE, ElementsOf
<1> HIDE DEF y, ies
<1>6. CASE r = s
  BY <1>2, <1>3, <1>4, <1>6 DEF MapsAfter, WakeUps, y
<1>7. CASE r # s /\ r \in heard
  <2> DEFINE n == MapAfter(r, ies)
  <2>1. DOMAIN ies \subseteq Links
    BY <1>5
  <2>2. /\ n \in Maps
        /\ \A slot \in Slots : n.hard[slot] \in {map[r].hard[slot], Fresh}
        /\ \A l \in DOMAIN ies : \A slot \in SentReserved(ies[l]) : n.hard[slot] = Fresh
    BY <1>1, <1>5, <2>1, MapAfterFields
  <2>3. map'[r] = n
    BY <1>4, <1>7
  <2> HIDE DEF n
  <2>4. QED
    BY <1>5, <1>7, <2>2, <2>3 DEF MapsAfter, ies
<1>8. CASE r # s /\ r \notin heard
  BY <1>1, <1>4, <1>8 DEF MapsAfter
<1>9. QED
  BY <1>6, <1>7, <1>8

\* The stations that miss a beacon are counted, and if their number is zero all
\* have received it.
LEMMA UnheardNumber ==
    ASSUME NEW s, NEW heard
    PROVE  /\ Unheard(s, heard) \in Nat
           /\ Unheard(s, heard) = 0 => Stations \subseteq {s} \cup heard
<1> DEFINE rest == Stations \ ({s} \cup heard)
<1>1. 1 \in Int /\ NumStations \in Int
  BY LinksAssumption
<1>2. IsFiniteSet(1 .. NumStations)
  BY <1>1, FS_Interval
<1>3. IsFiniteSet(Stations)
  BY <1>2 DEF Stations
<1>4. IsFiniteSet(rest)
  BY <1>3, FS_Difference
<1>5. Unheard(s, heard) = Cardinality(rest)
  BY DEF Unheard
<1> HIDE DEF rest
<1>6. Cardinality(rest) \in Nat /\ (Cardinality(rest) = 0 => rest = {})
  BY <1>4, FS_CardinalityType, FS_EmptySet
<1>7. QED
  BY <1>5, <1>6 DEF rest

\* The types, the agreement of the ends and of the slots to be merged.
LEMMA BeaconType ==
    ASSUME IInv, NEW s \in Stations, NEW heard \in SUBSET (Stations \ {s}),
           NEW x \in CreateDRPMaps(EvaluateConnection(Start(s), s), s),
           Sends(s, heard, x)
    PROVE  TypeOK' /\ AllAgree' /\ MergeAgreed'
<1> DEFINE y == AfterBeacon(x, s)
           ies == CreateDRPIE(x, s)
<1>1. \A l \in Links : /\ LinkAfter(s, x, l)
                       /\ s = Target(l) => ~MergeDiffers(l, ies[l])
  BY BeaconLinks
<1>2. \A r \in Stations : MapsAfter(s, heard, x, r)
  BY BeaconMaps
<1>3. /\ DOMAIN outgoing' = Links /\ DOMAIN incoming' = Links /\ DOMAIN map' = Stations
      /\ outgoing' = [l \in DOMAIN outgoing' |-> outgoing'[l]]
      /\ incoming' = [l \in DOMAIN incoming' |-> incoming'[l]]
      /\ map' = [r \in DOMAIN map' |-> map'[r]]
  BY DEF Sends
<1>4. outgoing' \in [Links -> Managers] /\ incoming' \in [Links -> Managers]
  BY <1>1, <1>3 DEF LinkAfter
<1>5. map' \in [Stations -> Maps]
  BY <1>2, <1>3 DEF MapsAfter
<1>6. y \in WakeUps /\ y.availability \in 0 .. 3 /\ y.map \in Maps
  <2>1. x \in WakeUps
    BY WakeUpFields
  <2>2. y \in WakeUps
    BY <2>1, AfterBeaconFields
  <2>3. QED
    BY <2>2 DEF WakeUps
<1>7. availability' \in [Stations -> 0 .. 3]
  <2>1. availability' = [availability EXCEPT ![s] = y.availability]
    BY DEF Sends
  <2> HIDE DEF y
  <2>2. QED
    BY <1>6, <2>1 DEF IInv, TypeOK
<1>8. bitmap' \in [Links -> SUBSET Slots]
  <2>1. bitmap' \in [Links -> {{}, GetGlobalPattern(y.map)} \cup {bitmap[l] : l \in Links}]
    BY DEF Sends
  <2>2. GetGlobalPattern(y.map) \subseteq Slots
    BY <1>6, GlobalPatternSlots
  <2>3. \A l \in Links : bitmap[l] \subseteq Slots
    BY DEF IInv, TypeOK
  <2> HIDE DEF y
  <2>4. {{}, GetGlobalPattern(y.map)} \cup {bitmap[l] : l \in Links} \subseteq SUBSET Slots
    BY <2>2, <2>3
  <2>5. QED
    BY <2>1, <2>4
<1>9. failed' \in SUBSET Failures /\ "merge" \notin failed'
  <2>1. failed' = FailedWith(s, heard, ies)
    BY DEF Sends
  <2>2. DOMAIN ies \subseteq Links
    BY DEF CreateDRPIE
  <2> HIDE DEF ies
  <2>3. FailedWith(s, heard, ies) \subseteq Failures
    BY DEF FailedWith, Failures
  <2>4. "merge" \notin FailedWith(s, heard, ies)
    BY <1>1, <2>2 DEF FailedWith
  <2>5. QED
    BY <2>1, <2>3, <2>4
<1>10. losses' \in Nat
  <2>1. Unheard(s, heard) \in Nat
    BY UnheardNumber
  <2>2. losses' = losses + Unheard(s, heard) /\ losses \in Nat
    BY DEF Sends, IInv, TypeOK
  <2>3. QED
    BY <2>1, <2>2
<1>11. turn' \in 1 .. NumStations + 1
  BY LinksAssumption DEF Sends, Stations
<1>12. demand' \in [Links -> Nat] /\ registered' \in [Links -> SUBSET Slots]
  BY DEF Sends, IInv, TypeOK
<1>13. TypeOK'
  BY <1>4, <1>5, <1>7, <1>8, <1>9, <1>10, <1>11, <1>12 DEF TypeOK
<1>14. AllAgree'
  BY <1>1 DEF LinkAfter, AllAgree
<1>15. MergeAgreed'
  BY <1>9 DEF MergeAgreed
<1>16. QED
  BY <1>13, <1>14, <1>15

\* Both ends have their reservations in their maps.
LEMMA BeaconKeeps ==
    ASSUME IInv, NEW s \in Stations, NEW heard \in SUBSET (Stations \ {s}),
           NEW x \in CreateDRPMaps(EvaluateConnection(Start(s), s), s),
           Sends(s, heard, x)
    PROVE  OwnKept'
<1> DEFINE y == AfterBeacon(x, s)
           ies == CreateDRPIE(x, s)
<1> SUFFICES ASSUME NEW l \in Links
             PROVE  /\ KeptIn(outgoing'[l], map'[Owner(l)])
                    /\ KeptIn(incoming'[l], map'[Target(l)])
  BY DEF OwnKept
<1> DEFINE o == outgoing[l]
           i == incoming[l]
           p == outgoing'[l]
           j == incoming'[l]
<1>1. /\ LinkAfter(s, x, l)
      /\ s \notin {Owner(l), Target(l)} => p = o
      /\ s = Target(l) /\ Owner(l) \notin heard => p = o
  BY BeaconLinks
<1>2. /\ Owner(l) \in Stations /\ Target(l) \in Stations /\ Owner(l) # Target(l)
  BY LinkEnds
<1>3. MapsAfter(s, heard, x, Owner(l)) /\ MapsAfter(s, heard, x, Target(l))
  BY <1>2, BeaconMaps
<1>4. /\ map[Owner(l)] \in Maps /\ map[Target(l)] \in Maps
      /\ o \in Managers /\ i \in Managers
      /\ KeptIn(o, map[Owner(l)]) /\ KeptIn(i, map[Target(l)])
  BY <1>2 DEF IInv, TypeOK, OwnKept
<1>5. /\ map'[Owner(l)] \in Maps /\ map'[Target(l)] \in Maps
      /\ p \in Managers /\ j \in Managers /\ Agree(p, j)
  BY <1>1, <1>3 DEF MapsAfter, LinkAfter
<1>6. /\ Owner(l) = s /\ IsReserved(y.outgoing[l]) =>
            \A slot \in y.outgoing[l].alloc : y.map.hard[slot] = Fresh
      /\ Target(l) = s =>
            \A slot \in ReservedSlots(y.incoming[l]) : y.map.hard[slot] = Fresh
  BY WakeUpFields, AfterBeaconFields
<1>7. KeptIn(j, map'[Target(l)])
  <2>1. CASE s = Target(l)
    <3>1. j = y.incoming[l] /\ map'[Target(l)] = y.map
      BY <1>1, <1>3, <2>1 DEF LinkAfter, MapsAfter
    <3> HIDE DEF y, j
    <3>2. IsReserved(j) => j.alloc \subseteq ReservedSlots(j)
      BY DEF ReservedSlots
    <3>3. QED
      BY <1>6, <2>1, <3>1, <3>2 DEF KeptIn
  <2>2. CASE s # Target(l)
    <3>1. KeepsReservation(i, j)
      BY <1>1, <2>2 DEF LinkAfter
    <3>2. \A slot \in Slots : map'[Target(l)].hard[slot] \in {map[Target(l)].hard[slot], Fresh}
      BY <1>3, <2>2 DEF MapsAfter
    <3> HIDE DEF i, j
    <3>3. QED
      BY <1>4, <1>5, <3>1, <3>2, KeptStays
  <2>3. QED
    BY <2>1, <2>2
<1>8. KeptIn(p, map'[Owner(l)])
  <2>1. CASE s = Owner(l)
    <3>1. p = y.outgoing[l] /\ map'[Owner(l)] = y.map
      BY <1>1, <1>3, <2>1 DEF LinkAfter, MapsAfter
    <3> HIDE DEF y, p
    <3>2. QED
      BY <1>6, <2>1, <3>1 DEF KeptIn
  <2>2. CASE s # Owner(l) /\ p = o
    <3>1. KeepsReservation(o, p)
      BY <2>2 DEF KeepsReservation
    <3>2. \A slot \in Slots : map'[Owner(l)].hard[slot] \in {map[Owner(l)].hard[slot], Fresh}
      BY <1>3, <2>2 DEF MapsAfter
    <3> HIDE DEF o, p
    <3>3. QED
      BY <1>4, <1>5, <3>1, <3>2, KeptStays
  <2>3. CASE s = Target(l) /\ Owner(l) \in heard
    <3>1. IsReserved(j) => j.alloc \subseteq SentReserved(ies[l])
      BY <1>1, <2>3 DEF LinkAfter
    <3>2. \A slot \in SentReserved(ies[l]) : map'[Owner(l)].hard[slot] = Fresh
      BY <1>2, <1>3, <2>3 DEF MapsAfter
    <3> HIDE DEF p, j, ies
    <3>3. IsReserved(p) => IsReserved(j) /\ p.alloc \subseteq j.alloc
      BY <1>5, ReservedAgreed
    <3>4. QED
      BY <3>1, <3>2, <3>3 DEF KeptIn
  <2>4. QED
    BY <1>1, <2>1, <2>2, <2>3
<1>9. QED
  BY <1>7, <1>8

\* What the target of two links has accepted does not overlap.
LEMMA BeaconExclusive ==
    ASSUME IInv, NEW s \in Stations, NEW heard \in SUBSET (Stations \ {s}),
           NEW x \in CreateDRPMaps(EvaluateConnection(Start(s), s), s),
           Sends(s, heard, x)
    PROVE  TargetsExclusive'
<1> SUFFICES ASSUME NEW k \in Links, NEW l \in Links, k # l, Target(k) = Target(l),
                    IsReserved(incoming'[k]), IsReserved(incoming'[l])
             PROVE  incoming'[k].alloc \cap incoming'[l].alloc = {}
  BY DEF TargetsExclusive, IsReserved
<1>1. LinkAfter(s, x, k) /\ LinkAfter(s, x, l)
  BY BeaconLinks
<1>2. CASE Target(l) = s
  <2>1. /\ incoming'[k].alloc \subseteq ReservedSlots(x.incoming[k])
        /\ incoming'[l].alloc \subseteq ReservedSlots(x.incoming[l])
    BY <1>1, <1>2 DEF LinkAfter
  <2>2. ReservedSlots(x.incoming[k]) \cap ReservedSlots(x.incoming[l]) = {}
    BY <1>2, WakeUpFields DEF Accepted
  <2>3. QED
    BY <2>1, <2>2
<1>3. CASE Target(l) # s
  <2>1. KeepsReservation(incoming[k], incoming'[k]) /\ KeepsReservation(incoming[l], incoming'[l])
    BY <1>1, <1>3 DEF LinkAfter
  <2>2. /\ IsReserved(incoming[k]) /\ incoming'[k].alloc = incoming[k].alloc
        /\ IsReserved(incoming[l]) /\ incoming'[l].alloc = incoming[l].alloc
    BY <2>1 DEF KeepsReservation
  <2>3. QED
    BY <2>2 DEF IInv, TargetsExclusive
<1>4. QED
  BY <1>2, <1>3

\* Without losses every station has the reservations in its map: fresh from the
\* beacon of the target until the station's next wake-up, and one superframe
\* older after that.
LEMMA BeaconOthers ==
    ASSUME IInv, NEW s \in Stations, NEW heard \in SUBSET (Stations \ {s}),
           NEW x \in CreateDRPMaps(EvaluateConnection(Start(s), s), s),
           Sends(s, heard, x)
    PROVE  OthersKeep'
<1> SUFFICES ASSUME losses' = 0, NEW l \in Links, NEW r \in Stations,
                    IsReserved(incoming'[l]), NEW slot \in incoming'[l].alloc
             PROVE  map'[r].hard[slot] >= IF Woken(r, Target(l))' THEN MaxLostBeacons
                                          ELSE Fresh
  BY DEF OthersKeep, IsReserved
<1> DEFINE t == Target(l)
<1>1. losses = 0 /\ heard = Stations \ {s}
  <2>1. Unheard(s, heard) \in Nat
    BY UnheardNumber
  <2>2. losses' = losses + Unheard(s, heard) /\ losses \in Nat
    BY DEF Sends, IInv, TypeOK
  <2>3. losses = 0 /\ Unheard(s, heard) = 0
    BY <2>1, <2>2
  <2>4. Stations \subseteq {s} \cup heard
    BY <2>3, UnheardNumber
  <2>5. QED
    BY <2>3, <2>4
<1>2. LinkAfter(s, x, l) /\ MapsAfter(s, heard, x, r)
  BY BeaconLinks, BeaconMaps
<1>3. slot \in Slots
  <2>1. incoming'[l] \in Managers
    BY <1>2 DEF LinkAfter
  <2>2. QED
    BY <2>1 DEF Managers
<1>4. turn = s /\ turn' = s + 1 /\ s \in Nat /\ r \in Nat /\ t \in Nat
  BY LinkEnds DEF Sends, Stations
<1>5. Fresh >= MaxLostBeacons /\ Fresh >= Fresh /\ MaxLostBeacons >= MaxLostBeacons
  BY FreshAge, SlotsAssumption
<1>6. CASE t = s
  <2>1. map'[r].hard[slot] = Fresh
    <3>1. CASE r = s
      <4>1. KeptIn(incoming'[l], map'[t])
        BY BeaconKeeps DEF OwnKept
      <4>2. QED
        BY <1>6, <3>1, <4>1 DEF KeptIn
    <3>2. CASE r # s
      <4>1. slot \in SentReserved(CreateDRPIE(x, s)[l])
        BY <1>2, <1>6 DEF LinkAfter
      <4>2. QED
        BY <1>1, <1>2, <1>6, <3>2, <4>1 DEF MapsAfter
    <3>3. QED
      BY <3>1, <3>2
  <2>2. QED
    BY <1>5, <2>1
<1>7. CASE t # s
  <2>1. IsReserved(incoming[l]) /\ slot \in incoming[l].alloc
    BY <1>2, <1>7 DEF LinkAfter, KeepsReservation
  <2>2. map[r].hard[slot] >= IF Woken(r, t) THEN MaxLostBeacons ELSE Fresh
    BY <1>1, <2>1 DEF IInv, OthersKeep
  <2>3. Woken(r, t)' <=> IF s + 1 > t THEN t < r /\ r < s + 1 ELSE r > t \/ r < s + 1
    BY <1>4 DEF Woken
  <2>4. Woken(r, t) <=> IF s > t THEN t < r /\ r < s ELSE r > t \/ r < s
    BY <1>4 DEF Woken
  <2>5. CASE r = s
    <3>1. ~Woken(s, t) /\ Woken(r, t)'
      BY <1>4, <1>7, <2>3, <2>4, <2>5
    <3>2. map[r].hard[slot] \in 0 .. Fresh
      BY <1>3 DEF IInv, TypeOK, Maps, Ages
    <3>3. map[r].hard[slot] = Fresh
      BY <2>2, <2>5, <3>1, <3>2, FreshAge
    <3>4. map'[r].hard[slot] \in {MaxLostBeacons, Fresh}
      BY <1>2, <1>3, <2>5, <3>2, <3>3, OlderAges DEF MapsAfter
    <3>5. QED
      BY <1>5, <3>1, <3>4
  <2>6. CASE r # s
    <3>1. Woken(r, t)' <=> Woken(r, t)
      BY <1>4, <1>7, <2>3, <2>4, <2>6
    <3>2. map'[r].hard[slot] \in {map[r].hard[slot], Fresh}
      BY <1>2, <1>3, <2>6 DEF MapsAfter
    <3>3. QED
      BY <1>5, <2>2, <3>1, <3>2
  <2>7. QED
    BY <2>5, <2>6
<1>8. QED
  BY <1>6, <1>7

\* A beacon preserves the inductive invariant.
LEMMA BeaconStep ==
    ASSUME IInv, NEW s \in Stations, NEW heard \in SUBSET (Stations \ {s}), Beacon(s, heard)
    PROVE  IInv'
<1>1. PICK x \in CreateDRPMaps(EvaluateConnection(Start(s), s), s) : Sends(s, heard, x)
  BY BeaconSends
<1>2. TypeOK' /\ AllAgree' /\ MergeAgreed'
  BY <1>1, BeaconType
<1>3. OwnKept' /\ TargetsExclusive' /\ OthersKeep'
  BY <1>1, BeaconKeeps, BeaconExclusive, BeaconOthers
<1>4. QED
  BY <1>2, <1>3 DEF IInv

-----------------------------------------------------------------------------
(***************************************************************************)
(* The other steps.                                                        *)
(***************************************************************************)

\* The invariant holds before there are managers.
LEMMA InitEstablishes == Init => IInv
<1> SUFFICES ASSUME Init PROVE IInv
  OBVIOUS
<1>1. InitialMap \in Maps
  BY NoProposal, FreshAge DEF InitialMap, Maps, Ages
<1>2. NoManager \in Managers /\ ~IsReserved(NoManager) /\ Agree(NoManager, NoManager)
  BY NoManagerFields
  DEF IsReserved, Agree, ReservationAgreed, MergeToBeAgreed, HasPendingDRPMerge
<1>3. TypeOK
  BY <1>1, <1>2, LinksAssumption DEF Init, TypeOK
<1>4. AllAgree
  BY <1>2 DEF Init, AllAgree
<1>5. OwnKept /\ TargetsExclusive /\ OthersKeep
  BY <1>2 DEF Init, OwnKept, KeptIn, TargetsExclusive, OthersKeep
<1>6. MergeAgreed
  BY DEF Init, MergeAgreed
<1>7. QED
  BY <1>3, <1>4, <1>5, <1>6 DEF IInv

\* A step that leaves the reservations and the maps alone.
LEMMA OthersUnchanged ==
    ASSUME IInv, UNCHANGED <<turn, incoming, map, losses>>,
           \A l \in Links : KeptIn(outgoing'[l], map[Owner(l)])
    PROVE  OwnKept' /\ TargetsExclusive' /\ OthersKeep'
<1>1. OwnKept'
  BY DEF IInv, OwnKept, KeptIn, IsReserved
<1>2. TargetsExclusive'
  BY DEF IInv, TargetsExclusive, IsReserved
<1>3. OthersKeep'
  BY DEF IInv, OthersKeep, IsReserved, Woken
<1>4. QED
  BY <1>1, <1>2, <1>3

\* A new manager has nothing reserved.
LEMMA CreateStep ==
    ASSUME IInv, NEW l \in Links, CreateDRPManager(l)
    PROVE  IInv'
<1> DEFINE new == NewManager("Accept", {})
<1>1. /\ ~outgoing[l].known
      /\ outgoing' = [outgoing EXCEPT ![l] = new]
      /\ demand' = [demand EXCEPT ![l] = 1]
      /\ failed' = {}
      /\ UNCHANGED <<turn, incoming, map, availability, bitmap, registered, losses>>
  BY DEF CreateDRPManager
<1>2. /\ new \in Managers /\ new.known /\ new.reason = "Accept" /\ ~new.status
      /\ new.alloc = {} /\ ~new.mergeStatus /\ new.merge = {} /\ ~new.pendingMerge
  BY NewManagerFields DEF Reasons
<1> HIDE DEF new
<1>3. /\ outgoing \in [Links -> Managers] /\ demand \in [Links -> Nat]
      /\ Agree(outgoing[l], incoming[l])
  BY DEF IInv, TypeOK, AllAgree
<1>4. Agree(new, incoming[l])
  BY <1>1, <1>2, <1>3 DEF Agree, ReservationAgreed, MergeToBeAgreed, HasPendingDRPMerge
<1>5. \A k \in Links : outgoing'[k] = IF k = l THEN new ELSE outgoing[k]
  BY <1>1, <1>3
<1>6. TypeOK'
  <2>1. outgoing' \in [Links -> Managers] /\ demand' \in [Links -> Nat]
    BY <1>1, <1>2, <1>3
  <2>2. QED
    BY <1>1, <2>1 DEF IInv, TypeOK
<1>7. AllAgree'
  BY <1>1, <1>4, <1>5 DEF IInv, AllAgree
<1>8. \A k \in Links : KeptIn(outgoing'[k], map[Owner(k)])
  BY <1>2, <1>5 DEF IInv, OwnKept, KeptIn, IsReserved
<1>9. OwnKept' /\ TargetsExclusive' /\ OthersKeep'
  BY <1>1, <1>8, OthersUnchanged
<1>10. MergeAgreed'
  BY <1>1 DEF MergeAgreed
<1>11. QED
  BY <1>6, <1>7, <1>9, <1>10 DEF IInv

\* A changed demand changes no reservation.
LEMMA UpdateStep ==
    ASSUME IInv, NEW l \in Links, UpdateDRPManager(l)
    PROVE  IInv'
<1>1. /\ demand' = [demand EXCEPT ![l] = @ + 1]
      /\ failed' = {}
      /\ UNCHANGED <<turn, outgoing, incoming, map, availability, bitmap, registered,
                     losses>>
  BY DEF UpdateDRPManager
<1>2. TypeOK'
  BY <1>1 DEF IInv, TypeOK
<1>3. AllAgree' /\ MergeAgreed'
  BY <1>1 DEF IInv, AllAgree, MergeAgreed
<1>4. OwnKept' /\ TargetsExclusive' /\ OthersKeep'
  BY <1>1, OthersUnchanged DEF IInv, OwnKept
<1>5. QED
  BY <1>2, <1>3, <1>4 DEF IInv

\* The end of the beacon period changes no reservation.
LEMMA CollectStep ==
    ASSUME IInv, CollectDRPmaps
    PROVE  IInv'
<1>1. /\ turn = NumStations + 1 /\ turn' = 1
      /\ registered' = [l \in Links |->
            IF outgoing[l].known /\ IsReserved(outgoing[l]) THEN outgoing[l].alloc ELSE {}]
      /\ failed' = {}
      /\ UNCHANGED <<outgoing, incoming, map, availability, bitmap, demand, losses>>
  BY DEF CollectDRPmaps
<1>2. TypeOK'
  <2>1. \A l \in Links : outgoing[l].alloc \in SUBSET Slots
    BY DEF IInv, TypeOK, Managers
  <2>2. registered' \in [Links -> SUBSET Slots]
    BY <1>1, <2>1
  <2>3. turn' \in 1 .. NumStations + 1
    BY <1>1, LinksAssumption
  <2>4. QED
    BY <1>1, <2>2, <2>3 DEF IInv, TypeOK
<1>3. AllAgree' /\ MergeAgreed'
  BY <1>1 DEF IInv, AllAgree, MergeAgreed
<1>4. OwnKept' /\ TargetsExclusive'
  BY <1>1 DEF IInv, OwnKept, KeptIn, IsReserved, TargetsExclusive
<1>5. OthersKeep'
  <2>1. ASSUME NEW r \in Stations, NEW t \in Stations
        PROVE  Woken(r, t)' <=> Woken(r, t)
    BY <1>1, LinksAssumption DEF Woken, Stations
  <2>2. \A l \in Links : Target(l) \in Stations
    BY LinkEnds
  <2>3. QED
    BY <1>1, <2>1, <2>2 DEF IInv, OthersKeep, IsReserved
<1>6. QED
  BY <1>2, <1>3, <1>4, <1>5 DEF IInv

\* A step that changes no variable.
LEMMA StutteringStep ==
    ASSUME IInv, UNCHANGED vars
    PROVE  IInv'
<1>1. TypeOK'
  BY DEF vars, IInv, TypeOK
<1>2. AllAgree' /\ MergeAgreed'
  BY DEF vars, IInv, AllAgree, MergeAgreed
<1>3. OwnKept' /\ TargetsExclusive' /\ OthersKeep'
  BY OthersUnchanged DEF vars, IInv, OwnKept
<1>4. QED
  BY <1>1, <1>2, <1>3 DEF IInv

\* No step violates the invariant.
LEMMA NextPreserves == IInv /\ [Next]_vars => IInv'
<1> SUFFICES ASSUME IInv, [Next]_vars PROVE IInv'
  OBVIOUS
<1>1. ASSUME NEW l \in Links, CreateDRPManager(l) PROVE IInv'
  BY <1>1, CreateStep
<1>2. ASSUME NEW l \in Links, UpdateDRPManager(l) PROVE IInv'
  BY <1>2, UpdateStep
<1>3. ASSUME NEW s \in Stations, NEW heard \in SUBSET (Stations \ {s}), Beacon(s, heard)
      PROVE  IInv'
  BY <1>3, BeaconStep
<1>4. CASE CollectDRPmaps
  BY <1>4, CollectStep
<1>5. CASE UNCHANGED vars
  BY <1>5, StutteringStep
<1>6. QED
  BY <1>1, <1>2, <1>3, <1>4, <1>5 DEF Next, BeaconPeriod

\* The inductive invariant, from which the other theorems follow.
THEOREM InductiveInvariant == Spec => []IInv
<1>1. QED
  BY InitEstablishes, NextPreserves, PTL DEF Spec

\* Every variable has its type, in every reachable state.
THEOREM NegotiationType == Spec => []TypeOK
<1>1. IInv => TypeOK
  BY DEF IInv
<1>2. QED
  BY <1>1, InductiveInvariant, PTL

\* What an owner takes for reserved its target has accepted, whatever beacons
\* are lost (FromTarget, MergeFromTarget).
THEOREM OwnerWithinTargetHolds == Spec => []OwnerWithinTarget
<1>1. IInv => OwnerWithinTarget
  BY ReservedAgreed DEF IInv, AllAgree, OwnerWithinTarget
<1>2. QED
  BY <1>1, InductiveInvariant, PTL

\* No target has accepted a slot from two owners (EvaluateConnection).
THEOREM TargetsExclusiveHolds == Spec => []TargetsExclusive
<1>1. IInv => TargetsExclusive
  BY DEF IInv
<1>2. QED
  BY <1>1, InductiveInvariant, PTL

\* The assertion of BeaconEvaluator.cpp:209 never fails: additional slots a
\* target accepts are those its owner means to merge.
THEOREM MergeAgreedHolds == Spec => []MergeAgreed
<1>1. IInv => MergeAgreed
  BY DEF IInv
<1>2. QED
  BY <1>1, InductiveInvariant, PTL

\* What is registered at the end of a beacon period.
RegisteredKept ==
    turn = NumStations + 1 /\ turn' = 1 =>
        \A l \in Links, s \in Stations :
            losses = 0 \/ s \in {Owner(l), Target(l)}
                => registered'[l] \subseteq currentDRPMap(s)

\* The slots an owner registers are seen in the maps that KeptFree names.
LEMMA CollectKeeps ==
    ASSUME IInv, CollectDRPmaps, NEW l \in Links, NEW s \in Stations,
           losses = 0 \/ s \in {Owner(l), Target(l)}
    PROVE  registered'[l] \subseteq currentDRPMap(s)
<1> SUFFICES ASSUME NEW slot \in registered'[l] PROVE map[s].hard[slot] > 0 /\ slot \in Slots
  BY DEF currentDRPMap, Seen
<1>1. /\ IsReserved(outgoing[l]) /\ slot \in outgoing[l].alloc
  BY DEF CollectDRPmaps
<1>2. /\ outgoing[l] \in Managers /\ Agree(outgoing[l], incoming[l])
      /\ KeptIn(outgoing[l], map[Owner(l)]) /\ KeptIn(incoming[l], map[Target(l)])
  BY DEF IInv, TypeOK, AllAgree, OwnKept
<1>3. slot \in Slots
  BY <1>1, <1>2 DEF Managers
<1>4. IsReserved(incoming[l]) /\ slot \in incoming[l].alloc
  BY <1>1, <1>2, ReservedAgreed
<1>5. map[s].hard[slot] \in 0 .. Fresh
  BY <1>3 DEF IInv, TypeOK, Maps, Ages
<1>6. CASE s = Owner(l) \/ s = Target(l)
  BY <1>1, <1>2, <1>3, <1>4, <1>6, FreshAge DEF KeptIn
<1>7. CASE losses = 0
  <2>1. map[s].hard[slot] >= IF Woken(s, Target(l)) THEN MaxLostBeacons ELSE Fresh
    BY <1>4, <1>7 DEF IInv, OthersKeep
  <2>2. QED
    BY <1>3, <1>5, <2>1, FreshAge, SlotsAssumption
<1>8. QED
  BY <1>6, <1>7

\* Only the end of the beacon period registers slots.
LEMMA NextKeepsRegistered == IInv /\ [Next]_vars => [RegisteredKept]_vars
<1> SUFFICES ASSUME IInv, Next PROVE RegisteredKept
  OBVIOUS
<1>1. CASE CollectDRPmaps
  BY <1>1, CollectKeeps DEF RegisteredKept
<1>2. ASSUME NEW s \in Stations, NEW heard \in SUBSET (Stations \ {s}), Beacon(s, heard)
      PROVE  RegisteredKept
  BY <1>2, LinksAssumption DEF RegisteredKept, Beacon, Stations
<1>3. ASSUME NEW l \in Links, CreateDRPManager(l) \/ UpdateDRPManager(l)
      PROVE  RegisteredKept
  <2>1. turn' = turn
    BY <1>3 DEF CreateDRPManager, UpdateDRPManager
  <2>2. NumStations >= 1 /\ NumStations \in Nat
    BY LinkEnds, LinksAssumption
  <2>3. QED
    BY <2>1, <2>2 DEF RegisteredKept
<1>4. QED
  BY <1>1, <1>2, <1>3 DEF Next, BeaconPeriod

\* When an owner registers its slots, its own map and its target's have them,
\* and those of all others too as long as no beacon was lost.
THEOREM KeptFreeHolds == Spec => KeptFree
<1>1. Spec => [][RegisteredKept]_vars
  BY InductiveInvariant, NextKeepsRegistered, PTL DEF Spec
<1>2. QED
  BY <1>1 DEF KeptFree, RegisteredKept

-----------------------------------------------------------------------------
(***************************************************************************)
(* No slot twice.  A target accepts only slots that are free in its map,   *)
(* and as long as every beacon is received this map has the reservations   *)
(* of all others: so also links of different targets do not overlap.  With *)
(* lost beacons a reservation may be missing there.                        *)
(***************************************************************************)
AcceptedOnce ==
    losses = 0 =>
        \A k, l \in Links : k # l /\ IsReserved(incoming[k]) /\ IsReserved(incoming[l])
            => incoming[k].alloc \cap incoming[l].alloc = {}

RegisteredOnce == losses = 0 => NoSlotTwice

SlotsInv == IInv /\ AcceptedOnce /\ RegisteredOnce

\* A beacon never undoes a loss.
LEMMA LossesStay ==
    ASSUME IInv, NEW s \in Stations, NEW heard \in SUBSET (Stations \ {s}), NEW x,
           Sends(s, heard, x), losses' = 0
    PROVE  losses = 0
<1>1. Unheard(s, heard) \in Nat
  BY UnheardNumber
<1>2. losses' = losses + Unheard(s, heard) /\ losses \in Nat
  BY DEF Sends, IInv, TypeOK
<1>3. QED
  BY <1>1, <1>2

\* A slot that station s accepts is reserved by no other target, ...
LEMMA AcceptedElsewhere ==
    ASSUME IInv, AcceptedOnce, losses = 0, NEW s \in Stations, turn = s,
           NEW x \in CreateDRPMaps(EvaluateConnection(Start(s), s), s),
           NEW k \in Links, NEW l \in Links, Target(k) # s, Target(l) = s,
           IsReserved(incoming[k])
    PROVE  ReservedSlots(x.incoming[l]) \cap incoming[k].alloc = {}
<1> SUFFICES ASSUME NEW slot \in ReservedSlots(x.incoming[l]), slot \in incoming[k].alloc
             PROVE  FALSE
  OBVIOUS
<1>1. ReservedFree(Start(s), x)
  BY WakeUpFields
<1>2. /\ Start(s).incoming = incoming
      /\ \A m \in Slots : Start(s).map.hard[m] = Older(map[s].hard[m])
  BY StartFields
<1>3. slot \in Slots
  BY DEF IInv, TypeOK, Managers
<1>4. slot \in Seen(Start(s).map.hard)
  <2>1. ~Woken(s, Target(k))
    BY LinkEnds DEF Woken, Stations
  <2>2. map[s].hard[slot] >= Fresh
    BY <2>1 DEF IInv, OthersKeep
  <2>3. map[s].hard[slot] \in 0 .. Fresh
    BY <1>3 DEF IInv, TypeOK, Maps, Ages
  <2>4. map[s].hard[slot] = Fresh
    BY <2>2, <2>3, FreshAge
  <2>5. Start(s).map.hard[slot] = MaxLostBeacons
    BY <1>2, <1>3, <2>4, OlderAges, FreshAge
  <2>6. QED
    BY <1>3, <2>5, SlotsAssumption DEF Seen
<1>5. slot \in ReservedSlots(incoming[l])
  BY <1>1, <1>2, <1>4 DEF ReservedFree
<1>6. ~incoming[l].mergeStatus
  BY DEF IInv, AllAgree, Agree, MergeToBeAgreed
<1>7. IsReserved(incoming[l]) /\ slot \in incoming[l].alloc
  BY <1>5, <1>6 DEF ReservedSlots, IsMergeReserved
<1>8. QED
  BY <1>7 DEF AcceptedOnce

\* ... so a beacon keeps what the targets have accepted apart.
LEMMA BeaconAccepts ==
    ASSUME IInv, AcceptedOnce, NEW s \in Stations, NEW heard \in SUBSET (Stations \ {s}),
           NEW x \in CreateDRPMaps(EvaluateConnection(Start(s), s), s),
           Sends(s, heard, x)
    PROVE  AcceptedOnce'
<1> SUFFICES ASSUME losses' = 0, NEW k \in Links, NEW l \in Links, k # l,
                    IsReserved(incoming'[k]), IsReserved(incoming'[l])
             PROVE  incoming'[k].alloc \cap incoming'[l].alloc = {}
  BY DEF AcceptedOnce, IsReserved
<1>1. losses = 0 /\ turn = s
  BY LossesStay DEF Sends
<1>2. ASSUME NEW j \in Links, Target(j) # s, IsReserved(incoming'[j])
      PROVE  IsReserved(incoming[j]) /\ incoming'[j].alloc = incoming[j].alloc
  BY <1>2, BeaconLinks DEF LinkAfter, KeepsReservation
<1>3. ASSUME NEW j \in Links, Target(j) = s, IsReserved(incoming'[j])
      PROVE  incoming'[j].alloc \subseteq ReservedSlots(x.incoming[j])
  BY <1>3, BeaconLinks DEF LinkAfter
<1>4. CASE Target(k) = Target(l)
  BY <1>4, BeaconExclusive DEF TargetsExclusive, IsReserved
<1>5. CASE Target(k) # s /\ Target(l) # s
  BY <1>1, <1>2, <1>5 DEF AcceptedOnce
<1>6. CASE Target(k) # s /\ Target(l) = s
  BY <1>1, <1>2, <1>3, <1>6, AcceptedElsewhere
<1>7. CASE Target(k) = s /\ Target(l) # s
  BY <1>1, <1>2, <1>3, <1>7, AcceptedElsewhere
<1>8. QED
  BY <1>4, <1>5, <1>6, <1>7

\* What is registered at the end of the beacon period the targets have accepted.
LEMMA CollectRegisters ==
    ASSUME IInv, AcceptedOnce, CollectDRPmaps, losses = 0
    PROVE  NoSlotTwice'
<1> SUFFICES ASSUME NEW k \in Links, NEW l \in Links, k # l
             PROVE  registered'[k] \cap registered'[l] = {}
  BY DEF NoSlotTwice
<1>1. ASSUME NEW j \in Links, registered'[j] # {}
      PROVE  IsReserved(incoming[j]) /\ registered'[j] \subseteq incoming[j].alloc
  <2>1. IsReserved(outgoing[j]) /\ registered'[j] = outgoing[j].alloc
    BY <1>1 DEF CollectDRPmaps
  <2>2. Agree(outgoing[j], incoming[j])
    BY DEF IInv, AllAgree
  <2>3. QED
    BY <2>1, <2>2, ReservedAgreed
<1>2. QED
  BY <1>1 DEF AcceptedOnce

\* No step violates the strengthened invariant.
LEMMA NextKeepsSlots == SlotsInv /\ [Next]_vars => SlotsInv'
<1> SUFFICES ASSUME SlotsInv, [Next]_vars PROVE AcceptedOnce' /\ RegisteredOnce'
  BY NextPreserves DEF SlotsInv
<1>1. IInv /\ AcceptedOnce /\ RegisteredOnce
  BY DEF SlotsInv
<1>2. CASE UNCHANGED <<incoming, registered, losses>>
  BY <1>1, <1>2 DEF AcceptedOnce, RegisteredOnce, NoSlotTwice, IsReserved
<1>3. ASSUME NEW l \in Links, CreateDRPManager(l) \/ UpdateDRPManager(l)
      PROVE  AcceptedOnce' /\ RegisteredOnce'
  BY <1>2, <1>3 DEF CreateDRPManager, UpdateDRPManager
<1>4. ASSUME NEW s \in Stations, NEW heard \in SUBSET (Stations \ {s}), Beacon(s, heard)
      PROVE  AcceptedOnce' /\ RegisteredOnce'
  <2>1. PICK x \in CreateDRPMaps(EvaluateConnection(Start(s), s), s) : Sends(s, heard, x)
    BY <1>4, BeaconSends
  <2>2. AcceptedOnce'
    BY <1>1, <2>1, BeaconAccepts
  <2>3. (losses' = 0 => losses = 0) /\ registered' = registered
    BY <1>1, <2>1, LossesStay DEF Sends
  <2>4. RegisteredOnce'
    BY <1>1, <2>3 DEF RegisteredOnce, NoSlotTwice
  <2>5. QED
    BY <2>2, <2>4
<1>5. CASE CollectDRPmaps
  <2>1. incoming' = incoming /\ losses' = losses
    BY <1>5 DEF CollectDRPmaps
  <2>2. AcceptedOnce'
    BY <1>1, <2>1 DEF AcceptedOnce, IsReserved
  <2>3. RegisteredOnce'
    BY <1>1, <1>5, <2>1, CollectRegisters DEF RegisteredOnce
  <2>4. QED
    BY <2>2, <2>3
<1>6. QED
  BY <1>2, <1>3, <1>4, <1>5 DEF Next, BeaconPeriod, vars

\* As long as every beacon is received no slot is registered by two owners,
\* also not by two whose stations and targets differ (EvaluateConnection,
\* PossiblePattern).
THEOREM NoSlotTwiceWithoutLosses == Spec => [](losses = 0 => NoSlotTwice)
<1>1. Init => AcceptedOnce /\ RegisteredOnce
  BY NoManagerFields DEF Init, AcceptedOnce, RegisteredOnce, NoSlotTwice, IsReserved
<1>2. Init => SlotsInv
  BY <1>1, InitEstablishes DEF SlotsInv
<1>3. SlotsInv => (losses = 0 => NoSlotTwice)
  BY DEF SlotsInv, RegisteredOnce
<1>4. QED
  BY <1>2, <1>3, NextKeepsSlots, PTL DEF Spec
=============================================================================
