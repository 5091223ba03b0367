----------------------------- MODULE DRPManager -----------------------------
(***************************************************************************)
(* One end of a connection (drp/DRPManager.cpp), as operators on a record  *)
(* c of its members:                                                       *)
(*   known                 the manager exists                              *)
(*   reason, status, alloc             the reservation; the reason codes   *)
(*                         used are Accept, Conflict and Modified          *)
(*   mergeReason, mergeStatus, merge   slots to be added to it             *)
(*   pendingMerge          hasPendingDRPMerge                              *)
(* needsAdditionalPattern is left out: whenever it is set and packets are  *)
(* missing, NeedsAdditionalPattern has returned before it tests the flag.  *)
(* All reservations are of the type Hard, as they are created.             *)
(***************************************************************************)
EXTENDS Integers

NewManager(initialReason, map) ==
    [known |-> TRUE, reason |-> initialReason, status |-> FALSE, alloc |-> map,
     mergeReason |-> "Accept", mergeStatus |-> FALSE, merge |-> {},
     pendingMerge |-> FALSE]

NoManager == [NewManager("Accept", {}) EXCEPT !.known = FALSE]

IsMapCreated(c) == c.alloc # {}

HasPendingDRPMerge(c) == c.merge # {} /\ c.pendingMerge

\* The test clears the flag of an empty pattern.
AfterHasPending(c) == [c EXCEPT !.pendingMerge = @ /\ c.merge # {}]

IsReserved(c) == c.reason = "Accept" /\ c.status
IsMergeReserved(c) ==
    HasPendingDRPMerge(c) /\ c.mergeReason = "Accept" /\ c.mergeStatus

FindNewPattern(c, pattern) == [c EXCEPT !.alloc = pattern]

CreateAdditionalPattern(c, pattern) ==
    [c EXCEPT !.merge = pattern, !.pendingMerge = TRUE]

NeedsAdditionalPattern(c, missingPackets) ==
    missingPackets > 0 /\ ~c.pendingMerge

ResolveConflict(c) ==
    [c EXCEPT !.alloc = {}, !.status = FALSE, !.reason = "Modified"]

ResolveMergeConflict(c) ==
    [c EXCEPT !.merge = {}, !.mergeStatus = FALSE, !.mergeReason = "Modified"]

AddReservation(c, mergeReason, map) ==
    [c EXCEPT !.pendingMerge = TRUE, !.merge = map, !.mergeReason = mergeReason]

FaultyMergePatterns(c) ==       \* the added slots are not kept
    [c EXCEPT !.merge = {}, !.mergeStatus = FALSE, !.pendingMerge = FALSE,
              !.mergeReason = "Accept"]

MergePatterns(c) ==
    [c EXCEPT !.alloc = @ \cup c.merge, !.merge = {}, !.mergeStatus = FALSE,
              !.pendingMerge = FALSE, !.mergeReason = "Accept"]
=============================================================================
