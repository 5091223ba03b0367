-------------------------- MODULE DRPPatternCreator --------------------------
(***************************************************************************)
(* The choice of the slots of a reservation (drp/DRPPatternCreator.cpp).   *)
(* A pattern is the set of its slots; c is the traffic characteristic of   *)
(* the connection:                                                         *)
(*   packets, area     packets per superframe and per area of it           *)
(*   adj, gap          adjacent slots per area; slots of an area           *)
(*   mode              the phy mode                                        *)
(*   random            patterns are drawn (getRandomUse)                   *)
(* and global the slots that may not be taken (those of the beacon period  *)
(* among them).  Times are in ticks.                                       *)
(***************************************************************************)
EXTENDS Integers, FiniteSets, FiniteSetsExt

CONSTANTS
    SlotpSF,
    BPDuration, Truncated,
    SlotDuration, GuardDuration,
    FTDuration,         \* of a phy mode: a frame of the largest size and its answer
    DivideSFintoAreas,
    PEROffset           \* patternPEROffset, in percent

Ceil(a, b) == (a + b - 1) \div b

\* The duration is a whole number of slots, but it is computed as a floating-point
\* number and truncated to microseconds, and ceil comes after an integer division.
NumberOfBPSlots == (BPDuration - Truncated) \div SlotDuration

ASSUME PatternAssumption ==
    /\ {SlotpSF, BPDuration, SlotDuration, GuardDuration, DivideSFintoAreas} \subseteq Nat \ {0}
    /\ GuardDuration < SlotDuration
    /\ BPDuration % SlotDuration = 0
    /\ Truncated \in {0, 1}
    /\ PEROffset \in Nat
    /\ DivideSFintoAreas <= SlotpSF - NumberOfBPSlots

\* Otherwise slots before the first are looked at (l.914, l.916): first - AddSlot
\* is negative and CalcPacketpArea tests only the end of the vector.
ASSUME NoSlotBeforeTheFirst ==
    \A mode \in DOMAIN FTDuration : Ceil(FTDuration[mode], SlotDuration) <= NumberOfBPSlots

AllSlots == 0 .. SlotpSF - 1
DataSlots == NumberOfBPSlots .. SlotpSF - 1

\* Slots first .. last - 1.
Part(first, last) == {i \in AllSlots : first <= i /\ i < last}

\* The maximal blocks of adjacent slots of a pattern.
BlockStarts(p) == {i \in p : i - 1 \notin p}
BlockEnd(p, i) == CHOOSE e \in i + 1 .. SlotpSF : e \notin p /\ Part(i, e) \subseteq p
BlockAt(p, i) == Part(i, BlockEnd(p, i))
Blocks(p) == {BlockAt(p, i) : i \in BlockStarts(p)}

-----------------------------------------------------------------------------
(***************************************************************************)
(* The traffic characteristic.                                             *)
(***************************************************************************)
Packets(c, slots) ==            \* of a block of so many slots
    IF slots = 0 THEN 0 ELSE (slots * SlotDuration - GuardDuration) \div FTDuration[c.mode]

MinAdjSlot(c) == Ceil(FTDuration[c.mode] + GuardDuration, SlotDuration)

CalcPacketpArea(c, p, first, last) ==
    MapThenSumSet(LAMBDA b : Packets(c, Cardinality(b)), Blocks(p \cap Part(first, last)))

Capacity(c, p) == CalcPacketpArea(c, p, 0, SlotpSF)

CalcMissingPackets(c, p) ==
    IF Capacity(c, p) < c.packets THEN c.packets - Capacity(c, p) ELSE 0

\* Too much traffic for the areas: the superframe becomes one.
Fitted(c) ==
    LET adj == Ceil(c.area * FTDuration[c.mode] + GuardDuration, SlotDuration)
        all == SlotpSF - NumberOfBPSlots
    IN  IF adj > c.gap THEN [c EXCEPT !.adj = all, !.gap = all, !.area = c.packets]
        ELSE [c EXCEPT !.adj = adj]

WithTraffic(c, compounds) ==
    LET packets == Ceil(compounds * (100 + PEROffset), 100)
    IN  [c EXCEPT !.packets = packets, !.area = Ceil(packets, DivideSFintoAreas)]

SetTrafficChar(mode, random, compounds) ==
    Fitted(WithTraffic([packets |-> 0, area |-> 0, adj |-> 0, mode |-> mode, random |-> random,
                        gap |-> (SlotpSF - NumberOfBPSlots) \div DivideSFintoAreas],
                       compounds))

UpdateTrafficChar(c, compounds) == Fitted(WithTraffic(c, compounds))

SetPhyMode(c, mode) == Fitted([c EXCEPT !.mode = mode])

-----------------------------------------------------------------------------
(***************************************************************************)
(* The regular pattern: one block per area, rotated to where the fewest    *)
(* blocks conflict; those that do are removed and put elsewhere.           *)
(***************************************************************************)
InitVector(c) ==
    {i \in DataSlots :
        LET first == NumberOfBPSlots + c.gap * ((i - NumberOfBPSlots) \div c.gap)
        IN  i < first + c.adj /\ first + c.adj <= SlotpSF}

IsPatternValid(p, global) == p \cap global = {}

Conflicts(p, global) == {b \in Blocks(p) : b \cap global # {}}
CalcNumArea(p, global) == Cardinality(Conflicts(p, global))

Rotated(p, k) == {(i + k) % SlotpSF : i \in p}

CalcMaxPropMap(c, p, global) ==
    LET valid == {k \in 0 .. c.gap : IsPatternValid(Rotated(p, k), global)}
        num == [k \in 0 .. c.gap - 1 |-> CalcNumArea(Rotated(p, k), global)]
        best == CHOOSE k \in DOMAIN num :
                    \A n \in DOMAIN num : num[k] < num[n] \/ (num[k] = num[n] /\ k <= n)
    IN  Rotated(p, IF valid # {} THEN Min(valid) ELSE best)

ClearConflictArea(p, global) == p \ UNION Conflicts(p, global)

FindEmptyArea(c, p, first, last) == Cardinality(p \cap Part(first, last)) # c.adj

\* Where n free slots begin in the part of the superframe.
Fitting(p, global, first, last, n) ==
    {i \in Part(first, last) :
        i + n <= last /\ Part(i, i + n) \cap (global \cup p) = {}}

IsSpaceLeft(p, global, first, last, n) == Fitting(p, global, first, last, n) # {}

FaultyAllocAreaOutside(p, global, first, last, n) ==    \* an occupied slot is not seen
    IF IsSpaceLeft(p, global, first, last, n)
    THEN p \cup Part(Min(Fitting(p, {}, first, last, n)),
                     Min(Fitting(p, {}, first, last, n)) + n)
    ELSE p

AllocAreaOutside(p, global, first, last, n) ==
    IF IsSpaceLeft(p, global, first, last, n)
    THEN LET i == Min(Fitting(p, global, first, last, n)) IN p \cup Part(i, i + n)
    ELSE p

\* An empty area gets its slots in one piece, or in pieces of the smallest size.
FillArea(c, p, global, first, last) ==
    LET blocks == Ceil(c.adj, MinAdjSlot(c))
        Filled[n \in 0 .. blocks] ==
            IF n = 0 THEN p
            ELSE AllocAreaOutside(Filled[n-1], global, first, last, MinAdjSlot(c))
    IN  IF ~FindEmptyArea(c, p, first, last) THEN p
        ELSE IF IsSpaceLeft(p, global, first, last, c.adj)
        THEN AllocAreaOutside(p, global, first, last, c.adj)
        ELSE Filled[blocks]

\* All areas but the first end before the last slot.
FillAreas(c, p, global) ==
    LET First(j) == NumberOfBPSlots + j * c.gap
        Last(j) == IF j = 0 \/ First(j + 1) < SlotpSF THEN First(j + 1) ELSE SlotpSF - 1
        Filled[j \in 0 .. SlotpSF] ==       \* the areas before the j-th
            IF j = 0 THEN p
            ELSE IF Last(j-1) <= First(j-1) THEN Filled[j-1]
            ELSE FillArea(c, Filled[j-1], global, First(j-1), Last(j-1))
    IN  Filled[SlotpSF]

-----------------------------------------------------------------------------
(***************************************************************************)
(* Extending blocks where it wastes least (BestEfficency): one round adds  *)
(* the slots for one more packet to the block that is left with the        *)
(* smallest fragment.  The best extension found so far is                  *)
(*   add       its slots, 0: none                                          *)
(*   fragment, packets, pattern                                            *)
(***************************************************************************)
Fragment(c, slots) == slots * SlotDuration - GuardDuration - Packets(c, slots) * FTDuration[c.mode]

AddSlot(c, slots) ==
    Ceil(FTDuration[c.mode] - (IF Fragment(c, slots) < 0 THEN 0 ELSE Fragment(c, slots)),
         SlotDuration)

\* Free slots next to a block, at most n: before it, or after it.
FreeBefore(p, global, first, n) ==
    Max({k \in 0 .. n : k <= first /\ Part(first - k, first) \cap (global \cup p) = {}})

FreeAfter(p, global, last, n) ==        \* the last slot is not looked at
    Max({k \in 0 .. n : (k = 0 \/ last + k < SlotpSF)
                        /\ Part(last, last + k) \cap (global \cup p) = {}})

\* The extension of the block first .. last - 1, if it is better than best.
Extended(c, p, global, first, last, best) ==
    LET add == AddSlot(c, last - first)
        before == FreeBefore(p, global, first, add)
        after == FreeAfter(p, global, last, add)
        from == IF first >= add THEN first - add ELSE 0
        to == IF last + add <= SlotpSF THEN last + add ELSE SlotpSF
        fragment == Fragment(c, last + add - first)
        one == AllocAreaOutside(p, global, from, to, add)
        now == CalcPacketpArea(c, one, first - add,
                               IF last + add <= SlotpSF THEN last + add ELSE last)
    IN  IF best.add # 0 /\ best.fragment <= fragment THEN best
        ELSE IF IsSpaceLeft(p, global, from, to, add)
        THEN [add |-> add, pattern |-> one,
              fragment |-> (last + add - first) * SlotDuration - GuardDuration
                                - now * FTDuration[c.mode],
              packets |-> now - CalcPacketpArea(c, one, first, last)]
        ELSE IF before + after >= add
        THEN [add |-> add,
              pattern |-> p \cup Part(first - before, last + after),
              fragment |-> fragment,
              packets |-> Packets(c, last + add - first) - Packets(c, last - first)]
        ELSE best

BestExtension(c, p, global) ==
    LET none == [add |-> 0, pattern |-> p, fragment |-> 0, packets |-> 0]
        Best[i \in 0 .. SlotpSF] ==         \* of the blocks that start before i
            IF i = 0 THEN none
            ELSE IF i - 1 \in BlockStarts(p)
            THEN Extended(c, p, global, i - 1, BlockEnd(p, i - 1), Best[i-1])
            ELSE Best[i-1]
    IN  IF p = {} THEN Extended(c, p, global, SlotpSF, SlotpSF, none) ELSE Best[SlotpSF]

\* A round r, and the next one with its best extension.
NextRound(r, best) ==
    IF r.done THEN r
    ELSE [pattern |-> best.pattern, missing |-> r.missing - best.packets,
          done |-> best.packets = 0 \/ r.missing <= best.packets]

BestEfficency(c, p, global) ==
    LET Round[n \in 0 .. SlotpSF] ==
            IF n = 0 THEN [pattern |-> p, missing |-> CalcMissingPackets(c, p), done |-> FALSE]
            ELSE NextRound(Round[n-1], BestExtension(c, Round[n-1].pattern, global))
    IN  Round[SlotpSF].pattern

FaultyGapFilling(c, p, global) == p     \* gaps away from the blocks are not used

\* Taking whole gaps until nothing is missing.  The packets of a gap that reaches
\* the end of the superframe are counted without its last slot.
GapFilling(c, p, global) ==
    LET free == AllSlots \ (global \cup p)
        Filled[i \in 0 .. SlotpSF] ==
            IF i = 0 THEN [pattern |-> p, missing |-> CalcMissingPackets(c, p)]
            ELSE LET f == Filled[i-1] IN
                 IF i - 1 \notin BlockStarts(free) \/ f.missing <= 0 THEN f
                 ELSE LET length == BlockEnd(free, i - 1) - (i - 1)
                          enough == {n \in 1 .. length : Packets(c, n) >= f.missing}
                          size == IF enough = {} THEN length ELSE Min(enough)
                          counted == IF i - 1 + size = SlotpSF THEN size - 1 ELSE size
                      IN  IF size < MinAdjSlot(c) THEN f
                          ELSE [pattern |-> f.pattern \cup Part(i - 1, i - 1 + size),
                                missing |-> f.missing - Packets(c, counted)]
    IN  Filled[SlotpSF].pattern

EvaluateReservation(c, p, global) ==
    IF CalcMissingPackets(c, p) = 0 \/ Cardinality(p) = SlotpSF - NumberOfBPSlots THEN p
    ELSE LET q == BestEfficency(c, p, global)
         IN  IF CalcMissingPackets(c, q) = 0 THEN q ELSE GapFilling(c, q, global)

-----------------------------------------------------------------------------
(***************************************************************************)
(* Drawing pairs of free slots until nothing is missing.  Pairs are taken  *)
(* whatever the number of adjacent slots a packet needs.                   *)
(***************************************************************************)
FreePairs(global) ==
    UNION {{{i, i + 1} : i \in {k \in b : k + 1 \in b /\ (k - Min(b)) % 2 = 0}} :
            b \in Blocks(AllSlots \ global)}

CreateRandomPattern(c, own, global) ==
    LET pairs == FreePairs(global \cup own)
        missing == CalcMissingPackets(c, own)
        enough == {n \in 0 .. Cardinality(pairs) : n * Packets(c, 2) >= missing}
        number == IF enough = {} THEN Cardinality(pairs) ELSE Min(enough)
    IN  {UNION drawn : drawn \in kSubset(number, pairs)}

(***************************************************************************)
(* The patterns that can be proposed, also if they are not perfect: for a  *)
(* new reservation, and of the slots to be added to own.                   *)
(***************************************************************************)
GetPattern(c, global) ==
    IF c.random THEN CreateRandomPattern(c, {}, global)
    ELSE LET p == CalcMaxPropMap(c, InitVector(c), global)
         IN  {EvaluateReservation(c, IF IsPatternValid(p, global) THEN p
                                     ELSE FillAreas(c, ClearConflictArea(p, global), global),
                                  global)}

AddPattern(c, own, global) ==
    IF c.random THEN CreateRandomPattern(c, own, global)
    ELSE {EvaluateReservation(c, own, global) \ own}
=============================================================================
