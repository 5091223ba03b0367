-------------------------- MODULE ReservationProofs --------------------------
(***************************************************************************)
(* Proofs about modules Reservation and DRPPatternCreator.  Whatever the   *)
(* creator rotates, cuts out, puts elsewhere, extends, fills in or draws,  *)
(* the pattern that results has, besides the slots that were its own, only *)
(* slots that are free; its loops are shown to keep this round by round,   *)
(* with the induction of module Induction.  The invariant of the owner     *)
(* says that slots to be merged are pending for as long as there are any:  *)
(* that is why none take the place of others, although the target answers  *)
(* them apart from the reservation, which may be refused and chosen anew   *)
(* in the meantime.  That the mode is lowered once per failure needs the   *)
(* failures that are still in the window: each of them can lower the mode, *)
(* and none of those that did is left.                                     *)
(*   That no usable gap is left beside a proposal that falls short of the  *)
(* traffic needs two facts about the packets of a pattern.  They are a sum *)
(* over its blocks, and a gap that is filled adds its packets at least,    *)
(* because the blocks next to it are joined and save a guard time.  So     *)
(* what GapFilling still counts as missing is never less than what is, and *)
(* while it counts some, every gap it has passed is full.  Drawn pairs are *)
(* such gaps, one after the other.                                         *)
(***************************************************************************)
EXTENDS Reservation, FiniteSetTheorems, Induction

\* The traffic characteristics.
Characteristics ==
    [packets : Nat, area : Nat, adj : Nat, gap : Nat \ {0}, mode : Modes, random : BOOLEAN]

\* Integer division, as far as the lemmas below need it.
LEMMA Division ==
    ASSUME NEW a \in Nat, NEW b \in Nat \ {0}
    PROVE  /\ a \div b \in Nat
           /\ b * (a \div b) <= a
           /\ a < b * (a \div b) + b
           /\ b <= a => a \div b # 0
OBVIOUS

\* The division that rounds up gives a natural number.
LEMMA CeilType ==
    ASSUME NEW a \in Nat, NEW b \in Nat \ {0}
    PROVE  Ceil(a, b) \in Nat
<1>1. a + b - 1 \in Nat
  OBVIOUS
<1>2. QED
  BY <1>1, Division DEF Ceil

\* The numbers of the superframe; the beacon period leaves some of its slots.
LEMMA SlotNumbers ==
    /\ SlotpSF \in Nat \ {0} /\ SlotDuration \in Nat \ {0} /\ GuardDuration \in Nat \ {0}
    /\ GuardDuration < SlotDuration /\ DivideSFintoAreas \in Nat \ {0}
    /\ PEROffset \in Nat
    /\ NumberOfBPSlots \in Nat
    /\ NumberOfBPSlots < SlotpSF
    /\ DivideSFintoAreas <= SlotpSF - NumberOfBPSlots
<1>1. /\ SlotpSF \in Nat \ {0} /\ SlotDuration \in Nat \ {0} /\ GuardDuration \in Nat \ {0}
      /\ BPDuration \in Nat \ {0} /\ DivideSFintoAreas \in Nat \ {0}
  BY PatternAssumption
<1>2. BPDuration - Truncated \in Nat
  BY <1>1, PatternAssumption
<1>3. NumberOfBPSlots \in Nat
  BY <1>1, <1>2, Division DEF NumberOfBPSlots
<1>4. QED
  BY <1>1, <1>3, PatternAssumption

\* A frame takes some time in each of the modes; the default mode is the fastest.
LEMMA ModeFacts ==
    /\ DefaultMode \in Modes
    /\ \A mode \in Modes : FTDuration[mode] \in Nat \ {0} /\ mode \in Nat /\ mode <= DefaultMode
<1>1. Len(FTDuration) \in Nat \ {0} /\ DOMAIN FTDuration = 1 .. Len(FTDuration)
  BY EstimationAssumption
<1>2. QED
  BY <1>1, EstimationAssumption DEF DefaultMode, Modes

\* The slots after the beacon period.
LEMMA SlotSets ==
    /\ DataSlots = AllSlots \ (0 .. NumberOfBPSlots - 1)
    /\ DataSlots \subseteq AllSlots
    /\ AllSlots \subseteq Nat
    /\ SlotpSF \notin AllSlots
BY SlotNumbers DEF DataSlots, AllSlots

\* The block that begins at a slot of a pattern has an end, and is part of it.
LEMMA BlockEndFacts ==
    ASSUME NEW p, p \subseteq AllSlots, NEW i \in p
    PROVE  /\ BlockEnd(p, i) \in i + 1 .. SlotpSF
           /\ BlockEnd(p, i) \notin p
           /\ BlockAt(p, i) \subseteq p
           /\ i \in BlockAt(p, i)
<1> DEFINE outside == {e \in i + 1 .. SlotpSF : e \notin p}
<1>1. i \in AllSlots /\ i \in Nat /\ i < SlotpSF
  BY SlotNumbers DEF AllSlots
<1>2. outside \subseteq Nat /\ SlotpSF \in outside
  BY <1>1, SlotSets, SlotNumbers
<1>3. PICK e \in outside : \A n \in outside : e <= n
  <2> HIDE DEF outside
  <2>1. QED
    BY <1>2, LeastNumber
<1>4. Part(i, e) \subseteq p
  <2> SUFFICES ASSUME NEW j \in Part(i, e), j \notin p PROVE FALSE
    OBVIOUS
  <2>1. j \in Nat /\ i <= j /\ j < e
    BY SlotSets DEF Part
  <2>2. j \in outside
    BY <2>1, <1>1, <1>3, SlotNumbers
  <2>3. QED
    BY <2>1, <2>2, <1>3, <1>1
<1>5. \E x \in i + 1 .. SlotpSF : x \notin p /\ Part(i, x) \subseteq p
  BY <1>3, <1>4
<1>6. BlockEnd(p, i) \in i + 1 .. SlotpSF /\ BlockEnd(p, i) \notin p /\ Part(i, BlockEnd(p, i)) \subseteq p
  BY <1>5 DEF BlockEnd
<1>7. i \in Part(i, BlockEnd(p, i))
  BY <1>1, <1>6, SlotNumbers DEF Part
<1>8. QED
  BY <1>6, <1>7 DEF BlockAt

\* Every slot of a pattern is in one of its blocks.
LEMMA InSomeBlock ==
    ASSUME NEW p, p \subseteq AllSlots, NEW x \in p
    PROVE  \E b \in Blocks(p) : x \in b
<1> DEFINE from == {s \in 0 .. x : Part(s, x + 1) \subseteq p}
<1>1. x \in AllSlots /\ x \in Nat /\ x < SlotpSF
  BY SlotNumbers DEF AllSlots
<1>2. from \subseteq Nat /\ x \in from
  <2>1. \A y \in Part(x, x + 1) : y = x
    BY <1>1, SlotSets DEF Part
  <2>2. QED
    BY <1>1, <2>1
<1>3. PICK s \in from : \A n \in from : s <= n
  <2> HIDE DEF from
  <2>1. QED
    BY <1>2, LeastNumber
<1>4. s \in Nat /\ s <= x /\ Part(s, x + 1) \subseteq p
  BY <1>3, <1>1
<1>5. s \in p
  BY <1>1, <1>4, SlotNumbers DEF Part, AllSlots
<1>6. s - 1 \notin p
  <2> SUFFICES ASSUME s - 1 \in p PROVE FALSE
    OBVIOUS
  <2>1. s - 1 \in Nat
    BY SlotSets
  <2>2. Part(s - 1, x + 1) \subseteq p
    <3> SUFFICES ASSUME NEW j \in Part(s - 1, x + 1) PROVE j \in p
      OBVIOUS
    <3>1. j = s - 1 \/ j \in Part(s, x + 1)
      BY <1>4, <1>1, SlotSets DEF Part
    <3>2. QED
      BY <3>1, <1>4
  <2>3. s - 1 \in from
    BY <2>1, <2>2, <1>4, <1>1
  <2>4. QED
    BY <2>3, <1>3, <1>4
<1>7. s \in BlockStarts(p)
  BY <1>5, <1>6 DEF BlockStarts
<1>8. BlockEnd(p, s) \in s + 1 .. SlotpSF /\ BlockEnd(p, s) \notin p
  BY <1>5, BlockEndFacts
<1>9. x < BlockEnd(p, s)
  <2> SUFFICES ASSUME BlockEnd(p, s) <= x PROVE FALSE
    BY <1>8, <1>1, <1>4, SlotNumbers
  <2>1. BlockEnd(p, s) \in Part(s, x + 1)
    BY <1>8, <1>4, <1>1, SlotNumbers DEF Part, AllSlots
  <2>2. QED
    BY <2>1, <1>8, <1>4
<1>10. x \in BlockAt(p, s)
  BY <1>9, <1>8, <1>4, <1>1, SlotNumbers DEF BlockAt, Part
<1>11. QED
  BY <1>10, <1>7 DEF Blocks

\* A packet needs a slot at least.
LEMMA MinAdjSlotType ==
    ASSUME NEW c \in Characteristics
    PROVE  MinAdjSlot(c) \in Nat \ {0}
<1>1. c.mode \in Modes
  BY DEF Characteristics
<1>2. FTDuration[c.mode] + GuardDuration \in Nat \ {0}
  BY <1>1, ModeFacts, SlotNumbers
<1> DEFINE need == FTDuration[c.mode] + GuardDuration
<1>3. need + SlotDuration - 1 \in Nat /\ SlotDuration <= need + SlotDuration - 1
  BY <1>2, SlotNumbers
<1>4. (need + SlotDuration - 1) \div SlotDuration \in Nat \ {0}
  <2> HIDE DEF need
  <2>1. QED
    BY <1>3, Division, SlotNumbers
<1>5. QED
  BY <1>4 DEF MinAdjSlot, Ceil

\* The packets of a block, and the slots missing for one more, are natural numbers:
\* the fragment left over is shorter than a frame.
LEMMA PacketsFacts ==
    ASSUME NEW c \in Characteristics, NEW slots \in Nat
    PROVE  /\ Packets(c, slots) \in Nat
           /\ AddSlot(c, slots) \in Nat
<1> DEFINE frame == FTDuration[c.mode]
           room == slots * SlotDuration - GuardDuration
<1>1. frame \in Nat \ {0}
  BY ModeFacts DEF Characteristics
<1>2. room \in Int /\ (slots # 0 => room \in Nat)
  BY SlotNumbers
<1>3. Packets(c, slots) = IF slots = 0 THEN 0 ELSE room \div frame
  BY DEF Packets
<1>4. Fragment(c, slots) = room - Packets(c, slots) * frame
  BY DEF Fragment
<1>5. AddSlot(c, slots) =
        Ceil(frame - (IF Fragment(c, slots) < 0 THEN 0 ELSE Fragment(c, slots)), SlotDuration)
  BY DEF AddSlot
<1> HIDE DEF frame, room
<1>6. CASE slots = 0
  <2>1. Packets(c, slots) = 0 /\ Fragment(c, slots) = room
    BY <1>1, <1>2, <1>3, <1>4, <1>6
  <2>2. room < 0
    BY <1>6, SlotNumbers DEF room
  <2>3. AddSlot(c, slots) = Ceil(frame, SlotDuration)
    BY <1>1, <1>5, <2>1, <2>2, <1>2
  <2>4. QED
    BY <2>1, <2>3, <1>1, CeilType, SlotNumbers
<1>7. CASE slots # 0
  <2>1. room \in Nat /\ Packets(c, slots) = room \div frame
    BY <1>2, <1>3, <1>7
  <2>2. Packets(c, slots) \in Nat /\ frame * Packets(c, slots) <= room
        /\ room < frame * Packets(c, slots) + frame
    BY <2>1, <1>1, Division
  <2>3. Fragment(c, slots) \in Nat /\ Fragment(c, slots) < frame
    BY <2>1, <2>2, <1>1, <1>4
  <2>4. frame - Fragment(c, slots) \in Nat
    BY <2>3, <1>1
  <2>5. AddSlot(c, slots) = Ceil(frame - Fragment(c, slots), SlotDuration)
    BY <1>5, <2>3
  <2>6. QED
    BY <2>2, <2>4, <2>5, CeilType, SlotNumbers
<1>8. QED
  BY <1>6, <1>7

\* Fitting the traffic into the areas keeps the phy mode, and areas have slots.
LEMMA FittedType ==
    ASSUME NEW c \in Characteristics
    PROVE  Fitted(c) \in Characteristics /\ Fitted(c).mode = c.mode
<1> DEFINE adj == Ceil(c.area * FTDuration[c.mode] + GuardDuration, SlotDuration)
           all == SlotpSF - NumberOfBPSlots
<1>1. c.area * FTDuration[c.mode] + GuardDuration \in Nat
  BY ModeFacts, SlotNumbers DEF Characteristics
<1>2. adj \in Nat
  BY <1>1, CeilType, SlotNumbers
<1>3. all \in Nat \ {0}
  BY SlotNumbers
<1>4. Fitted(c) = IF adj > c.gap THEN [c EXCEPT !.adj = all, !.gap = all, !.area = c.packets]
                  ELSE [c EXCEPT !.adj = adj]
  BY DEF Fitted
<1> HIDE DEF adj, all
<1>5. QED
  BY <1>2, <1>3, <1>4 DEF Characteristics

\* So does setting the number of packets.
LEMMA WithTrafficType ==
    ASSUME NEW c \in Characteristics, NEW compounds \in Nat
    PROVE  WithTraffic(c, compounds) \in Characteristics /\ WithTraffic(c, compounds).mode = c.mode
<1> DEFINE packets == Ceil(compounds * (100 + PEROffset), 100)
<1>1. compounds * (100 + PEROffset) \in Nat
  BY SlotNumbers
<1>2. packets \in Nat
  BY <1>1, CeilType
<1>3. Ceil(packets, DivideSFintoAreas) \in Nat
  <2> HIDE DEF packets
  <2>1. QED
    BY <1>2, CeilType, SlotNumbers
<1>4. WithTraffic(c, compounds) =
        [c EXCEPT !.packets = packets, !.area = Ceil(packets, DivideSFintoAreas)]
  BY DEF WithTraffic
<1> HIDE DEF packets
<1>5. QED
  BY <1>2, <1>3, <1>4 DEF Characteristics

\* The characteristic before there is traffic.
LEMMA NoTrafficType == NoTraffic \in Characteristics /\ NoTraffic.mode = DefaultMode
BY ModeFacts DEF NoTraffic, Characteristics

\* The characteristic of new traffic (SetTrafficChar).
LEMMA SetTrafficCharType ==
    ASSUME NEW mode \in Modes, NEW random \in BOOLEAN, NEW compounds \in Nat
    PROVE  /\ SetTrafficChar(mode, random, compounds) \in Characteristics
           /\ SetTrafficChar(mode, random, compounds).mode = mode
<1> DEFINE gap == (SlotpSF - NumberOfBPSlots) \div DivideSFintoAreas
           c == [packets |-> 0, area |-> 0, adj |-> 0, mode |-> mode, random |-> random,
                 gap |-> gap]
<1>1. SlotpSF - NumberOfBPSlots \in Nat
  BY SlotNumbers
<1>2. gap \in Nat \ {0}
  BY <1>1, Division, SlotNumbers
<1>3. c \in Characteristics /\ c.mode = mode
  <2> HIDE DEF gap
  <2>1. QED
    BY <1>2 DEF Characteristics
<1>4. SetTrafficChar(mode, random, compounds) = Fitted(WithTraffic(c, compounds))
  BY DEF SetTrafficChar
<1> HIDE DEF c
<1>5. QED
  BY <1>3, <1>4, FittedType, WithTrafficType

\* The characteristic of changed traffic (UpdateTrafficChar).
LEMMA UpdateTrafficCharType ==
    ASSUME NEW c \in Characteristics, NEW compounds \in Nat
    PROVE  /\ UpdateTrafficChar(c, compounds) \in Characteristics
           /\ UpdateTrafficChar(c, compounds).mode = c.mode
BY FittedType, WithTrafficType DEF UpdateTrafficChar

\* The characteristic after a change of the phy mode (SetPhyMode).
LEMMA SetPhyModeType ==
    ASSUME NEW c \in Characteristics, NEW mode \in Modes
    PROVE  /\ SetPhyMode(c, mode) \in Characteristics
           /\ SetPhyMode(c, mode).mode = mode
<1>1. [c EXCEPT !.mode = mode] \in Characteristics
  BY DEF Characteristics
<1>2. QED
  BY <1>1, FittedType DEF SetPhyMode, Characteristics

-----------------------------------------------------------------------------
\* The least element of a set of natural numbers that is not empty.
LEMMA MinOfSet ==
    ASSUME NEW S, S \subseteq Nat, S # {}
    PROVE  Min(S) \in S
<1>1. \E x \in S : \A y \in S : x <= y
  BY LeastNumber
<1>2. QED
  BY <1>1 DEF Min

\* The greatest element of a bounded one.
LEMMA MaxOfSet ==
    ASSUME NEW n \in Nat, NEW S, S \subseteq 0 .. n, S # {}
    PROVE  Max(S) \in S
<1> DEFINE distances == {k \in 0 .. n : n - k \in S}
<1>1. distances \subseteq Nat
  OBVIOUS
<1>2. distances # {}
  <2>1. PICK x \in S : TRUE
    OBVIOUS
  <2>2. x \in 0 .. n /\ n - (n - x) = x /\ n - x \in 0 .. n
    BY <2>1
  <2>3. n - x \in distances
    BY <2>1, <2>2
  <2>4. QED
    BY <2>3
<1>3. PICK d \in distances : \A k \in distances : d <= k
  <2> HIDE DEF distances
  <2>1. QED
    BY <1>1, <1>2, LeastNumber
<1>4. \A y \in S : n - d >= y
  <2> SUFFICES ASSUME NEW y \in S PROVE n - d >= y
    OBVIOUS
  <2>1. y \in 0 .. n /\ n - (n - y) = y /\ n - y \in 0 .. n
    OBVIOUS
  <2>2. n - y \in distances
    BY <2>1
  <2>3. d <= n - y /\ d \in 0 .. n
    BY <2>2, <1>3
  <2>4. QED
    BY <2>1, <2>3
<1>5. \E x \in S : \A y \in S : x >= y
  BY <1>3, <1>4
<1>6. QED
  BY <1>5 DEF Max

-----------------------------------------------------------------------------
(***************************************************************************)
(* The packets of a pattern are a sum over its blocks, computed in an      *)
(* order that is not known.                                                *)
(***************************************************************************)
Chosen(s) == CHOOSE b \in s : TRUE

Weight(c, b) == Packets(c, Cardinality(b))

Total(c, S) == MapThenSumSet(LAMBDA b : Packets(c, Cardinality(b)), S)

\* One step of the sum, where g has the sums of smaller sets.
Sum(c, g, s) == IF s = {} THEN 0 ELSE Weight(c, Chosen(s)) + g[s \ {Chosen(s)}]

\* The function g has the sums of the sets R of blocks.
Sums(g, c, R) == g = [s \in R |-> Sum(c, g, s)]

\* The sum in terms of these operators.
LEMMA TotalIsSum ==
    ASSUME NEW c, NEW S
    PROVE  Total(c, S) = (CHOOSE g : Sums(g, c, SUBSET S))[S]
BY DEF Total, MapThenSumSet, MapThenFoldSet, Sums, Sum, Weight, Chosen

\* A set without the chosen element is smaller.
LEMMA WithoutChosen ==
    ASSUME NEW s, IsFiniteSet(s), s # {}
    PROVE  /\ Chosen(s) \in s
           /\ Cardinality(s) \in Nat \ {0}
           /\ Cardinality(s \ {Chosen(s)}) = Cardinality(s) - 1
<1>1. Chosen(s) \in s
  BY DEF Chosen
<1>2. Cardinality(s) \in Nat /\ Cardinality(s \ {Chosen(s)}) = Cardinality(s) - 1
  BY <1>1, FS_CardinalityType, FS_RemoveElement
<1>3. Cardinality(s) # 0
  BY FS_EmptySet
<1>4. QED
  BY <1>1, <1>2, <1>3

\* The subsets with n blocks at most.
UpTo(S, n) == {r \in SUBSET S : Cardinality(r) <= n}

\* There is a function with the sums of all subsets.
LEMMA SumsExist ==
    ASSUME NEW c, NEW S, IsFiniteSet(S)
    PROVE  \E g : Sums(g, c, SUBSET S)
<1> DEFINE good == {n \in Nat : \E g : Sums(g, c, UpTo(S, n))}
<1>0. \A r \in SUBSET S : IsFiniteSet(r) /\ Cardinality(r) \in Nat /\ Cardinality(r) <= Cardinality(S)
  BY FS_Subset, FS_CardinalityType
<1>1. 0 \in good
  <2> DEFINE g == [s \in UpTo(S, 0) |-> 0]
  <2>1. \A s \in UpTo(S, 0) : s = {}
    BY <1>0, FS_EmptySet DEF UpTo
  <2>2. \A s \in UpTo(S, 0) : Sum(c, g, s) = 0
    BY <2>1 DEF Sum
  <2> HIDE DEF g
  <2>3. g = [s \in UpTo(S, 0) |-> Sum(c, g, s)]
    BY <2>2 DEF g
  <2>4. QED
    BY <2>3 DEF Sums
<1>2. ASSUME NEW n \in Nat, n \in good
      PROVE  n + 1 \in good
  <2>1. PICK g : Sums(g, c, UpTo(S, n))
    BY <1>2
  <2> DEFINE h == [s \in UpTo(S, n + 1) |-> Sum(c, g, s)]
  <2>2. \A s \in UpTo(S, n) : s \in UpTo(S, n + 1) /\ g[s] = Sum(c, g, s)
    BY <2>1, <1>0 DEF Sums, UpTo
  <2>3. \A s \in UpTo(S, n) : h[s] = g[s]
    BY <2>2
  <2>4. ASSUME NEW s \in UpTo(S, n + 1), s # {}
        PROVE  s \ {Chosen(s)} \in UpTo(S, n)
    <3>1. s \in SUBSET S /\ Cardinality(s) <= n + 1
      BY DEF UpTo
    <3>2. IsFiniteSet(s) /\ Cardinality(s) \in Nat
      BY <3>1, <1>0
    <3>3. Cardinality(s \ {Chosen(s)}) = Cardinality(s) - 1
      BY <3>2, <2>4, WithoutChosen
    <3>4. Cardinality(s \ {Chosen(s)}) <= n
      BY <3>1, <3>2, <3>3
    <3>5. QED
      BY <3>1, <3>4 DEF UpTo
  <2>5. \A s \in UpTo(S, n + 1) : Sum(c, h, s) = Sum(c, g, s)
    <3> HIDE DEF h
    <3>1. QED
      BY <2>3, <2>4 DEF Sum
  <2>6. Sums(h, c, UpTo(S, n + 1))
    BY <2>5 DEF Sums
  <2>7. QED
    BY <2>6
<1>3. Nat \subseteq good
  <2> HIDE DEF good
  <2>1. QED
    BY <1>1, <1>2, NumberInduction
<1>4. UpTo(S, Cardinality(S)) = SUBSET S
  BY <1>0 DEF UpTo
<1>5. Cardinality(S) \in good
  BY <1>3, FS_CardinalityType
<1>6. QED
  BY <1>4, <1>5

\* It agrees with those of smaller sets.
LEMMA SumsAgree ==
    ASSUME NEW c, NEW S, IsFiniteSet(S), NEW T \in SUBSET S, NEW g, NEW h,
           Sums(g, c, SUBSET S), Sums(h, c, SUBSET T)
    PROVE  g[T] = h[T]
<1> DEFINE good == {n \in Nat : \A r \in SUBSET T : Cardinality(r) = n => g[r] = h[r]}
<1>0. \A r \in SUBSET T : /\ IsFiniteSet(r) /\ Cardinality(r) \in Nat /\ r \in SUBSET S
                          /\ g[r] = Sum(c, g, r) /\ h[r] = Sum(c, h, r)
  BY FS_Subset, FS_CardinalityType DEF Sums
<1>1. 0 \in good
  <2>1. \A r \in SUBSET T : Cardinality(r) = 0 => r = {}
    BY <1>0, FS_EmptySet
  <2>2. QED
    BY <2>1, <1>0 DEF Sum
<1>2. ASSUME NEW n \in Nat, n \in good
      PROVE  n + 1 \in good
  <2> SUFFICES ASSUME NEW r \in SUBSET T, Cardinality(r) = n + 1 PROVE g[r] = h[r]
    OBVIOUS
  <2>1. r # {}
    BY FS_EmptySet
  <2>2. Cardinality(r \ {Chosen(r)}) = n
    BY <1>0, <2>1, WithoutChosen
  <2>3. g[r \ {Chosen(r)}] = h[r \ {Chosen(r)}]
    BY <1>2, <2>2
  <2>4. QED
    BY <1>0, <2>1, <2>3 DEF Sum
<1>3. Nat \subseteq good
  <2> HIDE DEF good
  <2>1. QED
    BY <1>1, <1>2, NumberInduction
<1>4. QED
  BY <1>0, <1>3

\* The sum of a set of blocks is that of all but one, and of this one.
LEMMA TotalFacts ==
    ASSUME NEW c, NEW S, IsFiniteSet(S), \A b \in S : Weight(c, b) \in Nat
    PROVE  /\ Total(c, S) \in Nat
           /\ S = {} => Total(c, S) = 0
           /\ \A b \in S : Total(c, S) = Weight(c, b) + Total(c, S \ {b})
<1>1. PICK g : Sums(g, c, SUBSET S)
  BY SumsExist
<1>2. ASSUME NEW T \in SUBSET S
      PROVE  Total(c, T) = g[T]
  <2> DEFINE h == CHOOSE h : Sums(h, c, SUBSET T)
  <2>1. Sums(h, c, SUBSET T)
    BY FS_Subset, SumsExist
  <2>2. Total(c, T) = h[T]
    BY TotalIsSum
  <2> HIDE DEF h
  <2>3. QED
    BY <1>1, <2>1, <2>2, SumsAgree
<1> DEFINE good == {n \in Nat : \A T \in SUBSET S : Cardinality(T) <= n =>
                        /\ g[T] \in Nat
                        /\ \A b \in T : g[T] = Weight(c, b) + g[T \ {b}]}
<1>3. \A T \in SUBSET S : IsFiniteSet(T) /\ Cardinality(T) \in Nat /\ g[T] = Sum(c, g, T)
  BY <1>1, FS_Subset, FS_CardinalityType DEF Sums
<1>4. 0 \in good
  <2>1. ASSUME NEW T \in SUBSET S, Cardinality(T) <= 0
        PROVE  T = {} /\ g[T] = 0
    <3>1. Cardinality(T) = 0
      BY <1>3, <2>1
    <3>2. T = {}
      BY <1>3, <3>1, FS_EmptySet
    <3>3. g[T] = Sum(c, g, T)
      BY <1>3
    <3>4. QED
      BY <3>2, <3>3 DEF Sum
  <2>2. QED
    BY <2>1
<1>5. ASSUME NEW n \in Nat, n \in good
      PROVE  n + 1 \in good
  <2>1. ASSUME NEW T \in SUBSET S, Cardinality(T) = n + 1
        PROVE  g[T] \in Nat /\ \A b \in T : g[T] = Weight(c, b) + g[T \ {b}]
    <3> DEFINE y == Chosen(T)
    <3>1. IsFiniteSet(T) /\ T # {}
      BY <1>3, <2>1, FS_EmptySet
    <3>2. y \in T /\ Cardinality(T \ {y}) = Cardinality(T) - 1
      BY <3>1, WithoutChosen
    <3>3. g[T] = Weight(c, y) + g[T \ {y}]
      BY <1>3, <3>1 DEF Sum
    <3> HIDE DEF y
    <3>4. \A b \in T : /\ T \ {b} \in SUBSET S /\ Weight(c, b) \in Nat
                       /\ Cardinality(T \ {b}) <= n
      <4> SUFFICES ASSUME NEW b \in T PROVE Cardinality(T \ {b}) <= n
        OBVIOUS
      <4>1. Cardinality(T \ {b}) = Cardinality(T) - 1
        BY <3>1, FS_RemoveElement
      <4>2. QED
        BY <2>1, <4>1
    <3>5. \A b \in T : g[T \ {b}] \in Nat
      BY <1>5, <3>4
    <3>6. ASSUME NEW b \in T, b # y
          PROVE  g[T] = Weight(c, b) + g[T \ {b}]
      <4> DEFINE R == (T \ {y}) \ {b}
      <4>1. b \in T \ {y} /\ y \in T \ {b} /\ R = (T \ {b}) \ {y}
        BY <3>2, <3>6
      <4>2. g[T \ {y}] = Weight(c, b) + g[R]
        BY <1>5, <3>2, <3>4, <4>1
      <4>3. g[T \ {b}] = Weight(c, y) + g[(T \ {b}) \ {y}]
        BY <1>5, <3>4, <4>1
      <4>4. Cardinality(R) <= n
        <5>1. IsFiniteSet(T \ {y}) /\ R \in SUBSET (T \ {y})
          BY <3>1, FS_RemoveElement
        <5>2. Cardinality(R) <= Cardinality(T \ {y})
          BY <5>1, FS_Subset
        <5>3. R \in SUBSET S /\ T \ {y} \in SUBSET S
          OBVIOUS
        <5> HIDE DEF R
        <5>4. Cardinality(R) \in Nat /\ Cardinality(T \ {y}) \in Nat
          BY <1>3, <5>3
        <5>5. QED
          BY <3>2, <3>4, <5>2, <5>4
      <4>5. g[R] \in Nat
        BY <1>5, <4>4
      <4>6. Weight(c, b) \in Nat /\ Weight(c, y) \in Nat
        BY <3>2, <3>4
      <4> HIDE DEF R
      <4>7. g[T \ {b}] = Weight(c, y) + g[R]
        BY <4>1, <4>3
      <4>8. QED
        BY <3>3, <4>2, <4>5, <4>6, <4>7
    <3>7. g[T] \in Nat
      BY <3>2, <3>3, <3>4, <3>5
    <3>8. \A b \in T : g[T] = Weight(c, b) + g[T \ {b}]
      <4> HIDE DEF y
      <4> SUFFICES ASSUME NEW b \in T PROVE g[T] = Weight(c, b) + g[T \ {b}]
        OBVIOUS
      <4>1. CASE b = y
        BY <3>3, <4>1
      <4>2. CASE b # y
        BY <3>6, <4>2
      <4>3. QED
        BY <4>1, <4>2
    <3>9. QED
      BY <3>7, <3>8
  <2>2. QED
    BY <1>3, <1>5, <2>1
<1>6. Nat \subseteq good
  <2> HIDE DEF good
  <2>1. QED
    BY <1>4, <1>5, NumberInduction
<1>7. g[S] \in Nat /\ \A b \in S : g[S] = Weight(c, b) + g[S \ {b}]
  BY <1>3, <1>6
<1>8. S = {} => g[S] = 0
  BY <1>3 DEF Sum
<1>9. QED
  BY <1>2, <1>7, <1>8

-----------------------------------------------------------------------------
(***************************************************************************)
(* A gap that is filled joins the blocks next to it.                       *)
(***************************************************************************)
\* The slots from a to before e are a block of the pattern.
IsBlock(p, a, e) ==
    /\ a \in p /\ a - 1 \notin p
    /\ e \in Int /\ a < e /\ e <= SlotpSF /\ e \notin p
    /\ \A x \in a .. e - 1 : x \in p

\* A part as an interval.
LEMMA PartInterval ==
    ASSUME NEW a \in Nat, NEW e \in Int, e <= SlotpSF
    PROVE  Part(a, e) = a .. e - 1
BY SlotNumbers DEF Part, AllSlots

\* Its length.
LEMMA PartLength ==
    ASSUME NEW a \in Nat, NEW e \in Int, a <= e, e <= SlotpSF
    PROVE  Cardinality(Part(a, e)) = e - a
<1>1. Part(a, e) = a .. e - 1
  BY PartInterval
<1>2. a \in Int /\ e - 1 \in Int
  OBVIOUS
<1>3. Cardinality(a .. e - 1) = IF a > e - 1 THEN 0 ELSE e - 1 - a + 1
  BY <1>2, FS_Interval
<1>4. QED
  BY <1>1, <1>3

\* The blocks of a pattern are those.
LEMMA BlocksOf ==
    ASSUME NEW p, p \subseteq AllSlots, NEW b
    PROVE  b \in Blocks(p) <=> \E a \in AllSlots, e \in 0 .. SlotpSF : IsBlock(p, a, e) /\ b = Part(a, e)
<1>1. ASSUME b \in Blocks(p)
      PROVE  \E a \in AllSlots, e \in 0 .. SlotpSF : IsBlock(p, a, e) /\ b = Part(a, e)
  <2>1. PICK a \in BlockStarts(p) : b = BlockAt(p, a)
    BY <1>1 DEF Blocks
  <2>2. a \in p /\ a - 1 \notin p /\ a \in AllSlots /\ a \in Nat
    BY SlotSets DEF BlockStarts
  <2> DEFINE e == BlockEnd(p, a)
  <2>3. e \in a + 1 .. SlotpSF /\ e \notin p /\ BlockAt(p, a) \subseteq p
    BY <2>2, BlockEndFacts
  <2>4. BlockAt(p, a) = Part(a, e)
    BY DEF BlockAt
  <2> HIDE DEF e
  <2>5. e \in 0 .. SlotpSF /\ e \in Int /\ a < e /\ e <= SlotpSF
    BY <2>2, <2>3, SlotNumbers
  <2>6. Part(a, e) = a .. e - 1
    BY <2>2, <2>5, PartInterval
  <2>7. IsBlock(p, a, e)
    BY <2>2, <2>3, <2>4, <2>5, <2>6 DEF IsBlock
  <2>8. QED
    BY <2>1, <2>2, <2>4, <2>5, <2>7
<1>2. ASSUME NEW a \in AllSlots, NEW e \in 0 .. SlotpSF, IsBlock(p, a, e), b = Part(a, e)
      PROVE  b \in Blocks(p)
  <2>1. a \in p /\ a - 1 \notin p /\ a \in Nat /\ e \in Int /\ a < e /\ e <= SlotpSF /\ e \notin p
    BY <1>2, SlotSets DEF IsBlock
  <2> DEFINE f == BlockEnd(p, a)
  <2>2. f \in a + 1 .. SlotpSF /\ f \notin p /\ BlockAt(p, a) \subseteq p
    BY <2>1, BlockEndFacts
  <2>3. BlockAt(p, a) = Part(a, f)
    BY DEF BlockAt
  <2> HIDE DEF f
  <2>4. f \in Int /\ a < f /\ f <= SlotpSF
    BY <2>1, <2>2, SlotNumbers
  <2>5. Part(a, f) = a .. f - 1
    BY <2>1, <2>4, PartInterval
  <2>6. ~(e < f)
    <3> SUFFICES ASSUME e < f PROVE FALSE
      OBVIOUS
    <3>1. e \in a .. f - 1
      BY <2>1, <2>4
    <3>2. QED
      BY <2>1, <2>2, <2>3, <2>5, <3>1
  <2>7. ~(f < e)
    <3> SUFFICES ASSUME f < e PROVE FALSE
      OBVIOUS
    <3>1. f \in a .. e - 1
      BY <2>1, <2>4
    <3>2. QED
      BY <1>2, <2>2, <3>1 DEF IsBlock
  <2>8. e = f
    BY <2>1, <2>4, <2>6, <2>7
  <2>9. QED
    BY <1>2, <2>1, <2>3, <2>8 DEF Blocks, BlockStarts
<1>3. QED
  BY <1>1, <1>2

\* Blocks are the same or have a slot between them.
LEMMA BlocksApart ==
    ASSUME NEW p, NEW a \in Nat, NEW e, IsBlock(p, a, e),
           NEW x \in Nat, NEW y, IsBlock(p, x, y)
    PROVE  (x = a /\ y = e) \/ y < a \/ e < x
<1>1. e \in Int /\ y \in Int /\ a < e /\ x < y
  BY DEF IsBlock
<1>2. x < a => y < a
  <2> SUFFICES ASSUME x < a, a <= y PROVE FALSE
    BY <1>1
  <2>1. a - 1 \in x .. y - 1 \/ a = y
    BY <1>1
  <2>2. QED
    BY <2>1 DEF IsBlock
<1>3. a < x => e < x
  <2> SUFFICES ASSUME a < x, x <= e PROVE FALSE
    BY <1>1
  <2>1. x - 1 \in a .. e - 1 \/ x = e
    BY <1>1
  <2>2. QED
    BY <2>1 DEF IsBlock
<1>4. x = a => y = e
  <2> SUFFICES ASSUME x = a, y < e \/ e < y PROVE FALSE
    BY <1>1
  <2>1. y \in a .. e - 1 \/ e \in x .. y - 1
    BY <1>1
  <2>2. QED
    BY <2>1 DEF IsBlock
<1>5. QED
  BY <1>1, <1>2, <1>3, <1>4

\* What begins and ends in a block.
LEMMA BlockAround ==
    ASSUME NEW p, p \subseteq AllSlots, NEW x \in p
    PROVE  \E a \in AllSlots, e \in 0 .. SlotpSF : IsBlock(p, a, e) /\ a <= x /\ x < e
<1>1. PICK b \in Blocks(p) : x \in b
  BY InSomeBlock
<1>2. PICK a \in AllSlots, e \in 0 .. SlotpSF : IsBlock(p, a, e) /\ b = Part(a, e)
  BY <1>1, BlocksOf
<1>3. a \in Nat /\ e \in Int /\ e <= SlotpSF
  BY SlotSets, SlotNumbers
<1>4. x \in a .. e - 1
  BY <1>1, <1>2, <1>3, PartInterval
<1>5. QED
  BY <1>2, <1>3, <1>4

\* A part as a set of slots tells where it begins.
LEMMA PartStart ==
    ASSUME NEW a \in Nat, NEW e \in Int, a < e, e <= SlotpSF,
           NEW x \in Nat, NEW y \in Int, x < y, y <= SlotpSF, Part(a, e) = Part(x, y)
    PROVE  a = x
<1>1. a .. e - 1 = x .. y - 1
  BY PartInterval
<1>2. a \in a .. e - 1 /\ x \in x .. y - 1
  OBVIOUS
<1>3. a \in x .. y - 1 /\ x \in a .. e - 1
  BY <1>1, <1>2
<1>4. QED
  BY <1>3

\* The slots from i to before j are a gap of the pattern.
IsGap(p, i, j) ==
    i \in Nat /\ j \in Nat /\ i < j /\ j <= SlotpSF /\ \A x \in i .. j - 1 : x \notin p

\* The block a, e of the pattern with the gap i, j filled, and what it was before.
Joined(p, q, i, j, a, e) ==
    /\ a \in Nat /\ e \in Nat /\ a <= i /\ j <= e
    /\ IsBlock(q, a, e)
    /\ a < i => IsBlock(p, a, i)
    /\ j < e => IsBlock(p, j, e)

\* There is such a block.
LEMMA JoinedExists ==
    ASSUME NEW p, p \subseteq AllSlots, NEW i, NEW j, IsGap(p, i, j),
           NEW q, q = p \cup i .. j - 1
    PROVE  \E a \in Nat, e \in Nat : Joined(p, q, i, j, a, e)
<1>1. i \in Nat /\ j \in Nat /\ i < j /\ j <= SlotpSF /\ \A x \in i .. j - 1 : x \notin p
  BY DEF IsGap
<1>2. q \subseteq AllSlots /\ i \in q
  BY <1>1, SlotNumbers DEF AllSlots
<1>3. PICK a \in AllSlots, e \in 0 .. SlotpSF : IsBlock(q, a, e) /\ a <= i /\ i < e
  BY <1>2, BlockAround
<1>4. a \in Nat /\ e \in Nat /\ e <= SlotpSF
  BY SlotSets, SlotNumbers
<1>5. /\ a \in q /\ a - 1 \notin q /\ e \notin q
      /\ \A x \in a .. e - 1 : x \in q
  BY <1>3 DEF IsBlock
<1>6. j <= e
  <2> SUFFICES ASSUME e < j PROVE FALSE
    BY <1>1, <1>4
  <2>1. e \in i .. j - 1
    BY <1>1, <1>3, <1>4
  <2>2. QED
    BY <1>5, <2>1
<1>7. a < i => IsBlock(p, a, i)
  <2> SUFFICES ASSUME a < i PROVE IsBlock(p, a, i)
    OBVIOUS
  <2>1. i \in i .. j - 1 /\ i \in Int /\ i <= SlotpSF
    BY <1>1, SlotNumbers
  <2>2. \A x \in a .. i - 1 : x \in a .. e - 1 /\ x \notin i .. j - 1
    BY <1>1, <1>3, <1>4
  <2>3. a \in a .. i - 1
    BY <1>1, <1>4
  <2>4. QED
    BY <1>1, <1>5, <2>1, <2>2, <2>3 DEF IsBlock
<1>8. j < e => IsBlock(p, j, e)
  <2> SUFFICES ASSUME j < e PROVE IsBlock(p, j, e)
    OBVIOUS
  <2>1. j - 1 \in i .. j - 1 /\ e \in Int
    BY <1>1, <1>4
  <2>2. \A x \in j .. e - 1 : x \in a .. e - 1 /\ x \notin i .. j - 1
    BY <1>1, <1>3, <1>4
  <2>3. j \in j .. e - 1
    BY <1>1, <1>4
  <2>4. QED
    BY <1>1, <1>4, <1>5, <2>1, <2>2, <2>3 DEF IsBlock
<1>9. QED
  BY <1>3, <1>4, <1>6, <1>7, <1>8 DEF Joined

\* The other blocks stay: a block that is not the joined one was there before, ...
LEMMA OtherStays ==
    ASSUME NEW p, NEW i, NEW j, IsGap(p, i, j), NEW q, q = p \cup i .. j - 1,
           NEW a, NEW e, Joined(p, q, i, j, a, e),
           NEW x \in Nat, NEW y, IsBlock(q, x, y), x # a
    PROVE  IsBlock(p, x, y) /\ (y < a \/ e < x)
<1>1. /\ i \in Nat /\ j \in Nat /\ i < j /\ a \in Nat /\ e \in Nat /\ a <= i /\ j <= e
      /\ IsBlock(q, a, e)
  BY DEF IsGap, Joined
<1>2. y < a \/ e < x
  BY <1>1, BlocksApart
<1>3. y \in Int /\ x < y
  BY DEF IsBlock
<1>4. \A z \in x .. y - 1 : z \notin i .. j - 1
  BY <1>1, <1>2, <1>3
<1>5. x \in x .. y - 1
  BY <1>3
<1>6. QED
  BY <1>2, <1>4, <1>5 DEF IsBlock

\* ... and one that was there and is not joined is there now.
LEMMA OtherWas ==
    ASSUME NEW p, NEW i, NEW j, IsGap(p, i, j), NEW q, q = p \cup i .. j - 1,
           NEW a, NEW e, Joined(p, q, i, j, a, e),
           NEW x \in Nat, NEW y, IsBlock(p, x, y)
    PROVE  \/ a < i /\ x = a /\ y = i
           \/ j < e /\ x = j /\ y = e
           \/ IsBlock(q, x, y) /\ x # a
<1>1. /\ i \in Nat /\ j \in Nat /\ i < j /\ a \in Nat /\ e \in Nat /\ a <= i /\ j <= e
      /\ IsBlock(q, a, e) /\ \A z \in i .. j - 1 : z \notin p
      /\ (a < i => IsBlock(p, a, i)) /\ (j < e => IsBlock(p, j, e))
  BY DEF IsGap, Joined
<1>2. /\ y \in Int /\ x < y /\ x \in p /\ x - 1 \notin p /\ y \notin p
      /\ \A z \in x .. y - 1 : z \in p
  BY DEF IsBlock
<1>3. x < i \/ x >= j
  <2>1. x \notin i .. j - 1
    BY <1>1, <1>2
  <2>2. QED
    BY <1>1, <2>1
<1>4. CASE x < i
  <2>1. y <= i
    <3> SUFFICES ASSUME i < y PROVE FALSE
      BY <1>1, <1>2
    <3>1. i \in x .. y - 1 /\ i \in i .. j - 1
      BY <1>1, <1>2, <1>4
    <3>2. QED
      BY <1>1, <1>2, <3>1
  <2>2. CASE y = i
    <3>1. i - 1 \in x .. y - 1
      BY <1>1, <1>4, <2>2
    <3>2. a < i
      <4> SUFFICES ASSUME a = i PROVE FALSE
        BY <1>1
      <4>1. i - 1 \in q
        BY <1>2, <3>1
      <4>2. QED
        BY <1>1, <4>1 DEF IsBlock
    <3>3. IsBlock(p, a, i)
      BY <1>1, <3>2
    <3>4. (x = a /\ y = i) \/ y < a \/ i < x
      BY <1>1, <3>3, BlocksApart
    <3>5. QED
      BY <1>1, <1>4, <2>2, <3>2, <3>4
  <2>3. CASE y # i
    <3>1. y < i /\ y \notin i .. j - 1 /\ x - 1 \notin i .. j - 1
      BY <1>1, <1>2, <1>4, <2>1, <2>3
    <3>2. y \notin q /\ x - 1 \notin q
      BY <1>2, <3>1
    <3>3. IsBlock(q, x, y)
      BY <1>2, <3>2 DEF IsBlock
    <3>4. x # a
      <4> SUFFICES ASSUME x = a PROVE FALSE
        OBVIOUS
      <4>1. y \in a .. e - 1
        BY <1>1, <1>2, <3>1
      <4>2. QED
        BY <1>1, <3>2, <4>1 DEF IsBlock
    <3>5. QED
      BY <3>3, <3>4
  <2>4. QED
    BY <2>2, <2>3
<1>5. CASE x >= j
  <2>1. CASE x = j
    <3>1. j < e
      <4> SUFFICES ASSUME e = j PROVE FALSE
        BY <1>1
      <4>1. e \in q
        BY <1>2, <2>1
      <4>2. QED
        BY <1>1, <4>1 DEF IsBlock
    <3>2. IsBlock(p, j, e)
      BY <1>1, <3>1
    <3>3. (x = j /\ y = e) \/ y < j \/ e < x
      BY <1>1, <3>2, BlocksApart
    <3>4. QED
      BY <1>1, <1>2, <2>1, <3>1, <3>3
  <2>2. CASE x # j
    <3>1. x - 1 \notin i .. j - 1 /\ y \notin i .. j - 1
      BY <1>1, <1>2, <1>5, <2>2
    <3>2. y \notin q /\ x - 1 \notin q
      BY <1>2, <3>1
    <3>3. IsBlock(q, x, y) /\ x # a
      BY <1>1, <1>2, <1>5, <3>2 DEF IsBlock
    <3>4. QED
      BY <3>3
  <2>3. QED
    BY <2>1, <2>2
<1>6. QED
  BY <1>3, <1>4, <1>5

\* The blocks that a filled gap leaves alone, and those before and after it.
Kept(q, a, e) == Blocks(q) \ {Part(a, e)}
Left(a, i) == IF a < i THEN {Part(a, i)} ELSE {}
Right(j, e) == IF j < e THEN {Part(j, e)} ELSE {}

\* Both together: what a filled gap does to the blocks.
LEMMA JoinedBlocks ==
    ASSUME NEW p, p \subseteq AllSlots, NEW i, NEW j, IsGap(p, i, j),
           NEW q, q = p \cup i .. j - 1, NEW a, NEW e, Joined(p, q, i, j, a, e)
    PROVE  /\ Part(a, e) \in Blocks(q)
           /\ Blocks(p) = Kept(q, a, e) \cup Left(a, i) \cup Right(j, e)
           /\ Left(a, i) \cap Kept(q, a, e) = {}
           /\ Right(j, e) \cap (Kept(q, a, e) \cup Left(a, i)) = {}
<1> DEFINE K == Blocks(q) \ {Part(a, e)}
           L == IF a < i THEN {Part(a, i)} ELSE {}
           R == IF j < e THEN {Part(j, e)} ELSE {}
<1>1. /\ i \in Nat /\ j \in Nat /\ i < j /\ j <= SlotpSF
      /\ a \in Nat /\ e \in Nat /\ a <= i /\ j <= e
      /\ IsBlock(q, a, e) /\ e <= SlotpSF
      /\ (a < i => IsBlock(p, a, i)) /\ (j < e => IsBlock(p, j, e))
  BY DEF IsGap, Joined, IsBlock
<1>2. q \subseteq AllSlots /\ SlotpSF \in Nat
  BY <1>1, SlotNumbers DEF AllSlots
<1>3. a \in AllSlots /\ e \in 0 .. SlotpSF /\ (a < i => i \in 0 .. SlotpSF)
      /\ (j < e => j \in AllSlots)
  BY <1>1, <1>2 DEF AllSlots
<1>4. Part(a, e) \in Blocks(q)
  BY <1>1, <1>2, <1>3, BlocksOf
<1>5. L \subseteq Blocks(p) /\ R \subseteq Blocks(p)
  BY <1>1, <1>3, BlocksOf
<1>6. ASSUME NEW b \in K
      PROVE  b \in Blocks(p) /\ b \notin L /\ b \notin R
  <2>1. PICK x \in AllSlots, y \in 0 .. SlotpSF : IsBlock(q, x, y) /\ b = Part(x, y)
    BY <1>2, BlocksOf
  <2>2. x \in Nat /\ y \in Int /\ x < y /\ y <= SlotpSF
    BY <2>1, SlotSets DEF IsBlock
  <2>3. x # a
    <3> SUFFICES ASSUME x = a PROVE FALSE
      OBVIOUS
    <3>1. y = e
      BY <1>1, <2>1, <2>2, BlocksApart
    <3>2. QED
      BY <2>1, <3>1
  <2>4. IsBlock(p, x, y) /\ (y < a \/ e < x)
    BY <1>1, <2>1, <2>2, <2>3, OtherStays
  <2>5. b \in Blocks(p)
    BY <2>1, <2>4, BlocksOf
  <2>6. a < i => b # Part(a, i)
    BY <1>1, <1>2, <2>1, <2>2, <2>3, PartStart
  <2>7. j < e => b # Part(j, e)
    BY <1>1, <2>1, <2>2, <2>4, PartStart
  <2>8. QED
    BY <2>5, <2>6, <2>7
<1>7. ASSUME NEW b \in Blocks(p)
      PROVE  b \in K \cup L \cup R
  <2>1. PICK x \in AllSlots, y \in 0 .. SlotpSF : IsBlock(p, x, y) /\ b = Part(x, y)
    BY BlocksOf
  <2>2. x \in Nat /\ y \in Int /\ x < y /\ y <= SlotpSF
    BY <2>1, SlotSets DEF IsBlock
  <2>3. \/ a < i /\ x = a /\ y = i
        \/ j < e /\ x = j /\ y = e
        \/ IsBlock(q, x, y) /\ x # a
    BY <2>1, <2>2, OtherWas
  <2>4. IsBlock(q, x, y) /\ x # a => b \in K
    <3> SUFFICES ASSUME IsBlock(q, x, y), x # a PROVE b \in K
      OBVIOUS
    <3>1. b \in Blocks(q)
      BY <1>2, <2>1, BlocksOf
    <3>2. b # Part(a, e)
      BY <1>1, <2>1, <2>2, PartStart
    <3>3. QED
      BY <3>1, <3>2
  <2>5. QED
    BY <2>1, <2>3, <2>4
<1>8. a < i /\ j < e => Part(a, i) # Part(j, e)
  BY <1>1, <1>2, PartStart
<1>9. /\ Blocks(p) = K \cup L \cup R
      /\ L \cap K = {} /\ R \cap (K \cup L) = {}
  BY <1>5, <1>6, <1>7, <1>8
<1>10. QED
  BY <1>4, <1>9 DEF Kept, Left, Right

\* A common factor.
LEMMA Cancel ==
    ASSUME NEW f \in Nat \ {0}, NEW x \in Nat, NEW y \in Nat, f * x < f * y
    PROVE  x < y
<1> SUFFICES ASSUME y <= x PROVE FALSE
  OBVIOUS
<1>1. x - y \in Nat /\ f * (x - y) \in Nat
  OBVIOUS
<1>2. f * x = f * y + f * (x - y)
  OBVIOUS
<1>3. f * x \in Nat /\ f * y \in Nat
  OBVIOUS
<1>4. QED
  BY <1>1, <1>2, <1>3

\* A block takes at least the packets of its parts, because only one guard time
\* is left at its end.
LEMMA PacketsJoin ==
    ASSUME NEW c \in Characteristics, NEW m \in Nat, NEW n \in Nat
    PROVE  Packets(c, m + n) >= Packets(c, m) + Packets(c, n)
<1> DEFINE f == FTDuration[c.mode]
           Room(k) == k * SlotDuration - GuardDuration
<1>1. f \in Nat \ {0}
  BY ModeFacts DEF Characteristics
<1>2. \A k \in Nat : Packets(c, k) = IF k = 0 THEN 0 ELSE Room(k) \div f
  BY DEF Packets
<1>3. \A k \in Nat \ {0} : Room(k) \in Nat
  BY SlotNumbers
<1>4. Packets(c, m) \in Nat /\ Packets(c, n) \in Nat /\ Packets(c, m + n) \in Nat
  BY PacketsFacts
<1>5. CASE m = 0 \/ n = 0
  <2>1. Packets(c, 0) = 0
    BY DEF Packets
  <2>2. QED
    BY <1>4, <1>5, <2>1
<1>6. CASE m # 0 /\ n # 0
  <2>1. m + n \in Nat \ {0} /\ m \in Nat \ {0} /\ n \in Nat \ {0}
    BY <1>6
  <2>2. Room(m) + Room(n) <= Room(m + n)
    <3>1. (m + n) * SlotDuration = m * SlotDuration + n * SlotDuration
      BY SlotNumbers
    <3>2. m * SlotDuration \in Int /\ n * SlotDuration \in Int
      BY SlotNumbers
    <3>3. QED
      BY <3>1, <3>2, SlotNumbers
  <2>3. Room(m) \in Nat /\ Room(n) \in Nat /\ Room(m + n) \in Nat
    BY <1>3, <2>1
  <2>4. /\ Packets(c, m) = Room(m) \div f /\ Packets(c, n) = Room(n) \div f
        /\ Packets(c, m + n) = Room(m + n) \div f
    BY <1>2, <2>1
  <2> HIDE DEF Room, f
  <2> DEFINE x == Packets(c, m)
             y == Packets(c, n)
             z == Packets(c, m + n)
  <2>5. f * x <= Room(m) /\ f * y <= Room(n) /\ Room(m + n) < f * z + f
    BY <1>1, <2>3, <2>4, Division
  <2>6. x \in Nat /\ y \in Nat /\ z \in Nat
    BY <1>4
  <2> HIDE DEF x, y, z
  <2>7. f * (x + y) = f * x + f * y /\ f * (z + 1) = f * z + f
    BY <1>1, <2>6
  <2>8. f * x \in Nat /\ f * y \in Nat /\ f * z \in Nat
    BY <1>1, <2>6
  <2>9. f * (x + y) < f * (z + 1)
    BY <1>1, <2>2, <2>3, <2>5, <2>7, <2>8
  <2>10. x + y < z + 1
    BY <1>1, <2>6, <2>9, Cancel
  <2>11. QED
    BY <2>6, <2>10 DEF x, y, z
<1>7. QED
  BY <1>5, <1>6

\* A packet needs a block of MinAdjSlot slots, and takes no more slots than there are.
LEMMA PacketsOfSmall ==
    ASSUME NEW c \in Characteristics, NEW n \in Nat, n < MinAdjSlot(c)
    PROVE  Packets(c, n) = 0
<1> DEFINE f == FTDuration[c.mode]
           room == n * SlotDuration - GuardDuration
           need == f + GuardDuration + SlotDuration - 1
<1>1. f \in Nat \ {0}
  BY ModeFacts DEF Characteristics
<1>2. MinAdjSlot(c) = need \div SlotDuration
  BY DEF MinAdjSlot, Ceil
<1>3. need \in Nat
  BY <1>1, SlotNumbers
<1>4. Packets(c, n) = IF n = 0 THEN 0 ELSE room \div f
  BY DEF Packets
<1>5. n # 0 => room \in Nat
  BY SlotNumbers
<1>6. n * SlotDuration \in Nat /\ SlotDuration \in Nat \ {0} /\ GuardDuration \in Nat \ {0}
  BY SlotNumbers
<1>7. SlotDuration * (need \div SlotDuration) <= need /\ need \div SlotDuration \in Nat
  <2> HIDE DEF need
  <2>1. QED
    BY <1>3, Division, SlotNumbers
<1>8. SlotDuration * (n + 1) <= need
  <2> DEFINE k == need \div SlotDuration
  <2>1. k \in Nat /\ n + 1 <= k /\ SlotDuration * k <= need
    BY <1>2, <1>7
  <2> HIDE DEF k, need
  <2>2. k - (n + 1) \in Nat
    BY <2>1
  <2>3. SlotDuration * k = SlotDuration * (n + 1) + SlotDuration * (k - (n + 1))
    BY <2>1, <1>6
  <2>4. SlotDuration * (n + 1) \in Nat /\ SlotDuration * (k - (n + 1)) \in Nat
    BY <2>2, <1>6
  <2>5. QED
    BY <2>1, <2>3, <2>4, <1>3
<1>9. room < f
  <2>1. SlotDuration * (n + 1) = n * SlotDuration + SlotDuration
    BY <1>6
  <2>2. QED
    BY <1>1, <1>6, <1>8, <2>1
<1>10. n # 0 => room \div f = 0
  <2> HIDE DEF room, f
  <2> SUFFICES ASSUME n # 0 PROVE room \div f = 0
    OBVIOUS
  <2>1. f * (room \div f) <= room /\ room \div f \in Nat
    BY <1>1, <1>5, Division
  <2>2. f * (room \div f) < f * 1
    BY <1>1, <1>5, <1>9, <2>1
  <2>3. room \div f < 1
    BY <1>1, <2>1, <2>2, Cancel
  <2>4. QED
    BY <2>1, <2>3
<1>11. QED
  BY <1>4, <1>10

\* There are finitely many blocks, each with packets to count.
LEMMA BlocksFinite ==
    ASSUME NEW c \in Characteristics, NEW p, p \subseteq AllSlots
    PROVE  IsFiniteSet(Blocks(p)) /\ \A b \in Blocks(p) : Weight(c, b) \in Nat
<1>1. IsFiniteSet(AllSlots)
  <2>1. 0 \in Int /\ SlotpSF - 1 \in Int
    BY SlotNumbers
  <2>2. QED
    BY <2>1, FS_Interval DEF AllSlots
<1>2. Blocks(p) \subseteq SUBSET AllSlots
  BY DEF Blocks, BlockAt, Part
<1>3. IsFiniteSet(SUBSET AllSlots)
  BY <1>1, FS_SUBSET
<1>4. IsFiniteSet(Blocks(p))
  BY <1>2, <1>3, FS_Subset
<1>5. ASSUME NEW b \in Blocks(p)
      PROVE  Weight(c, b) \in Nat
  <2>1. Cardinality(b) \in Nat
    BY <1>1, <1>2, FS_Subset, FS_CardinalityType
  <2>2. QED
    BY <2>1, PacketsFacts DEF Weight
<1>6. QED
  BY <1>4, <1>5

\* The capacity of a pattern is the sum over its blocks.
LEMMA CapacityIsTotal ==
    ASSUME NEW c \in Characteristics, NEW p, p \subseteq AllSlots
    PROVE  Capacity(c, p) = Total(c, Blocks(p)) /\ Capacity(c, p) \in Nat
<1>1. p \cap Part(0, SlotpSF) = p
  <2>1. Part(0, SlotpSF) = 0 .. SlotpSF - 1
    BY SlotNumbers, PartInterval
  <2>2. QED
    BY <2>1 DEF AllSlots
<1>2. Capacity(c, p) = Total(c, Blocks(p \cap Part(0, SlotpSF)))
  BY DEF Capacity, CalcPacketpArea, Total
<1>3. IsFiniteSet(Blocks(p)) /\ \A b \in Blocks(p) : Weight(c, b) \in Nat
  BY BlocksFinite
<1>4. Total(c, Blocks(p)) \in Nat
  BY <1>3, TotalFacts
<1>5. QED
  BY <1>1, <1>2, <1>4

\* A set with a block more.
LEMMA TotalMore ==
    ASSUME NEW c, NEW S, IsFiniteSet(S), \A b \in S : Weight(c, b) \in Nat,
           NEW T, NEW b, b \notin T, S = T \cup {b}
    PROVE  /\ Total(c, S) = Weight(c, b) + Total(c, T)
           /\ Total(c, T) \in Nat /\ Weight(c, b) \in Nat
<1>1. b \in S /\ S \ {b} = T
  OBVIOUS
<1>2. Total(c, S) = Weight(c, b) + Total(c, S \ {b})
  BY <1>1, TotalFacts
<1>3. IsFiniteSet(T) /\ \A x \in T : Weight(c, x) \in Nat
  BY FS_Subset
<1>4. Total(c, T) \in Nat
  BY <1>3, TotalFacts
<1>5. QED
  BY <1>1, <1>2, <1>4

\* A gap that is filled has its packets in addition to those of the pattern.
LEMMA CapacityGrows ==
    ASSUME NEW c \in Characteristics, NEW p, p \subseteq AllSlots, NEW i, NEW j, IsGap(p, i, j)
    PROVE  Capacity(c, p \cup i .. j - 1) >= Capacity(c, p) + Packets(c, j - i)
<1> DEFINE q == p \cup i .. j - 1
<1>0. i \in Nat /\ j \in Nat /\ i < j /\ j <= SlotpSF /\ SlotpSF \in Nat
  BY SlotNumbers DEF IsGap
<1>1. q \subseteq AllSlots
  BY <1>0 DEF AllSlots
<1>q. q = p \cup i .. j - 1
  OBVIOUS
<1> HIDE DEF q
<1>2. PICK a \in Nat, e \in Nat : Joined(p, q, i, j, a, e)
  BY <1>q, JoinedExists
<1> DEFINE K == Kept(q, a, e)
           L == Left(a, i)
           R == Right(j, e)
<1>3. /\ Part(a, e) \in Blocks(q)
      /\ Blocks(p) = K \cup L \cup R
      /\ L \cap K = {} /\ R \cap (K \cup L) = {}
  BY <1>2, <1>q, JoinedBlocks
<1>K. /\ K = Blocks(q) \ {Part(a, e)}
      /\ L = IF a < i THEN {Part(a, i)} ELSE {}
      /\ R = IF j < e THEN {Part(j, e)} ELSE {}
  BY DEF Kept, Left, Right
<1> HIDE DEF K, L, R
<1>4. a <= i /\ j <= e /\ e <= SlotpSF
  BY <1>2 DEF Joined, IsBlock
<1>5. /\ Weight(c, Part(a, e)) = Packets(c, e - a)
      /\ Weight(c, Part(a, i)) = Packets(c, i - a)
      /\ Weight(c, Part(j, e)) = Packets(c, e - j)
  BY <1>0, <1>4, PartLength DEF Weight
<1>6. Packets(c, e - a) >= Packets(c, i - a) + Packets(c, j - i) + Packets(c, e - j)
  <2>1. i - a \in Nat /\ j - i \in Nat /\ e - j \in Nat /\ j - a \in Nat /\ e - a \in Nat
    BY <1>0, <1>4
  <2>2. j - a = (i - a) + (j - i) /\ e - a = (j - a) + (e - j)
    BY <1>0
  <2>3. Packets(c, j - a) >= Packets(c, i - a) + Packets(c, j - i)
    BY <2>1, <2>2, PacketsJoin
  <2>4. Packets(c, e - a) >= Packets(c, j - a) + Packets(c, e - j)
    BY <2>1, <2>2, PacketsJoin
  <2>5. /\ Packets(c, j - a) \in Nat /\ Packets(c, i - a) \in Nat /\ Packets(c, e - a) \in Nat
        /\ Packets(c, j - i) \in Nat /\ Packets(c, e - j) \in Nat
    BY <2>1, PacketsFacts
  <2>6. QED
    BY <2>3, <2>4, <2>5
<1>7. /\ Packets(c, i - a) \in Nat /\ Packets(c, e - a) \in Nat
      /\ Packets(c, j - i) \in Nat /\ Packets(c, e - j) \in Nat /\ Packets(c, 0) = 0
  <2>1. i - a \in Nat /\ j - i \in Nat /\ e - j \in Nat /\ e - a \in Nat
    BY <1>0, <1>4
  <2>2. QED
    BY <2>1, PacketsFacts DEF Packets
<1>8. /\ IsFiniteSet(Blocks(p)) /\ \A b \in Blocks(p) : Weight(c, b) \in Nat
      /\ IsFiniteSet(Blocks(q)) /\ \A b \in Blocks(q) : Weight(c, b) \in Nat
  BY <1>1, BlocksFinite
<1>9. Total(c, Blocks(q)) = Packets(c, e - a) + Total(c, K) /\ Total(c, K) \in Nat
  <2>1. Part(a, e) \notin K /\ Blocks(q) = K \cup {Part(a, e)}
    BY <1>3, <1>K
  <2>2. QED
    BY <1>5, <1>8, <2>1, TotalMore
<1>10. Total(c, K \cup L) = Packets(c, i - a) + Total(c, K)
  <2>1. CASE a < i
    <3>1. L = {Part(a, i)} /\ Part(a, i) \notin K
      BY <1>3, <1>K, <2>1
    <3>2. IsFiniteSet(K \cup L) /\ \A b \in K \cup L : Weight(c, b) \in Nat
      <4>1. K \cup L \in SUBSET Blocks(p)
        BY <1>3
      <4>2. QED
        BY <1>8, <4>1, FS_Subset
    <3>3. QED
      BY <1>5, <3>1, <3>2, TotalMore
  <2>2. CASE ~(a < i)
    <3>1. L = {} /\ i - a = 0
      BY <1>0, <1>4, <1>K, <2>2
    <3>2. K \cup L = K
      BY <3>1
    <3>3. QED
      BY <1>7, <1>9, <3>1, <3>2
  <2>3. QED
    BY <2>1, <2>2
<1>11. Total(c, Blocks(p)) = Packets(c, e - j) + Total(c, K \cup L)
  <2>1. CASE j < e
    <3>1. R = {Part(j, e)} /\ Part(j, e) \notin K \cup L
      BY <1>3, <1>K, <2>1
    <3>2. Blocks(p) = (K \cup L) \cup {Part(j, e)}
      BY <1>3, <3>1
    <3> DEFINE S == Blocks(p)
               T == K \cup L
               b == Part(j, e)
    <3>3. IsFiniteSet(S) /\ (\A x \in S : Weight(c, x) \in Nat) /\ b \notin T /\ S = T \cup {b}
      BY <1>8, <3>1, <3>2
    <3> HIDE DEF S, T, b
    <3>4. Total(c, S) = Weight(c, b) + Total(c, T)
      BY <3>3, TotalMore
    <3>5. QED
      BY <1>5, <3>4 DEF S, T, b
  <2>2. CASE ~(j < e)
    <3>1. R = {} /\ e - j = 0
      BY <1>0, <1>4, <1>K, <2>2
    <3>2. Blocks(p) = K \cup L
      BY <1>3, <3>1
    <3>3. Total(c, K \cup L) \in Nat
      BY <1>7, <1>9, <1>10
    <3>4. QED
      BY <1>7, <3>1, <3>2, <3>3
  <2>3. QED
    BY <2>1, <2>2
<1>12. Capacity(c, p) = Total(c, Blocks(p)) /\ Capacity(c, q) = Total(c, Blocks(q))
  BY <1>1, CapacityIsTotal
<1>13. Capacity(c, q) >= Capacity(c, p) + Packets(c, j - i)
  BY <1>6, <1>7, <1>9, <1>10, <1>11, <1>12
<1>14. QED
  BY <1>13, <1>q

-----------------------------------------------------------------------------
\* A pattern made of these slots takes, besides those of own, only free ones.
Allowed(own, global) == own \cup (AllSlots \ global)

\* Such patterns that keep the slots of p.
Grown(p, own, global) == {q \in SUBSET Allowed(own, global) : p \subseteq q}

\* Slots are put only where IsSpaceLeft has seen free ones.
LEMMA AllocAreaOutsideAllowed ==
    ASSUME NEW own, NEW global, NEW p \in SUBSET Allowed(own, global),
           NEW first, NEW last, NEW n
    PROVE  AllocAreaOutside(p, global, first, last, n) \in SUBSET Allowed(own, global)
<1> DEFINE fitting == Fitting(p, global, first, last, n)
           i == Min(fitting)
<1>1. CASE fitting = {}
  BY <1>1 DEF AllocAreaOutside, IsSpaceLeft
<1>2. CASE fitting # {}
  <2>1. fitting \subseteq Nat
    BY SlotSets DEF Fitting, Part
  <2>2. i \in fitting
    <3> HIDE DEF fitting
    <3>1. QED
      BY <2>1, <1>2, MinOfSet
  <2>3. Part(i, i + n) \cap (global \cup p) = {}
    BY <2>2 DEF Fitting
  <2>4. Part(i, i + n) \subseteq AllSlots \ global
    BY <2>3 DEF Part
  <2>5. AllocAreaOutside(p, global, first, last, n) = p \cup Part(i, i + n)
    BY <1>2 DEF AllocAreaOutside, IsSpaceLeft
  <2> HIDE DEF i, fitting
  <2>6. QED
    BY <2>4, <2>5 DEF Allowed
<1>3. QED
  BY <1>1, <1>2

\* The regular pattern is made of slots of the superframe.
LEMMA InitVectorSlots == \A c : InitVector(c) \subseteq AllSlots
BY SlotSets DEF InitVector

\* Rotating a pattern keeps it in the superframe.
LEMMA RotatedSlots ==
    ASSUME NEW p \in SUBSET AllSlots, NEW k \in Nat
    PROVE  Rotated(p, k) \in SUBSET AllSlots
<1> SUFFICES ASSUME NEW i \in p PROVE (i + k) % SlotpSF \in AllSlots
  BY DEF Rotated
<1>1. i + k \in Nat
  BY SlotSets
<1>2. (i + k) % SlotpSF \in 0 .. SlotpSF - 1
  BY <1>1, SlotNumbers
<1>3. QED
  BY <1>2 DEF AllSlots

\* The blocks that conflict can be counted.
LEMMA CalcNumAreaType ==
    ASSUME NEW p \in SUBSET AllSlots, NEW global
    PROVE  CalcNumArea(p, global) \in Nat
<1>1. IsFiniteSet(AllSlots)
  <2>1. 0 \in Int /\ SlotpSF - 1 \in Int
    BY SlotNumbers
  <2>2. QED
    BY <2>1, FS_Interval DEF AllSlots
<1>2. IsFiniteSet(SUBSET AllSlots)
  BY <1>1, FS_SUBSET
<1>3. Conflicts(p, global) \in SUBSET (SUBSET AllSlots)
  BY DEF Conflicts, Blocks, BlockAt, Part
<1>4. IsFiniteSet(Conflicts(p, global))
  BY <1>2, <1>3, FS_Subset
<1>5. QED
  BY <1>4, FS_CardinalityType DEF CalcNumArea

\* The rotation with the fewest conflicts exists.
LEMMA CalcMaxPropMapSlots ==
    ASSUME NEW c \in Characteristics, NEW p \in SUBSET AllSlots, NEW global
    PROVE  CalcMaxPropMap(c, p, global) \in SUBSET AllSlots
<1> DEFINE valid == {k \in 0 .. c.gap : IsPatternValid(Rotated(p, k), global)}
           num == [k \in 0 .. c.gap - 1 |-> CalcNumArea(Rotated(p, k), global)]
           Best(k) == \A n \in DOMAIN num : num[k] < num[n] \/ (num[k] = num[n] /\ k <= n)
           best == CHOOSE k \in DOMAIN num : Best(k)
<1>1. c.gap \in Nat \ {0}
  BY DEF Characteristics
<1>2. CalcMaxPropMap(c, p, global) = Rotated(p, IF valid # {} THEN Min(valid) ELSE best)
  BY DEF CalcMaxPropMap
<1>3. num \in [0 .. c.gap - 1 -> Nat]
  <2> SUFFICES ASSUME NEW k \in 0 .. c.gap - 1 PROVE CalcNumArea(Rotated(p, k), global) \in Nat
    OBVIOUS
  <2>1. k \in Nat
    BY <1>1
  <2>2. QED
    BY <2>1, RotatedSlots, CalcNumAreaType
<1>4. best \in Nat
  <2> HIDE DEF num
  <2> DEFINE values == {num[k] : k \in 0 .. c.gap - 1}
  <2>1. values \subseteq Nat /\ num[0] \in values
    BY <1>1, <1>3
  <2>2. PICK v \in values : \A w \in values : v <= w
    <3> HIDE DEF values
    <3>1. QED
      BY <2>1, LeastNumber
  <2> DEFINE with == {k \in 0 .. c.gap - 1 : num[k] = v}
  <2>3. with \subseteq Nat /\ with # {}
    BY <2>2, <1>1
  <2>4. PICK k \in with : \A n \in with : k <= n
    <3> HIDE DEF with
    <3>1. QED
      BY <2>3, LeastNumber
  <2>5. Best(k)
    <3> SUFFICES ASSUME NEW n \in 0 .. c.gap - 1
                 PROVE  num[k] < num[n] \/ (num[k] = num[n] /\ k <= n)
      BY <1>3
    <3>1. num[n] \in values /\ num[n] \in Nat /\ num[k] = v /\ v \in Nat
      BY <1>3, <2>1, <2>2, <2>4
    <3>2. v <= num[n]
      BY <3>1, <2>2
    <3>3. CASE v = num[n]
      BY <3>3, <3>1, <2>4
    <3>4. CASE v # num[n]
      BY <3>4, <3>1, <3>2
    <3>5. QED
      BY <3>3, <3>4
  <2>6. k \in DOMAIN num
    BY <1>3, <2>4
  <2> HIDE DEF Best
  <2>7. best \in DOMAIN num
    BY <2>5, <2>6
  <2>8. QED
    BY <2>7, <1>3, <1>1
<1>5. valid # {} => Min(valid) \in Nat
  <2>1. valid \subseteq Nat
    BY <1>1
  <2> HIDE DEF valid
  <2>2. QED
    BY <2>1, MinOfSet
<1> HIDE DEF valid, best
<1>6. QED
  BY <1>2, <1>4, <1>5, RotatedSlots

\* Without the blocks that conflict a pattern is free: every slot is in a block.
LEMMA ClearConflictAreaFree ==
    ASSUME NEW p \in SUBSET AllSlots, NEW global
    PROVE  ClearConflictArea(p, global) \in SUBSET Allowed({}, global)
<1> SUFFICES ASSUME NEW x \in ClearConflictArea(p, global), x \in global PROVE FALSE
  BY DEF ClearConflictArea, Allowed
<1>1. x \in p /\ x \notin UNION Conflicts(p, global)
  BY DEF ClearConflictArea
<1>2. PICK b \in Blocks(p) : x \in b
  BY <1>1, InSomeBlock
<1>3. b \in Conflicts(p, global)
  BY <1>2 DEF Conflicts
<1>4. QED
  BY <1>1, <1>2, <1>3

\* An area is filled with free slots, in one piece or in several (GetPattern).
LEMMA FillAreaAllowed ==
    ASSUME NEW c \in Characteristics, NEW own, NEW global,
           NEW p \in SUBSET Allowed(own, global), NEW first, NEW last
    PROVE  FillArea(c, p, global, first, last) \in SUBSET Allowed(own, global)
<1> DEFINE bound == Ceil(c.adj, MinAdjSlot(c))
           initial == p
           Step(n, q) == AllocAreaOutside(q, global, first, last, MinAdjSlot(c))
           Evaluates(f, m) == f = [n \in 0 .. m |-> IF n = 0 THEN initial ELSE Step(n, f[n-1])]
           filled == CHOOSE f : Evaluates(f, bound)
<1>bound. bound \in Nat
  BY CeilType, MinAdjSlotType DEF Characteristics
<1>1. FillArea(c, p, global, first, last) =
        IF ~FindEmptyArea(c, p, first, last) THEN p
        ELSE IF IsSpaceLeft(p, global, first, last, c.adj)
        THEN AllocAreaOutside(p, global, first, last, c.adj)
        ELSE filled[bound]
  BY DEF FillArea
<1> HIDE DEF bound
<1>2. \E f : Evaluates(f, bound)
  <2> HIDE DEF Step, initial
  <2> DEFINE good == {m \in Nat : \E f : Evaluates(f, m)}
  <2>1. 0 \in good
    <3>1. Evaluates([n \in 0 .. 0 |-> initial], 0)
      OBVIOUS
    <3>2. QED
      BY <3>1
  <2>2. ASSUME NEW m \in Nat, m \in good
        PROVE  m + 1 \in good
    <3>1. PICK f : Evaluates(f, m)
      BY <2>2
    <3> DEFINE g == [n \in 0 .. m + 1 |-> IF n = m + 1 THEN Step(m + 1, f[m]) ELSE f[n]]
    <3>2. \A n \in 0 .. m + 1 : g[n] = IF n = 0 THEN initial ELSE Step(n, g[n-1])
      <4> SUFFICES ASSUME NEW n \in 0 .. m + 1
                   PROVE  g[n] = IF n = 0 THEN initial ELSE Step(n, g[n-1])
        OBVIOUS
      <4>1. CASE n = m + 1
        <5>1. m \in 0 .. m + 1 /\ m # m + 1 /\ n # 0 /\ n - 1 = m
          BY <4>1
        <5>2. g[n] = Step(m + 1, f[m]) /\ g[n-1] = f[m]
          BY <4>1, <5>1
        <5>3. QED
          BY <4>1, <5>1, <5>2
      <4>2. CASE n # m + 1
        <5>1. n \in 0 .. m /\ g[n] = f[n]
          BY <4>2
        <5>2. n # 0 => n - 1 \in 0 .. m + 1 /\ n - 1 # m + 1
          BY <4>2
        <5>3. n # 0 => g[n-1] = f[n-1]
          BY <5>2
        <5>4. f[n] = IF n = 0 THEN initial ELSE Step(n, f[n-1])
          <6>1. f = [i \in 0 .. m |-> IF i = 0 THEN initial ELSE Step(i, f[i-1])]
            BY <3>1
          <6>2. QED
            BY <5>1, <6>1
        <5>5. QED
          BY <5>1, <5>3, <5>4
      <4>3. QED
        BY <4>1, <4>2
    <3>3. g = [n \in 0 .. m + 1 |-> IF n = 0 THEN initial ELSE Step(n, g[n-1])]
      <4> HIDE DEF g
      <4>1. \E h : g = [n \in 0 .. m + 1 |-> h[n]]
        BY DEF g
      <4>2. QED
        BY <3>2, <4>1
    <3> HIDE DEF g
    <3>4. Evaluates(g, m + 1)
      BY <3>3
    <3>5. QED
      BY <3>4
  <2>3. Nat \subseteq good
    <3> HIDE DEF good
    <3>1. QED
      BY <2>1, <2>2, NumberInduction
  <2>4. QED
    BY <2>3, <1>bound
<1>3. Evaluates(filled, bound)
  BY <1>2
<1> DEFINE good == {n \in Nat : n <= bound => filled[n] \in SUBSET Allowed(own, global)}
<1>4. filled = [n \in 0 .. bound |-> IF n = 0 THEN initial ELSE Step(n, filled[n-1])]
  BY <1>3
<1> HIDE DEF filled
<1>5. \A n \in 0 .. bound : filled[n] = IF n = 0 THEN initial ELSE Step(n, filled[n-1])
  <2> HIDE DEF Step, initial
  <2>1. QED
    BY <1>4
<1>6. 0 \in good
  BY <1>5, <1>bound
<1>7. ASSUME NEW n \in Nat, n \in good
      PROVE  n + 1 \in good
  <2> SUFFICES ASSUME n + 1 <= bound PROVE filled[n + 1] \in SUBSET Allowed(own, global)
    OBVIOUS
  <2>1. n + 1 \in 0 .. bound /\ n + 1 # 0 /\ n + 1 - 1 = n /\ n <= bound
    BY <1>bound
  <2>2. filled[n + 1] = Step(n + 1, filled[n])
    <3> HIDE DEF Step, initial
    <3>1. QED
      BY <2>1, <1>5
  <2>3. filled[n] \in SUBSET Allowed(own, global)
    BY <1>7, <2>1
  <2>4. QED
    BY <2>2, <2>3, AllocAreaOutsideAllowed
<1>8. Nat \subseteq good
  <2> HIDE DEF good
  <2>1. QED
    BY <1>6, <1>7, NumberInduction
<1>9. filled[bound] \in SUBSET Allowed(own, global)
  BY <1>8, <1>bound
<1>10. QED
  BY <1>1, <1>9, AllocAreaOutsideAllowed

\* So are all areas, one after the other.
LEMMA FillAreasAllowed ==
    ASSUME NEW c \in Characteristics, NEW own, NEW global,
           NEW p \in SUBSET Allowed(own, global)
    PROVE  FillAreas(c, p, global) \in SUBSET Allowed(own, global)
<1> DEFINE bound == SlotpSF
           initial == p
           First(j) == NumberOfBPSlots + j * c.gap
           Last(j) == IF j = 0 \/ First(j + 1) < SlotpSF THEN First(j + 1) ELSE SlotpSF - 1
           Step(j, q) == IF Last(j-1) <= First(j-1) THEN q
                         ELSE FillArea(c, q, global, First(j-1), Last(j-1))
           Evaluates(f, m) == f = [n \in 0 .. m |-> IF n = 0 THEN initial ELSE Step(n, f[n-1])]
           filled == CHOOSE f : Evaluates(f, bound)
<1>bound. bound \in Nat
  BY SlotNumbers
<1>1. FillAreas(c, p, global) = filled[bound]
  BY DEF FillAreas
<1> HIDE DEF bound, First, Last
<1>2. \E f : Evaluates(f, bound)
  <2> HIDE DEF Step, initial
  <2> DEFINE good == {m \in Nat : \E f : Evaluates(f, m)}
  <2>1. 0 \in good
    <3>1. Evaluates([n \in 0 .. 0 |-> initial], 0)
      OBVIOUS
    <3>2. QED
      BY <3>1
  <2>2. ASSUME NEW m \in Nat, m \in good
        PROVE  m + 1 \in good
    <3>1. PICK f : Evaluates(f, m)
      BY <2>2
    <3> DEFINE g == [n \in 0 .. m + 1 |-> IF n = m + 1 THEN Step(m + 1, f[m]) ELSE f[n]]
    <3>2. \A n \in 0 .. m + 1 : g[n] = IF n = 0 THEN initial ELSE Step(n, g[n-1])
      <4> SUFFICES ASSUME NEW n \in 0 .. m + 1
                   PROVE  g[n] = IF n = 0 THEN initial ELSE Step(n, g[n-1])
        OBVIOUS
      <4>1. CASE n = m + 1
        <5>1. m \in 0 .. m + 1 /\ m # m + 1 /\ n # 0 /\ n - 1 = m
          BY <4>1
        <5>2. g[n] = Step(m + 1, f[m]) /\ g[n-1] = f[m]
          BY <4>1, <5>1
        <5>3. QED
          BY <4>1, <5>1, <5>2
      <4>2. CASE n # m + 1
        <5>1. n \in 0 .. m /\ g[n] = f[n]
          BY <4>2
        <5>2. n # 0 => n - 1 \in 0 .. m + 1 /\ n - 1 # m + 1
          BY <4>2
        <5>3. n # 0 => g[n-1] = f[n-1]
          BY <5>2
        <5>4. f[n] = IF n = 0 THEN initial ELSE Step(n, f[n-1])
          <6>1. f = [i \in 0 .. m |-> IF i = 0 THEN initial ELSE Step(i, f[i-1])]
            BY <3>1
          <6>2. QED
            BY <5>1, <6>1
        <5>5. QED
          BY <5>1, <5>3, <5>4
      <4>3. QED
        BY <4>1, <4>2
    <3>3. g = [n \in 0 .. m + 1 |-> IF n = 0 THEN initial ELSE Step(n, g[n-1])]
      <4> HIDE DEF g
      <4>1. \E h : g = [n \in 0 .. m + 1 |-> h[n]]
        BY DEF g
      <4>2. QED
        BY <3>2, <4>1
    <3> HIDE DEF g
    <3>4. Evaluates(g, m + 1)
      BY <3>3
    <3>5. QED
      BY <3>4
  <2>3. Nat \subseteq good
    <3> HIDE DEF good
    <3>1. QED
      BY <2>1, <2>2, NumberInduction
  <2>4. QED
    BY <2>3, <1>bound
<1>3. filled = [n \in 0 .. bound |-> IF n = 0 THEN initial ELSE Step(n, filled[n-1])]
  <2>1. Evaluates(filled, bound)
    BY <1>2
  <2>2. QED
    BY <2>1
<1> HIDE DEF filled
<1>4. \A n \in 0 .. bound : filled[n] = IF n = 0 THEN initial ELSE Step(n, filled[n-1])
  <2> HIDE DEF Step, initial
  <2>1. QED
    BY <1>3
<1> DEFINE good == {n \in Nat : n <= bound => filled[n] \in SUBSET Allowed(own, global)}
<1>5. 0 \in good
  <2>1. filled[0] = initial
    <3> HIDE DEF Step, initial
    <3>1. 0 \in 0 .. bound
      BY <1>bound
    <3>2. QED
      BY <1>4, <3>1
  <2>2. QED
    BY <2>1
<1>6. ASSUME NEW n \in Nat, n \in good
      PROVE  n + 1 \in good
  <2> SUFFICES ASSUME n + 1 <= bound PROVE filled[n + 1] \in SUBSET Allowed(own, global)
    OBVIOUS
  <2>1. n + 1 \in 0 .. bound /\ n + 1 # 0 /\ n + 1 - 1 = n /\ n <= bound
    BY <1>bound
  <2>2. filled[n + 1] = Step(n + 1, filled[n])
    <3> HIDE DEF Step, initial
    <3>1. QED
      BY <2>1, <1>4
  <2>3. filled[n] \in SUBSET Allowed(own, global)
    BY <1>6, <2>1
  <2>4. QED
    BY <2>2, <2>3, FillAreaAllowed
<1>7. Nat \subseteq good
  <2> HIDE DEF good
  <2>1. QED
    BY <1>5, <1>6, NumberInduction
<1>8. filled[bound] \in SUBSET Allowed(own, global)
  BY <1>7, <1>bound
<1>10. QED
  BY <1>1, <1>8

\* The pattern that is best so far stays one that takes free slots.
LEMMA ExtendedAllowed ==
    ASSUME NEW c \in Characteristics, NEW own, own \subseteq AllSlots, NEW global,
           NEW p \in SUBSET Allowed(own, global),
           NEW first \in Nat, NEW last \in Nat, first <= last, Part(first, last) \subseteq p,
           NEW best, best.pattern \in Grown(p, own, global)
    PROVE  Extended(c, p, global, first, last, best).pattern \in Grown(p, own, global)
<1> DEFINE add == AddSlot(c, last - first)
           before == FreeBefore(p, global, first, add)
           after == FreeAfter(p, global, last, add)
           from == IF first >= add THEN first - add ELSE 0
           to == IF last + add <= SlotpSF THEN last + add ELSE SlotpSF
           fragment == Fragment(c, last + add - first)
           one == AllocAreaOutside(p, global, from, to, add)
           now == CalcPacketpArea(c, one, first - add,
                                  IF last + add <= SlotpSF THEN last + add ELSE last)
           both == p \cup Part(first - before, last + after)
<1>1. Extended(c, p, global, first, last, best) =
        IF best.add # 0 /\ best.fragment <= fragment THEN best
        ELSE IF IsSpaceLeft(p, global, from, to, add)
        THEN [add |-> add, pattern |-> one,
              fragment |-> (last + add - first) * SlotDuration - GuardDuration
                                - now * FTDuration[c.mode],
              packets |-> now - CalcPacketpArea(c, one, first, last)]
        ELSE IF before + after >= add
        THEN [add |-> add,
              pattern |-> both,
              fragment |-> fragment,
              packets |-> Packets(c, last + add - first) - Packets(c, last - first)]
        ELSE best
  BY DEF Extended
<1>2. one \in Grown(p, own, global)
  <2>1. p \subseteq one
    BY DEF AllocAreaOutside
  <2>2. QED
    BY <2>1, AllocAreaOutsideAllowed DEF Grown
<1>3. add \in Nat
  BY PacketsFacts
<1>4. both \in Grown(p, own, global)
  <2> DEFINE beforeSet == {k \in 0 .. add : k <= first /\ Part(first - k, first) \cap (global \cup p) = {}}
             afterSet == {k \in 0 .. add : (k = 0 \/ last + k < SlotpSF)
                                /\ Part(last, last + k) \cap (global \cup p) = {}}
  <2> HIDE DEF add
  <2>1. \A i \in Nat : Part(i, i) = {}
    <3> SUFFICES ASSUME NEW i \in Nat, NEW x \in Part(i, i) PROVE FALSE
      OBVIOUS
    <3>1. x \in Nat /\ i <= x /\ x < i
      BY SlotSets DEF Part
    <3>2. QED
      BY <3>1
  <2>2. 0 \in beforeSet
    <3>1. first - 0 = first /\ 0 <= first /\ 0 \in 0 .. add
      BY <1>3
    <3>2. Part(first - 0, first) = {}
      BY <2>1, <3>1
    <3>3. QED
      BY <3>1, <3>2
  <2>3. 0 \in afterSet
    <3>1. last + 0 = last /\ 0 \in 0 .. add
      BY <1>3
    <3>2. Part(last, last + 0) = {}
      BY <2>1, <3>1
    <3>3. QED
      BY <3>1, <3>2
  <2>4. beforeSet \subseteq 0 .. add /\ afterSet \subseteq 0 .. add
    OBVIOUS
  <2>5. before = Max(beforeSet) /\ after = Max(afterSet)
    BY DEF FreeBefore, FreeAfter
  <2>6. Max(beforeSet) \in beforeSet /\ Max(afterSet) \in afterSet
    <3> HIDE DEF beforeSet, afterSet
    <3>1. QED
      BY <2>2, <2>3, <2>4, <1>3, MaxOfSet
  <2> HIDE DEF before, after
  <2>7. /\ before \in Nat /\ before <= first
        /\ Part(first - before, first) \cap (global \cup p) = {}
        /\ after \in Nat /\ Part(last, last + after) \cap (global \cup p) = {}
    BY <2>5, <2>6, <1>3
  <2>8. ASSUME NEW x \in Part(first - before, last + after)
        PROVE  x \in Allowed(own, global)
    <3>1. x \in AllSlots /\ x \in Nat /\ first - before <= x /\ x < last + after
      BY SlotSets DEF Part
    <3>2. CASE x < first
      <4>1. x \in Part(first - before, first)
        BY <3>1, <3>2 DEF Part
      <4>2. QED
        BY <4>1, <3>1, <2>7 DEF Allowed
    <3>3. CASE first <= x /\ x < last
      <4>1. x \in Part(first, last)
        BY <3>1, <3>3 DEF Part
      <4>2. QED
        BY <4>1
    <3>4. CASE last <= x
      <4>1. x \in Part(last, last + after)
        BY <3>1, <3>4 DEF Part
      <4>2. QED
        BY <4>1, <3>1, <2>7 DEF Allowed
    <3>5. QED
      BY <3>1, <3>2, <3>3, <3>4
  <2>9. QED
    BY <2>8 DEF Grown
<1> HIDE DEF add, before, after, from, to, fragment, one, now, both
<1>5. QED
  BY <1>1, <1>2, <1>4

\* So does the best of all blocks, and the first block of an empty pattern.
LEMMA BestExtensionAllowed ==
    ASSUME NEW c \in Characteristics, NEW own, own \subseteq AllSlots, NEW global,
           NEW p \in SUBSET Allowed(own, global)
    PROVE  BestExtension(c, p, global).pattern \in Grown(p, own, global)
<1> DEFINE bound == SlotpSF
           initial == [add |-> 0, pattern |-> p, fragment |-> 0, packets |-> 0]
           Step(i, x) == IF i - 1 \in BlockStarts(p)
                         THEN Extended(c, p, global, i - 1, BlockEnd(p, i - 1), x)
                         ELSE x
           Evaluates(f, m) == f = [n \in 0 .. m |-> IF n = 0 THEN initial ELSE Step(n, f[n-1])]
           filled == CHOOSE f : Evaluates(f, bound)
<1>bound. bound \in Nat
  BY SlotNumbers
<1>1. BestExtension(c, p, global) =
        IF p = {} THEN Extended(c, p, global, SlotpSF, SlotpSF, initial) ELSE filled[bound]
  BY DEF BestExtension
<1>p. p \subseteq AllSlots
  BY DEF Allowed
<1> HIDE DEF bound
<1>2. \E f : Evaluates(f, bound)
  <2> HIDE DEF Step, initial
  <2> DEFINE good == {m \in Nat : \E f : Evaluates(f, m)}
  <2>1. 0 \in good
    <3>1. Evaluates([n \in 0 .. 0 |-> initial], 0)
      OBVIOUS
    <3>2. QED
      BY <3>1
  <2>2. ASSUME NEW m \in Nat, m \in good
        PROVE  m + 1 \in good
    <3>1. PICK f : Evaluates(f, m)
      BY <2>2
    <3> DEFINE g == [n \in 0 .. m + 1 |-> IF n = m + 1 THEN Step(m + 1, f[m]) ELSE f[n]]
    <3>2. \A n \in 0 .. m + 1 : g[n] = IF n = 0 THEN initial ELSE Step(n, g[n-1])
      <4> SUFFICES ASSUME NEW n \in 0 .. m + 1
                   PROVE  g[n] = IF n = 0 THEN initial ELSE Step(n, g[n-1])
        OBVIOUS
      <4>1. CASE n = m + 1
        <5>1. m \in 0 .. m + 1 /\ m # m + 1 /\ n # 0 /\ n - 1 = m
          BY <4>1
        <5>2. g[n] = Step(m + 1, f[m]) /\ g[n-1] = f[m]
          BY <4>1, <5>1
        <5>3. QED
          BY <4>1, <5>1, <5>2
      <4>2. CASE n # m + 1
        <5>1. n \in 0 .. m /\ g[n] = f[n]
          BY <4>2
        <5>2. n # 0 => n - 1 \in 0 .. m + 1 /\ n - 1 # m + 1
          BY <4>2
        <5>3. n # 0 => g[n-1] = f[n-1]
          BY <5>2
        <5>4. f[n] = IF n = 0 THEN initial ELSE Step(n, f[n-1])
          <6>1. f = [i \in 0 .. m |-> IF i = 0 THEN initial ELSE Step(i, f[i-1])]
            BY <3>1
          <6>2. QED
            BY <5>1, <6>1
        <5>5. QED
          BY <5>1, <5>3, <5>4
      <4>3. QED
        BY <4>1, <4>2
    <3>3. g = [n \in 0 .. m + 1 |-> IF n = 0 THEN initial ELSE Step(n, g[n-1])]
      <4> HIDE DEF g
      <4>1. \E h : g = [n \in 0 .. m + 1 |-> h[n]]
        BY DEF g
      <4>2. QED
        BY <3>2, <4>1
    <3> HIDE DEF g
    <3>4. Evaluates(g, m + 1)
      BY <3>3
    <3>5. QED
      BY <3>4
  <2>3. Nat \subseteq good
    <3> HIDE DEF good
    <3>1. QED
      BY <2>1, <2>2, NumberInduction
  <2>4. QED
    BY <2>3, <1>bound
<1>3. filled = [n \in 0 .. bound |-> IF n = 0 THEN initial ELSE Step(n, filled[n-1])]
  <2>1. Evaluates(filled, bound)
    BY <1>2
  <2>2. QED
    BY <2>1
<1> HIDE DEF filled
<1>4. \A n \in 0 .. bound : filled[n] = IF n = 0 THEN initial ELSE Step(n, filled[n-1])
  <2> HIDE DEF Step, initial
  <2>1. QED
    BY <1>3
<1> DEFINE good == {n \in Nat : n <= bound => filled[n].pattern \in Grown(p, own, global)}
<1>5. 0 \in good
  <2>1. filled[0] = initial
    <3> HIDE DEF Step, initial
    <3>1. 0 \in 0 .. bound
      BY <1>bound
    <3>2. QED
      BY <1>4, <3>1
  <2>2. QED
    BY <2>1 DEF Grown
<1>6. ASSUME NEW n \in Nat, n \in good
      PROVE  n + 1 \in good
  <2> SUFFICES ASSUME n + 1 <= bound PROVE filled[n + 1].pattern \in Grown(p, own, global)
    OBVIOUS
  <2>1. n + 1 \in 0 .. bound /\ n + 1 # 0 /\ n + 1 - 1 = n /\ n <= bound
    BY <1>bound
  <2>2. filled[n + 1] = Step(n + 1, filled[n])
    <3> HIDE DEF Step, initial
    <3>1. QED
      BY <2>1, <1>4
  <2>3. filled[n].pattern \in Grown(p, own, global)
    BY <1>6, <2>1
  <2>4. CASE n \in BlockStarts(p)
    <3>1. n \in p
      BY <2>4 DEF BlockStarts
    <3>2. /\ BlockEnd(p, n) \in n + 1 .. SlotpSF
          /\ Part(n, BlockEnd(p, n)) \subseteq p
      BY <3>1, <1>p, BlockEndFacts DEF BlockAt
    <3>3. BlockEnd(p, n) \in Nat /\ n <= BlockEnd(p, n)
      BY <3>2, SlotNumbers
    <3>4. Extended(c, p, global, n, BlockEnd(p, n), filled[n]).pattern
            \in Grown(p, own, global)
      BY <3>2, <3>3, <2>3, ExtendedAllowed
    <3>5. Step(n + 1, filled[n]) = Extended(c, p, global, n, BlockEnd(p, n), filled[n])
      BY <2>1, <2>4
    <3> HIDE DEF Step
    <3>6. QED
      BY <2>2, <3>4, <3>5
  <2>5. CASE n \notin BlockStarts(p)
    <3>1. Step(n + 1, filled[n]) = filled[n]
      BY <2>1, <2>5
    <3> HIDE DEF Step
    <3>2. QED
      BY <2>2, <2>3, <3>1
  <2>6. QED
    BY <2>4, <2>5
<1>7. Nat \subseteq good
  <2> HIDE DEF good
  <2>1. QED
    BY <1>5, <1>6, NumberInduction
<1>8. filled[bound].pattern \in Grown(p, own, global)
  BY <1>7, <1>bound
<1>9. p = {} => Extended(c, p, global, SlotpSF, SlotpSF, initial).pattern
                    \in Grown(p, own, global)
  <2>1. Part(SlotpSF, SlotpSF) \subseteq p
    <3> SUFFICES ASSUME NEW x \in Part(SlotpSF, SlotpSF) PROVE FALSE
      OBVIOUS
    <3>1. x \in Nat /\ SlotpSF <= x /\ x < SlotpSF
      BY SlotSets DEF Part
    <3>2. QED
      BY <3>1, SlotNumbers
  <2>2. SlotpSF \in Nat /\ SlotpSF <= SlotpSF /\ initial.pattern \in Grown(p, own, global)
    BY SlotNumbers DEF Grown
  <2> HIDE DEF initial
  <2>3. QED
    BY <2>1, <2>2, ExtendedAllowed
<1> HIDE DEF initial
<1>10. QED
  BY <1>1, <1>8, <1>9

\* So does every round of BestEfficency.
LEMMA BestEfficencyAllowed ==
    ASSUME NEW c \in Characteristics, NEW own, own \subseteq AllSlots, NEW global,
           NEW p \in SUBSET Allowed(own, global)
    PROVE  BestEfficency(c, p, global) \in Grown(p, own, global)
<1> DEFINE bound == SlotpSF
           initial == [pattern |-> p, missing |-> CalcMissingPackets(c, p), done |-> FALSE]
           Step(i, r) == NextRound(r, BestExtension(c, r.pattern, global))
           Evaluates(f, m) == f = [n \in 0 .. m |-> IF n = 0 THEN initial ELSE Step(n, f[n-1])]
           filled == CHOOSE f : Evaluates(f, bound)
<1>bound. bound \in Nat
  BY SlotNumbers
<1>1. BestEfficency(c, p, global) = filled[bound].pattern
  BY DEF BestEfficency
<1> HIDE DEF bound
<1>2. \E f : Evaluates(f, bound)
  <2> HIDE DEF Step, initial
  <2> DEFINE good == {m \in Nat : \E f : Evaluates(f, m)}
  <2>1. 0 \in good
    <3>1. Evaluates([n \in 0 .. 0 |-> initial], 0)
      OBVIOUS
    <3>2. QED
      BY <3>1
  <2>2. ASSUME NEW m \in Nat, m \in good
        PROVE  m + 1 \in good
    <3>1. PICK f : Evaluates(f, m)
      BY <2>2
    <3> DEFINE g == [n \in 0 .. m + 1 |-> IF n = m + 1 THEN Step(m + 1, f[m]) ELSE f[n]]
    <3>2. \A n \in 0 .. m + 1 : g[n] = IF n = 0 THEN initial ELSE Step(n, g[n-1])
      <4> SUFFICES ASSUME NEW n \in 0 .. m + 1
                   PROVE  g[n] = IF n = 0 THEN initial ELSE Step(n, g[n-1])
        OBVIOUS
      <4>1. CASE n = m + 1
        <5>1. m \in 0 .. m + 1 /\ m # m + 1 /\ n # 0 /\ n - 1 = m
          BY <4>1
        <5>2. g[n] = Step(m + 1, f[m]) /\ g[n-1] = f[m]
          BY <4>1, <5>1
        <5>3. QED
          BY <4>1, <5>1, <5>2
      <4>2. CASE n # m + 1
        <5>1. n \in 0 .. m /\ g[n] = f[n]
          BY <4>2
        <5>2. n # 0 => n - 1 \in 0 .. m + 1 /\ n - 1 # m + 1
          BY <4>2
        <5>3. n # 0 => g[n-1] = f[n-1]
          BY <5>2
        <5>4. f[n] = IF n = 0 THEN initial ELSE Step(n, f[n-1])
          <6>1. f = [i \in 0 .. m |-> IF i = 0 THEN initial ELSE Step(i, f[i-1])]
            BY <3>1
          <6>2. QED
            BY <5>1, <6>1
        <5>5. QED
          BY <5>1, <5>3, <5>4
      <4>3. QED
        BY <4>1, <4>2
    <3>3. g = [n \in 0 .. m + 1 |-> IF n = 0 THEN initial ELSE Step(n, g[n-1])]
      <4> HIDE DEF g
      <4>1. \E h : g = [n \in 0 .. m + 1 |-> h[n]]
        BY DEF g
      <4>2. QED
        BY <3>2, <4>1
    <3> HIDE DEF g
    <3>4. Evaluates(g, m + 1)
      BY <3>3
    <3>5. QED
      BY <3>4
  <2>3. Nat \subseteq good
    <3> HIDE DEF good
    <3>1. QED
      BY <2>1, <2>2, NumberInduction
  <2>4. QED
    BY <2>3, <1>bound
<1>3. filled = [n \in 0 .. bound |-> IF n = 0 THEN initial ELSE Step(n, filled[n-1])]
  <2>1. Evaluates(filled, bound)
    BY <1>2
  <2>2. QED
    BY <2>1
<1> HIDE DEF filled
<1>4. \A n \in 0 .. bound : filled[n] = IF n = 0 THEN initial ELSE Step(n, filled[n-1])
  <2> HIDE DEF Step, initial
  <2>1. QED
    BY <1>3
<1> DEFINE good == {n \in Nat : n <= bound => filled[n].pattern \in Grown(p, own, global)}
<1>5. 0 \in good
  <2>1. filled[0] = initial
    <3> HIDE DEF Step, initial
    <3>1. 0 \in 0 .. bound
      BY <1>bound
    <3>2. QED
      BY <1>4, <3>1
  <2>2. QED
    BY <2>1 DEF Grown
<1>6. ASSUME NEW n \in Nat, n \in good
      PROVE  n + 1 \in good
  <2> SUFFICES ASSUME n + 1 <= bound PROVE filled[n + 1].pattern \in Grown(p, own, global)
    OBVIOUS
  <2>1. n + 1 \in 0 .. bound /\ n + 1 # 0 /\ n + 1 - 1 = n /\ n <= bound
    BY <1>bound
  <2>2. filled[n + 1] = Step(n + 1, filled[n])
    <3> HIDE DEF Step, initial
    <3>1. QED
      BY <2>1, <1>4
  <2>3. filled[n].pattern \in Grown(p, own, global)
    BY <1>6, <2>1
  <2>4. BestExtension(c, filled[n].pattern, global).pattern \in Grown(p, own, global)
    BY <2>3, BestExtensionAllowed DEF Grown
  <2>5. Step(n + 1, filled[n]).pattern \in Grown(p, own, global)
    BY <2>3, <2>4 DEF NextRound
  <2> HIDE DEF Step
  <2>6. QED
    BY <2>2, <2>5
<1>7. Nat \subseteq good
  <2> HIDE DEF good
  <2>1. QED
    BY <1>5, <1>6, NumberInduction
<1>8. filled[bound].pattern \in Grown(p, own, global)
  BY <1>7, <1>bound
<1>9. QED
  BY <1>1, <1>8

\* How much GapFilling takes of a gap, and what it does at slot i.
GapSize(c, free, i, f) ==
    LET length == BlockEnd(free, i) - i
        enough == {n \in 1 .. length : Packets(c, n) >= f.missing}
    IN  IF enough = {} THEN length ELSE Min(enough)

GapStep(c, free, i, f) ==
    LET size == GapSize(c, free, i, f)
        counted == IF i + size = SlotpSF THEN size - 1 ELSE size
    IN  IF i \notin BlockStarts(free) \/ f.missing <= 0 THEN f
        ELSE IF size < MinAdjSlot(c) THEN f
        ELSE [pattern |-> f.pattern \cup Part(i, i + size),
              missing |-> f.missing - Packets(c, counted)]

\* What it has after each slot.
GapRun(c, p, global, f) ==
    /\ f[0] = [pattern |-> p, missing |-> CalcMissingPackets(c, p)]
    /\ \A n \in 0 .. SlotpSF - 1 : f[n + 1] = GapStep(c, AllSlots \ (global \cup p), n, f[n])
    /\ GapFilling(c, p, global) = f[SlotpSF].pattern

\* GapFilling goes through the slots in these steps.
LEMMA GapFillingRuns ==
    ASSUME NEW c, NEW p, NEW global
    PROVE  \E f : GapRun(c, p, global, f)
<1> DEFINE bound == SlotpSF
           free == AllSlots \ (global \cup p)
           initial == [pattern |-> p, missing |-> CalcMissingPackets(c, p)]
           Step(i, f) == GapStep(c, free, i - 1, f)
           Evaluates(f, m) == f = [n \in 0 .. m |-> IF n = 0 THEN initial ELSE Step(n, f[n-1])]
           filled == CHOOSE f : Evaluates(f, bound)
<1>bound. bound \in Nat
  BY SlotNumbers
<1>1. GapFilling(c, p, global) = filled[bound].pattern
  BY DEF GapFilling, GapStep, GapSize
<1> HIDE DEF bound, free
<1>2. \E f : Evaluates(f, bound)
  <2> HIDE DEF Step, initial
  <2> DEFINE good == {m \in Nat : \E f : Evaluates(f, m)}
  <2>1. 0 \in good
    <3>1. Evaluates([n \in 0 .. 0 |-> initial], 0)
      OBVIOUS
    <3>2. QED
      BY <3>1
  <2>2. ASSUME NEW m \in Nat, m \in good
        PROVE  m + 1 \in good
    <3>1. PICK f : Evaluates(f, m)
      BY <2>2
    <3> DEFINE g == [n \in 0 .. m + 1 |-> IF n = m + 1 THEN Step(m + 1, f[m]) ELSE f[n]]
    <3>2. \A n \in 0 .. m + 1 : g[n] = IF n = 0 THEN initial ELSE Step(n, g[n-1])
      <4> SUFFICES ASSUME NEW n \in 0 .. m + 1
                   PROVE  g[n] = IF n = 0 THEN initial ELSE Step(n, g[n-1])
        OBVIOUS
      <4>1. CASE n = m + 1
        <5>1. m \in 0 .. m + 1 /\ m # m + 1 /\ n # 0 /\ n - 1 = m
          BY <4>1
        <5>2. g[n] = Step(m + 1, f[m]) /\ g[n-1] = f[m]
          BY <4>1, <5>1
        <5>3. QED
          BY <4>1, <5>1, <5>2
      <4>2. CASE n # m + 1
        <5>1. n \in 0 .. m /\ g[n] = f[n]
          BY <4>2
        <5>2. n # 0 => n - 1 \in 0 .. m + 1 /\ n - 1 # m + 1
          BY <4>2
        <5>3. n # 0 => g[n-1] = f[n-1]
          BY <5>2
        <5>4. f[n] = IF n = 0 THEN initial ELSE Step(n, f[n-1])
          <6>1. f = [i \in 0 .. m |-> IF i = 0 THEN initial ELSE Step(i, f[i-1])]
            BY <3>1
          <6>2. QED
            BY <5>1, <6>1
        <5>5. QED
          BY <5>1, <5>3, <5>4
      <4>3. QED
        BY <4>1, <4>2
    <3>3. g = [n \in 0 .. m + 1 |-> IF n = 0 THEN initial ELSE Step(n, g[n-1])]
      <4> HIDE DEF g
      <4>1. \E h : g = [n \in 0 .. m + 1 |-> h[n]]
        BY DEF g
      <4>2. QED
        BY <3>2, <4>1
    <3> HIDE DEF g
    <3>4. Evaluates(g, m + 1)
      BY <3>3
    <3>5. QED
      BY <3>4
  <2>3. Nat \subseteq good
    <3> HIDE DEF good
    <3>1. QED
      BY <2>1, <2>2, NumberInduction
  <2>4. QED
    BY <2>3, <1>bound
<1>3. filled = [n \in 0 .. bound |-> IF n = 0 THEN initial ELSE Step(n, filled[n-1])]
  <2>1. Evaluates(filled, bound)
    BY <1>2
  <2>2. QED
    BY <2>1
<1> HIDE DEF filled
<1>4. \A n \in 0 .. bound : filled[n] = IF n = 0 THEN initial ELSE Step(n, filled[n-1])
  <2> HIDE DEF Step, initial
  <2>1. QED
    BY <1>3
<1>5. filled[0] = initial
  <2> HIDE DEF Step, initial
  <2>1. 0 \in 0 .. bound
    BY <1>bound
  <2>2. QED
    BY <1>4, <2>1
<1>6. ASSUME NEW n \in 0 .. bound - 1
      PROVE  filled[n + 1] = GapStep(c, free, n, filled[n])
  <2>1. n + 1 \in 0 .. bound /\ n + 1 # 0 /\ n + 1 - 1 = n
    BY <1>bound
  <2>2. filled[n + 1] = Step(n + 1, filled[n])
    <3> HIDE DEF Step, initial
    <3>1. QED
      BY <2>1, <1>4
  <2>3. QED
    BY <2>1, <2>2
<1>7. GapRun(c, p, global, filled)
  BY <1>1, <1>5, <1>6 DEF bound, free, GapRun
<1>8. QED
  BY <1>7

\* The block of free slots from i: where it ends, and what is taken of it.
LEMMA GapSizeFacts ==
    ASSUME NEW c \in Characteristics, NEW free, free \subseteq AllSlots, NEW i \in BlockStarts(free),
           NEW f, f.missing \in Int, f.missing > 0
    PROVE  \E e \in Nat : /\ IsBlock(free, i, e)
                          /\ GapSize(c, free, i, f) \in 1 .. e - i
                          /\ \/ GapSize(c, free, i, f) = e - i
                             \/ /\ Packets(c, GapSize(c, free, i, f)) >= f.missing
                                /\ GapSize(c, free, i, f) >= MinAdjSlot(c)
<1> DEFINE e == BlockEnd(free, i)
           length == e - i
           enough == {n \in 1 .. length : Packets(c, n) >= f.missing}
           size == GapSize(c, free, i, f)
<1>1. i \in free /\ i - 1 \notin free /\ i \in AllSlots /\ i \in Nat
  BY SlotSets DEF BlockStarts
<1>2. e \in i + 1 .. SlotpSF /\ e \notin free /\ BlockAt(free, i) \subseteq free
  BY <1>1, BlockEndFacts
<1>3. size = IF enough = {} THEN length ELSE Min(enough)
  BY DEF GapSize
<1>4. BlockAt(free, i) = Part(i, e)
  BY DEF BlockAt
<1> HIDE DEF e, size
<1>5. e \in Nat /\ e \in Int /\ i < e /\ e <= SlotpSF
  BY <1>1, <1>2, SlotNumbers
<1>6. IsBlock(free, i, e)
  <2>1. Part(i, e) = i .. e - 1
    BY <1>1, <1>5, PartInterval
  <2>2. QED
    BY <1>1, <1>2, <1>4, <1>5, <2>1 DEF IsBlock
<1>7. length \in Nat \ {0}
  BY <1>1, <1>5
<1>8. CASE enough = {}
  <2>1. size = length /\ size \in 1 .. length
    BY <1>3, <1>7, <1>8
  <2>2. QED
    BY <1>5, <1>6, <2>1 DEF size
<1>9. CASE enough # {}
  <2>1. enough \subseteq Nat
    BY <1>7
  <2>2. Min(enough) \in enough
    <3> HIDE DEF enough
    <3>1. QED
      BY <1>9, <2>1, MinOfSet
  <2>3. size \in 1 .. length /\ Packets(c, size) >= f.missing
    BY <1>3, <1>9, <2>2
  <2>4. size \in Nat /\ Packets(c, size) \in Int /\ MinAdjSlot(c) \in Nat
    BY <1>7, <2>3, PacketsFacts, MinAdjSlotType
  <2>5. size >= MinAdjSlot(c)
    <3> SUFFICES ASSUME size < MinAdjSlot(c) PROVE FALSE
      BY <2>4
    <3>1. Packets(c, size) = 0
      BY <2>4, PacketsOfSmall
    <3>2. QED
      BY <2>3, <3>1
  <2>6. QED
    BY <1>5, <1>6, <2>3, <2>5 DEF size
<1>10. QED
  BY <1>8, <1>9

\* After the gaps that begin before slot n: only gaps are taken, those taken reach
\* past n only without a slot between, the packets counted are there, and as long
\* as some are missing every gap that could take one is full.
GapsTaken(c, p, free, n, f) ==
    /\ f.missing \in Int
    /\ p \subseteq f.pattern /\ f.pattern \ p \subseteq free
    /\ \A x \in f.pattern \ p : x >= n => \A j \in n - 1 .. x : j \in free
    /\ Capacity(c, f.pattern) >= c.packets - f.missing
    /\ f.missing > 0 =>
        \A s, e \in Nat : IsBlock(free, s, e) /\ s < n /\ MinAdjSlot(c) <= e - s =>
                            s .. e - 1 \subseteq f.pattern

\* A slot with which no gap begins, or one that is too short.
LEMMA GapStepSkips ==
    ASSUME NEW c \in Characteristics, NEW p, p \subseteq AllSlots,
           NEW free, free \subseteq AllSlots \ p, NEW n \in 0 .. SlotpSF - 1,
           NEW f, GapsTaken(c, p, free, n, f),
           f.missing > 0 => \A e \in Nat : IsBlock(free, n, e) => e - n < MinAdjSlot(c)
    PROVE  GapsTaken(c, p, free, n + 1, f)
<1>0. n \in Nat /\ n < SlotpSF
  BY SlotNumbers
<1>1. ASSUME NEW x \in f.pattern \ p, x >= n + 1, NEW j \in n + 1 - 1 .. x
      PROVE  j \in free
  <2>1. x \in Nat
    BY SlotSets DEF GapsTaken
  <2>2. x >= n /\ j \in n - 1 .. x
    BY <1>0, <1>1, <2>1
  <2>3. QED
    BY <2>2 DEF GapsTaken
<1>2. ASSUME f.missing > 0, NEW s \in Nat, NEW e \in Nat,
             IsBlock(free, s, e), s < n + 1, MinAdjSlot(c) <= e - s
      PROVE  s .. e - 1 \subseteq f.pattern
  <2>1. MinAdjSlot(c) \in Nat
    BY MinAdjSlotType
  <2>2. s # n
    BY <1>2, <2>1, <1>0
  <2>3. s < n
    BY <1>0, <1>2, <2>2
  <2>4. QED
    BY <1>2, <2>3 DEF GapsTaken
<1>3. QED
  BY <1>1, <1>2 DEF GapsTaken

\* More slots of a block have no fewer packets.
LEMMA PacketsOneLess ==
    ASSUME NEW c \in Characteristics, NEW n \in Nat \ {0}
    PROVE  Packets(c, n - 1) <= Packets(c, n) /\ Packets(c, n - 1) \in Nat /\ Packets(c, n) \in Nat
<1>1. n - 1 \in Nat /\ n = (n - 1) + 1 /\ 1 \in Nat
  OBVIOUS
<1>2. Packets(c, n - 1) \in Nat /\ Packets(c, 1) \in Nat /\ Packets(c, n) \in Nat
  BY <1>1, PacketsFacts
<1>3. Packets(c, n) >= Packets(c, n - 1) + Packets(c, 1)
  BY <1>1, PacketsJoin
<1>4. QED
  BY <1>2, <1>3

\* A gap that is taken.
LEMMA GapStepTakes ==
    ASSUME NEW c \in Characteristics, NEW p, p \subseteq AllSlots,
           NEW free, free \subseteq AllSlots \ p, NEW n \in 0 .. SlotpSF - 1,
           NEW f, GapsTaken(c, p, free, n, f), f.missing > 0,
           NEW e \in Nat, IsBlock(free, n, e), NEW size \in 1 .. e - n,
           size = e - n \/ Packets(c, size) >= f.missing,
           NEW counted, counted = (IF n + size = SlotpSF THEN size - 1 ELSE size)
    PROVE  GapsTaken(c, p, free, n + 1, [pattern |-> f.pattern \cup Part(n, n + size),
                                         missing |-> f.missing - Packets(c, counted)])
<1> DEFINE g == [pattern |-> f.pattern \cup Part(n, n + size),
                 missing |-> f.missing - Packets(c, counted)]
<1>0. /\ n \in Nat /\ n < e /\ e <= SlotpSF /\ size \in Nat \ {0} /\ n + size <= e
      /\ n + size <= SlotpSF /\ n + size \in Nat /\ SlotpSF \in Nat
      /\ n \in free /\ n - 1 \notin free
      /\ \A x \in n .. e - 1 : x \in free
  BY SlotNumbers DEF IsBlock
<1>1. Part(n, n + size) = n .. n + size - 1
  BY <1>0, PartInterval
<1>2. g.pattern = f.pattern \cup n .. n + size - 1 /\ g.missing = f.missing - Packets(c, counted)
  BY <1>1
<1>3. counted \in Nat /\ Packets(c, counted) \in Nat /\ Packets(c, size) \in Nat
      /\ Packets(c, counted) <= Packets(c, size)
  BY <1>0, PacketsOneLess, PacketsFacts
<1>f. /\ f.missing \in Int
      /\ p \subseteq f.pattern /\ f.pattern \ p \subseteq free
      /\ \A x \in f.pattern \ p : x >= n => \A j \in n - 1 .. x : j \in free
      /\ Capacity(c, f.pattern) >= c.packets - f.missing
      /\ \A s, t \in Nat : IsBlock(free, s, t) /\ s < n /\ MinAdjSlot(c) <= t - s =>
                            s .. t - 1 \subseteq f.pattern
  BY DEF GapsTaken
<1> HIDE DEF g
<1>4. g.missing \in Int
  BY <1>2, <1>3, <1>f
<1>5. n .. n + size - 1 \subseteq free
  BY <1>0
<1>6. p \subseteq g.pattern /\ g.pattern \ p \subseteq free
  BY <1>2, <1>5, <1>f
<1>m. free \subseteq Nat /\ n + 1 - 1 = n
  <2>1. free \subseteq Nat
    BY SlotSets
  <2>2. n + 1 - 1 = n
    BY <1>0
  <2>3. QED
    BY <2>1, <2>2
<1>7. ASSUME NEW x \in g.pattern \ p, x >= n + 1, NEW j \in n + 1 - 1 .. x
      PROVE  j \in free
  <2>f. x \in free
    BY <1>6, <1>7
  <2>0. x \in Nat /\ n + 1 - 1 = n
    BY <1>m, <2>f
  <2>1. x \in Nat /\ x >= n /\ j \in n .. x
    BY <1>0, <1>7, <2>0
  <2>2. CASE x \in f.pattern
    <3>1. j \in n - 1 .. x
      BY <1>0, <2>1
    <3>2. QED
      BY <1>f, <1>7, <2>1, <2>2, <3>1
  <2>3. CASE x \in n .. n + size - 1
    <3>1. j \in n .. n + size - 1
      BY <1>0, <2>1, <2>3
    <3>2. QED
      BY <1>5, <3>1
  <2>4. QED
    BY <1>2, <1>7, <2>2, <2>3
<1>8. IsGap(f.pattern, n, n + size)
  <2> SUFFICES ASSUME NEW x \in n .. n + size - 1, x \in f.pattern PROVE FALSE
    BY <1>0 DEF IsGap
  <2>1. x \in free /\ x \notin p /\ x \in Nat /\ x >= n
    BY <1>0, <1>5, SlotSets
  <2>2. n - 1 \in n - 1 .. x
    BY <1>0, <2>1
  <2>3. QED
    BY <1>0, <1>f, <2>1, <2>2
<1>9. f.pattern \subseteq AllSlots
  BY <1>f
<1>10. Capacity(c, g.pattern) >= c.packets - g.missing
  <2>1. Capacity(c, g.pattern) >= Capacity(c, f.pattern) + Packets(c, size)
    <3> DEFINE m == n + size
               q == f.pattern
    <3>1. m - n = size /\ IsGap(q, n, m) /\ q \subseteq AllSlots /\ g.pattern = q \cup n .. m - 1
      BY <1>0, <1>2, <1>8, <1>9
    <3> HIDE DEF m, q
    <3>2. Capacity(c, q \cup n .. m - 1) >= Capacity(c, q) + Packets(c, m - n)
      BY <3>1, CapacityGrows
    <3>3. QED
      BY <3>1, <3>2 DEF q
  <2>2. Capacity(c, f.pattern) \in Nat /\ Capacity(c, g.pattern) \in Nat
    <3>1. g.pattern \subseteq AllSlots
      BY <1>6
    <3>2. QED
      BY <1>9, <3>1, CapacityIsTotal
  <2>3. c.packets \in Nat
    BY DEF Characteristics
  <2>4. QED
    BY <1>2, <1>3, <1>f, <2>1, <2>2, <2>3
<1>11. ASSUME g.missing > 0, NEW s \in Nat, NEW t \in Nat,
              IsBlock(free, s, t), s < n + 1, MinAdjSlot(c) <= t - s
       PROVE  s .. t - 1 \subseteq g.pattern
  <2>1. CASE s < n
    BY <1>2, <1>f, <1>11, <2>1
  <2>2. CASE s = n
    <3>1. t = e
      <4>1. IsBlock(free, n, t) /\ n < t
        BY <1>11, <2>2 DEF IsBlock
      <4>2. (n = n /\ t = e) \/ t < n \/ e < n
        BY <1>0, <4>1, BlocksApart
      <4>3. QED
        BY <1>0, <4>1, <4>2
    <3>2. size = e - n
      <4> SUFFICES ASSUME size # e - n PROVE FALSE
        OBVIOUS
      <4>1. Packets(c, size) >= f.missing /\ n + size # SlotpSF
        BY <1>0, <4>1
      <4>2. counted = size
        BY <4>1
      <4>3. QED
        BY <1>2, <1>3, <1>f, <1>11, <4>1, <4>2
    <3>3. QED
      BY <1>0, <1>2, <2>2, <3>1, <3>2
  <2>3. QED
    BY <1>0, <1>11, <2>1, <2>2
<1>12. GapsTaken(c, p, free, n + 1, g)
  BY <1>4, <1>6, <1>7, <1>10, <1>11 DEF GapsTaken
<1>13. QED
  BY <1>12 DEF g

\* One step of GapFilling.
LEMMA GapStepKeeps ==
    ASSUME NEW c \in Characteristics, NEW p, p \subseteq AllSlots,
           NEW free, free \subseteq AllSlots \ p, NEW n \in 0 .. SlotpSF - 1,
           NEW f, GapsTaken(c, p, free, n, f)
    PROVE  GapsTaken(c, p, free, n + 1, GapStep(c, free, n, f))
<1> DEFINE size == GapSize(c, free, n, f)
           counted == IF n + size = SlotpSF THEN size - 1 ELSE size
<1>1. GapStep(c, free, n, f) =
        IF n \notin BlockStarts(free) \/ f.missing <= 0 THEN f
        ELSE IF size < MinAdjSlot(c) THEN f
        ELSE [pattern |-> f.pattern \cup Part(n, n + size),
              missing |-> f.missing - Packets(c, counted)]
  BY DEF GapStep
<1>c. counted = IF n + size = SlotpSF THEN size - 1 ELSE size
  OBVIOUS
<1>s. size = GapSize(c, free, n, f)
  OBVIOUS
<1> HIDE DEF size, counted
<1>2. n \in Nat /\ f.missing \in Int /\ MinAdjSlot(c) \in Nat
  BY MinAdjSlotType DEF GapsTaken
<1>3. CASE n \notin BlockStarts(free) \/ f.missing <= 0
  <2>1. f.missing > 0 => \A e \in Nat : IsBlock(free, n, e) => e - n < MinAdjSlot(c)
    BY <1>2, <1>3 DEF IsBlock, BlockStarts
  <2>2. QED
    BY <1>1, <1>3, <2>1, GapStepSkips
<1>4. CASE ~(n \notin BlockStarts(free) \/ f.missing <= 0)
  <2>1. n \in BlockStarts(free) /\ f.missing > 0 /\ free \subseteq AllSlots
    BY <1>2, <1>4
  <2>2. PICK e \in Nat : /\ IsBlock(free, n, e)
                         /\ size \in 1 .. e - n
                         /\ \/ size = e - n
                            \/ Packets(c, size) >= f.missing /\ size >= MinAdjSlot(c)
    BY <1>2, <1>s, <2>1, GapSizeFacts
  <2>3. CASE size < MinAdjSlot(c)
    <3>1. size = e - n
      BY <1>2, <2>2, <2>3
    <3>2. ASSUME NEW t \in Nat, IsBlock(free, n, t)
          PROVE  t - n < MinAdjSlot(c)
      <4>1. n < t /\ n < e
        BY <2>2, <3>2 DEF IsBlock
      <4>2. (n = n /\ t = e) \/ t < n \/ e < n
        BY <1>2, <2>2, <3>2, BlocksApart
      <4>3. QED
        BY <1>2, <2>3, <3>1, <4>1, <4>2
    <3>3. GapsTaken(c, p, free, n + 1, f)
      BY <3>2, GapStepSkips
    <3>4. QED
      BY <1>1, <1>4, <2>3, <3>3
  <2>4. CASE ~(size < MinAdjSlot(c))
    <3>1. GapsTaken(c, p, free, n + 1, [pattern |-> f.pattern \cup Part(n, n + size),
                                        missing |-> f.missing - Packets(c, counted)])
      BY <1>c, <2>1, <2>2, GapStepTakes
    <3>2. QED
      BY <1>1, <1>4, <2>4, <3>1
  <2>5. QED
    BY <2>3, <2>4
<1>5. QED
  BY <1>3, <1>4

\* No n adjacent slots are left besides those that are taken.
NoGap(taken, n) == \A i \in AllSlots : i + n <= SlotpSF => Part(i, i + n) \cap taken # {}

\* Packets are missing of a pattern if it does not have them.
LEMMA MissingFacts ==
    ASSUME NEW c \in Characteristics, NEW p, p \subseteq AllSlots
    PROVE  /\ CalcMissingPackets(c, p) \in Nat
           /\ CalcMissingPackets(c, p) = 0 <=> Capacity(c, p) >= c.packets
           /\ Capacity(c, p) >= c.packets - CalcMissingPackets(c, p)
           /\ Capacity(c, p) \in Nat /\ c.packets \in Nat
<1>1. Capacity(c, p) \in Nat /\ c.packets \in Nat
  BY CapacityIsTotal DEF Characteristics
<1>2. QED
  BY <1>1 DEF CalcMissingPackets

\* GapFilling keeps the pattern, adds free slots only, and leaves packets missing
\* only if no gap is left that could take one.
LEMMA GapFillingFacts ==
    ASSUME NEW c \in Characteristics, NEW own, own \subseteq AllSlots, NEW global,
           NEW p \in SUBSET Allowed(own, global)
    PROVE  /\ GapFilling(c, p, global) \in Grown(p, own, global)
           /\ \/ CalcMissingPackets(c, GapFilling(c, p, global)) = 0
              \/ NoGap(global \cup GapFilling(c, p, global), MinAdjSlot(c))
<1> DEFINE free == AllSlots \ (global \cup p)
           q == GapFilling(c, p, global)
<1>1. p \subseteq AllSlots /\ free \subseteq AllSlots \ p
  BY DEF Allowed
<1>r. PICK f : GapRun(c, p, global, f)
  BY GapFillingRuns
<1>2. /\ f[0] = [pattern |-> p, missing |-> CalcMissingPackets(c, p)]
      /\ \A n \in 0 .. SlotpSF - 1 : f[n + 1] = GapStep(c, free, n, f[n])
      /\ q = f[SlotpSF].pattern
  BY <1>r DEF GapRun
<1> DEFINE good == {n \in Nat : n <= SlotpSF => GapsTaken(c, p, free, n, f[n])}
<1>3. 0 \in good
  <2>1. f[0].pattern = p /\ f[0].missing = CalcMissingPackets(c, p)
    BY <1>2
  <2>2. CalcMissingPackets(c, p) \in Int /\ Capacity(c, p) >= c.packets - CalcMissingPackets(c, p)
    BY <1>1, MissingFacts
  <2>3. GapsTaken(c, p, free, 0, f[0])
    BY <2>1, <2>2 DEF GapsTaken
  <2>4. QED
    BY <2>3
<1>4. ASSUME NEW n \in Nat, n \in good
      PROVE  n + 1 \in good
  <2> SUFFICES ASSUME n + 1 <= SlotpSF PROVE GapsTaken(c, p, free, n + 1, f[n + 1])
    OBVIOUS
  <2>1. n \in 0 .. SlotpSF - 1 /\ n <= SlotpSF
    BY SlotNumbers
  <2>2. GapsTaken(c, p, free, n, f[n])
    BY <1>4, <2>1
  <2>3. f[n + 1] = GapStep(c, free, n, f[n])
    BY <1>2, <2>1
  <2> HIDE DEF free
  <2>4. GapsTaken(c, p, free, n + 1, GapStep(c, free, n, f[n]))
    BY <1>1, <2>1, <2>2, GapStepKeeps
  <2>5. QED
    BY <2>3, <2>4
<1>5. Nat \subseteq good
  <2> HIDE DEF good
  <2>1. QED
    BY <1>3, <1>4, NumberInduction
<1> DEFINE missing == f[SlotpSF].missing
<1>6. GapsTaken(c, p, free, SlotpSF, f[SlotpSF])
  BY <1>5, SlotNumbers
<1> HIDE DEF q
<1>7. /\ missing \in Int /\ p \subseteq q /\ q \ p \subseteq free
      /\ Capacity(c, q) >= c.packets - missing
      /\ missing > 0 => \A s, e \in Nat : IsBlock(free, s, e) /\ s < SlotpSF
                                            /\ MinAdjSlot(c) <= e - s => s .. e - 1 \subseteq q
  BY <1>2, <1>6 DEF GapsTaken
<1>8. q \in Grown(p, own, global)
  BY <1>7 DEF Allowed, Grown
<1> HIDE DEF missing
<1>9. CASE missing <= 0
  <2>1. q \subseteq AllSlots
    BY <1>1, <1>7
  <2>2. Capacity(c, q) \in Nat /\ c.packets \in Nat
        /\ (Capacity(c, q) >= c.packets => CalcMissingPackets(c, q) = 0)
    BY <2>1, MissingFacts
  <2>3. QED
    BY <1>7, <1>8, <1>9, <2>2 DEF q
<1>10. CASE missing > 0
  <2> DEFINE m == MinAdjSlot(c)
  <2>0. m \in Nat \ {0}
    BY MinAdjSlotType
  <2>m. \A s, e \in Nat : IsBlock(free, s, e) /\ s < SlotpSF /\ m <= e - s => s .. e - 1 \subseteq q
    BY <1>7, <1>10
  <2> HIDE DEF m
  <2>1. ASSUME NEW i \in AllSlots, i + m <= SlotpSF, Part(i, i + m) \cap (global \cup q) = {}
        PROVE  FALSE
    <3>0. i \in Nat /\ i + m \in Int /\ SlotpSF \in Nat
      BY <2>0, SlotSets, SlotNumbers
    <3>1. Part(i, i + m) = i .. i + m - 1
      <4> DEFINE k == i + m
      <4>1. k \in Int /\ k <= SlotpSF
        BY <2>1, <3>0
      <4> HIDE DEF k
      <4>2. Part(i, k) = i .. k - 1
        BY <3>0, <4>1, PartInterval
      <4>3. QED
        BY <2>0, <3>0, <4>2 DEF k
    <3>2. i .. i + m - 1 \subseteq free /\ i \in i .. i + m - 1
      <4>1. \A x \in i .. i + m - 1 : x \in AllSlots
        <5> SUFFICES ASSUME NEW x \in i .. i + m - 1 PROVE x \in 0 .. SlotpSF - 1
          BY DEF AllSlots
        <5>1. x \in Int /\ i <= x /\ x <= i + m - 1
          BY <2>0, <3>0
        <5>2. QED
          BY <2>0, <2>1, <3>0, <5>1
      <4>2. QED
        BY <1>7, <2>0, <2>1, <3>0, <3>1, <4>1
    <3>3. i \in free /\ i \notin q
      BY <2>1, <3>1, <3>2
    <3>4. PICK s \in AllSlots, e \in 0 .. SlotpSF : IsBlock(free, s, e) /\ s <= i /\ i < e
      <4> HIDE DEF free
      <4>1. QED
        BY <1>1, <3>3, BlockAround
    <3>5. s \in Nat /\ e \in Nat /\ s < SlotpSF
      BY <3>4, <3>0, SlotSets DEF AllSlots
    <3>6. i + m <= e
      <4> SUFFICES ASSUME e < i + m PROVE FALSE
        BY <3>0, <3>5
      <4>1. e \in i .. i + m - 1
        BY <3>0, <3>4, <3>5, <2>0
      <4>2. e \notin free
        BY <3>4 DEF IsBlock
      <4>3. QED
        BY <3>2, <4>1, <4>2
    <3>7. m <= e - s
      BY <2>0, <3>0, <3>4, <3>5, <3>6
    <3>8. s .. e - 1 \subseteq q
      BY <2>m, <3>4, <3>5, <3>7
    <3>9. i \in s .. e - 1
      BY <3>0, <3>4, <3>5
    <3>10. QED
      BY <3>3, <3>8, <3>9
  <2>2. NoGap(global \cup q, m)
    BY <2>1 DEF NoGap
  <2>3. QED
    BY <1>8, <2>2 DEF q, m
<1>11. QED
  BY <1>7, <1>9, <1>10

\* EvaluateReservation adds free slots only.
LEMMA EvaluateReservationAllowed ==
    ASSUME NEW c \in Characteristics, NEW own, own \subseteq AllSlots, NEW global,
           NEW p \in SUBSET Allowed(own, global)
    PROVE  EvaluateReservation(c, p, global) \in SUBSET Allowed(own, global)
<1>1. BestEfficency(c, p, global) \in SUBSET Allowed(own, global)
  BY BestEfficencyAllowed DEF Grown
<1>2. GapFilling(c, BestEfficency(c, p, global), global) \in SUBSET Allowed(own, global)
  BY <1>1, GapFillingFacts DEF Grown
<1>3. QED
  BY <1>1, <1>2 DEF EvaluateReservation

\* A longer gap is none either.
LEMMA NoLongerGap ==
    ASSUME NEW taken, NEW m \in Nat, NEW n \in Nat, m <= n, NoGap(taken, m)
    PROVE  NoGap(taken, n)
<1> SUFFICES ASSUME NEW i \in AllSlots, i + n <= SlotpSF PROVE Part(i, i + n) \cap taken # {}
  BY DEF NoGap
<1>1. i \in Nat /\ i + m <= i + n /\ i + m <= SlotpSF
  BY SlotSets, SlotNumbers
<1>2. PICK x \in Part(i, i + m) : x \in taken
  BY <1>1 DEF NoGap
<1>3. x \in AllSlots /\ x \in Nat /\ i <= x /\ x < i + m
  BY SlotSets DEF Part
<1>4. x < i + n
  BY <1>1, <1>3
<1>5. x \in Part(i, i + n)
  BY <1>3, <1>4 DEF Part
<1>6. QED
  BY <1>2, <1>5

\* Nor is there one if all slots are taken.
LEMMA NoGapInFull ==
    ASSUME NEW taken, AllSlots \subseteq taken, NEW n \in Nat \ {0}
    PROVE  NoGap(taken, n)
<1> SUFFICES ASSUME NEW i \in AllSlots PROVE i \in Part(i, i + n)
  BY DEF NoGap
<1>1. i \in Nat
  BY SlotSets
<1>2. QED
  BY <1>1 DEF Part

\* The slots of the superframe can be counted.
LEMMA SlotsFinite ==
    /\ IsFiniteSet(AllSlots) /\ IsFiniteSet(DataSlots)
    /\ Cardinality(DataSlots) = SlotpSF - NumberOfBPSlots
<1>1. 0 \in Int /\ SlotpSF - 1 \in Int /\ NumberOfBPSlots \in Int
  BY SlotNumbers
<1>2. IsFiniteSet(AllSlots)
  BY <1>1, FS_Interval DEF AllSlots
<1>3. IsFiniteSet(DataSlots)
  BY <1>1, FS_Interval DEF DataSlots
<1>4. Cardinality(DataSlots) = IF NumberOfBPSlots > SlotpSF - 1 THEN 0
                               ELSE SlotpSF - 1 - NumberOfBPSlots + 1
  BY <1>1, FS_Interval DEF DataSlots
<1>5. QED
  BY <1>2, <1>3, <1>4, SlotNumbers

\* EvaluateReservation keeps the pattern, adds free slots only, and leaves packets
\* missing only if no gap is left that could take one.
LEMMA EvaluateReservationFacts ==
    ASSUME NEW c \in Characteristics, NEW own, own \subseteq AllSlots,
           NEW global, 0 .. NumberOfBPSlots - 1 \subseteq global,
           NEW p \in SUBSET Allowed(own, global), p \subseteq DataSlots
    PROVE  /\ EvaluateReservation(c, p, global) \in Grown(p, own, global)
           /\ \/ CalcMissingPackets(c, EvaluateReservation(c, p, global)) = 0
              \/ NoGap(global \cup EvaluateReservation(c, p, global), MinAdjSlot(c))
<1> DEFINE q == BestEfficency(c, p, global)
           r == GapFilling(c, q, global)
           e == EvaluateReservation(c, p, global)
<1>1. e = IF CalcMissingPackets(c, p) = 0 \/ Cardinality(p) = SlotpSF - NumberOfBPSlots THEN p
          ELSE IF CalcMissingPackets(c, q) = 0 THEN q ELSE r
  BY DEF EvaluateReservation
<1>2. q \in Grown(p, own, global)
  BY BestEfficencyAllowed
<1>3. /\ r \in Grown(q, own, global)
      /\ CalcMissingPackets(c, r) = 0 \/ NoGap(global \cup r, MinAdjSlot(c))
  <2> HIDE DEF q
  <2>1. QED
    BY <1>2, GapFillingFacts DEF Grown
<1>4. r \in Grown(p, own, global) /\ p \in Grown(p, own, global)
  BY <1>2, <1>3 DEF Grown
<1>5. Cardinality(p) = SlotpSF - NumberOfBPSlots => NoGap(global \cup p, MinAdjSlot(c))
  <2> SUFFICES ASSUME Cardinality(p) = SlotpSF - NumberOfBPSlots
               PROVE  NoGap(global \cup p, MinAdjSlot(c))
    OBVIOUS
  <2>1. p = DataSlots
    BY SlotsFinite, FS_Subset
  <2>2. AllSlots \subseteq global \cup p
    BY <2>1, SlotSets
  <2>3. QED
    BY <2>2, MinAdjSlotType, NoGapInFull
<1> HIDE DEF q, r, e
<1>6. e \in Grown(p, own, global)
      /\ (CalcMissingPackets(c, e) = 0 \/ NoGap(global \cup e, MinAdjSlot(c)))
  BY <1>1, <1>2, <1>3, <1>4, <1>5
<1>7. QED
  BY <1>6 DEF e

-----------------------------------------------------------------------------
\* The pairs to draw from are free.
LEMMA FreePairsFree ==
    ASSUME NEW global, NEW pair \in FreePairs(global)
    PROVE  pair \in SUBSET (AllSlots \ global)
<1> DEFINE free == AllSlots \ global
<1>1. PICK b \in Blocks(free) : \E i \in b : i + 1 \in b /\ pair = {i, i + 1}
  BY DEF FreePairs
<1>2. PICK s \in BlockStarts(free) : b = BlockAt(free, s)
  BY <1>1 DEF Blocks
<1>3. s \in free /\ free \subseteq AllSlots
  BY DEF BlockStarts
<1>4. b \subseteq free
  <2> HIDE DEF free
  <2>1. QED
    BY <1>2, <1>3, BlockEndFacts
<1>5. QED
  BY <1>1, <1>4

\* The least slot of a block is the one with which it begins.
LEMMA MinOfPart ==
    ASSUME NEW a \in Nat, NEW e \in Int, a < e, e <= SlotpSF
    PROVE  Min(Part(a, e)) = a
<1>1. Part(a, e) = a .. e - 1
  BY PartInterval
<1>2. a .. e - 1 \subseteq Nat /\ a \in a .. e - 1
  OBVIOUS
<1>3. \A x \in a .. e - 1 : a <= x
  OBVIOUS
<1>4. Min(a .. e - 1) = a
  <2> DEFINE S == a .. e - 1
  <2>1. S \subseteq Nat /\ a \in S /\ \A x \in S : a <= x
    BY <1>2, <1>3
  <2> HIDE DEF S
  <2>2. Min(S) \in S /\ \A y \in S : Min(S) <= y
    BY <2>1 DEF Min
  <2>3. Min(S) \in Nat /\ a <= Min(S) /\ Min(S) <= a
    BY <2>1, <2>2
  <2>4. Min(S) = a
    BY <2>3
  <2>5. QED
    BY <2>4 DEF S
<1>5. QED
  BY <1>1, <1>4

\* A pair i, i + 1 of the block s, e.
IsPair(free, i, s, e) ==
    IsBlock(free, s, e) /\ s \in Nat /\ i \in Nat /\ s <= i /\ i + 1 < e /\ (i - s) % 2 = 0

\* The pairs to draw are those.
LEMMA PairsOf ==
    ASSUME NEW global, NEW x
    PROVE  x \in FreePairs(global) <=>
               \E i \in Nat, s \in Nat, e \in Nat : IsPair(AllSlots \ global, i, s, e) /\ x = {i, i + 1}
<1> DEFINE free == AllSlots \ global
           Even(b) == {k \in b : k + 1 \in b /\ (k - Min(b)) % 2 = 0}
<1>1. free \subseteq AllSlots
  OBVIOUS
<1> DEFINE PairsIn(b) == {{i, i + 1} : i \in Even(b)}
<1>p. FreePairs(global) = UNION {PairsIn(b) : b \in Blocks(free)}
  BY DEF FreePairs
<1> HIDE DEF free, Even
<1>2. x \in FreePairs(global) <=> \E b \in Blocks(free) : \E i \in Even(b) : x = {i, i + 1}
  <2>1. \A b : x \in PairsIn(b) <=> \E i \in Even(b) : x = {i, i + 1}
    OBVIOUS
  <2> HIDE DEF PairsIn
  <2>2. QED
    BY <1>p, <2>1
<1> USE DEF Even
<1>3. ASSUME NEW s \in Nat, NEW e \in Int, IsBlock(free, s, e)
      PROVE  Even(Part(s, e)) = {k \in s .. e - 1 : k + 1 \in s .. e - 1 /\ (k - s) % 2 = 0}
  <2>1. s < e /\ e <= SlotpSF
    BY <1>3 DEF IsBlock
  <2>2. Part(s, e) = s .. e - 1 /\ Min(Part(s, e)) = s
    BY <2>1, PartInterval, MinOfPart
  <2>3. QED
    BY <2>2
<1> HIDE DEF Even
<1>4. ASSUME NEW b \in Blocks(free), NEW i \in Even(b), x = {i, i + 1}
      PROVE  \E j \in Nat, s \in Nat, e \in Nat : IsPair(free, j, s, e) /\ x = {j, j + 1}
  <2>1. PICK s \in AllSlots, e \in 0 .. SlotpSF : IsBlock(free, s, e) /\ b = Part(s, e)
    BY <1>1, BlocksOf
  <2>2. s \in Nat /\ e \in Nat /\ e \in Int
    BY SlotSets, SlotNumbers
  <2>3. i \in s .. e - 1 /\ i + 1 \in s .. e - 1 /\ (i - s) % 2 = 0
    BY <1>3, <2>1, <2>2
  <2>4. i \in Nat /\ s <= i /\ i + 1 < e
    BY <2>2, <2>3
  <2>5. IsPair(free, i, s, e)
    BY <2>1, <2>2, <2>3, <2>4 DEF IsPair
  <2>6. QED
    BY <1>4, <2>2, <2>4, <2>5
<1>5. ASSUME NEW i \in Nat, NEW s \in Nat, NEW e \in Nat, IsPair(free, i, s, e), x = {i, i + 1}
      PROVE  \E b \in Blocks(free) : \E j \in Even(b) : x = {j, j + 1}
  <2>1. IsBlock(free, s, e) /\ s <= i /\ i + 1 < e /\ (i - s) % 2 = 0
    BY <1>5 DEF IsPair
  <2>2. s \in free /\ e <= SlotpSF
    BY <2>1 DEF IsBlock
  <2>3. s \in AllSlots /\ e \in 0 .. SlotpSF
    BY <1>1, <2>2, SlotNumbers
  <2>4. Part(s, e) \in Blocks(free)
    BY <1>1, <2>1, <2>3, BlocksOf
  <2>5. i \in s .. e - 1 /\ i + 1 \in s .. e - 1
    BY <2>1
  <2>6. i \in Even(Part(s, e))
    BY <1>3, <2>1, <2>5
  <2>7. QED
    BY <1>5, <2>4, <2>6
<1>6. QED
  BY <1>2, <1>4, <1>5 DEF free

\* Different pairs have no slot in common.
LEMMA PairsApart ==
    ASSUME NEW free, NEW i \in Nat, NEW s \in Nat, NEW e \in Nat, IsPair(free, i, s, e),
           NEW j \in Nat, NEW x \in Nat, NEW y \in Nat, IsPair(free, j, x, y), i # j
    PROVE  {i, i + 1} \cap {j, j + 1} = {}
<1>1. /\ IsBlock(free, s, e) /\ s <= i /\ i + 1 < e /\ (i - s) % 2 = 0
      /\ IsBlock(free, x, y) /\ x <= j /\ j + 1 < y /\ (j - x) % 2 = 0
  BY DEF IsPair
<1>2. (x = s /\ y = e) \/ y < s \/ e < x
  BY <1>1, BlocksApart
<1>3. CASE x = s
  <2>1. (j - s) % 2 = 0 /\ (i - s) % 2 = 0
    BY <1>1, <1>3
  <2>2. j # i + 1 /\ i # j + 1
    BY <1>1, <1>3, <2>1
  <2>3. QED
    BY <2>2
<1>4. CASE y < s
  <2>1. j + 1 < i
    BY <1>1, <1>4
  <2>2. QED
    BY <2>1
<1>5. CASE e < x
  <2>1. i + 1 < j
    BY <1>1, <1>5
  <2>2. QED
    BY <2>1
<1>6. QED
  BY <1>2, <1>3, <1>4, <1>5

\* When all pairs are drawn no two adjacent slots are left.
LEMMA AllPairsDrawn ==
    ASSUME NEW global
    PROVE  NoGap(global \cup UNION FreePairs(global), 2)
<1> DEFINE free == AllSlots \ global
           drawn == UNION FreePairs(global)
<1> SUFFICES ASSUME NEW i \in AllSlots, i + 2 <= SlotpSF,
                    Part(i, i + 2) \cap (global \cup drawn) = {}
             PROVE  FALSE
  BY DEF NoGap
<1>1. i \in Nat /\ SlotpSF \in Nat /\ i + 1 \in AllSlots
  BY SlotSets, SlotNumbers DEF AllSlots
<1>2. i \in Part(i, i + 2) /\ i + 1 \in Part(i, i + 2)
  BY <1>1 DEF Part
<1>3. i \in free /\ i + 1 \in free /\ i \notin drawn /\ i + 1 \notin drawn
  BY <1>1, <1>2
<1>4. PICK s \in AllSlots, e \in 0 .. SlotpSF : IsBlock(free, s, e) /\ s <= i /\ i < e
  <2> HIDE DEF drawn
  <2>1. free \subseteq AllSlots
    OBVIOUS
  <2> HIDE DEF free
  <2>2. QED
    BY <1>3, <2>1, BlockAround
<1>5. s \in Nat /\ e \in Nat
  BY SlotSets, SlotNumbers
<1>6. i + 1 < e
  <2>1. e # i + 1
    BY <1>3, <1>4 DEF IsBlock
  <2>2. QED
    BY <1>1, <1>4, <1>5, <2>1
<1>7. \A j \in Nat : IsPair(free, j, s, e) => j \in drawn /\ j + 1 \in drawn
  <2> SUFFICES ASSUME NEW j \in Nat, IsPair(free, j, s, e) PROVE j \in drawn /\ j + 1 \in drawn
    OBVIOUS
  <2>1. {j, j + 1} \in FreePairs(global)
    BY <1>5, PairsOf
  <2>2. QED
    BY <2>1
<1> HIDE DEF free, drawn
<1>8. CASE (i - s) % 2 = 0
  <2>1. IsPair(free, i, s, e)
    BY <1>1, <1>4, <1>5, <1>6, <1>8 DEF IsPair
  <2>2. QED
    BY <1>1, <1>3, <1>7, <2>1
<1>9. CASE (i - s) % 2 # 0
  <2>1. i - s \in Nat /\ i - s # 0
    BY <1>1, <1>4, <1>5, <1>9
  <2>2. ((i - 1) - s) % 2 = 0 /\ i - 1 \in Nat /\ s <= i - 1 /\ i - 1 + 1 = i
    BY <1>1, <1>4, <1>5, <1>9, <2>1
  <2>3. IsPair(free, i - 1, s, e)
    BY <1>1, <1>4, <1>5, <1>6, <2>2 DEF IsPair
  <2>4. i \in drawn
    BY <1>7, <2>2, <2>3
  <2>5. QED
    BY <1>3, <2>4
<1>10. QED
  BY <1>8, <1>9

\* Every pair drawn has the packets of two slots at least.
LEMMA PairsHavePackets ==
    ASSUME NEW c \in Characteristics, NEW own, own \subseteq AllSlots, NEW global, own \subseteq global,
           NEW drawn \in SUBSET FreePairs(global)
    PROVE  /\ Cardinality(drawn) \in Nat
           /\ own \cup UNION drawn \subseteq AllSlots
           /\ Capacity(c, own \cup UNION drawn)
                >= Capacity(c, own) + Cardinality(drawn) * Packets(c, 2)
<1> DEFINE free == AllSlots \ global
           With(D) == own \cup UNION D
           good == {n \in Nat : \A D \in SUBSET FreePairs(global) : Cardinality(D) = n =>
                        Capacity(c, With(D)) >= Capacity(c, own) + n * Packets(c, 2)}
<1>1. \A x \in FreePairs(global) : x \subseteq AllSlots \ global
  BY FreePairsFree
<1>2. IsFiniteSet(FreePairs(global))
  <2>1. FreePairs(global) \in SUBSET (SUBSET AllSlots)
    BY <1>1
  <2>2. QED
    BY <2>1, SlotsFinite, FS_SUBSET, FS_Subset
<1>3. \A D \in SUBSET FreePairs(global) :
        IsFiniteSet(D) /\ Cardinality(D) \in Nat /\ With(D) \subseteq AllSlots
  BY <1>1, <1>2, FS_Subset, FS_CardinalityType
<1>4. Packets(c, 2) \in Nat /\ Capacity(c, own) \in Nat
  BY PacketsFacts, CapacityIsTotal
<1>5. 0 \in good
  <2>1. ASSUME NEW D \in SUBSET FreePairs(global), Cardinality(D) = 0
        PROVE  With(D) = own
    <3>1. D = {}
      BY <1>3, <2>1, FS_EmptySet
    <3>2. QED
      BY <3>1
  <2> HIDE DEF With
  <2>2. 0 * Packets(c, 2) = 0
    BY <1>4
  <2>3. QED
    BY <1>4, <2>1, <2>2
<1>6. ASSUME NEW n \in Nat, n \in good
      PROVE  n + 1 \in good
  <2> SUFFICES ASSUME NEW D \in SUBSET FreePairs(global), Cardinality(D) = n + 1
               PROVE  Capacity(c, With(D)) >= Capacity(c, own) + (n + 1) * Packets(c, 2)
    OBVIOUS
  <2>1. IsFiniteSet(D) /\ D # {}
    BY <1>3, FS_EmptySet
  <2>2. PICK x : x \in D
    BY <2>1
  <2> DEFINE E == D \ {x}
             q == With(E)
  <2>3. Cardinality(E) = n /\ E \in SUBSET FreePairs(global)
    <3>1. Cardinality(E) = Cardinality(D) - 1
      BY <2>1, <2>2, FS_RemoveElement
    <3>2. Cardinality(D) = n + 1 /\ E \in SUBSET FreePairs(global)
      OBVIOUS
    <3> HIDE DEF E
    <3>3. QED
      BY <3>1, <3>2
  <2>4. Capacity(c, q) >= Capacity(c, own) + n * Packets(c, 2)
    <3> HIDE DEF With, E
    <3>1. QED
      BY <1>6, <2>3
  <2>5. PICK i \in Nat, s \in Nat, e \in Nat : IsPair(free, i, s, e) /\ x = {i, i + 1}
    BY <2>2, PairsOf
  <2>6. x \cap q = {}
    <3> SUFFICES ASSUME NEW y \in E PROVE x \cap y = {}
      BY <1>1, <2>2
    <3>1. PICK j \in Nat, t \in Nat, u \in Nat : IsPair(free, j, t, u) /\ y = {j, j + 1}
      BY PairsOf
    <3>2. i # j
      BY <2>5, <3>1
    <3> HIDE DEF free
    <3>3. {i, i + 1} \cap {j, j + 1} = {}
      BY <2>5, <3>1, <3>2, PairsApart
    <3>4. QED
      BY <2>5, <3>1, <3>3
  <2> DEFINE k == i + 2
  <2>7. k - i = 2 /\ i .. k - 1 = {i, i + 1} /\ k \in Nat /\ i < k
    OBVIOUS
  <2>8. k <= SlotpSF
    <3>1. i + 1 < e /\ e <= SlotpSF
      BY <2>5 DEF IsPair, IsBlock
    <3>2. QED
      BY <3>1, SlotNumbers
  <2>9. With(D) = q \cup x
    BY <2>2
  <2>10. q \subseteq AllSlots /\ With(D) \subseteq AllSlots
    BY <1>3, <2>3
  <2> HIDE DEF k, q, With, E, good
  <2>11. IsGap(q, i, k)
    BY <2>5, <2>6, <2>7, <2>8 DEF IsGap
  <2>12. Capacity(c, q \cup i .. k - 1) >= Capacity(c, q) + Packets(c, k - i)
    BY <2>10, <2>11, CapacityGrows
  <2>13. Capacity(c, With(D)) >= Capacity(c, q) + Packets(c, 2)
    BY <2>5, <2>7, <2>9, <2>12
  <2>14. Capacity(c, q) \in Nat /\ Capacity(c, With(D)) \in Nat
    BY <2>10, CapacityIsTotal
  <2>15. (n + 1) * Packets(c, 2) = n * Packets(c, 2) + Packets(c, 2) /\ n * Packets(c, 2) \in Nat
    BY <1>4
  <2>16. QED
    BY <1>4, <2>4, <2>13, <2>14, <2>15
<1>7. Nat \subseteq good
  <2> HIDE DEF good
  <2>1. QED
    BY <1>5, <1>6, NumberInduction
<1>8. Cardinality(drawn) \in Nat /\ With(drawn) \subseteq AllSlots
  BY <1>3
<1>9. Capacity(c, With(drawn)) >= Capacity(c, own) + Cardinality(drawn) * Packets(c, 2)
  <2> HIDE DEF With
  <2>1. QED
    BY <1>7, <1>8
<1>10. QED
  BY <1>8, <1>9

\* What is drawn of them is free.
LEMMA CreateRandomPatternFree ==
    ASSUME NEW c, NEW own, NEW global, NEW p \in CreateRandomPattern(c, own, global)
    PROVE  p \in SUBSET (AllSlots \ (global \cup own))
<1>1. \E drawn \in SUBSET FreePairs(global \cup own) : p = UNION drawn
  BY DEF CreateRandomPattern, kSubset
<1>2. PICK drawn \in SUBSET FreePairs(global \cup own) : p = UNION drawn
  BY <1>1
<1>3. \A pair \in drawn : pair \in SUBSET (AllSlots \ (global \cup own))
  BY FreePairsFree
<1>4. QED
  BY <1>2, <1>3

\* Drawing leaves packets missing only if no two adjacent slots are left.
LEMMA CreateRandomPatternFacts ==
    ASSUME NEW c \in Characteristics, NEW own, own \subseteq AllSlots, NEW global,
           NEW p \in CreateRandomPattern(c, own, global)
    PROVE  /\ own \cup p \subseteq AllSlots
           /\ \/ CalcMissingPackets(c, own \cup p) = 0
              \/ NoGap(global \cup own \cup p, 2)
<1> DEFINE pairs == FreePairs(global \cup own)
           missing == CalcMissingPackets(c, own)
           enough == {n \in 0 .. Cardinality(pairs) : n * Packets(c, 2) >= missing}
           number == IF enough = {} THEN Cardinality(pairs) ELSE Min(enough)
<1>1. \E drawn \in SUBSET pairs : Cardinality(drawn) = number /\ p = UNION drawn
  BY DEF CreateRandomPattern, kSubset
<1>2. PICK drawn \in SUBSET pairs : Cardinality(drawn) = number /\ p = UNION drawn
  BY <1>1
<1>3. /\ Cardinality(drawn) \in Nat
      /\ own \cup UNION drawn \subseteq AllSlots
      /\ Capacity(c, own \cup UNION drawn)
            >= Capacity(c, own) + Cardinality(drawn) * Packets(c, 2)
  <2>1. own \subseteq global \cup own
    OBVIOUS
  <2>2. QED
    BY <2>1, PairsHavePackets
<1>4. CASE enough = {}
  <2>1. \A x \in pairs : x \subseteq AllSlots
    BY FreePairsFree
  <2> HIDE DEF enough, pairs
  <2>2. IsFiniteSet(pairs)
    <3>1. pairs \in SUBSET (SUBSET AllSlots)
      BY <2>1
    <3>2. QED
      BY <3>1, SlotsFinite, FS_SUBSET, FS_Subset
  <2>3. drawn = pairs
    BY <1>2, <1>4, <2>2, FS_Subset
  <2>4. NoGap((global \cup own) \cup UNION pairs, 2)
    BY AllPairsDrawn DEF pairs
  <2>5. (global \cup own) \cup UNION pairs = global \cup own \cup p
    BY <1>2, <2>3
  <2>6. QED
    BY <1>2, <1>3, <2>4, <2>5
<1>5. CASE enough # {}
  <2> HIDE DEF pairs
  <2>1. missing \in Nat
    BY MissingFacts
  <2>2. Min(enough) \in enough
    <3>1. enough \subseteq Nat
      OBVIOUS
    <3> HIDE DEF enough
    <3>2. QED
      BY <1>5, <3>1, MinOfSet
  <2>3. number * Packets(c, 2) >= missing
    <3> HIDE DEF missing
    <3>1. QED
      BY <1>5, <2>2
  <2> HIDE DEF number, missing
  <2> DEFINE q == own \cup UNION drawn
             extra == number * Packets(c, 2)
  <2>4. extra \in Nat
    BY <1>2, <1>3, PacketsFacts
  <2>5. Capacity(c, q) >= Capacity(c, own) + extra /\ q \subseteq AllSlots
    BY <1>2, <1>3
  <2>6. Capacity(c, own) >= c.packets - missing /\ Capacity(c, own) \in Nat /\ c.packets \in Nat
    BY MissingFacts DEF missing
  <2> HIDE DEF q, extra
  <2>7. Capacity(c, q) \in Nat /\ (Capacity(c, q) >= c.packets => CalcMissingPackets(c, q) = 0)
    BY <2>5, MissingFacts
  <2>8. missing <= extra
    BY <2>1, <2>3, <2>4 DEF extra
  <2>9. CalcMissingPackets(c, q) = 0
    BY <2>1, <2>4, <2>5, <2>6, <2>7, <2>8
  <2>10. QED
    BY <1>2, <1>3, <2>9 DEF q
<1>6. QED
  BY <1>4, <1>5

\* The pattern from which a new one is made is free: rotated to where it meets no
\* slot that is taken, or cut and put elsewhere.
LEMMA RegularPatternFree ==
    ASSUME NEW c \in Characteristics, NEW global
    PROVE  LET p == CalcMaxPropMap(c, InitVector(c), global)
           IN  (IF IsPatternValid(p, global) THEN p
                ELSE FillAreas(c, ClearConflictArea(p, global), global))
                    \in SUBSET (AllSlots \ global)
<1> DEFINE p == CalcMaxPropMap(c, InitVector(c), global)
<1>1. p \in SUBSET AllSlots
  BY InitVectorSlots, CalcMaxPropMapSlots
<1> HIDE DEF p
<1>2. IsPatternValid(p, global) => p \in SUBSET (AllSlots \ global)
  BY <1>1 DEF IsPatternValid
<1>3. FillAreas(c, ClearConflictArea(p, global), global) \in SUBSET Allowed({}, global)
  BY <1>1, ClearConflictAreaFree, FillAreasAllowed
<1>4. QED
  BY <1>2, <1>3 DEF p, Allowed

\* A new pattern has no slot that is taken.
LEMMA GetPatternFree ==
    ASSUME NEW c \in Characteristics, NEW global, NEW q \in GetPattern(c, global)
    PROVE  q \in SUBSET (AllSlots \ global)
<1>1. CASE c.random
  <2>1. q \in CreateRandomPattern(c, {}, global)
    BY <1>1 DEF GetPattern
  <2>2. QED
    BY <2>1, CreateRandomPatternFree
<1>2. CASE ~c.random
  <2>1. PICK r \in SUBSET (AllSlots \ global) : q = EvaluateReservation(c, r, global)
    BY <1>2, RegularPatternFree DEF GetPattern
  <2>2. r \in SUBSET Allowed({}, global)
    BY DEF Allowed
  <2>3. q \in SUBSET Allowed({}, global)
    BY <2>1, <2>2, EvaluateReservationAllowed
  <2>4. QED
    BY <2>3 DEF Allowed
<1>3. QED
  BY <1>1, <1>2

\* Nor have slots that are added, and none is among the reserved ones.
LEMMA AddPatternFree ==
    ASSUME NEW c \in Characteristics, NEW own, own \subseteq AllSlots, NEW global,
           NEW q \in AddPattern(c, own, global)
    PROVE  q \in SUBSET (AllSlots \ (global \cup own))
<1>1. CASE c.random
  <2>1. q \in CreateRandomPattern(c, own, global)
    BY <1>1 DEF AddPattern
  <2>2. QED
    BY <2>1, CreateRandomPatternFree
<1>2. CASE ~c.random
  <2>1. q = EvaluateReservation(c, own, global) \ own
    BY <1>2 DEF AddPattern
  <2>2. own \in SUBSET Allowed(own, global)
    BY DEF Allowed
  <2>3. EvaluateReservation(c, own, global) \in SUBSET Allowed(own, global)
    BY <2>2, EvaluateReservationAllowed
  <2>4. QED
    BY <2>1, <2>3 DEF Allowed
<1>3. QED
  BY <1>1, <1>2

-----------------------------------------------------------------------------
\* The slots a piece of a pattern has at least, as in MinPiece.
Piece(c) == IF c.random THEN Max({2, MinAdjSlot(c)}) ELSE MinAdjSlot(c)

\* The greater of two numbers.
LEMMA MaxOfTwo ==
    ASSUME NEW m \in Nat, NEW n \in Nat
    PROVE  Max({m, n}) \in Nat /\ m <= Max({m, n}) /\ n <= Max({m, n})
<1>1. \E x \in {m, n} : \A y \in {m, n} : x >= y
  OBVIOUS
<1>2. Max({m, n}) \in {m, n} /\ \A y \in {m, n} : Max({m, n}) >= y
  BY <1>1 DEF Max
<1>3. QED
  BY <1>2

\* The traffic has its packets in these slots, or no gap is left for more.
Covered(c, global, own) ==
    CalcMissingPackets(c, own) = 0 \/ NoGap(global \cup own, Piece(c))

\* What is drawn covers the traffic.
LEMMA CreateRandomPatternCovers ==
    ASSUME NEW c \in Characteristics, c.random, NEW own, own \subseteq AllSlots, NEW global,
           NEW p \in CreateRandomPattern(c, own, global)
    PROVE  Covered(c, global, own \cup p)
<1>1. CalcMissingPackets(c, own \cup p) = 0 \/ NoGap(global \cup own \cup p, 2)
  BY CreateRandomPatternFacts
<1>2. Piece(c) \in Nat /\ 2 <= Piece(c)
  <2>1. MinAdjSlot(c) \in Nat
    BY MinAdjSlotType
  <2>2. Piece(c) = Max({2, MinAdjSlot(c)})
    BY DEF Piece
  <2>3. QED
    BY <2>1, <2>2, MaxOfTwo
<1>3. NoGap(global \cup own \cup p, 2) => NoGap(global \cup own \cup p, Piece(c))
  BY <1>2, NoLongerGap
<1>4. global \cup own \cup p = global \cup (own \cup p)
  OBVIOUS
<1>5. QED
  BY <1>1, <1>3, <1>4 DEF Covered

\* So does a new pattern.
LEMMA GetPatternCovers ==
    ASSUME NEW c \in Characteristics, NEW global, 0 .. NumberOfBPSlots - 1 \subseteq global,
           NEW q \in GetPattern(c, global)
    PROVE  Covered(c, global, q)
<1>1. CASE c.random
  <2>1. q \in CreateRandomPattern(c, {}, global)
    BY <1>1 DEF GetPattern
  <2>2. Covered(c, global, {} \cup q)
    BY <1>1, <2>1, CreateRandomPatternCovers
  <2>3. {} \cup q = q
    OBVIOUS
  <2>4. QED
    BY <2>2, <2>3
<1>2. CASE ~c.random
  <2>1. PICK r \in SUBSET (AllSlots \ global) : q = EvaluateReservation(c, r, global)
    BY <1>2, RegularPatternFree DEF GetPattern
  <2>2. r \in SUBSET Allowed({}, global) /\ r \subseteq DataSlots
    BY SlotSets DEF Allowed
  <2>3. CalcMissingPackets(c, q) = 0 \/ NoGap(global \cup q, MinAdjSlot(c))
    BY <2>1, <2>2, EvaluateReservationFacts
  <2>4. Piece(c) = MinAdjSlot(c)
    BY <1>2 DEF Piece
  <2>5. QED
    BY <2>3, <2>4 DEF Covered
<1>3. QED
  BY <1>1, <1>2

\* And slots that are added, together with those reserved before.
LEMMA AddPatternCovers ==
    ASSUME NEW c \in Characteristics, NEW own, own \subseteq DataSlots,
           NEW global, 0 .. NumberOfBPSlots - 1 \subseteq global,
           NEW q \in AddPattern(c, own, global)
    PROVE  Covered(c, global, own \cup q)
<1>1. own \subseteq AllSlots /\ own \in SUBSET Allowed(own, global)
  BY SlotSets DEF Allowed
<1>2. CASE c.random
  <2>1. q \in CreateRandomPattern(c, own, global)
    BY <1>2 DEF AddPattern
  <2>2. QED
    BY <1>1, <1>2, <2>1, CreateRandomPatternCovers
<1>3. CASE ~c.random
  <2> DEFINE r == EvaluateReservation(c, own, global)
  <2>1. q = r \ own
    BY <1>3 DEF AddPattern
  <2>2. r \in Grown(own, own, global)
        /\ (CalcMissingPackets(c, r) = 0 \/ NoGap(global \cup r, MinAdjSlot(c)))
    BY <1>1, EvaluateReservationFacts
  <2>3. own \cup q = r
    BY <2>1, <2>2 DEF Grown
  <2> HIDE DEF r
  <2>4. Piece(c) = MinAdjSlot(c)
    BY <1>3 DEF Piece
  <2>5. QED
    BY <2>2, <2>3, <2>4 DEF Covered
<1>4. QED
  BY <1>2, <1>3

-----------------------------------------------------------------------------
\* The superframes with a failure in a window of samples.
FailedIn(s) == Cardinality({i \in DOMAIN s : 1 \in s[i]})

\* The failures in a window can be counted.
LEMMA FailedInType ==
    ASSUME NEW s \in Seq(SUBSET {0, 1})
    PROVE  IsFiniteSet({i \in DOMAIN s : 1 \in s[i]}) /\ FailedIn(s) \in Nat
<1>1. DOMAIN s = 1 .. Len(s) /\ Len(s) \in Int /\ 1 \in Int
  OBVIOUS
<1>2. IsFiniteSet(DOMAIN s)
  BY <1>1, FS_Interval
<1>3. {i \in DOMAIN s : 1 \in s[i]} \in SUBSET DOMAIN s
  OBVIOUS
<1>4. IsFiniteSet({i \in DOMAIN s : 1 \in s[i]})
  BY <1>2, <1>3, FS_Subset
<1>5. QED
  BY <1>4, FS_CardinalityType DEF FailedIn

\* A superframe with a failure adds one.
LEMMA FailedInAppend ==
    ASSUME NEW s \in Seq(SUBSET {0, 1}), NEW outcome \in SUBSET {0, 1}
    PROVE  FailedIn(Append(s, outcome)) =
             FailedIn(s) + (IF 1 \in outcome THEN 1 ELSE 0)
<1> DEFINE with(q) == {i \in DOMAIN q : 1 \in q[i]}
           longer == Append(s, outcome)
<1>1. /\ Len(s) \in Nat /\ DOMAIN s = 1 .. Len(s) /\ DOMAIN longer = 1 .. Len(s) + 1
      /\ \A i \in 1 .. Len(s) : longer[i] = s[i]
      /\ longer[Len(s) + 1] = outcome
  OBVIOUS
<1>2. IsFiniteSet(with(s)) /\ FailedIn(s) \in Nat
  BY FailedInType
<1>3. CASE 1 \in outcome
  <2> HIDE DEF longer
  <2>1. with(longer) = with(s) \cup {Len(s) + 1}
    BY <1>1, <1>3
  <2>2. Len(s) + 1 \notin with(s)
    BY <1>1
  <2>3. Cardinality(with(s) \cup {Len(s) + 1}) = Cardinality(with(s)) + 1
    <3> HIDE DEF with
    <3>1. QED
      BY <1>2, <2>2, FS_AddElement
  <2>4. FailedIn(longer) = Cardinality(with(longer)) /\ FailedIn(s) = Cardinality(with(s))
    BY DEF FailedIn
  <2> HIDE DEF with
  <2>5. FailedIn(longer) = FailedIn(s) + 1
    BY <2>1, <2>3, <2>4
  <2>6. QED
    BY <2>5, <1>3 DEF longer
<1>4. CASE 1 \notin outcome
  <2> HIDE DEF longer
  <2>1. with(longer) = with(s)
    BY <1>1, <1>4
  <2>2. FailedIn(longer) = FailedIn(s)
    BY <2>1 DEF FailedIn
  <2>3. QED
    BY <2>2, <1>2, <1>4 DEF longer
<1>5. QED
  BY <1>3, <1>4

\* Forgetting the oldest superframe adds none.
LEMMA FailedInTail ==
    ASSUME NEW s \in Seq(SUBSET {0, 1}), s # <<>>
    PROVE  FailedIn(Tail(s)) <= FailedIn(s)
<1> DEFINE with(q) == {i \in DOMAIN q : 1 \in q[i]}
           f == [i \in with(Tail(s)) |-> i + 1]
<1>1. /\ Len(s) \in Nat \ {0} /\ DOMAIN s = 1 .. Len(s) /\ DOMAIN Tail(s) = 1 .. Len(s) - 1
      /\ \A i \in 1 .. Len(s) - 1 : Tail(s)[i] = s[i + 1]
  OBVIOUS
<1>2. f \in Injection(with(Tail(s)), with(s))
  <2>1. \A i \in with(Tail(s)) : i \in Nat /\ i + 1 \in with(s)
    BY <1>1
  <2>2. f \in [with(Tail(s)) -> with(s)]
    BY <2>1
  <2>3. \A a, b \in with(Tail(s)) : f[a] = f[b] => a = b
    BY <2>1
  <2> HIDE DEF f, with
  <2>4. QED
    BY <2>2, <2>3 DEF Injection, IsInjective
<1>3. IsFiniteSet(with(s))
  BY FailedInType
<1> HIDE DEF f
<1>4. Cardinality(with(Tail(s))) <= Cardinality(with(s))
  <2> HIDE DEF with
  <2>1. QED
    BY <1>2, <1>3, FS_Injection
<1>5. QED
  BY <1>4 DEF FailedIn

\* A superframe with a failure adds one at most.
LEMMA PutSamplesFailed ==
    ASSUME samples \in Seq(SUBSET {0, 1}), NEW outcome \in SUBSET {0, 1}
    PROVE  /\ putSamples(outcome) \in Seq(SUBSET {0, 1})
           /\ FailedIn(putSamples(outcome)) <=
                FailedIn(samples) + (IF 1 \in outcome THEN 1 ELSE 0)
<1>0. FailedIn(samples) \in Nat
  BY FailedInType
<1>1. CASE samples = <<>> /\ outcome = {}
  <2>1. putSamples(outcome) = samples
    BY <1>1 DEF putSamples
  <2>2. QED
    BY <2>1, <1>0
<1>2. CASE ~(samples = <<>> /\ outcome = {}) /\ Len(samples) < WindowSize
  <2>1. putSamples(outcome) = Append(samples, outcome)
    BY <1>2 DEF putSamples
  <2>2. Append(samples, outcome) \in Seq(SUBSET {0, 1})
    OBVIOUS
  <2>3. QED
    BY <2>1, <2>2, <1>0, FailedInAppend
<1>3. CASE ~(samples = <<>> /\ outcome = {}) /\ ~(Len(samples) < WindowSize)
  <2>1. putSamples(outcome) = Append(Tail(samples), outcome)
    BY <1>3 DEF putSamples
  <2>2. samples # <<>>
    BY <1>3, EstimationAssumption
  <2>3. Tail(samples) \in Seq(SUBSET {0, 1})
    BY <2>2
  <2>4. Append(Tail(samples), outcome) \in Seq(SUBSET {0, 1})
    BY <2>3
  <2>5. FailedIn(Tail(samples)) <= FailedIn(samples) /\ FailedIn(Tail(samples)) \in Nat
    BY <2>2, <2>3, FailedInTail, FailedInType
  <2>6. FailedIn(Append(Tail(samples), outcome)) =
          FailedIn(Tail(samples)) + (IF 1 \in outcome THEN 1 ELSE 0)
    BY <2>3, FailedInAppend
  <2>7. QED
    BY <2>1, <2>4, <2>5, <2>6, <1>0
<1>4. QED
  BY <1>1, <1>2, <1>3

\* The phy mode is lowered only if a sample failed.
LEMMA LoweredByFailure ==
    ASSUME samples \in Seq(SUBSET {0, 1}), adjustMCSdown
    PROVE  FailedIn(samples) >= 1
<1> DEFINE sent == {x \in (DOMAIN samples) \X {0, 1} : x[2] \in samples[x[1]]}
<1>1. DOMAIN samples = 1 .. Len(samples) /\ Len(samples) \in Int /\ 1 \in Int
  OBVIOUS
<1>2. IsFiniteSet(DOMAIN samples)
  BY <1>1, FS_Interval
<1>3. IsFiniteSet({0, 1})
  <2>1. 0 \in Int /\ 1 \in Int /\ {0, 1} = 0 .. 1
    OBVIOUS
  <2>2. QED
    BY <2>1, FS_Interval
<1>4. IsFiniteSet((DOMAIN samples) \X {0, 1})
  BY <1>2, <1>3, FS_Product
<1>5. sent \in SUBSET ((DOMAIN samples) \X {0, 1})
  OBVIOUS
<1>6. Cardinality(sent) \in Nat
  <2> HIDE DEF sent
  <2>1. QED
    BY <1>4, <1>5, FS_Subset, FS_CardinalityType
<1>7. NumSamples \in Nat
  BY <1>6 DEF NumSamples
<1>8. MaxPER * NumSamples \in Nat
  <2>1. MaxPER \in Nat
    BY EstimationAssumption
  <2>2. QED
    BY <2>1, <1>7
<1>9. 100 * Failed > MaxPER * NumSamples /\ Failed = FailedIn(samples)
  BY DEF adjustMCSdown, Failed, FailedIn
<1>10. FailedIn(samples) \in Nat
  BY FailedInType
<1>11. QED
  BY <1>8, <1>9, <1>10

\* The mean of a window is a natural number.
LEMMA MeanType ==
    ASSUME NEW w \in Seq(Nat), w # <<>>
    PROVE  Mean(w) \in Nat
<1>1. DOMAIN w = 1 .. Len(w) /\ Len(w) \in Nat \ {0} /\ Len(w) \in Int /\ 1 \in Int /\ MaxRate \in Int
  BY EstimationAssumption
<1>2. IsFiniteSet(DOMAIN w) /\ IsFiniteSet(1 .. MaxRate)
  BY <1>1, FS_Interval
<1>3. IsFiniteSet((DOMAIN w) \X (1 .. MaxRate))
  BY <1>2, FS_Product
<1>4. SentCompounds(w) \in SUBSET ((DOMAIN w) \X (1 .. MaxRate))
  BY DEF SentCompounds
<1>5. Cardinality(SentCompounds(w)) \in Nat
  BY <1>3, <1>4, FS_Subset, FS_CardinalityType
<1>6. QED
  BY <1>1, <1>5, CeilType DEF Mean

\* Counting the compounds of a superframe keeps the window.
LEMMA DoSendDataType ==
    ASSUME window \in Seq(Nat), NEW n \in Nat
    PROVE  doSendData(n) \in Seq(Nat)
<1>1. CASE window = <<>>
  BY <1>1 DEF doSendData
<1>2. CASE window # <<>>
  <2> DEFINE now == [window EXCEPT ![Len(window)] = n]
  <2>1. Len(window) \in Nat /\ window \in [1 .. Len(window) -> Nat]
    OBVIOUS
  <2>2. now \in [1 .. Len(window) -> Nat]
    <3> DEFINE last == Len(window)
    <3> HIDE DEF last
    <3>1. \A f \in [1 .. last -> Nat] : [f EXCEPT ![last] = n] \in [1 .. last -> Nat]
      OBVIOUS
    <3>2. QED
      BY <2>1, <3>1 DEF last
  <2>3. now \in Seq(Nat)
    <3> HIDE DEF now
    <3>1. QED
      BY <2>1, <2>2
  <2>4. QED
    BY <2>3, <1>2 DEF doSendData
<1>3. QED
  BY <1>1, <1>2

-----------------------------------------------------------------------------
\* The owner of a reservation.
Reasons == {"Accept", "Conflict", "Modified"}
Managers ==
    [known : BOOLEAN, reason : Reasons, status : BOOLEAN, alloc : SUBSET DataSlots,
     mergeReason : Reasons, mergeStatus : BOOLEAN, merge : SUBSET DataSlots,
     pendingMerge : BOOLEAN]

\* All slots of an owner.
SlotsOf(c) == c.alloc \cup c.merge

\* Slots to be merged are pending: no others are chosen before they are given up or
\* merged.
MergePends(c) == c.merge # {} => c.pendingMerge

\* A manager begins without slots.
LEMMA NewManagerFacts ==
    /\ M!NoManager \in Managers /\ MergePends(M!NoManager)
    /\ SlotsOf(M!NoManager) = {}
    /\ LET new == M!NewManager("Accept", {})
       IN  new \in Managers /\ MergePends(new) /\ SlotsOf(new) = {}
BY DEF M!NoManager, M!NewManager, Managers, Reasons, MergePends, SlotsOf

\* Resolving conflicts gives slots up and chooses none; what was pending still is.
LEMMA EvaluateConnectionFacts ==
    ASSUME NEW c \in Managers, MergePends(c)
    PROVE  LET d == EvaluateConnection(c) IN
           /\ d \in Managers /\ MergePends(d) /\ d.pendingMerge = c.pendingMerge
           /\ d.alloc \in {c.alloc, {}} /\ d.merge \in {c.merge, {}}
<1> DEFINE d == IF c.reason = "Conflict" THEN M!ResolveConflict(c) ELSE c
           e == EvaluateConnection(c)
<1>1. d \in Managers
  BY DEF Managers, M!ResolveConflict, Reasons
<1>2. d.alloc \in {c.alloc, {}} /\ d.merge = c.merge /\ d.pendingMerge = c.pendingMerge
  BY DEF Managers, M!ResolveConflict
<1>3. e = IF d.mergeReason = "Conflict" THEN M!ResolveMergeConflict(d) ELSE d
  BY DEF EvaluateConnection
<1> HIDE DEF d, e
<1>4. /\ e \in Managers /\ e.alloc = d.alloc /\ e.merge \in {d.merge, {}}
      /\ e.pendingMerge = d.pendingMerge
  BY <1>1, <1>3 DEF Managers, M!ResolveMergeConflict, Reasons
<1>5. QED
  BY <1>2, <1>4 DEF e, MergePends

\* A new pattern leaves slots that are to be merged alone.
LEMMA FindNewPatternFacts ==
    ASSUME NEW c \in Managers, MergePends(c), NEW p \in SUBSET DataSlots
    PROVE  LET d == M!FindNewPattern(c, p) IN
           /\ d \in Managers /\ MergePends(d) /\ d.alloc = p /\ d.merge = c.merge
           /\ d.pendingMerge = c.pendingMerge
BY DEF M!FindNewPattern, Managers, MergePends

\* Slots to be merged are chosen while none are pending, beside those reserved.
LEMMA CreateAdditionalPatternFacts ==
    ASSUME NEW c \in Managers, NEW p \in SUBSET DataSlots
    PROVE  LET d == M!CreateAdditionalPattern(c, p) IN
           d \in Managers /\ MergePends(d) /\ d.alloc = c.alloc /\ d.merge = p
BY DEF M!CreateAdditionalPattern, Managers, MergePends

\* What the owner creates at a wake-up is free, and slots to be merged lie beside the
\* reservation (CreateDRPMaps).
LEMMA CreateDRPMapsFacts ==
    ASSUME NEW c \in Managers, MergePends(c),
           NEW t \in Characteristics, NEW occ \in SUBSET DataSlots,
           NEW d \in CreateDRPMaps(c, t, occ)
    PROVE  /\ d \in Managers /\ MergePends(d)
           /\ SlotsOf(d) \ SlotsOf(c) \subseteq DataSlots \ occ
           /\ d.merge = c.merge \/ (~c.pendingMerge /\ d.alloc \cap d.merge = {})
<1> DEFINE global == (0 .. NumberOfBPSlots - 1) \cup occ
           Additional(x) ==
            IF ~(M!IsMapCreated(x) /\ M!NeedsAdditionalPattern(x, CalcMissingPackets(t, x.alloc)))
            THEN {x}
            ELSE {M!CreateAdditionalPattern(x, p) : p \in AddPattern(t, x.alloc, global)}
<1>1. AllSlots \ global = DataSlots \ occ
  BY SlotSets
<1> DEFINE Found == IF M!IsMapCreated(c) THEN {c}
                        ELSE {M!FindNewPattern(c, p) : p \in GetPattern(t, global)}
<1>2. CreateDRPMaps(c, t, occ) =
        IF DataSlots \subseteq occ \cup c.alloc THEN {c}
        ELSE UNION {Additional(x) : x \in Found}
  BY DEF CreateDRPMaps
<1>f. d # c => \E x \in Found : d \in Additional(x)
  <2> HIDE DEF Found, Additional
  <2>1. QED
    BY <1>2
<1> HIDE DEF global
<1>3. ASSUME NEW x \in Managers, MergePends(x), NEW y \in Additional(x)
      PROVE  /\ y \in Managers /\ MergePends(y)
             /\ SlotsOf(y) \ SlotsOf(x) \subseteq DataSlots \ occ
             /\ y.merge = x.merge \/ (~x.pendingMerge /\ y.alloc \cap y.merge = {})
  <2>1. CASE y = x
    BY <2>1, <1>3
  <2>2. CASE y # x
    <3>1. M!NeedsAdditionalPattern(x, CalcMissingPackets(t, x.alloc))
      BY <1>3, <2>2
    <3>2. PICK p \in AddPattern(t, x.alloc, global) : y = M!CreateAdditionalPattern(x, p)
      BY <1>3, <2>2
    <3> HIDE DEF Additional
    <3>3. x.alloc \in SUBSET DataSlots /\ ~x.pendingMerge
      BY <3>1, <1>3 DEF M!NeedsAdditionalPattern, Managers
    <3>4. x.alloc \subseteq AllSlots
      BY <3>3, SlotSets
    <3>5. p \in SUBSET (AllSlots \ (global \cup x.alloc))
      BY <3>2, <3>4, AddPatternFree
    <3>6. p \in SUBSET (DataSlots \ occ) /\ p \in SUBSET DataSlots /\ x.alloc \cap p = {}
      BY <3>5, <1>1
    <3>7. y \in Managers /\ MergePends(y) /\ y.alloc = x.alloc /\ y.merge = p
      BY <1>3, <3>2, <3>6, CreateAdditionalPatternFacts
    <3>8. QED
      BY <3>3, <3>6, <3>7 DEF SlotsOf
  <2>3. QED
    BY <2>1, <2>2
<1> HIDE DEF Additional
<1>4. CASE d = c
  BY <1>4
<1>5. CASE d # c /\ M!IsMapCreated(c)
  <2>1. d \in Additional(c)
    BY <1>f, <1>5
  <2>2. QED
    BY <2>1, <1>3
<1>6. CASE d # c /\ ~M!IsMapCreated(c)
  <2>2. PICK p \in GetPattern(t, global) : d \in Additional(M!FindNewPattern(c, p))
    BY <1>f, <1>6
  <2>3. p \in SUBSET (DataSlots \ occ) /\ p \in SUBSET DataSlots
    BY <2>2, <1>1, GetPatternFree
  <2> DEFINE x == M!FindNewPattern(c, p)
  <2>4. /\ x \in Managers /\ MergePends(x) /\ x.alloc = p /\ x.merge = c.merge
        /\ x.pendingMerge = c.pendingMerge
    BY <2>3, FindNewPatternFacts
  <2> HIDE DEF x
  <2>5. /\ d \in Managers /\ MergePends(d)
        /\ SlotsOf(d) \ SlotsOf(x) \subseteq DataSlots \ occ
        /\ d.merge = x.merge \/ (~x.pendingMerge /\ d.alloc \cap d.merge = {})
    BY <2>2, <2>4, <1>3 DEF x
  <2>6. QED
    BY <2>3, <2>4, <2>5 DEF SlotsOf
<1>7. QED
  BY <1>4, <1>5, <1>6

\* What the owner creates at a wake-up covers the traffic: slots to be merged together
\* with the reservation, a new pattern on its own.
LEMMA CreateDRPMapsCovers ==
    ASSUME NEW c \in Managers, MergePends(c),
           NEW t \in Characteristics, NEW occ \in SUBSET DataSlots,
           NEW d \in CreateDRPMaps(c, t, occ), d # c
    PROVE  LET global == (0 .. NumberOfBPSlots - 1) \cup occ IN
           \/ ~c.pendingMerge /\ Covered(t, global, SlotsOf(d))
           \/ d.merge = c.merge /\ Covered(t, global, d.alloc)
<1> DEFINE global == (0 .. NumberOfBPSlots - 1) \cup occ
           Additional(x) ==
            IF ~(M!IsMapCreated(x) /\ M!NeedsAdditionalPattern(x, CalcMissingPackets(t, x.alloc)))
            THEN {x}
            ELSE {M!CreateAdditionalPattern(x, p) : p \in AddPattern(t, x.alloc, global)}
<1>1. AllSlots \ global = DataSlots \ occ /\ 0 .. NumberOfBPSlots - 1 \subseteq global
  BY SlotSets
<1> DEFINE Found == IF M!IsMapCreated(c) THEN {c}
                        ELSE {M!FindNewPattern(c, p) : p \in GetPattern(t, global)}
<1>2. CreateDRPMaps(c, t, occ) =
        IF DataSlots \subseteq occ \cup c.alloc THEN {c}
        ELSE UNION {Additional(x) : x \in Found}
  BY DEF CreateDRPMaps
<1>f. d # c => \E x \in Found : d \in Additional(x)
  <2> HIDE DEF Found, Additional
  <2>1. QED
    BY <1>2
<1>g. global = (0 .. NumberOfBPSlots - 1) \cup occ
  OBVIOUS
<1> HIDE DEF global
<1>3. ASSUME NEW x \in Managers, NEW y \in Additional(x), y # x
      PROVE  ~x.pendingMerge /\ Covered(t, global, SlotsOf(y))
  <2>1. /\ M!NeedsAdditionalPattern(x, CalcMissingPackets(t, x.alloc))
        /\ \E p \in AddPattern(t, x.alloc, global) : y = M!CreateAdditionalPattern(x, p)
    BY <1>3
  <2>2. PICK p \in AddPattern(t, x.alloc, global) : y = M!CreateAdditionalPattern(x, p)
    BY <2>1
  <2> HIDE DEF Additional
  <2>3. x.alloc \subseteq DataSlots
    BY DEF Managers
  <2>4. Covered(t, global, x.alloc \cup p)
    BY <1>1, <2>2, <2>3, AddPatternCovers
  <2>5. SlotsOf(y) = x.alloc \cup p
    BY <2>2 DEF M!CreateAdditionalPattern, Managers, SlotsOf
  <2>6. ~x.pendingMerge
    BY <2>1 DEF M!NeedsAdditionalPattern
  <2>7. QED
    BY <2>4, <2>5, <2>6
<1> HIDE DEF Additional
<1>4. CASE M!IsMapCreated(c)
  <2>1. d \in Additional(c)
    BY <1>f, <1>4 DEF Additional
  <2>2. QED
    BY <1>3, <1>g, <2>1
<1>5. CASE ~M!IsMapCreated(c)
  <2>2. PICK p \in GetPattern(t, global) : d \in Additional(M!FindNewPattern(c, p))
    BY <1>f, <1>5
  <2>3. p \in SUBSET DataSlots
    BY <1>1, <2>2, GetPatternFree
  <2> DEFINE x == M!FindNewPattern(c, p)
  <2>4. /\ x \in Managers /\ x.alloc = p /\ x.merge = c.merge
        /\ x.pendingMerge = c.pendingMerge
    BY <2>3, FindNewPatternFacts
  <2> HIDE DEF x
  <2>5. CASE d = x
    <3>1. Covered(t, global, p)
      BY <1>1, <2>2, GetPatternCovers
    <3>2. QED
      BY <1>g, <2>4, <2>5, <3>1
  <2>6. CASE d # x
    <3>1. ~x.pendingMerge /\ Covered(t, global, SlotsOf(d))
      BY <1>3, <2>2, <2>4, <2>6 DEF x
    <3>2. QED
      BY <1>g, <2>4, <3>1
  <2>7. QED
    BY <2>5, <2>6
<1>6. QED
  BY <1>4, <1>5

\* Asking for pending slots keeps those there are.
LEMMA AfterHasPendingFacts ==
    ASSUME NEW c \in Managers, MergePends(c)
    PROVE  LET d == IF M!IsMapCreated(c) THEN M!AfterHasPending(c) ELSE c IN
           d \in Managers /\ MergePends(d) /\ d.alloc = c.alloc /\ d.merge = c.merge
BY DEF M!AfterHasPending, Managers, MergePends

\* An answer may refuse the reservation and merge slots into it: it adds none.
LEMMA AnsweredFacts ==
    ASSUME NEW c \in Managers, MergePends(c), NEW base \in Verdicts, NEW merge
    PROVE  LET d == Answered(c, base, merge) IN
           /\ d \in Managers /\ MergePends(d)
           /\ SlotsOf(d) \subseteq SlotsOf(c) /\ d.merge \in {c.merge, {}}
<1> DEFINE d == BaseAnswered(c, base)
           e == Answered(c, base, merge)
<1>1. d \in Managers /\ MergePends(d) /\ SlotsOf(d) = SlotsOf(c) /\ d.merge = c.merge
  <2>1. base \in Reasons /\ (base = "Accept") \in BOOLEAN
    BY DEF Verdicts, Reasons
  <2>2. QED
    BY <2>1 DEF BaseAnswered, Managers, MergePends, SlotsOf
<1>2. e \in {d, [d EXCEPT !.mergeReason = "Conflict"], M!MergePatterns(d)}
  BY DEF Answered
<1> HIDE DEF d, e
<1>3. CASE e = d
  BY <1>1, <1>3 DEF e
<1>4. CASE e = [d EXCEPT !.mergeReason = "Conflict"]
  <2>1. /\ e \in Managers /\ MergePends(e) /\ SlotsOf(e) = SlotsOf(d)
        /\ e.merge = d.merge
    BY <1>1, <1>4 DEF Managers, Reasons, MergePends, SlotsOf
  <2>2. QED
    BY <1>1, <2>1 DEF e
<1>5. CASE e = M!MergePatterns(d)
  <2>1. e \in Managers /\ MergePends(e) /\ SlotsOf(e) = SlotsOf(d) /\ e.merge = {}
    BY <1>1, <1>5 DEF M!MergePatterns, Managers, Reasons, MergePends, SlotsOf
  <2>2. QED
    BY <1>1, <2>1 DEF e
<1>6. QED
  BY <1>2, <1>3, <1>4, <1>5

-----------------------------------------------------------------------------
\* The types of the variables.
TypeOK ==
    /\ phase \in {"superframe", "wakeup", "answer"}
    /\ rate \in 0 .. MaxRate
    /\ window \in Seq(Nat)
    /\ needsNewEstimate \in BOOLEAN
    /\ lastSet \in Nat
    /\ manager \in Managers
    /\ traffic \in Characteristics
    /\ occupied \in SUBSET DataSlots
    /\ created \in {"nothing", "pattern", "merge"}
    /\ registered \subseteq [start : Int, duration : Nat]
    /\ samples \in Seq(SUBSET {0, 1})
    /\ failures \in Nat
    /\ changes \in Nat

\* Slots of the owner that are to be merged are pending.
MergeIsPending == MergePends(manager)

\* Each failure has lowered the mode, can still lower it, or is forgotten.
FailuresCounted == DefaultMode - traffic.mode + Failed <= failures

\* The inductive invariant.
IInv == TypeOK /\ MergeIsPending /\ FailuresCounted

\* The timers of the reserved blocks.
LEMMA RegisterType ==
    ASSUME NEW c \in Managers
    PROVE  RegisterReservation(c) \subseteq [start : Int, duration : Nat]
<1> SUFFICES ASSUME NEW i \in BlockStarts(c.alloc)
             PROVE  /\ i * SlotDuration - BPDuration \in Int
                    /\ Cardinality(BlockAt(c.alloc, i)) * SlotDuration \in Nat
  BY DEF RegisterReservation
<1>1. i \in AllSlots /\ i \in Nat
  BY SlotSets DEF BlockStarts, Managers
<1>2. BPDuration \in Nat
  BY PatternAssumption
<1>3. IsFiniteSet(AllSlots)
  <2>1. 0 \in Int /\ SlotpSF - 1 \in Int
    BY SlotNumbers
  <2>2. QED
    BY <2>1, FS_Interval DEF AllSlots
<1>4. BlockAt(c.alloc, i) \in SUBSET AllSlots
  BY DEF BlockAt, Part
<1>5. Cardinality(BlockAt(c.alloc, i)) \in Nat
  BY <1>3, <1>4, FS_Subset, FS_CardinalityType
<1>6. QED
  BY <1>1, <1>2, <1>5, SlotNumbers

\* The invariant holds initially.
LEMMA InitInvariant == Init => IInv
<1> SUFFICES ASSUME Init PROVE IInv
  OBVIOUS
<1> USE DEF Init
<1>1. rate \in 0 .. MaxRate
  BY EstimationAssumption
<1>2. Failed = 0
  <2>1. {i \in DOMAIN samples : 1 \in samples[i]} = {}
    OBVIOUS
  <2>2. QED
    BY <2>1, FS_EmptySet DEF Failed
<1>3. traffic \in Characteristics /\ traffic.mode = DefaultMode
  BY NoTrafficType
<1>4. FailuresCounted
  BY <1>2, <1>3, ModeFacts DEF FailuresCounted
<1>5. manager \in Managers /\ MergeIsPending
  BY NewManagerFacts DEF MergeIsPending
<1>6. window \in Seq(Nat) /\ samples \in Seq(SUBSET {0, 1}) /\ registered \subseteq [start : Int, duration : Nat]
  OBVIOUS
<1>7. TypeOK
  BY <1>1, <1>3, <1>5, <1>6 DEF TypeOK, estimation
<1>8. QED
  BY <1>4, <1>5, <1>7 DEF IInv

\* A connection that is prepared begins without slots, in the default mode.
LEMMA PreparedFacts ==
    ASSUME NEW compounds \in Nat, prepareDRPConnection(compounds)
    PROVE  /\ manager' \in Managers /\ MergeIsPending' /\ SlotsOf(manager') = {}
           /\ traffic' \in Characteristics /\ traffic'.mode = DefaultMode
<1>1. PICK random \in RandomUse : traffic' = SetTrafficChar(DefaultMode, random, compounds)
  BY DEF prepareDRPConnection
<1>2. random \in BOOLEAN
  BY EstimationAssumption
<1>3. traffic' \in Characteristics /\ traffic'.mode = DefaultMode
  BY <1>1, <1>2, SetTrafficCharType, ModeFacts
<1>4. manager' = M!NewManager("Accept", {})
  BY DEF prepareDRPConnection
<1>5. QED
  BY <1>3, <1>4, NewManagerFacts DEF MergeIsPending

\* What the evaluation at the end of a superframe leaves.
Evaluated ==
    /\ window' \in Seq(Nat)
    /\ needsNewEstimate' \in BOOLEAN
    /\ lastSet' \in Nat
    /\ manager' \in Managers
    /\ traffic' \in Characteristics
    /\ MergeIsPending'
    /\ SlotsOf(manager') \subseteq SlotsOf(manager)
    /\ manager'.merge \in {manager.merge, {}}
    /\ traffic'.mode \in {traffic.mode, DefaultMode}

\* The evaluation of the traffic adds no slots and lowers no mode.
LEMMA EvaluationFacts ==
    ASSUME TypeOK, MergeIsPending, NEW n \in Nat,
           LET w == doSendData(n) IN
           IF w = <<>> THEN UNCHANGED <<estimation, manager, traffic>>
           ELSE FirstEvaluation(w) \/ Measure(w) \/ Estimate(w) \/ CompareTraffic(w)
    PROVE  Evaluated
<1> DEFINE w == doSendData(n)
<1>1. w \in Seq(Nat)
  BY DoSendDataType DEF TypeOK
<1>same. UNCHANGED <<manager, traffic>> =>
          /\ manager' \in Managers /\ traffic' \in Characteristics /\ MergeIsPending'
          /\ SlotsOf(manager') \subseteq SlotsOf(manager)
          /\ manager'.merge \in {manager.merge, {}}
          /\ traffic'.mode \in {traffic.mode, DefaultMode}
  BY DEF TypeOK, MergeIsPending
<1>2. CASE w = <<>>
  <2>1. UNCHANGED <<estimation, manager, traffic>>
    BY <1>2
  <2>2. QED
    BY <2>1, <1>same DEF TypeOK, Evaluated, estimation
<1> HIDE DEF w
<1>3. CASE w # <<>> /\ FirstEvaluation(w)
  <2>1. window' = <<0>> /\ needsNewEstimate' = TRUE /\ UNCHANGED <<lastSet, manager, traffic>>
    BY <1>3 DEF FirstEvaluation
  <2>2. QED
    BY <2>1, <1>same DEF TypeOK, Evaluated
<1>4. CASE w # <<>> /\ Measure(w)
  <2>1. window' = Append(w, 0) /\ UNCHANGED <<needsNewEstimate, lastSet, manager, traffic>>
    BY <1>4 DEF Measure
  <2>2. Append(w, 0) \in Seq(Nat)
    BY <1>1
  <2>3. QED
    BY <2>1, <2>2, <1>same DEF TypeOK, Evaluated
<1>5. CASE w # <<>> /\ Estimate(w)
  <2>0. Mean(w) \in Nat
    BY <1>1, <1>5, MeanType
  <2>1. CASE Mean(w) > 0
    <3>1. /\ IF lastSet = 0 THEN prepareDRPConnection(Mean(w)) ELSE updateDRPConnection(Mean(w))
          /\ lastSet' = Mean(w) /\ needsNewEstimate' = FALSE /\ window' = <<0>>
      BY <1>5, <2>1 DEF Estimate
    <3>0. lastSet' \in Nat /\ needsNewEstimate' \in BOOLEAN /\ window' \in Seq(Nat)
      <4>1. lastSet' \in Nat
        BY <2>0, <3>1
      <4>2. needsNewEstimate' = FALSE /\ window' = <<0>>
        BY <3>1
      <4>3. <<0>> \in Seq(Nat)
        OBVIOUS
      <4>4. QED
        BY <4>1, <4>2, <4>3
    <3>2. CASE lastSet = 0
      <4>1. prepareDRPConnection(Mean(w))
        BY <3>1, <3>2
      <4>2. QED
        BY <2>0, <3>0, <4>1, PreparedFacts DEF Evaluated, SlotsOf
    <3>3. CASE lastSet # 0
      <4>1. traffic' = UpdateTrafficChar(traffic, Mean(w)) /\ UNCHANGED manager
        BY <3>1, <3>3 DEF updateDRPConnection
      <4>2. traffic' \in Characteristics /\ traffic'.mode = traffic.mode
        BY <2>0, <4>1, UpdateTrafficCharType DEF TypeOK
      <4>3. /\ manager' \in Managers /\ MergeIsPending' /\ SlotsOf(manager') \subseteq SlotsOf(manager)
            /\ manager'.merge \in {manager.merge, {}}
        BY <4>1 DEF TypeOK, MergeIsPending
      <4>4. QED
        BY <3>0, <4>2, <4>3 DEF Evaluated
    <3>4. QED
      BY <3>2, <3>3
  <2>2. CASE ~(Mean(w) > 0)
    <3>1. window' = Append(Tail(w), 0) /\ UNCHANGED <<needsNewEstimate, lastSet, manager, traffic>>
      BY <1>5, <2>2 DEF Estimate
    <3>2. Tail(w) \in Seq(Nat)
      BY <1>1, <1>5
    <3>3. Append(Tail(w), 0) \in Seq(Nat)
      BY <3>2
    <3>4. QED
      BY <3>1, <3>3, <1>same DEF TypeOK, Evaluated
  <2>3. QED
    BY <2>1, <2>2
<1>6. CASE w # <<>> /\ CompareTraffic(w)
  <2>1. /\ needsNewEstimate' = (100 * w[Len(w)] > 105 * lastSet)
        /\ window' = <<0>> /\ UNCHANGED <<lastSet, manager, traffic>>
    BY <1>6 DEF CompareTraffic
  <2>2. needsNewEstimate' \in BOOLEAN
    BY <2>1
  <2>3. window' \in Seq(Nat) /\ lastSet' \in Nat
    BY <2>1 DEF TypeOK
  <2>4. QED
    BY <2>1, <2>2, <2>3, <1>same DEF Evaluated
<1>7. QED
  BY <1>2, <1>3, <1>4, <1>5, <1>6 DEF w

\* What a step does to the slots of the owner.
NewSlots ==
    /\ (OwnSlots' \ OwnSlots) \subseteq DataSlots \ occupied'
    /\ manager'.merge \notin {manager.merge, {}} =>
         manager.merge = {} /\ manager'.alloc \cap manager'.merge = {}

\* A superframe keeps the invariant: its failure is counted in both ways.
LEMMA SuperframeStep ==
    ASSUME IInv, NEW n \in 0 .. MaxRate, NEW outcome \in SUBSET {0, 1}, Superframe(n, outcome)
    PROVE  IInv' /\ NewSlots
<1>0. n \in Nat /\ MaxRate \in Nat
  BY EstimationAssumption
<1>1. Evaluated
  BY <1>0, EvaluationFacts DEF IInv, Superframe
<1>2. /\ samples' \in Seq(SUBSET {0, 1})
      /\ Failed' <= Failed + (IF 1 \in outcome THEN 1 ELSE 0)
      /\ Failed \in Nat /\ Failed' \in Nat
  <2>1. samples \in Seq(SUBSET {0, 1}) /\ samples' = putSamples(outcome)
    BY DEF IInv, TypeOK, Superframe
  <2>2. Failed = FailedIn(samples) /\ Failed' = FailedIn(samples')
    BY DEF Failed, FailedIn
  <2>3. samples' \in Seq(SUBSET {0, 1})
    BY <2>1, PutSamplesFailed
  <2>4. QED
    BY <2>1, <2>2, <2>3, PutSamplesFailed, FailedInType
<1>3. failures' = IF 1 \in outcome THEN failures + 1 ELSE failures
  BY DEF Superframe
<1>4. failures \in Nat /\ failures' \in Nat
  BY <1>3 DEF IInv, TypeOK
<1>5. FailuresCounted'
  <2>1. traffic.mode \in Nat /\ traffic'.mode \in Nat /\ DefaultMode \in Nat
        /\ traffic.mode <= DefaultMode
    BY <1>1, ModeFacts DEF IInv, TypeOK, Evaluated, Characteristics
  <2>2. traffic'.mode = traffic.mode \/ traffic'.mode = DefaultMode
    BY <1>1 DEF Evaluated
  <2>3. DefaultMode - traffic.mode + Failed <= failures
    BY DEF IInv, FailuresCounted
  <2>4. DefaultMode - traffic'.mode + Failed' <= failures'
    BY <1>2, <1>3, <1>4, <2>1, <2>2, <2>3
  <2>5. DefaultMode' = DefaultMode
    BY DEF DefaultMode
  <2>6. QED
    BY <2>4 DEF FailuresCounted, DefaultMode
<1>6. changes' \in Nat
  BY DEF Superframe, Changed, IInv, TypeOK
<1>7. TypeOK'
  BY <1>0, <1>1, <1>2, <1>4, <1>6 DEF Superframe, TypeOK, Evaluated, IInv
<1>8. NewSlots
  BY <1>1 DEF NewSlots, OwnSlots, Evaluated, SlotsOf
<1>9. QED
  BY <1>1, <1>5, <1>7, <1>8 DEF IInv, Evaluated

\* Lowering the mode uses up the failures of the window (evaluatePERforConnections).
LEMMA LoweringFacts ==
    ASSUME IInv, evaluatePER
    PROVE  /\ traffic' \in Characteristics
           /\ samples' \in Seq(SUBSET {0, 1})
           /\ DefaultMode - traffic'.mode + Failed' <= failures
<1>1. /\ samples \in Seq(SUBSET {0, 1}) /\ traffic \in Characteristics
      /\ DefaultMode - traffic.mode + Failed <= failures /\ failures \in Nat
  BY DEF IInv, TypeOK, FailuresCounted
<1>2. Failed = FailedIn(samples) /\ Failed' = FailedIn(samples')
  BY DEF Failed, FailedIn
<1>3. CASE manager.known /\ adjustMCSdown
  <2>1. traffic' = UpdatePhyModeDown /\ samples' = <<>>
    BY <1>3 DEF evaluatePER, reset
  <2>2. Failed >= 1 /\ Failed \in Nat
    BY <1>1, <1>2, <1>3, LoweredByFailure, FailedInType
  <2>3. Failed' = 0
    <3>1. {i \in DOMAIN samples' : 1 \in samples'[i]} = {}
      BY <2>1
    <3>2. QED
      BY <3>1, <1>2, FS_EmptySet DEF FailedIn
  <2>4. mcsDown(traffic.mode) \in Modes /\ mcsDown(traffic.mode) >= traffic.mode - 1
        /\ traffic.mode \in Modes
    <3>1. traffic.mode \in Modes /\ traffic.mode \in Nat
      BY <1>1, ModeFacts DEF Characteristics
    <3>2. QED
      BY <3>1 DEF mcsDown
  <2>5. /\ traffic' \in Characteristics
        /\ traffic'.mode = traffic.mode \/ traffic'.mode = mcsDown(traffic.mode)
    BY <1>1, <2>1, <2>4, SetPhyModeType DEF UpdatePhyModeDown
  <2>6. traffic'.mode \in Nat /\ traffic.mode \in Nat /\ DefaultMode \in Nat
        /\ mcsDown(traffic.mode) \in Nat
    BY <2>4, <2>5, ModeFacts
  <2>7. samples' \in Seq(SUBSET {0, 1})
    BY <2>1
  <2>8. DefaultMode - traffic'.mode + Failed' <= failures
    BY <1>1, <2>2, <2>3, <2>4, <2>5, <2>6
  <2>9. QED
    BY <2>5, <2>7, <2>8
<1>4. CASE ~(manager.known /\ adjustMCSdown)
  <2>1. UNCHANGED <<traffic, samples>>
    BY <1>4 DEF evaluatePER
  <2>2. QED
    BY <2>1, <1>1, <1>2
<1>5. QED
  BY <1>3, <1>4

\* A wake-up keeps the invariant, and takes free slots.
LEMMA WakeupStep ==
    ASSUME IInv, NEW occ \in SUBSET DataSlots, Wakeup(occ)
    PROVE  IInv' /\ NewSlots
<1>1. /\ traffic' \in Characteristics
      /\ samples' \in Seq(SUBSET {0, 1})
      /\ DefaultMode - traffic'.mode + Failed' <= failures
  BY LoweringFacts DEF Wakeup
<1>2. manager \in Managers /\ MergePends(manager)
  BY DEF IInv, TypeOK, MergeIsPending
<1>3. /\ manager' \in Managers /\ MergePends(manager')
      /\ SlotsOf(manager') \ SlotsOf(manager) \subseteq DataSlots \ occ
      /\ manager'.merge \notin {manager.merge, {}} =>
           manager.merge = {} /\ manager'.alloc \cap manager'.merge = {}
      /\ created' \in {"nothing", "pattern", "merge"}
  <2>1. CASE manager.known
    <3> DEFINE c == EvaluateConnection(manager)
    <3>1. /\ c \in Managers /\ MergePends(c) /\ c.pendingMerge = manager.pendingMerge
          /\ c.alloc \in {manager.alloc, {}} /\ c.merge \in {manager.merge, {}}
      BY <1>2, EvaluateConnectionFacts
    <3> HIDE DEF c
    <3>2. PICK d \in CreateDRPMaps(c, traffic', occ) :
             /\ manager' = IF M!IsMapCreated(d) THEN M!AfterHasPending(d) ELSE d
             /\ created' = IF d.merge # manager.merge /\ d.merge # {} THEN "merge"
                              ELSE IF d.alloc # manager.alloc /\ d.alloc # {} THEN "pattern"
                              ELSE "nothing"
      BY <2>1 DEF Wakeup, c
    <3>3. /\ d \in Managers /\ MergePends(d)
          /\ SlotsOf(d) \ SlotsOf(c) \subseteq DataSlots \ occ
          /\ d.merge = c.merge \/ (~c.pendingMerge /\ d.alloc \cap d.merge = {})
      BY <3>1, <1>1, CreateDRPMapsFacts
    <3>4. /\ manager' \in Managers /\ MergePends(manager')
          /\ manager'.alloc = d.alloc /\ manager'.merge = d.merge
      BY <3>2, <3>3, AfterHasPendingFacts
    <3>5. created' \in {"nothing", "pattern", "merge"}
      BY <3>2
    <3>6. SlotsOf(manager') \ SlotsOf(manager) \subseteq DataSlots \ occ
      BY <3>1, <3>3, <3>4 DEF SlotsOf
    <3>7. manager'.merge \notin {manager.merge, {}} =>
            manager.merge = {} /\ manager'.alloc \cap manager'.merge = {}
      BY <1>2, <3>1, <3>3, <3>4 DEF MergePends
    <3>8. QED
      BY <3>4, <3>5, <3>6, <3>7
  <2>2. CASE ~manager.known
    BY <1>2, <2>2 DEF Wakeup, IInv, TypeOK
  <2>3. QED
    BY <2>1, <2>2
<1>4. changes' \in Nat
  BY DEF Wakeup, Changed, IInv, TypeOK
<1>5. TypeOK'
  BY <1>1, <1>3, <1>4 DEF Wakeup, TypeOK, IInv, estimation
<1>6. FailuresCounted'
  BY <1>1 DEF FailuresCounted, Wakeup, DefaultMode
<1>7. NewSlots
  BY <1>3 DEF NewSlots, OwnSlots, Wakeup, SlotsOf
<1>8. QED
  BY <1>3, <1>5, <1>6, <1>7 DEF IInv, MergeIsPending

\* An answer keeps the invariant, and adds no slot.
LEMMA AnswerStep ==
    ASSUME IInv, NEW base \in Verdicts, NEW merge, Answer(base, merge)
    PROVE  IInv' /\ NewSlots
<1>1. /\ manager \in Managers /\ MergePends(manager)
      /\ manager' = Answered(manager, base, merge)
  BY DEF IInv, TypeOK, MergeIsPending, Answer
<1>2. /\ manager' \in Managers /\ MergePends(manager')
      /\ SlotsOf(manager') \subseteq SlotsOf(manager)
      /\ manager'.merge \in {manager.merge, {}}
  BY <1>1, AnsweredFacts
<1>3. registered' \subseteq [start : Int, duration : Nat]
  BY <1>2, RegisterType DEF Answer
<1>4. changes' \in Nat
  BY DEF Answer, Changed, IInv, TypeOK
<1>5. TypeOK'
  BY <1>2, <1>3, <1>4 DEF Answer, TypeOK, IInv, estimation
<1>6. FailuresCounted'
  BY DEF FailuresCounted, Answer, DefaultMode, IInv, Failed
<1>7. NewSlots
  BY <1>2 DEF NewSlots, OwnSlots, SlotsOf
<1>8. QED
  BY <1>2, <1>5, <1>6, <1>7 DEF IInv, MergeIsPending

\* So does a beacon that is lost.
LEMMA BeaconLostStep ==
    ASSUME IInv, BeaconLost
    PROVE  IInv' /\ NewSlots
<1>1. manager \in Managers /\ MergeIsPending /\ UNCHANGED manager
  BY DEF IInv, TypeOK, BeaconLost
<1>2. registered' \subseteq [start : Int, duration : Nat]
  BY <1>1, RegisterType DEF BeaconLost
<1>3. changes' \in Nat
  BY DEF BeaconLost, Changed, IInv, TypeOK
<1>4. TypeOK'
  BY <1>2, <1>3 DEF BeaconLost, TypeOK, IInv, estimation
<1>5. FailuresCounted'
  BY DEF FailuresCounted, BeaconLost, DefaultMode, IInv, Failed
<1>6. MergeIsPending'
  BY <1>1 DEF MergeIsPending
<1>7. NewSlots
  BY <1>1 DEF NewSlots, OwnSlots
<1>8. QED
  BY <1>4, <1>5, <1>6, <1>7 DEF IInv

\* Every step keeps the invariant, and takes free slots only.
LEMMA NextStep ==
    ASSUME IInv, [Next]_vars
    PROVE  IInv' /\ [NewSlots]_vars
<1>1. CASE \E n \in 0 .. MaxRate, outcome \in SUBSET {0, 1} : Superframe(n, outcome)
  BY <1>1, SuperframeStep
<1>2. CASE \E occ \in SUBSET DataSlots : Wakeup(occ)
  BY <1>2, WakeupStep
<1>3. CASE \E base \in Verdicts, merge \in Verdicts \cup {"unknown"} : Answer(base, merge)
  BY <1>3, AnswerStep
<1>4. CASE BeaconLost
  BY <1>4, BeaconLostStep
<1>5. CASE UNCHANGED vars
  BY <1>5 DEF vars, estimation, IInv, TypeOK, MergeIsPending, FailuresCounted, Failed, DefaultMode
<1>6. QED
  BY <1>1, <1>2, <1>3, <1>4, <1>5 DEF Next

\* The inductive invariant holds in every state of the owner, whatever the traffic and
\* the surroundings do and in whatever combination the target answers the reservation
\* and the slots to be merged, or its beacon is lost.
THEOREM InductiveInvariant == Spec => []IInv
<1>1. IInv /\ [Next]_vars => IInv'
  BY NextStep
<1>2. QED
  BY <1>1, InitInvariant, PTL DEF Spec

\* The variables have their types; in particular a characteristic has areas with
\* slots, by which InitVector divides.
THEOREM ReservationType == Spec => []TypeOK
<1>1. IInv => TypeOK
  BY DEF IInv
<1>2. QED
  BY <1>1, InductiveInvariant, PTL

\* The phy mode is never lowered more often than superframes had failures: the
\* samples of the faster mode do not lower it again.
THEOREM LoweredOncePerFailureHolds == Spec => []LoweredOncePerFailure
<1>1. IInv => LoweredOncePerFailure
  <2> SUFFICES ASSUME IInv PROVE LoweredOncePerFailure
    OBVIOUS
  <2>1. Failed \in Nat
    BY FailedInType DEF IInv, TypeOK, Failed, FailedIn
  <2>2. traffic.mode \in Nat /\ DefaultMode \in Nat /\ failures \in Nat
    BY ModeFacts DEF IInv, TypeOK, Characteristics
  <2>3. QED
    BY <2>1, <2>2 DEF IInv, FailuresCounted, LoweredOncePerFailure
<1>2. QED
  BY <1>1, InductiveInvariant, PTL

\* The slots a step adds for the owner are after the beacon period and free.  Slots to
\* be merged are chosen beside the reservation, and only when none are pending.  (A new
\* pattern, chosen later for a reservation that was refused, may meet them.)
THEOREM NewSlotsAreFreeHolds == Spec => NewSlotsAreFree
<1>1. IInv /\ [Next]_vars =>
        [/\ (OwnSlots' \ OwnSlots) \subseteq DataSlots \ occupied'
         /\ manager'.merge \notin {manager.merge, {}} =>
              manager.merge = {} /\ manager'.alloc \cap manager'.merge = {}]_vars
  BY NextStep DEF NewSlots
<1>2. QED
  BY <1>1, InductiveInvariant, PTL DEF Spec, NewSlotsAreFree

\* What was created counts only until the target answers.
CreatedAtWakeup == phase # "answer" => created = "nothing"

\* A traffic that is covered has its packets, or no gap is left for a piece.
LEMMA CoveredMeans ==
    ASSUME NEW c \in Characteristics, NEW occ \in SUBSET DataSlots, NEW own,
           Covered(c, (0 .. NumberOfBPSlots - 1) \cup occ, own),
           NEW i \in DataSlots, i + Piece(c) <= SlotpSF,
           Part(i, i + Piece(c)) \cap (occ \cup own) = {}
    PROVE  CalcMissingPackets(c, own) = 0
<1> SUFFICES ASSUME NoGap((0 .. NumberOfBPSlots - 1) \cup occ \cup own, Piece(c)) PROVE FALSE
  BY DEF Covered
<1>1. i \in AllSlots /\ i \in Nat /\ NumberOfBPSlots <= i /\ NumberOfBPSlots \in Nat
  BY SlotSets, SlotNumbers DEF DataSlots
<1>2. PICK x \in Part(i, i + Piece(c)) : x \in (0 .. NumberOfBPSlots - 1) \cup occ \cup own
  BY <1>1 DEF NoGap
<1>3. x \in Nat /\ i <= x
  BY SlotSets DEF Part
<1>4. x \notin 0 .. NumberOfBPSlots - 1
  BY <1>1, <1>3
<1>5. QED
  BY <1>2, <1>4

\* A wake-up that creates something covers the traffic, or leaves no gap.
LEMMA WakeupCovers ==
    ASSUME IInv, CreatedAtWakeup, NEW occ \in SUBSET DataSlots, Wakeup(occ)
    PROVE  NothingUsableLeft'
<1> SUFFICES ASSUME created' # "nothing"
             PROVE  (CalcMissingPackets(traffic, Planned) = 0 \/ ~UsableGap(Planned))'
  BY DEF NothingUsableLeft
<1>1. traffic' \in Characteristics
  BY LoweringFacts DEF Wakeup
<1>2. manager \in Managers /\ MergePends(manager)
  BY DEF IInv, TypeOK, MergeIsPending
<1>3. manager.known
  BY DEF Wakeup, CreatedAtWakeup
<1> DEFINE c == EvaluateConnection(manager)
<1>4. c \in Managers /\ MergePends(c) /\ c.pendingMerge = manager.pendingMerge
  BY <1>2, EvaluateConnectionFacts
<1>5. c.alloc \in {manager.alloc, {}} /\ c.merge \in {manager.merge, {}}
  BY <1>2, EvaluateConnectionFacts
<1> HIDE DEF c
<1>6. PICK d \in CreateDRPMaps(c, traffic', occ) :
         /\ manager' = IF M!IsMapCreated(d) THEN M!AfterHasPending(d) ELSE d
         /\ created' = IF d.merge # manager.merge /\ d.merge # {} THEN "merge"
                          ELSE IF d.alloc # manager.alloc /\ d.alloc # {} THEN "pattern"
                          ELSE "nothing"
  BY <1>3 DEF Wakeup, c
<1>7. d # c
  BY <1>5, <1>6
<1> DEFINE global == (0 .. NumberOfBPSlots - 1) \cup occ
<1>8. \/ ~c.pendingMerge /\ Covered(traffic', global, SlotsOf(d))
      \/ d.merge = c.merge /\ Covered(traffic', global, d.alloc)
  BY <1>1, <1>4, <1>7, CreateDRPMapsCovers
<1>9. d \in Managers /\ MergePends(d)
  BY <1>1, <1>4, CreateDRPMapsFacts
<1>10. manager'.alloc = d.alloc /\ manager'.merge = d.merge
  BY <1>6, <1>9, AfterHasPendingFacts
<1>11. occupied' = occ /\ MinPiece' = Piece(traffic')
  BY DEF Wakeup, MinPiece, Piece
<1> HIDE DEF global
<1>12. Covered(traffic', global, Planned')
  <2>1. CASE created' = "merge"
    <3>1. d.merge # c.merge
      BY <1>5, <1>6, <2>1
    <3>2. Planned' = SlotsOf(d)
      BY <1>10, <2>1 DEF Planned, OwnSlots, SlotsOf
    <3>3. QED
      BY <1>8, <3>1, <3>2
  <2>2. CASE created' = "pattern"
    <3>1. Planned' = d.alloc
      BY <1>10, <2>2 DEF Planned
    <3>2. ~c.pendingMerge => SlotsOf(d) = d.alloc
      BY <1>2, <1>4, <1>6, <2>2 DEF MergePends, SlotsOf
    <3>3. QED
      BY <1>8, <3>1, <3>2
  <2>3. QED
    BY <1>6, <2>1, <2>2
<1>13. ASSUME UsableGap(Planned)'
       PROVE  CalcMissingPackets(traffic', Planned') = 0
  <2>1. PICK i \in DataSlots : /\ i + Piece(traffic') <= SlotpSF
                               /\ Part(i, i + Piece(traffic')) \cap (occ \cup Planned') = {}
    BY <1>11, <1>13 DEF UsableGap
  <2>2. QED
    BY <1>1, <1>12, <2>1, CoveredMeans DEF global
<1>14. QED
  BY <1>13

\* Every step keeps this.
LEMMA NextCovers ==
    ASSUME IInv, CreatedAtWakeup, NothingUsableLeft, [Next]_vars
    PROVE  (CreatedAtWakeup /\ NothingUsableLeft)'
<1>1. CASE \E n \in 0 .. MaxRate, outcome \in SUBSET {0, 1} : Superframe(n, outcome)
  BY <1>1 DEF Superframe, CreatedAtWakeup, NothingUsableLeft
<1>2. CASE \E occ \in SUBSET DataSlots : Wakeup(occ)
  <2>1. PICK occ \in SUBSET DataSlots : Wakeup(occ)
    BY <1>2
  <2>2. CreatedAtWakeup'
    BY <2>1 DEF Wakeup, CreatedAtWakeup
  <2>3. QED
    BY <2>1, <2>2, WakeupCovers
<1>3. CASE \E base \in Verdicts, merge \in Verdicts \cup {"unknown"} : Answer(base, merge)
  BY <1>3 DEF Answer, CreatedAtWakeup, NothingUsableLeft
<1>4. CASE BeaconLost
  BY <1>4 DEF BeaconLost, CreatedAtWakeup, NothingUsableLeft
<1>5. CASE UNCHANGED vars
  BY <1>5 DEF vars, CreatedAtWakeup, NothingUsableLeft, OwnSlots, Planned, UsableGap, MinPiece
<1>6. QED
  BY <1>1, <1>2, <1>3, <1>4, <1>5 DEF Next

\* A proposal falls short of the traffic only if no gap is left that could take a
\* packet: the order in which the creator extends blocks and fills gaps, the slots
\* it does not look at and the packets it counts wrongly at the end of the
\* superframe leave nothing usable behind.
THEOREM NothingUsableLeftHolds == Spec => []NothingUsableLeft
<1>1. Init => CreatedAtWakeup /\ NothingUsableLeft
  BY DEF Init, CreatedAtWakeup, NothingUsableLeft
<1>2. CreatedAtWakeup /\ NothingUsableLeft /\ IInv /\ [Next]_vars
        => (CreatedAtWakeup /\ NothingUsableLeft)'
  BY NextCovers
<1>3. QED
  BY <1>1, <1>2, InductiveInvariant, PTL DEF Spec
=============================================================================
