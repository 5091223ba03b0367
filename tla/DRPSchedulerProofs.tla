------------------------- MODULE DRPSchedulerProofs -------------------------
(***************************************************************************)
(* Proofs about module DRPScheduler.  An access begins, goes on and ends   *)
(* within nested calls, so that the operators of the model are proved one  *)
(* by one, in the order of their calls: what each does to the station's    *)
(* compounds, buffers, times and accesses.  The inductive invariant says   *)
(* that the station is idle, in a reserved access or in a contention       *)
(* access, and ties the timers of each to the next reservation; the        *)
(* properties of the model follow from it, or from what a step of it does. *)
(***************************************************************************)
EXTENDS DRPScheduler, SequenceTheorems, FiniteSetTheorems, Induction

Sums(pdus, f) ==
    f = [n \in 0 .. Len(pdus) |-> IF n = 0 THEN 0 ELSE f[n - 1] + FT[pdus[n]]]

\* There are such functions, ...
LEMMA SumsExist ==
    ASSUME NEW pdus \in Seq(Compounds)
    PROVE  \E f \in [0 .. Len(pdus) -> Nat] : Sums(pdus, f)
<1> DEFINE time(n) == IF n \in 1 .. Len(pdus) THEN FT[pdus[n]] ELSE 0
           step == [n \in Nat |-> [sum \in Nat |-> sum + time(n)]]
<1>1. \A n \in Nat : time(n) \in Nat
  BY TimingAssumption
<1>2. step \in [Nat -> [Nat -> Nat]]
  BY <1>1
<1>3. PICK f \in [0 .. Len(pdus) -> Nat] : Goes(f, 0, step, Len(pdus))
  <2> HIDE DEF step
  <2>1. 0 \in Nat /\ Len(pdus) \in Nat
    OBVIOUS
  <2>2. QED
    BY <1>2, <2>1, RecursiveFunction
<1>4. ASSUME NEW n \in 1 .. Len(pdus)
      PROVE  f[n] = f[n - 1] + FT[pdus[n]]
  <2>1. f[n - 1] \in Nat /\ n \in Nat
    OBVIOUS
  <2>2. step[n][f[n - 1]] = f[n - 1] + time(n)
    BY <2>1
  <2>3. f[n] = step[n][f[n - 1]]
    BY <1>3 DEF Goes
  <2>4. QED
    BY <2>2, <2>3
<1>5. \A n \in 0 .. Len(pdus) : f[n] = IF n = 0 THEN 0 ELSE f[n - 1] + FT[pdus[n]]
  BY <1>3, <1>4 DEF Goes
<1>6. Sums(pdus, f)
  BY <1>5 DEF Sums
<1>7. QED
  BY <1>6

\* ... TimeOf is the last value of one of them, ...
LEMMA TimeOfSums ==
    ASSUME NEW pdus \in Seq(Compounds)
    PROVE  \E f : Sums(pdus, f) /\ TimeOf(pdus) = f[Len(pdus)]
<1> DEFINE upTo == CHOOSE f : Sums(pdus, f)
<1>1. Sums(pdus, upTo)
  BY SumsExist
<1>2. TimeOf(pdus) = upTo[Len(pdus)]
  BY DEF TimeOf, Sums
<1>3. QED
  BY <1>1, <1>2

\* ... and the functions of sequences that begin alike begin alike.
LEMMA SumsAgree ==
    ASSUME NEW s \in Seq(Compounds), NEW t \in Seq(Compounds),
           NEW bound \in Nat, bound <= Len(s), bound <= Len(t),
           \A i \in 1 .. bound : s[i] = t[i],
           NEW f, NEW g, Sums(s, f), Sums(t, g)
    PROVE  f[bound] = g[bound]
<1> DEFINE same == {n \in Nat : f[n] = g[n]}
<1>1. ASSUME NEW n \in 0 .. bound
      PROVE  /\ f[n] = IF n = 0 THEN 0 ELSE f[n - 1] + FT[s[n]]
             /\ g[n] = IF n = 0 THEN 0 ELSE g[n - 1] + FT[t[n]]
  <2>1. n \in 0 .. Len(s) /\ n \in 0 .. Len(t)
    OBVIOUS
  <2>2. QED
    BY <2>1 DEF Sums
<1>2. 0 \in same
  BY <1>1
<1>3. ASSUME NEW n \in 0 .. bound - 1, n \in same
      PROVE  n + 1 \in same
  <2>1. n + 1 \in 0 .. bound /\ n + 1 # 0 /\ n + 1 - 1 = n /\ n + 1 \in 1 .. bound
    OBVIOUS
  <2>2. f[n + 1] = f[n] + FT[s[n + 1]] /\ g[n + 1] = g[n] + FT[t[n + 1]]
    BY <1>1, <2>1
  <2>3. QED
    BY <1>3, <2>1, <2>2
<1>4. 0 .. bound \subseteq same
  <2> HIDE DEF same
  <2>1. QED
    BY <1>2, <1>3, BoundedInduction
<1>5. QED
  BY <1>4

\* The sum itself: of nothing, and of one more.
LEMMA TimeOfNothing == TimeOf(<<>>) = 0
<1>1. PICK none \in Seq(Compounds) : none = <<>>
  <2>1. <<>> \in Seq(Compounds)
    OBVIOUS
  <2>2. QED
    BY <2>1, Zenon
<1>2. PICK f : Sums(none, f) /\ TimeOf(none) = f[Len(none)]
  BY TimeOfSums
<1>3. f[0] = 0
  BY <1>1, <1>2 DEF Sums
<1>4. QED
  BY <1>1, <1>2, <1>3

\* A further compound adds its frame exchange.
LEMMA TimeOfAppend ==
    ASSUME NEW pdus \in Seq(Compounds), NEW c \in Compounds
    PROVE  TimeOf(Append(pdus, c)) = TimeOf(pdus) + FT[c]
<1> DEFINE more == Append(pdus, c)
<1>1. /\ more \in Seq(Compounds) /\ Len(more) = Len(pdus) + 1
      /\ more[Len(pdus) + 1] = c /\ \A i \in 1 .. Len(pdus) : pdus[i] = more[i]
  OBVIOUS
<1> HIDE DEF more
<1>2. PICK f : Sums(pdus, f) /\ TimeOf(pdus) = f[Len(pdus)]
  BY TimeOfSums
<1>3. PICK g : Sums(more, g) /\ TimeOf(more) = g[Len(more)]
  BY <1>1, TimeOfSums
<1>4. f[Len(pdus)] = g[Len(pdus)]
  <2>1. Len(pdus) \in Nat /\ Len(pdus) <= Len(pdus) /\ Len(pdus) <= Len(more)
    BY <1>1
  <2>2. QED
    BY <1>1, <1>2, <1>3, <2>1, SumsAgree
<1>5. g[Len(more)] = g[Len(pdus)] + FT[c]
  <2>1. Len(pdus) \in Nat
    OBVIOUS
  <2>2. QED
    BY <1>1, <1>3, <2>1 DEF Sums
<1>6. QED
  BY <1>2, <1>3, <1>4, <1>5 DEF more

\* Induction over sequences.
LEMMA SequenceInduction ==
    ASSUME NEW D, NEW S, <<>> \in S,
           \A s \in Seq(D), d \in D : s \in S => Append(s, d) \in S
    PROVE  Seq(D) \subseteq S
<1> DEFINE good == {n \in Nat : \A s \in Seq(D) : Len(s) = n => s \in S}
<1>1. 0 \in good
  OBVIOUS
<1>2. ASSUME NEW n \in Nat, n \in good
      PROVE  n + 1 \in good
  <2> SUFFICES ASSUME NEW s \in Seq(D), Len(s) = n + 1
               PROVE  s \in S
    OBVIOUS
  <2>1. PICK front \in Seq(D), d \in D : s = Append(front, d) /\ Len(front) = n
    <3>1. SubSeq(s, 1, n) \in Seq(D) /\ s[n + 1] \in D /\ Len(SubSeq(s, 1, n)) = n
      OBVIOUS
    <3>2. s = Append(SubSeq(s, 1, n), s[n + 1])
      OBVIOUS
    <3>3. QED
      BY <3>1, <3>2
  <2>2. QED
    BY <1>2, <2>1
<1>3. Nat \subseteq good
  <2> HIDE DEF good
  <2>1. QED
    BY <1>1, <1>2, NumberInduction
<1>4. QED
  BY <1>3

\* The time of a sequence of compounds is a number.
LEMMA TimeOfType ==
    ASSUME NEW pdus \in Seq(Compounds)
    PROVE  TimeOf(pdus) \in Nat
<1> DEFINE good == {s \in Seq(Compounds) : TimeOf(s) \in Nat}
<1>1. <<>> \in good
  BY TimeOfNothing
<1>2. \A s \in Seq(Compounds), c \in Compounds : s \in good => Append(s, c) \in good
  BY TimeOfAppend, TimingAssumption
<1>3. Seq(Compounds) \subseteq good
  <2> HIDE DEF good
  <2>1. QED
    BY <1>1, <1>2, SequenceInduction
<1>4. QED
  BY <1>3

\* The times of two parts of a sequence add up.
LEMMA TimeOfBoth ==
    ASSUME NEW s \in Seq(Compounds), NEW t \in Seq(Compounds)
    PROVE  TimeOf(s \o t) = TimeOf(s) + TimeOf(t)
<1> DEFINE good == {u \in Seq(Compounds) : TimeOf(s \o u) = TimeOf(s) + TimeOf(u)}
<1>1. <<>> \in good
  BY TimeOfNothing, TimeOfType
<1>2. ASSUME NEW u \in Seq(Compounds), NEW c \in Compounds, u \in good
      PROVE  Append(u, c) \in good
  <2>1. s \o Append(u, c) = Append(s \o u, c)
    OBVIOUS
  <2>2. TimeOf(Append(s \o u, c)) = TimeOf(s \o u) + FT[c]
    <3>1. s \o u \in Seq(Compounds)
      OBVIOUS
    <3>2. QED
      BY <3>1, TimeOfAppend
  <2>3. TimeOf(Append(u, c)) = TimeOf(u) + FT[c]
    BY TimeOfAppend
  <2>4. FT[c] \in Nat /\ TimeOf(u) \in Nat /\ TimeOf(s) \in Nat
    BY TimeOfType, TimingAssumption
  <2>5. TimeOf(s \o Append(u, c)) = TimeOf(s) + TimeOf(Append(u, c))
    BY <1>2, <2>1, <2>2, <2>3, <2>4
  <2>6. Append(u, c) \in Seq(Compounds)
    OBVIOUS
  <2>7. QED
    BY <2>5, <2>6
<1>3. Seq(Compounds) \subseteq good
  <2> HIDE DEF good
  <2>1. QED
    BY <1>1, <1>2, SequenceInduction
<1>4. QED
  BY <1>3

\* What is left after the first.
LEMMA TimeOfTail ==
    ASSUME NEW pdus \in Seq(Compounds), pdus # <<>>
    PROVE  TimeOf(pdus) = FT[Head(pdus)] + TimeOf(Tail(pdus))
<1>1. PICK c \in Compounds, rest \in Seq(Compounds), none \in Seq(Compounds) :
        none = <<>> /\ c = Head(pdus) /\ rest = Tail(pdus)
  <2>1. Head(pdus) \in Compounds /\ Tail(pdus) \in Seq(Compounds) /\ <<>> \in Seq(Compounds)
    OBVIOUS
  <2>2. QED
    BY <2>1, Zenon
<1>2. PICK one \in Seq(Compounds) : one = Append(none, c)
  <2>1. Append(none, c) \in Seq(Compounds)
    OBVIOUS
  <2>2. QED
    BY <2>1, Zenon
<1>3. pdus = one \o rest
  BY <1>1, <1>2
<1>4. TimeOf(one) = 0 + FT[c] /\ FT[c] \in Nat
  BY <1>1, <1>2, TimeOfNothing, TimeOfAppend, TimingAssumption
<1>5. TimeOf(pdus) = TimeOf(one) + TimeOf(rest)
  BY <1>3, TimeOfBoth
<1>6. QED
  BY <1>1, <1>4, <1>5

-----------------------------------------------------------------------------
(***************************************************************************)
(* Sequences in which everything is once.                                  *)
(***************************************************************************)
LEMMA ReverseType ==
    ASSUME NEW S, NEW s \in Seq(S)
    PROVE  Reverse(s) \in Seq(S)
  BY DEF Reverse

\* The empty sequence has no elements.
LEMMA NothingIn == ToSet(<<>>) = {} /\ IsInjective(<<>>)
  BY DEF ToSet, IsInjective

\* The elements of two sequences together.
LEMMA ToSetBoth ==
    ASSUME NEW S, NEW s \in Seq(S), NEW t \in Seq(S)
    PROVE  ToSet(s \o t) = ToSet(s) \cup ToSet(t)
<1> DEFINE both == s \o t
<1>1. /\ Len(both) = Len(s) + Len(t) /\ DOMAIN both = 1 .. Len(both)
      /\ \A i \in 1 .. Len(s) : both[i] = s[i]
      /\ \A i \in 1 .. Len(t) : both[i + Len(s)] = t[i]
      /\ \A i \in Len(s) + 1 .. Len(both) : i - Len(s) \in 1 .. Len(t) /\ both[i] = t[i - Len(s)]
      /\ Len(s) \in Nat /\ Len(t) \in Nat
  OBVIOUS
<1> HIDE DEF both
<1>2. ToSet(both) \subseteq ToSet(s) \cup ToSet(t)
  BY <1>1 DEF ToSet
<1>3. ToSet(s) \subseteq ToSet(both)
  BY <1>1 DEF ToSet
<1>4. ToSet(t) \subseteq ToSet(both)
  <2> SUFFICES ASSUME NEW i \in 1 .. Len(t) PROVE t[i] \in ToSet(both)
    BY DEF ToSet
  <2>1. i + Len(s) \in 1 .. Len(both) /\ both[i + Len(s)] = t[i]
    BY <1>1
  <2>2. QED
    BY <1>1, <2>1 DEF ToSet
<1>5. QED
  BY <1>2, <1>3, <1>4 DEF both

\* Both have everything once, and nothing is in both.
Alone(s, t) == IsInjective(s) /\ IsInjective(t) /\ ToSet(s) \cap ToSet(t) = {}

\* No element is twice in two sequences together exactly if they are Alone.
LEMMA InjectiveBoth ==
    ASSUME NEW S, NEW s \in Seq(S), NEW t \in Seq(S)
    PROVE  IsInjective(s \o t) <=> Alone(s, t)
<1> DEFINE both == s \o t
<1>1. /\ Len(both) = Len(s) + Len(t) /\ DOMAIN both = 1 .. Len(both)
      /\ \A i \in 1 .. Len(s) : both[i] = s[i] /\ i \in 1 .. Len(both)
      /\ \A i \in 1 .. Len(t) : both[i + Len(s)] = t[i] /\ i + Len(s) \in 1 .. Len(both)
      /\ \A i \in Len(s) + 1 .. Len(both) : i - Len(s) \in 1 .. Len(t) /\ both[i] = t[i - Len(s)]
      /\ Len(s) \in Nat /\ Len(t) \in Nat /\ DOMAIN s = 1 .. Len(s) /\ DOMAIN t = 1 .. Len(t)
  OBVIOUS
<1> HIDE DEF both
<1>2. ASSUME IsInjective(both) PROVE Alone(s, t)
  <2>1. \A i \in 1 .. Len(both), j \in 1 .. Len(both) : both[i] = both[j] => i = j
    BY <1>1, <1>2 DEF IsInjective
  <2>2. IsInjective(s)
    BY <1>1, <2>1 DEF IsInjective
  <2>3. IsInjective(t)
    <3> SUFFICES ASSUME NEW i \in 1 .. Len(t), NEW j \in 1 .. Len(t), t[i] = t[j]
                 PROVE  i = j
      BY <1>1 DEF IsInjective
    <3>1. i + Len(s) = j + Len(s)
      BY <1>1, <2>1
    <3>2. QED
      BY <1>1, <3>1
  <2>4. ASSUME NEW i \in 1 .. Len(s), NEW j \in 1 .. Len(t), s[i] = t[j] PROVE FALSE
    <3>1. i = j + Len(s)
      BY <1>1, <2>1, <2>4
    <3>2. QED
      BY <1>1, <3>1
  <2>5. QED
    BY <1>1, <2>2, <2>3, <2>4 DEF Alone, ToSet
<1>3. ASSUME Alone(s, t) PROVE IsInjective(both)
  <2> SUFFICES ASSUME NEW i \in 1 .. Len(both), NEW j \in 1 .. Len(both), both[i] = both[j]
               PROVE  i = j
    BY <1>1 DEF IsInjective
  <2>1. \A k \in 1 .. Len(s), l \in 1 .. Len(t) : s[k] # t[l]
    BY <1>1, <1>3 DEF Alone, ToSet
  <2>2. CASE i \in 1 .. Len(s) /\ j \in 1 .. Len(s)
    BY <1>1, <1>3, <2>2 DEF Alone, IsInjective
  <2>3. CASE i \notin 1 .. Len(s) /\ j \notin 1 .. Len(s)
    <3>1. /\ i - Len(s) \in 1 .. Len(t) /\ both[i] = t[i - Len(s)]
          /\ j - Len(s) \in 1 .. Len(t) /\ both[j] = t[j - Len(s)]
      BY <1>1, <2>3
    <3>2. i - Len(s) = j - Len(s)
      BY <1>1, <1>3, <3>1 DEF Alone, IsInjective
    <3>3. QED
      BY <1>1, <3>2
  <2>4. CASE i \in 1 .. Len(s) /\ j \notin 1 .. Len(s)
    BY <1>1, <2>1, <2>4
  <2>5. CASE i \notin 1 .. Len(s) /\ j \in 1 .. Len(s)
    BY <1>1, <2>1, <2>5
  <2>6. QED
    BY <2>2, <2>3, <2>4, <2>5
<1>4. QED
  BY <1>2, <1>3 DEF both

\* A reversed sequence has the same elements, as often.
LEMMA ReverseOnce ==
    ASSUME NEW S, NEW s \in Seq(S)
    PROVE  /\ ToSet(Reverse(s)) = ToSet(s)
           /\ IsInjective(s) => IsInjective(Reverse(s))
<1> DEFINE rev == Reverse(s)
<1>1. /\ DOMAIN rev = 1 .. Len(s) /\ DOMAIN s = 1 .. Len(s) /\ Len(s) \in Nat
      /\ \A i \in 1 .. Len(s) : Len(s) - i + 1 \in 1 .. Len(s) /\ rev[i] = s[Len(s) - i + 1]
  BY DEF Reverse
<1>2. \A i \in 1 .. Len(s) : rev[Len(s) - i + 1] = s[i]
  <2> SUFFICES ASSUME NEW i \in 1 .. Len(s) PROVE rev[Len(s) - i + 1] = s[i]
    OBVIOUS
  <2>1. Len(s) - i + 1 \in 1 .. Len(s) /\ Len(s) - (Len(s) - i + 1) + 1 = i
    BY <1>1
  <2> HIDE DEF rev
  <2>2. QED
    BY <1>1, <2>1
<1> HIDE DEF rev
<1>3. ToSet(rev) = ToSet(s)
  BY <1>1, <1>2 DEF ToSet
<1>4. ASSUME IsInjective(s) PROVE IsInjective(rev)
  <2> SUFFICES ASSUME NEW i \in 1 .. Len(s), NEW j \in 1 .. Len(s), rev[i] = rev[j]
               PROVE  i = j
    BY <1>1 DEF IsInjective
  <2>1. Len(s) - i + 1 = Len(s) - j + 1
    BY <1>1, <1>4 DEF IsInjective
  <2>2. QED
    BY <1>1, <2>1
<1>5. QED
  BY <1>3, <1>4 DEF rev

\* The sequence of one element.
LEMMA OneOnce ==
    ASSUME NEW S, NEW d \in S
    PROVE  <<d>> \in Seq(S) /\ ToSet(<<d>>) = {d} /\ IsInjective(<<d>>)
<1>1. Len(<<d>>) = 1 /\ DOMAIN <<d>> = {1} /\ <<d>>[1] = d /\ <<d>> \in Seq(S)
  OBVIOUS
<1>2. QED
  BY <1>1 DEF ToSet, IsInjective

\* The first and the others.
LEMMA TailOnce ==
    ASSUME NEW S, NEW s \in Seq(S), s # <<>>
    PROVE  /\ Head(s) \in S /\ Tail(s) \in Seq(S)
           /\ ToSet(s) = {Head(s)} \cup ToSet(Tail(s))
           /\ IsInjective(s) => Head(s) \notin ToSet(Tail(s)) /\ IsInjective(Tail(s))
<1>1. PICK first \in S, one \in Seq(S), rest \in Seq(S) :
        first = Head(s) /\ one = <<first>> /\ rest = Tail(s)
  <2>1. Head(s) \in S /\ <<Head(s)>> \in Seq(S) /\ Tail(s) \in Seq(S)
    OBVIOUS
  <2>2. QED
    BY <2>1, Zenon
<1>2. s = one \o rest
  BY <1>1
<1>3. ToSet(one) = {first}
  BY <1>1, OneOnce
<1>4. ToSet(s) = ToSet(one) \cup ToSet(rest)
  BY <1>2, ToSetBoth
<1>5. IsInjective(s) => Alone(one, rest)
  BY <1>2, InjectiveBoth
<1>6. QED
  BY <1>1, <1>3, <1>4, <1>5 DEF Alone

\* Something is left behind the first of more than one element.
LEMMA MoreThanOne ==
    ASSUME NEW S, NEW s \in Seq(S), s # <<>>
    PROVE  Len(s) > 1 => Tail(s) # <<>>
<1>1. Tail(s) \in Seq(S) /\ Len(Tail(s)) = Len(s) - 1 /\ Len(s) \in Nat
  BY HeadTailProperties
<1>2. PICK rest \in Seq(S) : rest = Tail(s) /\ Len(rest) = Len(s) - 1
  BY <1>1, Zenon
<1>3. rest = <<>> => Len(rest) = 0
  OBVIOUS
<1>4. QED
  BY <1>1, <1>2, <1>3

\* The first of two sequences together is that of the first one.
LEMMA HeadOfBoth ==
    ASSUME NEW S, NEW s \in Seq(S), NEW t \in Seq(S), s # <<>>
    PROVE  s \o t # <<>> /\ Head(s \o t) = Head(s)
<1>1. Len(s) \in Nat \ {0} /\ Len(t) \in Nat
  BY EmptySeq, LenProperties
<1>2. s \o t \in Seq(S) /\ Len(s \o t) = Len(s) + Len(t) /\ (s \o t)[1] = s[1]
  BY <1>1
<1>3. PICK both \in Seq(S) : both = s \o t /\ Len(both) = Len(s) + Len(t) /\ both[1] = s[1]
  BY <1>2, Zenon
<1>4. both # <<>>
  BY <1>1, <1>3
<1>5. Head(both) = both[1] /\ Head(s) = s[1]
  OBVIOUS
<1>6. QED
  BY <1>3, <1>4, <1>5

\* The rest of two sequences together.
LEMMA TailOfBoth ==
    ASSUME NEW S, NEW s \in Seq(S), NEW t \in Seq(S), s # <<>>
    PROVE  Tail(s \o t) = Tail(s) \o t /\ Tail(s) \in Seq(S)
<1>1. PICK first \in S, one \in Seq(S), rest \in Seq(S) :
        one = <<first>> /\ rest = Tail(s) /\ s = one \o rest
  <2>1. /\ Head(s) \in S /\ <<Head(s)>> \in Seq(S) /\ Tail(s) \in Seq(S)
        /\ s = <<Head(s)>> \o Tail(s)
    OBVIOUS
  <2>2. QED
    BY <2>1, Zenon
<1>2. s \o t = one \o (rest \o t)
  BY <1>1, ConcatAssociative
<1>3. PICK more \in Seq(S) : more = rest \o t
  <2>1. rest \o t \in Seq(S)
    OBVIOUS
  <2>2. QED
    BY <2>1, Zenon
<1>4. Tail(one \o more) = more
  BY <1>1
<1>5. QED
  BY <1>1, <1>2, <1>3, <1>4

\* An appended element.
LEMMA AppendOnce ==
    ASSUME NEW S, NEW s \in Seq(S), NEW d \in S
    PROVE  /\ Append(s, d) \in Seq(S)
           /\ ToSet(Append(s, d)) = ToSet(s) \cup {d}
           /\ IsInjective(s) /\ d \notin ToSet(s) => IsInjective(Append(s, d))
<1>1. PICK one \in Seq(S) : one = <<d>>
  <2>1. <<d>> \in Seq(S)
    OBVIOUS
  <2>2. QED
    BY <2>1, Zenon
<1>2. Append(s, d) = s \o one
  BY <1>1
<1>3. ToSet(one) = {d} /\ IsInjective(one)
  BY <1>1, OneOnce
<1>4. ToSet(Append(s, d)) = ToSet(s) \cup ToSet(one)
  BY <1>2, ToSetBoth
<1>5. Alone(s, one) => IsInjective(Append(s, d))
  BY <1>2, InjectiveBoth
<1>6. QED
  BY <1>3, <1>4, <1>5 DEF Alone

\* A sequence in two parts.
LEMMA SubSeqSplit ==
    ASSUME NEW S, NEW s \in Seq(S), NEW n \in 0 .. Len(s)
    PROVE  /\ SubSeq(s, 1, n) \in Seq(S) /\ Len(SubSeq(s, 1, n)) = n
           /\ SubSeq(s, n + 1, Len(s)) \in Seq(S)
           /\ s = SubSeq(s, 1, n) \o SubSeq(s, n + 1, Len(s))
<1>1. /\ SubSeq(s, 1, n) \in Seq(S) /\ Len(SubSeq(s, 1, n)) = n
      /\ SubSeq(s, n + 1, Len(s)) \in Seq(S)
  OBVIOUS
<1>2. /\ 1 \in 1 .. Len(s) + 1 /\ n \in 1 - 1 .. Len(s) /\ Len(s) \in n .. Len(s)
  OBVIOUS
<1>3. SubSeq(s, 1, n) \o SubSeq(s, n + 1, Len(s)) = SubSeq(s, 1, Len(s))
  BY <1>2, ConcatAdjacentSubSeq, Zenon
<1>4. QED
  BY <1>1, <1>3, SubSeqFull

-----------------------------------------------------------------------------
(***************************************************************************)
(* The types of a station and of its parts.                                *)
(***************************************************************************)
For(r) == {c \in Compounds : Dest[c] = r}

BufferRecords ==
    [pdus : Seq(Compounds), timer : Nat \cup {Off}, isWaitingSIFS : BOOLEAN,
     isTransmissionStarted : BOOLEAN, numOfRetransmissions : Nat,
     unanswered : Nat]

Frames == [c : Compounds, due : Nat]

Stations ==
    [config : Configs,
     queues : [Receivers -> Seq(Compounds)],
     nextPCAReceiver : Receivers \cup {NoReceiver},
     buf : [Buffers -> BufferRecords],
     txOPLeft : Int,
     timeleft : Nat,
     AccessPermission : BOOLEAN,
     AccessRx : Receivers \cup {NoReceiver},
     isPCAtransmissionActive : BOOLEAN,
     ActivePCArx : Receivers \cup {NoReceiver},
     PCAcompoundsWereSent : BOOLEAN,
     timer : Nat \cup {Off},
     closes : SUBSET Nat,
     remainingTXOPDuration : Int,
     sendNow : BOOLEAN,
     backoffFinished : BOOLEAN,
     transmissionWaiting : BOOLEAN,
     onAir : Frames \cup {Nothing},
     counting : BOOLEAN,
     startedInDRP : BOOLEAN,
     undefined : BOOLEAN]

\* Queues and buffers have compounds for their receivers only.
Separated(t) ==
    /\ \A r \in Receivers : t.queues[r] \in Seq(For(r))
    /\ \A b \in Buffers : t.buf[b].pdus \in Seq(For(b[2]))

\* Only the timer of a buffer ends its waiting.
WaitingRuns(t) == \A b \in Buffers : t.buf[b].isWaitingSIFS => t.buf[b].timer # Off

\* An access is asked for, and the program lost, only with contention access.
ForPCAOnly(t) ==
    /\ t.transmissionWaiting => t.config.usePCAchannelAccess
    /\ t.undefined => /\ t.config.usePCAchannelAccess
                      /\ t.config.isDroppingAfterRetr # -1

\* A compound is once in a queue and a buffer of it.
Once(t) == \A b \in Buffers : Alone(t.queues[b[2]], t.buf[b].pdus)

\* If compounds may be dropped, a buffer counts a retransmission only after a
\* frame without an answer; the frame under way is not counted yet.
UnderWay(buffer) == IF buffer.timer # Off /\ ~buffer.isWaitingSIFS THEN 1 ELSE 0

BufferCounted(limit, buffer) ==
    limit # -1 =>
        /\ buffer.numOfRetransmissions <= limit
        /\ buffer.numOfRetransmissions + UnderWay(buffer) <= buffer.unanswered

Counted(t) ==
    \A b \in Buffers : BufferCounted(t.config.isDroppingAfterRetr, t.buf[b])

StationOK(t) ==
    /\ t \in Stations /\ Separated(t) /\ Once(t) /\ WaitingRuns(t)
    /\ ForPCAOnly(t) /\ Counted(t)


-----------------------------------------------------------------------------
(***************************************************************************)
(* What an access does to a station.                                       *)
(***************************************************************************)
Quiet(t, b) ==
    /\ t.buf[b].pdus = <<>>
    /\ t.buf[b].timer = Off
    /\ ~t.buf[b].isTransmissionStarted

OthersQuiet(t, b) == \A a \in Buffers \ {b} : Quiet(t, a)

NoTXOP(t) == t.remainingTXOPDuration = 0 /\ t.closes = {}

\* No access is on.
NoAccess(t) ==
    /\ ~t.AccessPermission /\ ~t.isPCAtransmissionActive
    /\ t.timer = Off
    /\ \A b \in Buffers : Quiet(t, b)
    /\ t.onAir = Nothing

Idle(t) == NoAccess(t) /\ NoTXOP(t)

\* The backoff counts within a reservation only at its very start, before any time
\* has passed; and the access of a reservation that is over has no time left.
Started(t, res, next) ==
    /\ t.startedInDRP => res /\ t.counting
    /\ res /\ t.counting => next > 0
    /\ t.counting /\ t.AccessPermission => res
    /\ t.AccessPermission /\ ~res => t.timer = 0

\* A frame exchange of buffer b is over before the access is, and a frame on the
\* air is the first of the buffer.
FrameOK(t, b) ==
    /\ TimerRuns(t, b) =>
        /\ t.buf[b].timer <= t.txOPLeft
        /\ ~t.buf[b].isWaitingSIFS => t.buf[b].pdus # <<>>
    /\ t.onAir # Nothing =>
        /\ TimerRuns(t, b) /\ ~t.buf[b].isWaitingSIFS
        /\ t.onAir.c = First(t, b)
        /\ t.buf[b].timer = t.onAir.due + Sifs

\* A reserved access, which ends before the reservation.
DRPAccess(t, next) ==
    LET b == <<"DRP", t.AccessRx>>
    IN  /\ t.AccessPermission /\ ~t.isPCAtransmissionActive
        /\ t.AccessRx \in Receivers
        /\ t.timer \in Nat /\ t.timer <= next
        /\ t.txOPLeft = t.timer - GuardDuration
        /\ NoTXOP(t)
        /\ OthersQuiet(t, b)
        /\ FrameOK(t, b)

\* What is left to be sent in buffer b.
Rest(t, b) == IF t.buf[b].isWaitingSIFS THEN t.buf[b].pdus ELSE Tail(t.buf[b].pdus)

\* A frame exchange is on, the others fit into the time left, and the TXOP goes
\* on after it or its close is on the way.
InTXOP(t, b) ==
    /\ TimerRuns(t, b)
    /\ t.buf[b].isTransmissionStarted
    /\ t.buf[b].timer + TimeOf(Rest(t, b)) + t.timeleft <= t.txOPLeft
    /\ FrameOK(t, b)
    /\ \/ t.remainingTXOPDuration > 0 /\ t.closes = {} /\ Rest(t, b) # <<>>
       \/ t.remainingTXOPDuration = 0 /\ t.closes = {t.buf[b].timer - CloseLead}

\* Nothing is sent, since no compound fits into the access.
NothingFits(t, b) ==
    /\ Quiet(t, b)
    /\ t.onAir = Nothing
    /\ NoTXOP(t)
    /\ t.queues[b[2]] # <<>>
    /\ FT[Head(t.queues[b[2]])] > t.timeleft

\* A contention access is on, which ends before the next reservation.
PCAOn(t, res, next) ==
    /\ ~t.AccessPermission /\ t.isPCAtransmissionActive
    /\ t.config.usePCAchannelAccess
    /\ ~res
    /\ t.ActivePCArx \in Receivers
    /\ t.nextPCAReceiver = t.ActivePCArx
    /\ t.timer \in Nat /\ t.timer + TimerLead <= next
    /\ t.txOPLeft = t.timer + TimerLead - GuardDuration
    /\ OthersQuiet(t, <<"PCA", t.ActivePCArx>>)

PCAAccess(t, res, next) ==
    LET b == <<"PCA", t.ActivePCArx>>
    IN  /\ PCAOn(t, res, next)
        /\ InTXOP(t, b) \/ NothingFits(t, b)

\* The same between two frame exchanges.
PCAReady(t, res, next) ==
    LET b == <<"PCA", t.ActivePCArx>>
    IN  /\ PCAOn(t, res, next)
        /\ ~TimerRuns(t, b)
        /\ t.onAir = Nothing
        /\ t.remainingTXOPDuration >= 0 /\ t.closes = {}
        /\ t.buf[b].pdus # <<>>
        /\ TimeOf(t.buf[b].pdus) + t.timeleft <= t.txOPLeft

-----------------------------------------------------------------------------
(***************************************************************************)
(* What is the same in t and u.                                            *)
(***************************************************************************)
SameAccess(t, u) ==
    /\ u.config = t.config
    /\ u.AccessPermission = t.AccessPermission /\ u.AccessRx = t.AccessRx
    /\ u.isPCAtransmissionActive = t.isPCAtransmissionActive
    /\ u.ActivePCArx = t.ActivePCArx
    /\ u.timer = t.timer

SameTXOP(t, u) ==
    /\ u.remainingTXOPDuration = t.remainingTXOPDuration
    /\ u.closes = t.closes
    /\ u.sendNow = t.sendNow

SameTimes(t, u) == u.txOPLeft = t.txOPLeft /\ u.timeleft = t.timeleft

SameTurn(t, u) ==
    /\ u.nextPCAReceiver = t.nextPCAReceiver
    /\ u.PCAcompoundsWereSent = t.PCAcompoundsWereSent

SameAir(t, u) ==
    /\ u.onAir = t.onAir
    /\ u.counting = t.counting /\ u.startedInDRP = t.startedInDRP

SameCountdown(t, u) ==
    /\ u.counting = t.counting /\ u.startedInDRP = t.startedInDRP
    /\ u.AccessPermission => t.AccessPermission /\ u.timer = t.timer

LEMMA StartedKept ==
    ASSUME NEW t, NEW u, SameCountdown(t, u), NEW res, NEW next, Started(t, res, next)
    PROVE  Started(u, res, next)
  BY DEF SameCountdown, Started

\* All compounds for r, and all of the station.
HeldFor(t, r) ==
    ToSet(t.queues[r]) \cup UNION {ToSet(t.buf[b].pdus) : b \in {"DRP", "PCA"} \X {r}}

SameHeld(t, u) == \A r \in Receivers : HeldFor(u, r) = HeldFor(t, r)

\* A buffer has used up its retransmissions, and c is the first in it.
UsedUp(t, b, c) ==
    /\ t.config.isDroppingAfterRetr # -1
    /\ ~IsEmpty(t, b) /\ First(t, b) = c
    /\ t.buf[b].unanswered > t.config.isDroppingAfterRetr

\* Compounds are dropped only if that is configured, and by such a buffer.
Loses(t, u) ==
    \A r \in Receivers :
        /\ HeldFor(u, r) \subseteq HeldFor(t, r)
        /\ \A c \in HeldFor(t, r) \ HeldFor(u, r) : \E b \in Buffers : UsedUp(t, b, c)

\* While only buffer b is in use, the compounds are in its queue or in b.
LEMMA HeldInOne ==
    ASSUME NEW t, NEW b \in Buffers, OthersQuiet(t, b)
    PROVE  HeldFor(t, b[2]) = ToSet(t.queues[b[2]]) \cup ToSet(t.buf[b].pdus)
<1>1. b \in {"DRP", "PCA"} \X {b[2]}
  BY DEF Buffers
<1>2. ASSUME NEW a \in {"DRP", "PCA"} \X {b[2]}, a # b
      PROVE  ToSet(t.buf[a].pdus) = {}
  <2>1. a \in Buffers \ {b}
    BY <1>2 DEF Buffers
  <2>2. t.buf[a].pdus = <<>>
    BY <2>1 DEF OthersQuiet, Quiet
  <2>3. QED
    BY <2>2, NothingIn
<1>3. UNION {ToSet(t.buf[a].pdus) : a \in {"DRP", "PCA"} \X {b[2]}} = ToSet(t.buf[b].pdus)
  <2> DEFINE in(a) == ToSet(t.buf[a].pdus)
             kinds == {"DRP", "PCA"} \X {b[2]}
  <2>1. \A a \in kinds : a # b => in(a) = {}
    BY <1>2
  <2>2. b \in kinds
    BY <1>1
  <2> HIDE DEF in, kinds
  <2>3. UNION {in(a) : a \in kinds} = in(b)
    BY <2>1, <2>2
  <2>4. QED
    BY <2>3 DEF in, kinds
<1>4. QED
  BY <1>3 DEF HeldFor

\* A change of another receiver's queue and buffers.
LEMMA HeldElsewhere ==
    ASSUME NEW t, NEW u, NEW b \in Buffers, NEW r \in Receivers, r # b[2],
           u.queues[r] = t.queues[r],
           \A a \in Buffers \ {b} : u.buf[a] = t.buf[a]
    PROVE  HeldFor(u, r) = HeldFor(t, r)
<1>1. \A a \in {"DRP", "PCA"} \X {r} : u.buf[a] = t.buf[a]
  BY DEF Buffers
<1>2. {ToSet(t.buf[a].pdus) : a \in {"DRP", "PCA"} \X {r}}
        = {ToSet(u.buf[a].pdus) : a \in {"DRP", "PCA"} \X {r}}
  BY <1>1
<1>3. QED
  BY <1>2 DEF HeldFor

\* A change of anything else.
LEMMA SameStation ==
    ASSUME NEW t, StationOK(t), NEW u \in Stations,
           u.queues = t.queues, u.buf = t.buf, u.config = t.config,
           u.transmissionWaiting => t.transmissionWaiting,
           u.undefined => t.undefined
    PROVE  StationOK(u) /\ SameHeld(t, u)
<1>1. SameHeld(t, u)
  BY DEF SameHeld, HeldFor
<1>2. Separated(u) /\ Once(u) /\ WaitingRuns(u) /\ ForPCAOnly(u) /\ Counted(u)
  BY DEF StationOK, Separated, Once, WaitingRuns, ForPCAOnly, Counted
<1>3. QED
  BY <1>1, <1>2 DEF StationOK

\* A sequence of compounds for one receiver is one of compounds.
LEMMA ForIsCompounds ==
    ASSUME NEW r, NEW s \in Seq(For(r))
    PROVE  s \in Seq(Compounds)
  BY DEF For

-----------------------------------------------------------------------------
(***************************************************************************)
(* Small changes of a station, while one buffer is in use.                 *)
(***************************************************************************)
\* Another queue and buffer.
Moved(t, b, queue, pdus, txOPLeft, timeleft) ==
    [t EXCEPT !.queues[b[2]] = queue, !.buf[b].pdus = pdus,
              !.txOPLeft = txOPLeft, !.timeleft = timeleft]

OnlyIn(t, u, b) ==
    /\ OthersQuiet(u, b)
    /\ HeldFor(u, b[2]) = ToSet(u.queues[b[2]]) \cup ToSet(u.buf[b].pdus)
    /\ \A r \in Receivers \ {b[2]} : HeldFor(u, r) = HeldFor(t, r)

MovedTo(t, u, b, queue, pdus, txOPLeft, timeleft) ==
    /\ u.queues = [t.queues EXCEPT ![b[2]] = queue]
    /\ u.buf[b] = [t.buf[b] EXCEPT !.pdus = pdus]
    /\ u.txOPLeft = txOPLeft /\ u.timeleft = timeleft
    /\ OnlyIn(t, u, b)
    /\ SameAir(t, u) /\ SameAccess(t, u) /\ SameTXOP(t, u) /\ SameTurn(t, u)

\* A queue and the buffer for it have changed, and what else does not matter for
\* the compounds.
Changes(t, u, b, queue, buffer) ==
    /\ u \in Stations
    /\ u.queues[b[2]] = queue /\ u.buf[b] = buffer
    /\ \A r \in Receivers \ {b[2]} : u.queues[r] = t.queues[r]
    /\ \A a \in Buffers \ {b} : u.buf[a] = t.buf[a]
    /\ u.config = t.config
    /\ BufferCounted(t.config.isDroppingAfterRetr, buffer)
    /\ u.transmissionWaiting => t.transmissionWaiting
    /\ u.undefined => t.undefined

Holds(b, queue, buffer) ==
    /\ buffer.pdus \in Seq(For(b[2]))
    /\ buffer.isWaitingSIFS => buffer.timer # Off
    /\ Alone(queue, buffer.pdus)

\* A station of which only one queue and its buffer change stays well-formed if
\* these do, and the other buffers stay quiet.
LEMMA OnlyThere ==
    ASSUME NEW t, NEW u, NEW b \in Buffers, OthersQuiet(t, b), StationOK(t),
           NEW queue \in Seq(For(b[2])), NEW buffer \in BufferRecords,
           Holds(b, queue, buffer), Changes(t, u, b, queue, buffer)
    PROVE  StationOK(u) /\ OnlyIn(t, u, b)
<1> USE DEF Holds, Changes
<1>1. OthersQuiet(u, b)
  BY DEF OthersQuiet, Quiet
<1>2. OnlyIn(t, u, b)
  <2>1. HeldFor(u, b[2]) = ToSet(u.queues[b[2]]) \cup ToSet(u.buf[b].pdus)
    BY <1>1, HeldInOne
  <2>2. \A r \in Receivers \ {b[2]} : HeldFor(u, r) = HeldFor(t, r)
    BY HeldElsewhere
  <2>3. QED
    BY <1>1, <2>1, <2>2 DEF OnlyIn
<1>3. Separated(u)
  <2>1. \A r \in Receivers : u.queues[r] \in Seq(For(r))
    BY DEF StationOK, Separated
  <2>2. \A a \in Buffers : u.buf[a].pdus \in Seq(For(a[2]))
    BY DEF StationOK, Separated
  <2>3. QED
    BY <2>1, <2>2 DEF Separated
<1>4. Once(u)
  <2> SUFFICES ASSUME NEW a \in Buffers
               PROVE  Alone(u.queues[a[2]], u.buf[a].pdus)
    BY DEF Once
  <2>1. CASE a = b
    BY <2>1
  <2>2. CASE a # b /\ a[2] = b[2]
    <3>1. u.buf[a].pdus = <<>>
      BY <1>1, <2>2 DEF OthersQuiet, Quiet
    <3>2. IsInjective(queue)
      BY DEF Alone
    <3>3. QED
      BY <2>2, <3>1, <3>2, NothingIn DEF Alone
  <2>3. CASE a[2] # b[2]
    <3>1. a[2] \in Receivers \ {b[2]} /\ a \in Buffers \ {b}
      BY <2>3 DEF Buffers
    <3>2. QED
      BY <3>1 DEF StationOK, Once
  <2>4. QED
    BY <2>1, <2>2, <2>3
<1>5. WaitingRuns(u)
  BY DEF StationOK, WaitingRuns
<1>6. ForPCAOnly(u) /\ Counted(u)
  BY DEF StationOK, ForPCAOnly, Counted
<1>7. QED
  BY <1>2, <1>3, <1>4, <1>5, <1>6 DEF StationOK

\* What a buffer counts does not depend on its compounds.
SameCounts(old, buffer) ==
    /\ buffer.numOfRetransmissions = old.numOfRetransmissions
    /\ buffer.unanswered = old.unanswered

\* Nor does it change by the end of its timer.
LEMMA CountsKept ==
    ASSUME NEW t, StationOK(t), NEW b \in Buffers, NEW buffer,
           SameCounts(t.buf[b], buffer),
           \/ buffer.timer = Off
           \/ /\ buffer.timer = t.buf[b].timer
              /\ buffer.isWaitingSIFS = t.buf[b].isWaitingSIFS
    PROVE  BufferCounted(t.config.isDroppingAfterRetr, buffer)
<1>1. BufferCounted(t.config.isDroppingAfterRetr, t.buf[b])
  BY DEF StationOK, Counted
<1>2. t.buf[b].numOfRetransmissions \in Nat /\ t.buf[b].unanswered \in Nat
  BY DEF StationOK, Stations, BufferRecords
<1>3. QED
  BY <1>1, <1>2 DEF BufferCounted, UnderWay, SameCounts

\* A queue and its buffer get other compounds of their receiver, each once.
LEMMA MovedOK ==
    ASSUME NEW t, StationOK(t), NEW b \in Buffers, OthersQuiet(t, b),
           NEW queue \in Seq(For(b[2])), NEW pdus \in Seq(For(b[2])),
           Alone(queue, pdus),
           NEW txOPLeft \in Int, NEW timeleft \in Nat, NEW u,
           u = Moved(t, b, queue, pdus, txOPLeft, timeleft)
    PROVE  StationOK(u) /\ MovedTo(t, u, b, queue, pdus, txOPLeft, timeleft)
<1> DEFINE queues == [t.queues EXCEPT ![b[2]] = queue]
           buffer == [t.buf[b] EXCEPT !.pdus = pdus]
           buf == [t.buf EXCEPT ![b] = buffer]
<1>1. /\ t \in Stations /\ t.buf \in [Buffers -> BufferRecords]
      /\ t.queues \in [Receivers -> Seq(Compounds)]
  BY DEF StationOK, Stations
<1>2. u = [t EXCEPT !.queues = queues, !.buf = buf, !.txOPLeft = txOPLeft,
                    !.timeleft = timeleft]
  BY DEF Moved
<1>3. queue \in Seq(Compounds) /\ pdus \in Seq(Compounds) /\ b[2] \in Receivers
  BY ForIsCompounds DEF Buffers
<1>4. queues \in [Receivers -> Seq(Compounds)]
  BY <1>1, <1>3
<1>5. buffer \in BufferRecords
  <2>1. t.buf[b] \in BufferRecords
    BY <1>1
  <2>2. QED
    BY <1>3, <2>1, Zenon DEF BufferRecords
<1>6. buf \in [Buffers -> BufferRecords]
  BY <1>1, <1>5
<1>7. queues[b[2]] = queue /\ \A r \in Receivers \ {b[2]} : queues[r] = t.queues[r]
  BY <1>1, <1>3
<1>8. buf[b] = buffer /\ \A a \in Buffers \ {b} : buf[a] = t.buf[a]
  BY <1>1
<1>9. /\ buffer.pdus = pdus /\ buffer.timer = t.buf[b].timer
      /\ buffer.isWaitingSIFS = t.buf[b].isWaitingSIFS
      /\ SameCounts(t.buf[b], buffer)
  <2>1. t.buf[b] \in BufferRecords
    BY <1>1
  <2>2. QED
    BY <1>8, <2>1 DEF BufferRecords, SameCounts
<1>10. buffer.isWaitingSIFS => buffer.timer # Off
  BY <1>9 DEF StationOK, WaitingRuns
<1> HIDE DEF queues, buf, buffer
<1>11. u \in Stations
  <2>1. [t EXCEPT !.queues = queues, !.buf = buf, !.txOPLeft = txOPLeft,
                  !.timeleft = timeleft] \in Stations
    BY <1>1, <1>4, <1>6, Zenon DEF Stations
  <2>2. QED
    BY <1>2, <2>1
<1>12. /\ u.queues = queues /\ u.buf = buf /\ u.txOPLeft = txOPLeft /\ u.timeleft = timeleft
       /\ SameAir(t, u) /\ SameAccess(t, u) /\ SameTXOP(t, u) /\ SameTurn(t, u)
       /\ u.transmissionWaiting = t.transmissionWaiting /\ u.undefined = t.undefined
  BY <1>1, <1>2 DEF Stations, SameAir, SameAccess, SameTXOP, SameTurn
<1>13. /\ u.queues[b[2]] = queue /\ u.buf[b] = buffer /\ u.config = t.config
       /\ \A r \in Receivers \ {b[2]} : u.queues[r] = t.queues[r]
       /\ \A a \in Buffers \ {b} : u.buf[a] = t.buf[a]
       /\ buffer.pdus \in Seq(For(b[2])) /\ Alone(queue, buffer.pdus)
  BY <1>7, <1>8, <1>9, <1>12 DEF SameAccess
<1>14. StationOK(u) /\ OnlyIn(t, u, b)
  <2>1. BufferCounted(t.config.isDroppingAfterRetr, buffer)
    BY <1>9, CountsKept
  <2>2. Changes(t, u, b, queue, buffer) /\ Holds(b, queue, buffer)
    BY <1>10, <1>11, <1>12, <1>13, <2>1 DEF Changes, Holds
  <2>3. QED
    BY <1>5, <2>2, OnlyThere
<1>15. QED
  BY <1>12, <1>13, <1>14 DEF MovedTo, queues, buffer

\* A buffer changes.
WithBuffer(t, b, buffer) == [t EXCEPT !.buf[b] = buffer]

OtherBuffer(t, u, b, buffer) ==
    /\ u.buf[b] = buffer
    /\ u.queues = t.queues
    /\ OnlyIn(t, u, b)
    /\ SameTimes(t, u)
    /\ SameAir(t, u) /\ SameAccess(t, u) /\ SameTXOP(t, u) /\ SameTurn(t, u)

\* A change of the buffer in use, as long as it stays well-formed.
LEMMA BufferOK ==
    ASSUME NEW t, StationOK(t), NEW b \in Buffers, OthersQuiet(t, b),
           NEW buffer \in BufferRecords,
           buffer.pdus \in Seq(For(b[2])),
           buffer.isWaitingSIFS => buffer.timer # Off,
           BufferCounted(t.config.isDroppingAfterRetr, buffer),
           Alone(t.queues[b[2]], buffer.pdus),
           NEW u, u = WithBuffer(t, b, buffer)
    PROVE  StationOK(u) /\ OtherBuffer(t, u, b, buffer)
<1> DEFINE buf == [t.buf EXCEPT ![b] = buffer]
<1>1. t \in Stations /\ t.buf \in [Buffers -> BufferRecords] /\ b[2] \in Receivers
  BY DEF StationOK, Stations, Buffers
<1>2. u = [t EXCEPT !.buf = buf]
  BY DEF WithBuffer
<1>3. buf \in [Buffers -> BufferRecords]
  BY <1>1
<1>4. buf[b] = buffer /\ \A a \in Buffers \ {b} : buf[a] = t.buf[a]
  BY <1>1
<1> HIDE DEF buf
<1>5. u \in Stations
  <2>1. [t EXCEPT !.buf = buf] \in Stations
    BY <1>1, <1>3, Zenon DEF Stations
  <2>2. QED
    BY <1>2, <2>1
<1>6. /\ u.buf = buf /\ u.queues = t.queues /\ SameTimes(t, u)
      /\ SameAir(t, u) /\ SameAccess(t, u) /\ SameTXOP(t, u) /\ SameTurn(t, u)
      /\ u.transmissionWaiting = t.transmissionWaiting /\ u.undefined = t.undefined
  BY <1>1, <1>2 DEF Stations, SameTimes, SameAir, SameAccess, SameTXOP, SameTurn
<1>7. /\ u.queues[b[2]] = t.queues[b[2]] /\ t.queues[b[2]] \in Seq(For(b[2]))
      /\ u.buf[b] = buffer /\ u.config = t.config
      /\ \A r \in Receivers \ {b[2]} : u.queues[r] = t.queues[r]
      /\ \A a \in Buffers \ {b} : u.buf[a] = t.buf[a]
  BY <1>1, <1>4, <1>6 DEF SameAccess, StationOK, Separated
<1>8. StationOK(u) /\ OnlyIn(t, u, b)
  <2>1. Changes(t, u, b, t.queues[b[2]], buffer) /\ Holds(b, t.queues[b[2]], buffer)
    BY <1>5, <1>6, <1>7 DEF Changes, Holds
  <2>2. QED
    BY <1>7, <2>1, OnlyThere
<1>9. QED
  BY <1>6, <1>7, <1>8 DEF OtherBuffer

\* A queue and the buffer in use for it, before and after a change.
LEMMA InUse ==
    ASSUME NEW t, StationOK(t), NEW b \in Buffers, OthersQuiet(t, b)
    PROVE  /\ b[2] \in Receivers
           /\ t.queues[b[2]] \in Seq(For(b[2])) /\ t.buf[b].pdus \in Seq(For(b[2]))
           /\ t.queues[b[2]] \in Seq(Compounds) /\ t.buf[b].pdus \in Seq(Compounds)
           /\ t.buf[b] \in BufferRecords
           /\ Alone(t.queues[b[2]], t.buf[b].pdus)
           /\ HeldFor(t, b[2]) = ToSet(t.queues[b[2]]) \cup ToSet(t.buf[b].pdus)
<1>1. b[2] \in Receivers
  BY DEF Buffers
<1>2. t.queues[b[2]] \in Seq(For(b[2])) /\ t.buf[b].pdus \in Seq(For(b[2]))
  BY <1>1 DEF StationOK, Separated
<1>3. t.buf[b] \in BufferRecords
  BY DEF StationOK, Stations
<1>4. Alone(t.queues[b[2]], t.buf[b].pdus)
  BY DEF StationOK, Once
<1>5. QED
  BY <1>1, <1>2, <1>3, <1>4, ForIsCompounds, HeldInOne

\* A move between a queue and its buffer keeps the station's compounds.
LEMMA OnlySame ==
    ASSUME NEW t, NEW u, NEW b \in Buffers, OnlyIn(t, u, b), OthersQuiet(t, b),
           ToSet(u.queues[b[2]]) \cup ToSet(u.buf[b].pdus)
             = ToSet(t.queues[b[2]]) \cup ToSet(t.buf[b].pdus)
    PROVE  SameHeld(t, u)
<1>1. HeldFor(u, b[2]) = HeldFor(t, b[2])
  BY HeldInOne DEF OnlyIn
<1>2. QED
  BY <1>1 DEF OnlyIn, SameHeld

\* The compounds of a buffer return to their queue.
LEMMA ReturnOK ==
    ASSUME NEW t, StationOK(t), NEW b \in Buffers, OthersQuiet(t, b),
           NEW u, u = ReturnCompounds(t, b)
    PROVE  /\ StationOK(u)
           /\ OthersQuiet(u, b) /\ SameHeld(t, u)
           /\ u.buf[b] = [t.buf[b] EXCEPT !.pdus = <<>>]
           /\ \A r \in Receivers \ {b[2]} : u.queues[r] = t.queues[r]
           /\ u.txOPLeft = 0 /\ u.timeleft = 0
           /\ SameAir(t, u) /\ SameAccess(t, u) /\ SameTXOP(t, u) /\ SameTurn(t, u)
<1> DEFINE queue == t.queues[b[2]] \o Reverse(t.buf[b].pdus)
<1>1. /\ b[2] \in Receivers
      /\ t.queues[b[2]] \in Seq(For(b[2])) /\ t.buf[b].pdus \in Seq(For(b[2]))
      /\ t.buf[b] \in BufferRecords
      /\ Alone(t.queues[b[2]], t.buf[b].pdus)
  BY InUse
<1>2. Reverse(t.buf[b].pdus) \in Seq(For(b[2])) /\ <<>> \in Seq(For(b[2]))
  BY <1>1, ReverseType
<1>3. queue \in Seq(For(b[2]))
  BY <1>1, <1>2
<1>4. /\ ToSet(Reverse(t.buf[b].pdus)) = ToSet(t.buf[b].pdus)
      /\ IsInjective(t.buf[b].pdus) => IsInjective(Reverse(t.buf[b].pdus))
  BY <1>1, ReverseOnce
<1>5. ToSet(queue) = ToSet(t.queues[b[2]]) \cup ToSet(t.buf[b].pdus)
  BY <1>1, <1>2, <1>4, ToSetBoth
<1>6. IsInjective(queue)
  <2>1. Alone(t.queues[b[2]], Reverse(t.buf[b].pdus))
    BY <1>1, <1>4 DEF Alone
  <2>2. QED
    BY <1>1, <1>2, <2>1, InjectiveBoth
<1>7. Alone(queue, <<>>)
  BY <1>6, NothingIn DEF Alone
<1>8. u = Moved(t, b, queue, <<>>, 0, 0)
  BY DEF ReturnCompounds, putFront, Moved
<1>9. 0 \in Int /\ 0 \in Nat
  OBVIOUS
<1> HIDE DEF queue
<1>10. StationOK(u) /\ MovedTo(t, u, b, queue, <<>>, 0, 0)
  BY <1>2, <1>3, <1>7, <1>8, <1>9, MovedOK
<1>11. t.queues \in [Receivers -> Seq(Compounds)]
  BY DEF StationOK, Stations
<1>12. /\ u.queues[b[2]] = queue /\ u.buf[b].pdus = <<>>
       /\ \A r \in Receivers \ {b[2]} : u.queues[r] = t.queues[r]
  BY <1>1, <1>10, <1>11 DEF MovedTo, BufferRecords
<1>13. SameHeld(t, u)
  <2>1. ToSet(u.queues[b[2]]) \cup ToSet(u.buf[b].pdus)
           = ToSet(t.queues[b[2]]) \cup ToSet(t.buf[b].pdus)
    BY <1>5, <1>12, NothingIn
  <2>2. OnlyIn(t, u, b)
    BY <1>10 DEF MovedTo
  <2>3. QED
    BY <2>1, <2>2, OnlySame
<1>14. QED
  BY <1>10, <1>12, <1>13 DEF MovedTo, OnlyIn

\* The backoff is asked for an access.
LEMMA RequestOK ==
    ASSUME NEW t, StationOK(t), t.config.usePCAchannelAccess,
           NEW u, u = transmissionRequest(t)
    PROVE  /\ StationOK(u) /\ SameHeld(t, u)
           /\ u.queues = t.queues /\ u.buf = t.buf
           /\ SameTimes(t, u) /\ SameAir(t, u) /\ SameAccess(t, u) /\ SameTXOP(t, u)
           /\ SameTurn(t, u) /\ u.undefined = t.undefined
<1>1. t \in Stations
  BY DEF StationOK
<1>2. PICK x \in BOOLEAN, y \in BOOLEAN :
        u = [t EXCEPT !.transmissionWaiting = x, !.backoffFinished = y]
  <2>1. (~DirectGo(t)) \in BOOLEAN /\ (t.backoffFinished /\ ~DirectGo(t)) \in BOOLEAN
    BY DEF DirectGo
  <2>2. QED
    BY <2>1 DEF transmissionRequest
<1>3. u \in Stations
  <2>1. [t EXCEPT !.transmissionWaiting = x, !.backoffFinished = y] \in Stations
    BY <1>1, Zenon DEF Stations
  <2>2. QED
    BY <1>2, <2>1
<1>4. /\ u.queues = t.queues /\ u.buf = t.buf /\ SameTimes(t, u) /\ SameAir(t, u)
      /\ SameAccess(t, u) /\ SameTXOP(t, u) /\ SameTurn(t, u)
      /\ u.undefined = t.undefined
  BY <1>1, <1>2 DEF Stations, SameTimes, SameAir, SameAccess, SameTXOP, SameTurn
<1>5. /\ Separated(u) /\ WaitingRuns(u) /\ ForPCAOnly(u) /\ Once(u) /\ Counted(u)
      /\ SameHeld(t, u)
  BY <1>4 DEF StationOK, Separated, WaitingRuns, ForPCAOnly, SameAccess, Once,
     Counted, SameHeld, HeldFor
<1>6. QED
  BY <1>3, <1>4, <1>5 DEF StationOK

-----------------------------------------------------------------------------
(***************************************************************************)
(* Buffers.                                                                *)
(***************************************************************************)
\* How many compounds fit: at least one if the first does.
LEMMA FittingOK ==
    ASSUME NEW queue \in Seq(Compounds), NEW t, t.timeleft \in Nat, NEW b,
           t.queues[b[2]] = queue
    PROVE  /\ Fitting(t, b) \in 0 .. Len(queue)
           /\ TimeOf(SubSeq(queue, 1, Fitting(t, b))) <= t.timeleft
           /\ Fitting(t, b) > 0 => queue # <<>>
           /\ queue # <<>> => (Fitting(t, b) > 0 <=> FT[Head(queue)] <= t.timeleft)
<1> DEFINE time(n) == TimeOf(SubSeq(queue, 1, n))
<1>1. Len(queue) \in Nat
  OBVIOUS
<1>2. ASSUME NEW n \in 0 .. Len(queue) PROVE SubSeq(queue, 1, n) \in Seq(Compounds) /\ time(n) \in Nat
  <2>1. SubSeq(queue, 1, n) \in Seq(Compounds)
    OBVIOUS
  <2>2. QED
    BY <2>1, TimeOfType
<1>3. time(0) = 0
  <2>1. SubSeq(queue, 1, 0) = <<>>
    OBVIOUS
  <2>2. QED
    BY <2>1, TimeOfNothing
<1>4. ASSUME NEW n \in 1 .. Len(queue)
      PROVE  time(n) >= FT[Head(queue)] /\ (n = 1 => time(n) = FT[Head(queue)])
  <2>1. PICK part \in Seq(Compounds) : part = SubSeq(queue, 1, n) /\ Len(part) = n
    <3>1. SubSeq(queue, 1, n) \in Seq(Compounds) /\ Len(SubSeq(queue, 1, n)) = n
      OBVIOUS
    <3>2. QED
      BY <3>1, Zenon
  <2>2. /\ part # <<>> /\ Head(part) = Head(queue) /\ Tail(part) \in Seq(Compounds)
    <3>1. part # <<>>
      BY <2>1
    <3>2. part[1] = queue[1]
      BY <2>1
    <3>3. Head(part) = part[1] /\ Head(queue) = queue[1]
      OBVIOUS
    <3>4. Tail(part) \in Seq(Compounds)
      BY <3>1, HeadTailProperties
    <3>5. QED
      BY <3>1, <3>2, <3>3, <3>4
  <2>3. n = 1 => Tail(part) = <<>>
    <3>1. Tail(part) \in Seq(Compounds) /\ Len(Tail(part)) = Len(part) - 1
      BY <2>2, HeadTailProperties
    <3>2. n = 1 => Len(Tail(part)) = 0
      BY <2>1, <3>1
    <3>3. QED
      BY <3>1, <3>2, EmptySeq
  <2>4. TimeOf(part) = FT[Head(part)] + TimeOf(Tail(part))
    BY <2>2, TimeOfTail
  <2>5. TimeOf(Tail(part)) \in Nat /\ (n = 1 => TimeOf(Tail(part)) = 0)
    BY <2>2, <2>3, TimeOfType, TimeOfNothing
  <2>6. FT[Head(queue)] \in Nat
    <3>1. Head(queue) \in Compounds
      BY <2>2
    <3>2. QED
      BY <3>1, TimingAssumption
  <2>7. QED
    BY <2>1, <2>2, <2>4, <2>5, <2>6
<1>5. Fitting(t, b) = CHOOSE n \in 0 .. Len(queue) :
        time(n) <= t.timeleft /\ (n < Len(queue) => ~(time(n + 1) <= t.timeleft))
  BY DEF Fitting
<1> HIDE DEF time
<1>6. \E n \in 0 .. Len(queue) :
        time(n) <= t.timeleft /\ (n < Len(queue) => ~(time(n + 1) <= t.timeleft))
  <2> DEFINE long == {n \in 1 .. Len(queue) : ~(time(n) <= t.timeleft)}
  <2>1. CASE long = {}
    <3>1. time(Len(queue)) <= t.timeleft
      BY <1>1, <1>3, <2>1
    <3>2. QED
      BY <1>1, <3>1
  <2>2. CASE long # {}
    <3>1. PICK least \in long : \A n \in long : least <= n
      <4>1. long \subseteq Nat
        OBVIOUS
      <4> HIDE DEF long
      <4>2. QED
        BY <2>2, <4>1, LeastNumber
    <3>2. least - 1 \in 0 .. Len(queue) /\ least - 1 + 1 = least
      OBVIOUS
    <3>3. time(least - 1) <= t.timeleft
      BY <1>3, <3>1, <3>2
    <3>4. QED
      BY <3>2, <3>3
  <2>3. QED
    BY <2>1, <2>2
<1>7. /\ Fitting(t, b) \in 0 .. Len(queue) /\ time(Fitting(t, b)) <= t.timeleft
      /\ Fitting(t, b) < Len(queue) => ~(time(Fitting(t, b) + 1) <= t.timeleft)
  BY <1>5, <1>6
<1>8. Fitting(t, b) > 0 => queue # <<>>
  BY <1>7
<1>9. ASSUME queue # <<>> PROVE Fitting(t, b) > 0 <=> FT[Head(queue)] <= t.timeleft
  <2>1. FT[Head(queue)] \in Nat /\ Len(queue) > 0
    <3>1. Head(queue) \in Compounds /\ Len(queue) > 0
      BY <1>9
    <3>2. QED
      BY <3>1, TimingAssumption
  <2>2. CASE Fitting(t, b) > 0
    <3>1. Fitting(t, b) \in 1 .. Len(queue)
      BY <1>7, <2>2
    <3>2. time(Fitting(t, b)) >= FT[Head(queue)] /\ time(Fitting(t, b)) \in Nat
      BY <1>2, <1>4, <1>7, <3>1
    <3>3. QED
      BY <1>7, <2>1, <2>2, <3>2
  <2>3. CASE Fitting(t, b) = 0
    <3>1. time(1) = FT[Head(queue)]
      BY <1>4, <2>1
    <3>2. QED
      BY <1>7, <2>1, <2>3, <3>1
  <2>4. QED
    BY <1>7, <2>2, <2>3
<1>10. QED
  BY <1>7, <1>8, <1>9 DEF time

\* A buffer is filled with compounds for which there is time.
Filled(t, u, b, moved) ==
    /\ u.buf[b] = [t.buf[b] EXCEPT !.pdus = @ \o moved]
    /\ u.txOPLeft = t.txOPLeft
    /\ u.timeleft = t.timeleft - TimeOf(moved)
    /\ \A r \in Receivers \ {b[2]} : u.queues[r] = t.queues[r]
    /\ Fitting(t, b) > 0 => moved # <<>>
    /\ OthersQuiet(u, b) /\ SameHeld(t, u)
    /\ SameAir(t, u) /\ SameAccess(t, u) /\ SameTXOP(t, u) /\ SameTurn(t, u)

\* FillBuffer moves compounds that fit from the queue into the buffer.
LEMMA FillOK ==
    ASSUME NEW t, StationOK(t), NEW b \in Buffers, OthersQuiet(t, b),
           NEW u, u = FillBuffer(t, b)
    PROVE  StationOK(u) /\ \E moved \in Seq(Compounds) : Filled(t, u, b, moved)
<1>1. /\ b[2] \in Receivers
      /\ t.queues[b[2]] \in Seq(For(b[2])) /\ t.buf[b].pdus \in Seq(For(b[2]))
      /\ t.queues[b[2]] \in Seq(Compounds)
      /\ t.buf[b] \in BufferRecords
      /\ Alone(t.queues[b[2]], t.buf[b].pdus)
  BY InUse
<1>2. t.timeleft \in Nat /\ t.txOPLeft \in Int /\ t.queues \in [Receivers -> Seq(Compounds)]
  BY DEF StationOK, Stations
<1>3. PICK queue \in Seq(For(b[2])) : queue = t.queues[b[2]] /\ queue \in Seq(Compounds)
  BY <1>1, Zenon
<1>4. /\ Fitting(t, b) \in 0 .. Len(queue)
      /\ TimeOf(SubSeq(queue, 1, Fitting(t, b))) <= t.timeleft
  BY <1>2, <1>3, FittingOK
<1>5. PICK moved \in Seq(For(b[2])), rest \in Seq(For(b[2])) :
        /\ moved = SubSeq(queue, 1, Fitting(t, b)) /\ Len(moved) = Fitting(t, b)
        /\ rest = SubSeq(queue, Len(moved) + 1, Len(queue))
        /\ queue = moved \o rest
  <2>1. /\ SubSeq(queue, 1, Fitting(t, b)) \in Seq(For(b[2]))
        /\ Len(SubSeq(queue, 1, Fitting(t, b))) = Fitting(t, b)
        /\ SubSeq(queue, Fitting(t, b) + 1, Len(queue)) \in Seq(For(b[2]))
        /\ queue = SubSeq(queue, 1, Fitting(t, b)) \o SubSeq(queue, Fitting(t, b) + 1, Len(queue))
    BY <1>4, SubSeqSplit
  <2>2. QED
    BY <2>1, Zenon
<1>6. PICK pdus \in Seq(For(b[2])) : pdus = t.buf[b].pdus
  BY <1>1, Zenon
<1>7. moved \in Seq(Compounds) /\ TimeOf(moved) \in Nat /\ TimeOf(moved) <= t.timeleft
  BY <1>4, <1>5, ForIsCompounds, TimeOfType
<1>8. PICK more \in Seq(For(b[2])), left \in Nat : more = pdus \o moved /\ left = t.timeleft - TimeOf(moved)
  <2>1. pdus \o moved \in Seq(For(b[2])) /\ t.timeleft - TimeOf(moved) \in Nat
    BY <1>2, <1>7
  <2>2. QED
    BY <2>1, Zenon
<1>9. /\ ToSet(queue) = ToSet(moved) \cup ToSet(rest)
      /\ ToSet(more) = ToSet(pdus) \cup ToSet(moved)
      /\ IsInjective(queue) <=> Alone(moved, rest)
      /\ IsInjective(more) <=> Alone(pdus, moved)
  <2>1. queue = moved \o rest
    BY <1>5
  <2>2. ToSet(queue) = ToSet(moved) \cup ToSet(rest)
    BY <2>1, ToSetBoth
  <2>3. ToSet(more) = ToSet(pdus) \cup ToSet(moved)
    BY <1>8, ToSetBoth
  <2>4. IsInjective(queue) <=> Alone(moved, rest)
    BY <2>1, InjectiveBoth
  <2>5. IsInjective(more) <=> Alone(pdus, moved)
    BY <1>8, InjectiveBoth
  <2>6. QED
    BY <2>2, <2>3, <2>4, <2>5
<1>10. Alone(rest, more)
  BY <1>1, <1>3, <1>6, <1>9 DEF Alone
<1>11. u = Moved(t, b, rest, more, t.txOPLeft, left)
  <2>1. u = [t EXCEPT !.queues[b[2]] = rest, !.buf[b].pdus = more, !.timeleft = left]
    BY <1>3, <1>5, <1>6, <1>8 DEF FillBuffer
  <2>2. QED
    BY <2>1 DEF Moved, StationOK, Stations
<1>12. StationOK(u) /\ MovedTo(t, u, b, rest, more, t.txOPLeft, left)
  BY <1>2, <1>10, <1>11, MovedOK
<1>13. u.queues[b[2]] = rest /\ \A r \in Receivers \ {b[2]} : u.queues[r] = t.queues[r]
  BY <1>1, <1>2, <1>12 DEF MovedTo
<1>14. u.buf[b] = [t.buf[b] EXCEPT !.pdus = @ \o moved] /\ u.buf[b].pdus = more
  BY <1>1, <1>6, <1>8, <1>12 DEF MovedTo, BufferRecords
<1>15. SameHeld(t, u)
  <2>1. ToSet(u.queues[b[2]]) \cup ToSet(u.buf[b].pdus)
           = ToSet(t.queues[b[2]]) \cup ToSet(t.buf[b].pdus)
    BY <1>3, <1>6, <1>9, <1>13, <1>14
  <2>2. OnlyIn(t, u, b)
    BY <1>12 DEF MovedTo
  <2>3. QED
    BY <2>1, <2>2, OnlySame
<1>16. Fitting(t, b) > 0 => moved # <<>>
  <2>1. Len(moved) = Fitting(t, b)
    BY <1>5
  <2>2. moved = <<>> => Len(moved) = 0
    OBVIOUS
  <2>3. QED
    BY <2>1, <2>2
<1>17. Filled(t, u, b, moved)
  BY <1>8, <1>12, <1>13, <1>14, <1>15, <1>16 DEF Filled, MovedTo, OnlyIn
<1>18. QED
  BY <1>7, <1>12, <1>17

-----------------------------------------------------------------------------
(***************************************************************************)
(* Receivers in turn.                                                      *)
(***************************************************************************)
LEMMA LeastOK ==
    ASSUME NEW S, S \subseteq Nat, S # {}
    PROVE  Least(S) \in S /\ \A n \in S : Least(S) <= n
<1>1. \E n \in S : \A m \in S : n <= m
  BY LeastNumber
<1>2. QED
  BY <1>1 DEF Least

\* The next receiver has compounds, and is another one if there is another.
LEMMA ChangeOK ==
    ASSUME NEW queues, NEW r \in Receivers \cup {NoReceiver},
           NEW new, new = changePCAreceiver(queues, r)
    PROVE  /\ new \in Receivers \cup {NoReceiver}
           /\ new # NoReceiver => queues[new] # <<>>
           /\ new # r \/ \A s \in Receivers \ {r} : queues[s] = <<>>
<1> DEFINE withPDUs == {s \in Receivers : queueHasPDUs(queues, s)}
           later == {s \in withPDUs : s > r}
<1>1. /\ withPDUs \subseteq Receivers /\ later \subseteq withPDUs
      /\ withPDUs \subseteq Nat /\ later \subseteq Nat /\ NoReceiver \notin Receivers
      /\ r \in Nat
  <2>1. Receivers \subseteq Nat \ {0} /\ NoReceiver = 0
    BY ReceiversAssumption DEF NoReceiver
  <2>2. withPDUs \subseteq Receivers /\ later \subseteq withPDUs
    OBVIOUS
  <2> HIDE DEF withPDUs, later
  <2>3. QED
    BY <2>1, <2>2
<1>2. \A s \in Receivers : s \in withPDUs <=> queues[s] # <<>>
  BY DEF queueHasPDUs
<1>3. new = IF later # {} THEN Least(later)
            ELSE IF withPDUs # {} THEN Least(withPDUs) ELSE NoReceiver
  BY DEF changePCAreceiver
<1>4. later # {} => Least(later) \in later /\ Least(later) # r
  <2>1. later # {} => Least(later) \in later
    <3> HIDE DEF later, withPDUs
    <3>1. QED
      BY <1>1, LeastOK
  <2>2. r \notin later
    BY <1>1
  <2>3. QED
    BY <2>1, <2>2
<1>5. ASSUME later = {}, withPDUs # {}
      PROVE  Least(withPDUs) \in withPDUs /\ (Least(withPDUs) # r \/ withPDUs = {r})
  <2>1. Least(withPDUs) \in withPDUs /\ \A n \in withPDUs : Least(withPDUs) <= n
    <3> HIDE DEF withPDUs
    <3>1. QED
      BY <1>1, <1>5, LeastOK
  <2>2. ASSUME Least(withPDUs) = r, NEW n \in withPDUs PROVE n = r
    <3>1. r <= n /\ ~(n > r) /\ n \in Nat
      BY <1>1, <1>5, <2>1, <2>2
    <3>2. QED
      BY <1>1, <3>1
  <2>3. QED
    BY <2>1, <2>2
<1> HIDE DEF withPDUs, later
<1>6. CASE later # {}
  <2>1. Least(later) # r /\ Least(later) \in withPDUs
    BY <1>1, <1>4, <1>6
  <2>2. QED
    BY <1>1, <1>2, <1>3, <1>6, <2>1
<1>7. CASE later = {} /\ withPDUs # {}
  BY <1>1, <1>2, <1>3, <1>5, <1>7
<1>8. CASE later = {} /\ withPDUs = {}
  BY <1>1, <1>2, <1>3, <1>8
<1>9. QED
  BY <1>6, <1>7, <1>8

\* The receiver of the next contention access, if there is one, has compounds.
LEMMA NextReceiverOK ==
    ASSUME NEW t, StationOK(t)
    PROVE  /\ NextReceiver(t) \in Receivers \cup {NoReceiver}
           /\ NextReceiver(t) # NoReceiver => t.queues[NextReceiver(t)] # <<>>
<1>1. t.nextPCAReceiver \in Receivers \cup {NoReceiver}
  BY DEF StationOK, Stations
<1>2. CASE queueHasPDUs(t.queues, t.nextPCAReceiver)
  BY <1>2 DEF NextReceiver, getNextPCAReceiver, queueHasPDUs
<1>3. CASE ~queueHasPDUs(t.queues, t.nextPCAReceiver)
  <2>1. NextReceiver(t) = changePCAreceiver(t.queues, t.nextPCAReceiver)
    BY <1>3 DEF NextReceiver, getNextPCAReceiver
  <2>2. QED
    BY <1>1, <2>1, ChangeOK
<1>4. QED
  BY <1>2, <1>3

-----------------------------------------------------------------------------
(***************************************************************************)
(* The end of a contention access.                                         *)
(***************************************************************************)
TurnPassed(t, u) ==
    /\ ~u.PCAcompoundsWereSent
    /\ ~t.PCAcompoundsWereSent => u.nextPCAReceiver = t.nextPCAReceiver
    /\ \A r \in Receivers \ {t.ActivePCArx} : u.queues[r] = t.queues[r]
    /\ t.PCAcompoundsWereSent /\ t.nextPCAReceiver = t.ActivePCArx =>
          \/ u.nextPCAReceiver # t.ActivePCArx
          \/ \A r \in Receivers \ {t.ActivePCArx} : u.queues[r] = <<>>

\* EndPCA returns the compounds, passes the turn and leaves no access behind.
LEMMA EndPCAOK ==
    ASSUME NEW t, StationOK(t), t.config.usePCAchannelAccess,
           ~t.AccessPermission, t.ActivePCArx \in Receivers,
           OthersQuiet(t, <<"PCA", t.ActivePCArx>>),
           ~TimerRuns(t, <<"PCA", t.ActivePCArx>>), t.onAir = Nothing,
           NEW u, u = EndPCA(t)
    PROVE  /\ StationOK(u) /\ SameHeld(t, u)
           /\ NoAccess(u)
           /\ u.ActivePCArx = t.ActivePCArx /\ u.config = t.config
           /\ SameTXOP(t, u)
           /\ u.counting = t.counting /\ u.startedInDRP = t.startedInDRP
           /\ SameCounts(t.buf[<<"PCA", t.ActivePCArx>>], u.buf[<<"PCA", t.ActivePCArx>>])
           /\ TurnPassed(t, u)
<1> DEFINE b == <<"PCA", t.ActivePCArx>>
           turn(v) == IF t.PCAcompoundsWereSent
                      THEN changePCAreceiver(v.queues, t.nextPCAReceiver)
                      ELSE t.nextPCAReceiver
<1>1. b \in Buffers /\ b[2] = t.ActivePCArx
  BY DEF Buffers
<1>2. PICK v : v = ReturnCompounds(t, b)
  OBVIOUS
<1>3. /\ StationOK(v) /\ OthersQuiet(v, b) /\ SameHeld(t, v)
      /\ v.buf[b] = [t.buf[b] EXCEPT !.pdus = <<>>]
      /\ \A r \in Receivers \ {b[2]} : v.queues[r] = t.queues[r]
      /\ SameAir(t, v) /\ SameAccess(t, v) /\ SameTXOP(t, v) /\ SameTurn(t, v)
  BY <1>1, <1>2, ReturnOK
<1>4. /\ v \in Stations /\ v.buf \in [Buffers -> BufferRecords]
      /\ v.buf[b] \in BufferRecords /\ t.buf[b] \in BufferRecords
  BY <1>1, <1>3 DEF StationOK, Stations
<1>5. PICK next \in Receivers \cup {NoReceiver} :
        /\ next = turn(v)
        /\ t.PCAcompoundsWereSent =>
             next # t.nextPCAReceiver \/ \A s \in Receivers \ {t.nextPCAReceiver} : v.queues[s] = <<>>
  <2>1. t.nextPCAReceiver \in Receivers \cup {NoReceiver}
    BY DEF StationOK, Stations
  <2>2. PICK new : new = changePCAreceiver(v.queues, t.nextPCAReceiver)
    OBVIOUS
  <2>3. /\ new \in Receivers \cup {NoReceiver}
        /\ new # t.nextPCAReceiver \/ \A s \in Receivers \ {t.nextPCAReceiver} : v.queues[s] = <<>>
    BY <2>1, <2>2, ChangeOK
  <2>4. QED
    BY <2>1, <2>2, <2>3
<1>6. PICK buffer \in BufferRecords :
        /\ buffer = [v.buf[b] EXCEPT !.isTransmissionStarted = FALSE]
        /\ buffer.pdus = <<>> /\ buffer.timer = Off /\ ~buffer.isTransmissionStarted
        /\ ~buffer.isWaitingSIFS
        /\ SameCounts(v.buf[b], buffer) /\ SameCounts(t.buf[b], buffer)
  <2>1. [v.buf[b] EXCEPT !.isTransmissionStarted = FALSE] \in BufferRecords
    BY <1>4, Zenon DEF BufferRecords
  <2>2. t.buf[b].timer = Off /\ ~t.buf[b].isWaitingSIFS
    BY <1>1 DEF TimerRuns, StationOK, WaitingRuns
  <2>3. QED
    BY <1>3, <1>4, <2>1, <2>2 DEF BufferRecords, SameCounts
<1>7. PICK buf \in [Buffers -> BufferRecords] :
        /\ buf = [v.buf EXCEPT ![b] = buffer]
        /\ buf[b] = buffer /\ \A a \in Buffers \ {b} : buf[a] = v.buf[a]
  <2> HIDE DEF b
  <2>1. [v.buf EXCEPT ![b] = buffer] \in [Buffers -> BufferRecords]
    BY <1>1, <1>4
  <2>2. /\ [v.buf EXCEPT ![b] = buffer][b] = buffer
        /\ \A a \in Buffers \ {b} : [v.buf EXCEPT ![b] = buffer][a] = v.buf[a]
    BY <1>1, <1>4
  <2>3. QED
    BY <2>1, <2>2, Zenon
<1>8. PICK w : w = [v EXCEPT !.timer = Off, !.nextPCAReceiver = next,
                             !.PCAcompoundsWereSent = FALSE,
                             !.isPCAtransmissionActive = FALSE, !.buf = buf]
  OBVIOUS
<1>9. w = [v EXCEPT !.timer = Off, !.nextPCAReceiver = turn(v),
                    !.PCAcompoundsWereSent = FALSE,
                    !.isPCAtransmissionActive = FALSE,
                    !.buf[b].isTransmissionStarted = FALSE]
  BY <1>5, <1>6, <1>7, <1>8
<1>10. u = waitingTransmissions(w)
  <2>1. v.nextPCAReceiver = t.nextPCAReceiver /\ v.PCAcompoundsWereSent = t.PCAcompoundsWereSent
    BY <1>3 DEF SameTurn
  <2>2. QED
    BY <1>2, <1>9, <2>1 DEF EndPCA
<1>11. w \in Stations
  <2>1. Off \in Nat \cup {Off}
    OBVIOUS
  <2>2. [v EXCEPT !.timer = Off, !.nextPCAReceiver = next,
                  !.PCAcompoundsWereSent = FALSE,
                  !.isPCAtransmissionActive = FALSE, !.buf = buf] \in Stations
    BY <1>4, <2>1, Zenon DEF Stations
  <2>3. QED
    BY <1>8, <2>2
<1>12. /\ w.timer = Off /\ w.nextPCAReceiver = next /\ ~w.PCAcompoundsWereSent
       /\ ~w.isPCAtransmissionActive /\ w.buf = buf
       /\ w.queues = v.queues /\ w.config = v.config
       /\ w.AccessPermission = v.AccessPermission
       /\ w.ActivePCArx = v.ActivePCArx
       /\ SameTXOP(v, w) /\ SameAir(v, w)
       /\ w.transmissionWaiting = v.transmissionWaiting /\ w.undefined = v.undefined
  BY <1>4, <1>8 DEF Stations, SameTXOP, SameAir
<1>13. PICK queue \in Seq(For(b[2])) : queue = v.queues[b[2]] /\ IsInjective(queue)
  <2>1. v.queues[b[2]] \in Seq(For(b[2])) /\ IsInjective(v.queues[b[2]])
    BY <1>1, <1>3, InUse DEF Alone
  <2>2. QED
    BY <2>1, Zenon
<1>14. /\ buffer.pdus \in Seq(For(b[2])) /\ Alone(queue, buffer.pdus)
       /\ buffer.isWaitingSIFS => buffer.timer # Off
  <2>1. <<>> \in Seq(For(b[2]))
    OBVIOUS
  <2>2. QED
    BY <1>6, <1>13, <2>1, NothingIn DEF Alone
<1>15. StationOK(w) /\ OnlyIn(v, w, b)
  <2>1. BufferCounted(v.config.isDroppingAfterRetr, buffer)
    BY <1>1, <1>3, <1>6, CountsKept
  <2>2. Changes(v, w, b, queue, buffer) /\ Holds(b, queue, buffer)
    BY <1>7, <1>11, <1>12, <1>13, <1>14, <2>1 DEF Changes, Holds
  <2>3. QED
    BY <1>1, <1>3, <2>2, OnlyThere
<1>16. SameHeld(v, w)
  <2>1. w.buf[b].pdus = v.buf[b].pdus /\ w.queues = v.queues
    BY <1>3, <1>4, <1>6, <1>7, <1>12 DEF BufferRecords
  <2>2. QED
    BY <1>1, <1>3, <1>15, <2>1, OnlySame
<1>17. NoAccess(w)
  <2>1. Quiet(w, b)
    BY <1>6, <1>7, <1>12 DEF Quiet
  <2>2. \A a \in Buffers : Quiet(w, a)
    BY <1>15, <2>1 DEF OnlyIn, OthersQuiet
  <2>3. ~w.AccessPermission /\ w.onAir = Nothing
    BY <1>3, <1>12 DEF SameAccess, SameAir
  <2>4. QED
    BY <1>12, <2>2, <2>3 DEF NoAccess
<1>18. TurnPassed(t, w)
  <2>1. \A r \in Receivers \ {t.ActivePCArx} : w.queues[r] = t.queues[r]
    BY <1>1, <1>3, <1>12
  <2>2. ~t.PCAcompoundsWereSent => w.nextPCAReceiver = t.nextPCAReceiver
    BY <1>5, <1>12
  <2>3. ASSUME t.PCAcompoundsWereSent, t.nextPCAReceiver = t.ActivePCArx
        PROVE  \/ w.nextPCAReceiver # t.ActivePCArx
               \/ \A r \in Receivers \ {t.ActivePCArx} : w.queues[r] = <<>>
    BY <1>5, <1>12, <2>3
  <2>4. QED
    BY <1>12, <2>1, <2>2, <2>3 DEF TurnPassed
<1>19. /\ w.ActivePCArx = t.ActivePCArx /\ w.config = t.config
       /\ SameTXOP(t, w)
       /\ w.counting = t.counting /\ w.startedInDRP = t.startedInDRP /\ SameHeld(t, w)
  BY <1>3, <1>12, <1>16 DEF SameAccess, SameTXOP, SameAir, SameHeld
<1>20. SameCounts(t.buf[b], w.buf[b])
  BY <1>6, <1>7, <1>12
<1>21. CASE u = w
  BY <1>15, <1>17, <1>18, <1>19, <1>21, <1>20
<1>22. CASE u = transmissionRequest(w)
  <2>1. /\ StationOK(u) /\ SameHeld(w, u)
        /\ u.queues = w.queues /\ u.buf = w.buf
        /\ SameAir(w, u) /\ SameAccess(w, u) /\ SameTXOP(w, u) /\ SameTurn(w, u)
    BY <1>15, <1>19, <1>22, RequestOK
  <2>2. NoAccess(u)
    BY <1>17, <2>1 DEF NoAccess, Quiet, SameAir, SameAccess
  <2>3. TurnPassed(t, u)
    BY <1>18, <2>1 DEF TurnPassed, SameTurn
  <2>4. QED
    BY <1>19, <1>20, <2>1, <2>2, <2>3 DEF SameAccess, SameTXOP, SameAir, SameHeld
<1>23. QED
  BY <1>10, <1>21, <1>22 DEF waitingTransmissions

-----------------------------------------------------------------------------
(***************************************************************************)
(* Sending the first compound of a buffer.                                 *)
(***************************************************************************)
OnAir(t, u, b) ==
    /\ u.buf[b].pdus = t.buf[b].pdus
    /\ u.buf[b].timer = FT[First(t, b)]
    /\ u.buf[b].isTransmissionStarted /\ ~u.buf[b].isWaitingSIFS
    /\ u.onAir.c = First(t, b)
    /\ u.onAir.due = FT[First(t, b)] - Sifs
    /\ u.queues = t.queues

\* TransmitCompound puts the first compound of the buffer on the air.
LEMMA TransmitOK ==
    ASSUME NEW t, StationOK(t), NEW b \in Buffers, OthersQuiet(t, b),
           ~TimerRuns(t, b), t.buf[b].pdus # <<>>,
           NEW u, u = TransmitCompound(t, b)
    PROVE  /\ StationOK(u) /\ OthersQuiet(u, b) /\ SameHeld(t, u)
           /\ OnAir(t, u, b)
           /\ SameTimes(t, u) /\ SameAccess(t, u) /\ SameTXOP(t, u) /\ SameTurn(t, u)
           /\ u.counting = t.counting /\ u.startedInDRP = t.startedInDRP
<1>1. /\ b[2] \in Receivers
      /\ t.queues[b[2]] \in Seq(For(b[2])) /\ t.buf[b].pdus \in Seq(For(b[2]))
      /\ t.buf[b].pdus \in Seq(Compounds)
      /\ t.buf[b] \in BufferRecords
      /\ Alone(t.queues[b[2]], t.buf[b].pdus)
  BY InUse
<1>2. PICK c \in Compounds, time \in Nat, due \in Nat :
        c = First(t, b) /\ time = FT[c] /\ due = FT[c] - Sifs
  <2>1. First(t, b) \in Compounds
    BY <1>1 DEF First
  <2>2. FT[First(t, b)] \in Nat /\ FT[First(t, b)] - Sifs \in Nat
    BY <2>1, TimingAssumption
  <2>3. QED
    BY <2>1, <2>2
<1>3. PICK sent \in Nat :
         /\ sent = UpTo(t.buf[b].unanswered + 1, MaxUnanswered(t))
         /\ t.config.isDroppingAfterRetr # -1 =>
              /\ t.buf[b].numOfRetransmissions <= t.config.isDroppingAfterRetr
              /\ t.buf[b].numOfRetransmissions + 1 <= sent
  <2>1. /\ t.config.isDroppingAfterRetr \in Nat \cup {-1}
        /\ t.buf[b].unanswered \in Nat /\ t.buf[b].numOfRetransmissions \in Nat
    BY <1>1, ConfigAssumption DEF StationOK, Stations, BufferRecords
  <2>2. UnderWay(t.buf[b]) = 0
    BY DEF UnderWay, TimerRuns
  <2>3. BufferCounted(t.config.isDroppingAfterRetr, t.buf[b])
    BY DEF StationOK, Counted
  <2>4. QED
    BY <2>1, <2>2, <2>3 DEF BufferCounted, UpTo, MaxUnanswered
<1>4. PICK buffer \in BufferRecords :
        /\ buffer = [t.buf[b] EXCEPT !.timer = time, !.isTransmissionStarted = TRUE,
                                     !.unanswered = sent]
        /\ buffer.pdus = t.buf[b].pdus /\ buffer.timer = time
        /\ buffer.isTransmissionStarted /\ ~buffer.isWaitingSIFS
        /\ buffer.unanswered = sent
        /\ buffer.numOfRetransmissions = t.buf[b].numOfRetransmissions
  <2>1. time \in Nat \cup {Off}
    OBVIOUS
  <2>2. [t.buf[b] EXCEPT !.timer = time, !.isTransmissionStarted = TRUE,
                         !.unanswered = sent] \in BufferRecords
    BY <1>1, <2>1, Zenon DEF BufferRecords
  <2>3. ~t.buf[b].isWaitingSIFS
    BY DEF TimerRuns, StationOK, WaitingRuns
  <2>4. QED
    BY <1>1, <2>2, <2>3 DEF BufferRecords
<1>5. BufferCounted(t.config.isDroppingAfterRetr, buffer)
  <2>1. UnderWay(buffer) = 1
    BY <1>2, <1>4 DEF UnderWay, Off
  <2>2. QED
    BY <1>4, <1>3, <2>1 DEF BufferCounted
<1>6. t \in Stations /\ t.buf \in [Buffers -> BufferRecords]
  BY DEF StationOK, Stations
<1>7. PICK buf \in [Buffers -> BufferRecords] :
        /\ buf = [t.buf EXCEPT ![b] = buffer]
        /\ buf[b] = buffer /\ \A a \in Buffers \ {b} : buf[a] = t.buf[a]
  <2>1. [t.buf EXCEPT ![b] = buffer] \in [Buffers -> BufferRecords]
    BY <1>6
  <2>2. /\ [t.buf EXCEPT ![b] = buffer][b] = buffer
        /\ \A a \in Buffers \ {b} : [t.buf EXCEPT ![b] = buffer][a] = t.buf[a]
    BY <1>6
  <2>3. QED
    BY <2>1, <2>2, Zenon
<1>8. PICK frame \in Frames \cup {Nothing} :
        frame = [c |-> c, due |-> due] /\ frame.c = c /\ frame.due = due
  <2>1. [c |-> c, due |-> due] \in Frames
    BY DEF Frames
  <2>2. QED
    BY <2>1
<1>9. u = [t EXCEPT !.buf = buf, !.onAir = frame]
  <2>1. PICK first : first = [t.buf[b] EXCEPT !.timer = time]
    OBVIOUS
  <2>2. PICK s : s = [t EXCEPT !.buf = [t.buf EXCEPT ![b] = first]]
    OBVIOUS
  <2>3. s.buf[b] = first /\ s.buf = [t.buf EXCEPT ![b] = first]
    BY <1>6, <2>2 DEF Stations
  <2>4. PICK second : second = [first EXCEPT !.isTransmissionStarted = TRUE]
    OBVIOUS
  <2>5. PICK v : v = [s EXCEPT !.buf = [s.buf EXCEPT ![b] = second]]
    OBVIOUS
  <2>6. v = [t EXCEPT !.buf = [t.buf EXCEPT ![b] = second]]
    BY <1>6, <2>2, <2>3, <2>5
  <2>7. v.buf[b] = second /\ v.buf = [t.buf EXCEPT ![b] = second]
    BY <1>6, <2>6 DEF Stations
  <2>8. second.unanswered = t.buf[b].unanswered
    BY <1>1, <2>1, <2>4 DEF BufferRecords
  <2>9. buffer = [second EXCEPT !.unanswered = sent]
    BY <1>4, <2>1, <2>4
  <2>10. buf = [v.buf EXCEPT ![b] = buffer]
    BY <1>6, <1>7, <2>7
  <2>11. u = [v EXCEPT !.buf[b].unanswered = sent, !.onAir = frame]
    <3>1. s = [t EXCEPT !.buf[b].timer = FT[First(t, b)]]
      BY <1>2, <2>1, <2>2
    <3>2. v = [s EXCEPT !.buf[b].isTransmissionStarted = TRUE]
      BY <2>3, <2>4, <2>5
    <3>3. frame = [c |-> First(t, b), due |-> FT[First(t, b)] - Sifs]
      BY <1>2, <1>8
    <3>4. u = [[[[t EXCEPT !.buf[b].timer = FT[First(t, b)]]
                    EXCEPT !.buf[b].isTransmissionStarted = TRUE]
                      EXCEPT !.buf[b].unanswered =
                                 UpTo(t.buf[b].unanswered + 1, MaxUnanswered(t))]
                        EXCEPT !.onAir = frame]
      BY <3>3 DEF TransmitCompound
    <3>5. QED
      BY <1>3, <3>1, <3>2, <3>4, Zenon
  <2>12. u = [v EXCEPT !.buf = buf, !.onAir = frame]
    BY <1>3, <2>7, <2>8, <2>9, <2>10, <2>11
  <2>13. QED
    BY <2>6, <2>12
<1>10. u \in Stations
  <2>1. [t EXCEPT !.buf = buf, !.onAir = frame] \in Stations
    BY <1>6, Zenon DEF Stations
  <2>2. QED
    BY <1>9, <2>1
<1>11. /\ u.buf = buf /\ u.onAir = frame /\ u.queues = t.queues /\ SameTimes(t, u)
      /\ SameAccess(t, u) /\ SameTXOP(t, u) /\ SameTurn(t, u)
      /\ u.counting = t.counting /\ u.startedInDRP = t.startedInDRP
      /\ u.transmissionWaiting = t.transmissionWaiting /\ u.undefined = t.undefined
  BY <1>6, <1>9 DEF Stations, SameTimes, SameAccess, SameTXOP, SameTurn
<1>12. StationOK(u) /\ OnlyIn(t, u, b)
  <2>1. Changes(t, u, b, t.queues[b[2]], buffer)
    BY <1>7, <1>10, <1>11, <1>5 DEF SameAccess, Changes
  <2>2. Holds(b, t.queues[b[2]], buffer)
    BY <1>1, <1>4 DEF Holds
  <2>3. QED
    BY <1>1, <2>1, <2>2, OnlyThere
<1>13. SameHeld(t, u)
  <2>1. u.buf[b].pdus = t.buf[b].pdus /\ u.queues[b[2]] = t.queues[b[2]]
    BY <1>4, <1>7, <1>11
  <2>2. QED
    BY <1>12, <2>1, OnlySame
<1>14. OnAir(t, u, b)
  BY <1>2, <1>4, <1>7, <1>8, <1>11 DEF OnAir
<1>15. QED
  BY <1>11, <1>12, <1>13, <1>14 DEF OnlyIn

\* A frame sent into the time that is left is over in time.
LEMMA FrameOnAir ==
    ASSUME NEW t, NEW u, NEW b \in Buffers, OnAir(t, u, b), StationOK(t),
           t.buf[b].pdus # <<>>, FT[First(t, b)] <= u.txOPLeft
    PROVE  FrameOK(u, b) /\ TimerRuns(u, b) /\ u.buf[b].timer > 2 * Sifs
<1>1. First(t, b) \in Compounds
  BY DEF First, StationOK, Stations, BufferRecords
<1>2. FT[First(t, b)] \in Nat /\ FT[First(t, b)] > 2 * Sifs /\ Sifs \in Nat
  BY <1>1, TimingAssumption
<1>3. u.buf[b].timer \in Nat /\ u.buf[b].timer # Off
  BY <1>2 DEF OnAir, Off
<1>4. QED
  BY <1>2, <1>3 DEF FrameOK, OnAir, TimerRuns, First

-----------------------------------------------------------------------------
(***************************************************************************)
(* A reserved access.                                                      *)
(***************************************************************************)
\* Between two frame exchanges there is nothing on the air.
LEMMA DRPSendOK ==
    ASSUME NEW t, StationOK(t), NEW next, DRPAccess(t, next),
           ~TimerRuns(t, <<"DRP", t.AccessRx>>),
           NEW u, u = SendCompounds(t, <<"DRP", t.AccessRx>>)
    PROVE  /\ StationOK(u) /\ SameHeld(t, u) /\ DRPAccess(u, next)
           /\ SameAccess(t, u) /\ u.sendNow = t.sendNow
           /\ u.counting = t.counting /\ u.startedInDRP = t.startedInDRP
<1> DEFINE b == <<"DRP", t.AccessRx>>
<1>1. b \in Buffers
  BY DEF Buffers, DRPAccess
<1>2. CASE IsEmpty(t, b) \/ FT[First(t, b)] > t.txOPLeft
  <2>1. u = t
    BY <1>2 DEF SendCompounds, stopIdlePCA, DRPAccess
  <2>2. QED
    BY <2>1 DEF SameHeld, SameAccess
<1>3. CASE ~(IsEmpty(t, b) \/ FT[First(t, b)] > t.txOPLeft)
  <2>1. u = TransmitCompound(t, b) /\ t.buf[b].pdus # <<>>
    BY <1>3 DEF SendCompounds, ScheduleCompounds, DRPAccess, IsEmpty
  <2>2. /\ StationOK(u) /\ OthersQuiet(u, b) /\ SameHeld(t, u)
        /\ OnAir(t, u, b)
        /\ SameTimes(t, u) /\ SameAccess(t, u) /\ SameTXOP(t, u)
        /\ u.counting = t.counting /\ u.startedInDRP = t.startedInDRP
    BY <1>1, <2>1, TransmitOK DEF DRPAccess
  <2>3. FT[First(t, b)] <= u.txOPLeft
    <3>1. First(t, b) \in Compounds
      BY <1>1, <2>1 DEF First, StationOK, Stations, BufferRecords
    <3>2. FT[First(t, b)] \in Nat /\ t.txOPLeft \in Int
      BY <3>1, TimingAssumption DEF StationOK, Stations
    <3>3. QED
      BY <1>3, <2>2, <3>2 DEF SameTimes
  <2>4. FrameOK(u, b)
    BY <1>1, <2>1, <2>2, <2>3, FrameOnAir
  <2>5. DRPAccess(u, next)
    BY <2>2, <2>4 DEF DRPAccess, SameAccess, SameTimes, SameTXOP, NoTXOP
  <2>6. QED
    BY <2>2, <2>5 DEF SameTXOP
<1>4. QED
  BY <1>2, <1>3

-----------------------------------------------------------------------------
(***************************************************************************)
(* A contention access.                                                    *)
(***************************************************************************)
LEMMA PCABuffer ==
    ASSUME NEW t, NEW res, NEW next, StationOK(t), PCAOn(t, res, next)
    PROVE  /\ <<"PCA", t.ActivePCArx>> \in Buffers
           /\ OthersQuiet(t, <<"PCA", t.ActivePCArx>>)
           /\ t.timer \in Nat /\ t.txOPLeft \in Int /\ t.timeleft \in Nat
  BY DEF PCAOn, Buffers, StationOK, Stations

\* The DCF is asked whether to send now.
LEMMA AskOK ==
    ASSUME NEW t, StationOK(t), t.config.usePCAchannelAccess,
           NEW u, u = AskDCF(t)
    PROVE  /\ StationOK(u) /\ SameHeld(t, u)
           /\ u.queues = t.queues /\ u.buf = t.buf
           /\ SameTimes(t, u) /\ SameAir(t, u) /\ SameAccess(t, u) /\ SameTurn(t, u)
           /\ u.remainingTXOPDuration = t.remainingTXOPDuration /\ u.closes = t.closes
           /\ Bypass(t) => u = t
<1>1. CASE Bypass(t) \/ t.sendNow
  BY <1>1 DEF AskDCF, SameHeld, SameTimes, SameAir, SameAccess, SameTurn
<1>2. CASE ~(Bypass(t) \/ t.sendNow)
  <2>1. PICK v : v = transmissionRequest(t)
    OBVIOUS
  <2>2. /\ StationOK(v) /\ SameHeld(t, v)
        /\ v.queues = t.queues /\ v.buf = t.buf
        /\ SameTimes(t, v) /\ SameAir(t, v) /\ SameAccess(t, v) /\ SameTXOP(t, v)
        /\ SameTurn(t, v)
    BY <2>1, RequestOK
  <2>3. PICK x \in BOOLEAN : u = [v EXCEPT !.sendNow = x]
    <3>1. DirectGo(t) \in BOOLEAN
      BY DEF DirectGo, StationOK, Stations
    <3>2. QED
      BY <1>2, <2>1, <3>1 DEF AskDCF
  <2>4. v \in Stations
    BY <2>2 DEF StationOK
  <2>5. u \in Stations
    <3>1. [v EXCEPT !.sendNow = x] \in Stations
      BY <2>4, Zenon DEF Stations
    <3>2. QED
      BY <2>3, <3>1
  <2>6. /\ u.queues = v.queues /\ u.buf = v.buf
        /\ SameTimes(v, u) /\ SameAir(v, u) /\ SameAccess(v, u) /\ SameTurn(v, u)
        /\ u.remainingTXOPDuration = v.remainingTXOPDuration /\ u.closes = v.closes
        /\ u.transmissionWaiting = v.transmissionWaiting /\ u.undefined = v.undefined
    BY <2>3, <2>4 DEF Stations, SameTimes, SameAir, SameAccess, SameTurn
  <2>7. StationOK(u) /\ SameHeld(v, u)
    BY <2>2, <2>5, <2>6, SameStation DEF SameAccess
  <2>8. QED
    BY <1>2, <2>2, <2>6, <2>7
       DEF SameHeld, SameTimes, SameAir, SameAccess, SameTurn, SameTXOP
<1>3. QED
  BY <1>1, <1>2

\* The TXOP goes on after the frame, or is closed at its end.
TXOPGoesOn(t, u, b) ==
    \/ u.remainingTXOPDuration > 0 /\ u.closes = {} /\ Len(t.buf[b].pdus) > 1
    \/ u.remainingTXOPDuration = 0 /\ u.closes = {FT[First(t, b)] - CloseLead}

Outgoing(t, u, b) ==
    \E x \in Int, y \in SUBSET Nat :
        /\ u = [t EXCEPT !.remainingTXOPDuration = x, !.closes = y]
        /\ TXOPGoesOn(t, u, b)

\* processOutgoing opens or continues the TXOP, or closes it and asks for the end.
LEMMA OutgoingOK ==
    ASSUME NEW t, StationOK(t), NEW b \in Buffers, t.closes = {}, t.buf[b].pdus # <<>>,
           NEW u, u = processOutgoing(t, b)
    PROVE  Outgoing(t, u, b)
<1> DEFINE duration == FT[First(t, b)]
           window == IF t.remainingTXOPDuration = 0 THEN txopLimit
                     ELSE t.remainingTXOPDuration - Sifs
           cut == window - (duration - Sifs)
           next == getNextTransmissionDuration(t.buf[b].pdus)
<1>1. t \in Stations /\ t.remainingTXOPDuration \in Int
  BY DEF StationOK, Stations
<1>2. duration \in Nat /\ duration - CloseLead \in Nat
  <2>1. First(t, b) \in Compounds
    BY DEF First, StationOK, Stations, BufferRecords
  <2>2. QED
    BY <2>1, TimingAssumption
<1>3. cut \in Int
  <2>1. txopLimit \in Nat /\ Sifs \in Nat
    BY TimingAssumption
  <2>2. window \in Int
    BY <1>1, <2>1
  <2> HIDE DEF window, duration
  <2>3. QED
    BY <1>2, <2>1, <2>2
<1>4. u = IF cut > 0 /\ next \in 1 .. cut
          THEN [t EXCEPT !.remainingTXOPDuration = cut]
          ELSE txOPCloseIn(closeTXOP(t), duration)
  BY DEF processOutgoing
<1> HIDE DEF duration, window, cut
<1>5. CASE cut > 0 /\ next \in 1 .. cut
  <2>1. u = [t EXCEPT !.remainingTXOPDuration = cut]
    BY <1>4, <1>5
  <2>2. u = [t EXCEPT !.remainingTXOPDuration = cut, !.closes = {}]
    BY <1>1, <2>1 DEF Stations
  <2>3. u.remainingTXOPDuration = cut /\ u.closes = {}
    BY <1>1, <2>2 DEF Stations
  <2>4. Len(t.buf[b].pdus) > 1
    <3>1. next # 0
      BY <1>5
    <3>2. QED
      BY <3>1 DEF getNextTransmissionDuration
  <2>5. {} \in SUBSET Nat
    OBVIOUS
  <2>6. QED
    BY <1>3, <1>5, <2>2, <2>3, <2>4, <2>5 DEF TXOPGoesOn, Outgoing
<1>6. CASE ~(cut > 0 /\ next \in 1 .. cut)
  <2>1. PICK v : v = closeTXOP(t)
    OBVIOUS
  <2>2. v = [t EXCEPT !.remainingTXOPDuration = 0] /\ v.closes = {}
    BY <1>1, <2>1 DEF closeTXOP, Stations
  <2>3. u = [v EXCEPT !.closes = {duration - CloseLead}]
    BY <1>4, <1>6, <2>1, <2>2 DEF txOPCloseIn
  <2>4. u = [t EXCEPT !.remainingTXOPDuration = 0, !.closes = {duration - CloseLead}]
    BY <2>2, <2>3
  <2>5. u.remainingTXOPDuration = 0 /\ u.closes = {duration - CloseLead}
    BY <1>1, <2>4 DEF Stations
  <2>6. {duration - CloseLead} \in SUBSET Nat /\ 0 \in Int
    BY <1>2
  <2>7. QED
    BY <2>4, <2>5, <2>6 DEF TXOPGoesOn, Outgoing, duration
<1>7. QED
  BY <1>5, <1>6

\* The first compound is sent, and the others still fit.
LEMMA SendPCAOK ==
    ASSUME NEW t, StationOK(t), NEW res, NEW next, PCAReady(t, res, next),
           Bypass(t) => ~t.sendNow,
           NEW u, u = SendPCA(t, <<"PCA", t.ActivePCArx>>)
    PROVE  /\ StationOK(u) /\ SameHeld(t, u) /\ PCAAccess(u, res, next)
           /\ ~u.sendNow /\ u.counting = t.counting /\ u.startedInDRP = t.startedInDRP
<1> DEFINE b == <<"PCA", t.ActivePCArx>>
<1>1. PCAOn(t, res, next) /\ ~TimerRuns(t, b) /\ t.closes = {} /\ t.buf[b].pdus # <<>>
  BY DEF PCAReady
<1>2. /\ b \in Buffers /\ OthersQuiet(t, b)
      /\ t.timer \in Nat /\ t.txOPLeft \in Int /\ t.timeleft \in Nat
  BY <1>1, PCABuffer
<1>3. PICK v : v = TransmitCompound(t, b)
  OBVIOUS
<1>4. /\ StationOK(v) /\ OthersQuiet(v, b) /\ SameHeld(t, v)
      /\ OnAir(t, v, b)
      /\ SameTimes(t, v) /\ SameAccess(t, v) /\ SameTXOP(t, v) /\ SameTurn(t, v)
      /\ v.counting = t.counting /\ v.startedInDRP = t.startedInDRP
  <2> HIDE DEF b
  <2>1. QED
    BY <1>1, <1>2, <1>3, TransmitOK
<1>5. PICK w : w = processOutgoing(v, b)
  OBVIOUS
<1>6. v.closes = {} /\ v.buf[b].pdus # <<>> /\ First(v, b) = First(t, b)
  BY <1>1, <1>4 DEF SameTXOP, OnAir, First
<1>7. PICK x \in Int, y \in SUBSET Nat :
        /\ w = [v EXCEPT !.remainingTXOPDuration = x, !.closes = y]
        /\ TXOPGoesOn(v, w, b)
  <2> HIDE DEF b
  <2>1. Outgoing(v, w, b)
    BY <1>2, <1>4, <1>5, <1>6, OutgoingOK
  <2>2. QED
    BY <2>1 DEF Outgoing
<1>8. v \in Stations /\ v.sendNow = t.sendNow
  BY <1>4 DEF StationOK, SameTXOP
<1>9. w.sendNow = t.sendNow
  BY <1>7, <1>8 DEF Stations
<1>10. PICK z \in BOOLEAN : z = (w.sendNow /\ Bypass(t)) /\ ~z
  <2>1. ~(w.sendNow /\ Bypass(t)) /\ (w.sendNow /\ Bypass(t)) \in BOOLEAN
    BY <1>9
  <2>2. QED
    BY <2>1
<1>11. u = [v EXCEPT !.remainingTXOPDuration = x, !.closes = y,
                     !.PCAcompoundsWereSent = TRUE, !.sendNow = z]
  <2>1. u = [w EXCEPT !.PCAcompoundsWereSent = TRUE, !.sendNow = z]
    BY <1>3, <1>5, <1>10 DEF SendPCA
  <2>2. QED
    BY <1>7, <2>1
<1>12. u \in Stations
  <2>1. [v EXCEPT !.remainingTXOPDuration = x, !.closes = y,
                  !.PCAcompoundsWereSent = TRUE, !.sendNow = z] \in Stations
    BY <1>8, Zenon DEF Stations
  <2>2. QED
    BY <1>11, <2>1
<1>13. /\ u.queues = v.queues /\ u.buf = v.buf /\ SameTimes(v, u)
       /\ SameAir(v, u) /\ SameAccess(v, u) /\ u.nextPCAReceiver = v.nextPCAReceiver
       /\ u.remainingTXOPDuration = x /\ u.closes = y /\ ~u.sendNow
       /\ u.transmissionWaiting = v.transmissionWaiting /\ u.undefined = v.undefined
  BY <1>8, <1>10, <1>11 DEF Stations, SameTimes, SameAir, SameAccess
<1>14. StationOK(u) /\ SameHeld(v, u)
  <2>1. u.config = v.config
    BY <1>13 DEF SameAccess
  <2>2. QED
    BY <1>4, <1>12, <1>13, <2>1, SameStation
<1>15. SameHeld(t, u) /\ u.counting = t.counting /\ u.startedInDRP = t.startedInDRP
  BY <1>4, <1>13, <1>14 DEF SameHeld, SameAir
<1>16. PCAOn(u, res, next)
  <2>1. u.nextPCAReceiver = t.nextPCAReceiver /\ u.txOPLeft = t.txOPLeft
        /\ SameAccess(t, u)
    BY <1>4, <1>13 DEF SameAccess, SameTimes, SameTurn
  <2>2. OthersQuiet(u, b)
    BY <1>4, <1>13 DEF OthersQuiet, Quiet
  <2>3. QED
    BY <1>1, <2>1, <2>2 DEF PCAOn, SameAccess
<1>17. OnAir(t, u, b)
  BY <1>4, <1>13 DEF OnAir, SameAir
<1>18. PICK pdus \in Seq(Compounds) :
         /\ pdus = t.buf[b].pdus /\ pdus # <<>>
         /\ TimeOf(pdus) + t.timeleft <= t.txOPLeft
         /\ First(t, b) = Head(pdus)
  <2>1. t.buf[b].pdus \in Seq(Compounds)
    BY <1>2 DEF StationOK, Stations, BufferRecords
  <2>2. QED
    BY <1>1, <2>1 DEF PCAReady, First
<1>19. /\ Head(pdus) \in Compounds /\ Tail(pdus) \in Seq(Compounds)
       /\ FT[Head(pdus)] \in Nat
       /\ TimeOf(pdus) = FT[Head(pdus)] + TimeOf(Tail(pdus))
       /\ TimeOf(Tail(pdus)) \in Nat
  <2>1. Head(pdus) \in Compounds /\ Tail(pdus) \in Seq(Compounds)
    BY <1>18
  <2>2. TimeOf(pdus) = FT[Head(pdus)] + TimeOf(Tail(pdus))
    BY <1>18, TimeOfTail
  <2>3. TimeOf(Tail(pdus)) \in Nat
    BY <2>1, TimeOfType
  <2>4. QED
    BY <2>1, <2>2, <2>3, TimingAssumption
<1>20. u.txOPLeft = t.txOPLeft /\ u.timeleft = t.timeleft
  BY <1>4, <1>13 DEF SameTimes
<1>21. FrameOK(u, b) /\ TimerRuns(u, b) /\ u.buf[b].timer = FT[Head(pdus)]
  <2>1. FT[First(t, b)] <= u.txOPLeft
    BY <1>2, <1>18, <1>19, <1>20
  <2>2. FrameOK(u, b) /\ TimerRuns(u, b)
    <3> HIDE DEF b
    <3>1. QED
      BY <1>1, <1>2, <1>17, <2>1, FrameOnAir
  <2>3. QED
    BY <1>17, <1>18, <2>2 DEF OnAir
<1>22. Rest(u, b) = Tail(pdus) /\ u.buf[b].isTransmissionStarted
  BY <1>17, <1>18 DEF Rest, OnAir
<1>23. \/ u.remainingTXOPDuration > 0 /\ u.closes = {} /\ Tail(pdus) # <<>>
       \/ u.remainingTXOPDuration = 0 /\ u.closes = {u.buf[b].timer - CloseLead}
  <2>1. w.remainingTXOPDuration = x /\ w.closes = y
    BY <1>7, <1>8 DEF Stations
  <2>2. v.buf[b].pdus = pdus
    BY <1>4, <1>18 DEF OnAir
  <2>3. Len(pdus) > 1 => Tail(pdus) # <<>>
    BY <1>18, MoreThanOne
  <2>4. FT[First(v, b)] = FT[Head(pdus)]
    BY <1>6, <1>18
  <2>5. QED
    BY <1>7, <1>13, <1>21, <2>1, <2>2, <2>3, <2>4 DEF TXOPGoesOn
<1>24. u.buf[b].timer + TimeOf(Rest(u, b)) + u.timeleft <= u.txOPLeft
  BY <1>2, <1>18, <1>19, <1>20, <1>21, <1>22
<1>25. InTXOP(u, b)
  BY <1>21, <1>22, <1>23, <1>24 DEF InTXOP
<1>26. u.ActivePCArx = t.ActivePCArx
  BY <1>4, <1>13 DEF SameAccess
<1>27. PCAAccess(u, res, next)
  BY <1>16, <1>25, <1>26 DEF PCAAccess
<1>28. QED
  BY <1>13, <1>14, <1>15, <1>27

\* The first compound is sent, or the DCF has to wait and the access ends.
LEMMA PCASendOK ==
    ASSUME NEW t, StationOK(t), NEW res, NEW next, PCAReady(t, res, next),
           Bypass(t) => ~t.sendNow,
           NEW u, u = SendCompounds(t, <<"PCA", t.ActivePCArx>>)
    PROVE  /\ StationOK(u) /\ SameHeld(t, u)
           /\ PCAAccess(u, res, next) \/ (Idle(u) /\ ~Bypass(t))
           /\ ~u.sendNow /\ u.counting = t.counting /\ u.startedInDRP = t.startedInDRP
<1> DEFINE b == <<"PCA", t.ActivePCArx>>
<1>1. PCAOn(t, res, next) /\ ~TimerRuns(t, b) /\ t.closes = {} /\ t.buf[b].pdus # <<>>
      /\ t.onAir = Nothing /\ t.remainingTXOPDuration >= 0
  BY DEF PCAReady
<1>2. /\ b \in Buffers /\ OthersQuiet(t, b)
      /\ t.timer \in Nat /\ t.txOPLeft \in Int /\ t.timeleft \in Nat
  BY <1>1, PCABuffer
<1>3. ~(IsEmpty(t, b) \/ FT[First(t, b)] > t.txOPLeft)
  <2>1. PICK pdus \in Seq(Compounds) : pdus = t.buf[b].pdus
    <3>1. t.buf[b].pdus \in Seq(Compounds)
      BY <1>2 DEF StationOK, Stations, BufferRecords
    <3>2. QED
      BY <3>1, Zenon
  <2>2. /\ pdus # <<>> /\ TimeOf(pdus) + t.timeleft <= t.txOPLeft
        /\ First(t, b) = Head(pdus)
    BY <1>1, <2>1 DEF PCAReady, First
  <2>3. Head(pdus) \in Compounds /\ Tail(pdus) \in Seq(Compounds)
    BY <2>2
  <2>4. TimeOf(pdus) = FT[Head(pdus)] + TimeOf(Tail(pdus))
    BY <2>2, TimeOfTail
  <2>5. TimeOf(Tail(pdus)) \in Nat /\ FT[Head(pdus)] \in Nat
    BY <2>3, TimeOfType, TimingAssumption
  <2>6. QED
    BY <1>1, <1>2, <2>2, <2>4, <2>5 DEF IsEmpty
<1>4. PICK v : v = AskDCF(t)
  OBVIOUS
<1>5. u = IF Bypass(v) \/ v.sendNow THEN SendPCA(v, b) ELSE stopIdlePCA(v)
  BY <1>1, <1>3, <1>4 DEF SendCompounds, ScheduleCompounds, PCAOn
<1>6. /\ StationOK(v) /\ SameHeld(t, v)
      /\ v.queues = t.queues /\ v.buf = t.buf
      /\ SameTimes(t, v) /\ SameAir(t, v) /\ SameAccess(t, v) /\ SameTurn(t, v)
      /\ v.remainingTXOPDuration = t.remainingTXOPDuration /\ v.closes = t.closes
      /\ Bypass(t) => v = t
  BY <1>1, <1>4, AskOK DEF PCAOn
<1>7. /\ v.ActivePCArx = t.ActivePCArx /\ v.onAir = Nothing
      /\ v.counting = t.counting /\ v.startedInDRP = t.startedInDRP
  BY <1>1, <1>6 DEF SameAccess, SameAir
<1>8. PCAReady(v, res, next)
  <2>1. OthersQuiet(v, b)
    BY <1>2, <1>6 DEF OthersQuiet, Quiet
  <2>2. PCAOn(v, res, next)
    BY <1>1, <1>6, <2>1 DEF PCAOn, SameAccess, SameTimes, SameTurn
  <2>3. QED
    BY <1>6, <1>7, <2>2 DEF PCAReady, SameTimes, TimerRuns
<1>9. Bypass(v) => ~v.sendNow
  BY <1>6 DEF Bypass
<1>10. CASE Bypass(v) \/ v.sendNow
  <2>1. u = SendPCA(v, <<"PCA", v.ActivePCArx>>)
    BY <1>5, <1>7, <1>10
  <2>2. /\ StationOK(u) /\ SameHeld(v, u) /\ PCAAccess(u, res, next)
        /\ ~u.sendNow /\ u.counting = v.counting /\ u.startedInDRP = v.startedInDRP
    BY <1>6, <1>8, <1>9, <2>1, SendPCAOK
  <2>3. QED
    BY <1>6, <1>7, <2>2 DEF SameHeld
<1>11. CASE ~(Bypass(v) \/ v.sendNow)
  <2>1. u = EndPCA(v)
    BY <1>5, <1>8, <1>11 DEF stopIdlePCA, PCAReady, PCAOn
  <2>2. /\ v.config.usePCAchannelAccess /\ ~v.AccessPermission /\ v.ActivePCArx \in Receivers
        /\ OthersQuiet(v, <<"PCA", v.ActivePCArx>>)
        /\ ~TimerRuns(v, <<"PCA", v.ActivePCArx>>)
    BY <1>8 DEF PCAReady, PCAOn
  <2>3. /\ StationOK(u) /\ SameHeld(v, u) /\ NoAccess(u)
        /\ SameTXOP(v, u)
        /\ u.counting = v.counting /\ u.startedInDRP = v.startedInDRP
    BY <1>6, <1>7, <2>1, <2>2, EndPCAOK
  <2>4. v.remainingTXOPDuration = 0 /\ v.closes = {} /\ ~v.sendNow /\ ~Bypass(t)
    <3>1. v.remainingTXOPDuration \in Int /\ v.remainingTXOPDuration >= 0
      BY <1>6, <1>8 DEF StationOK, Stations, PCAReady
    <3>2. QED
      BY <1>1, <1>6, <1>11, <3>1 DEF Bypass
  <2>5. Idle(u) /\ ~u.sendNow
    BY <2>3, <2>4 DEF Idle, NoTXOP, SameTXOP
  <2>6. QED
    BY <1>6, <1>7, <2>3, <2>4, <2>5 DEF SameHeld
<1>12. QED
  BY <1>10, <1>11

-----------------------------------------------------------------------------
(***************************************************************************)
(* A buffer is filled.                                                     *)
(***************************************************************************)
\* A frame exchange that is on is not affected.
LEMMA FrameKept ==
    ASSUME NEW t, StationOK(t), NEW b \in Buffers, FrameOK(t, b), NEW u,
           NEW moved \in Seq(Compounds), Filled(t, u, b, moved)
    PROVE  /\ FrameOK(u, b)
           /\ u.buf[b].timer = t.buf[b].timer
           /\ u.buf[b].isTransmissionStarted = t.buf[b].isTransmissionStarted
           /\ u.buf[b].isWaitingSIFS = t.buf[b].isWaitingSIFS
           /\ u.buf[b].pdus = t.buf[b].pdus \o moved
<1>1. t.buf[b] \in BufferRecords /\ t.buf[b].pdus \in Seq(Compounds)
  BY DEF StationOK, Stations, BufferRecords
<1>2. /\ u.buf[b].timer = t.buf[b].timer
      /\ u.buf[b].isTransmissionStarted = t.buf[b].isTransmissionStarted
      /\ u.buf[b].isWaitingSIFS = t.buf[b].isWaitingSIFS
      /\ u.buf[b].pdus = t.buf[b].pdus \o moved
  BY <1>1 DEF Filled, BufferRecords
<1>3. ASSUME t.buf[b].pdus # <<>>
      PROVE  u.buf[b].pdus # <<>> /\ First(u, b) = First(t, b)
  BY <1>1, <1>2, <1>3, HeadOfBoth DEF First
<1>4. u.txOPLeft = t.txOPLeft /\ u.onAir = t.onAir
  BY DEF Filled, SameAir
<1>5. FrameOK(u, b)
  BY <1>2, <1>3, <1>4 DEF FrameOK, TimerRuns
<1>6. QED
  BY <1>2, <1>5

\* StartBuffering within a reserved access keeps the access.
LEMMA StartDRPOK ==
    ASSUME NEW t, StationOK(t), NEW next, DRPAccess(t, next),
           NEW u, u = StartBuffering(t, <<"DRP", t.AccessRx>>)
    PROVE  /\ StationOK(u) /\ SameHeld(t, u) /\ DRPAccess(u, next)
           /\ u.sendNow = t.sendNow
           /\ SameCountdown(t, u)
<1> DEFINE b == <<"DRP", t.AccessRx>>
<1>1. b \in Buffers /\ OthersQuiet(t, b) /\ FrameOK(t, b)
  BY DEF Buffers, DRPAccess
<1>2. PICK v : v = FillBuffer(t, b)
  OBVIOUS
<1>3. PICK moved \in Seq(Compounds) : StationOK(v) /\ Filled(t, v, b, moved)
  <2> HIDE DEF b
  <2>1. QED
    BY <1>1, <1>2, FillOK
<1>4. FrameOK(v, b) /\ (TimerRuns(v, b) <=> TimerRuns(t, b))
  <2> HIDE DEF b
  <2>1. QED
    BY <1>1, <1>3, FrameKept DEF TimerRuns
<1>5. DRPAccess(v, next) /\ v.AccessRx = t.AccessRx
  BY <1>3, <1>4 DEF Filled, DRPAccess, SameAccess, SameTXOP, NoTXOP
<1>6. /\ SameHeld(t, v) /\ v.sendNow = t.sendNow
      /\ SameCountdown(t, v)
  BY <1>3 DEF Filled, SameTXOP, SameAir, SameAccess, SameCountdown
<1>7. CASE TimerRuns(t, b)
  BY <1>2, <1>3, <1>5, <1>6, <1>7 DEF StartBuffering
<1>8. CASE ~TimerRuns(t, b) /\ CanStart(t, b)
  <2>1. u = SendCompounds(v, <<"DRP", v.AccessRx>>)
    BY <1>2, <1>5, <1>8 DEF StartBuffering
  <2>2. ~TimerRuns(v, <<"DRP", v.AccessRx>>)
    BY <1>4, <1>5, <1>8
  <2>3. /\ StationOK(u) /\ SameHeld(v, u) /\ DRPAccess(u, next)
        /\ u.sendNow = v.sendNow
        /\ u.counting = v.counting /\ u.startedInDRP = v.startedInDRP
        /\ SameAccess(v, u)
    BY <1>3, <1>5, <2>1, <2>2, DRPSendOK
  <2>4. QED
    BY <1>6, <2>3 DEF SameHeld, SameAccess, SameCountdown
<1>9. CASE ~TimerRuns(t, b) /\ ~CanStart(t, b)
  <2>1. u = t
    BY <1>9 DEF StartBuffering
  <2>2. QED
    BY <2>1 DEF SameHeld, SameCountdown
<1>10. QED
  BY <1>7, <1>8, <1>9

\* StartBuffering for a contention access whose frame exchange is on only refills
\* the buffer.
LEMMA RefillPCAOK ==
    ASSUME NEW t, StationOK(t), NEW res, NEW next, PCAAccess(t, res, next),
           NEW u, u = StartBuffering(t, <<"PCA", t.ActivePCArx>>)
    PROVE  /\ StationOK(u) /\ SameHeld(t, u) /\ PCAAccess(u, res, next)
           /\ u.sendNow = t.sendNow
           /\ u.counting = t.counting /\ u.startedInDRP = t.startedInDRP
<1> DEFINE b == <<"PCA", t.ActivePCArx>>
<1>1. /\ PCAOn(t, res, next) /\ b \in Buffers /\ OthersQuiet(t, b)
      /\ t.timeleft \in Nat /\ t.txOPLeft \in Int
  BY PCABuffer DEF PCAAccess
<1>2. CASE NothingFits(t, b)
  <2>1. PICK queue \in Seq(Compounds) :
          queue = t.queues[b[2]] /\ queue # <<>> /\ FT[Head(queue)] > t.timeleft
    <3>1. t.queues[b[2]] \in Seq(Compounds)
      BY <1>1 DEF PCAOn, StationOK, Stations
    <3>2. QED
      BY <1>2, <3>1 DEF NothingFits
  <2>2. ~(Fitting(t, b) > 0)
    <3>1. Head(queue) \in Compounds
      BY <2>1
    <3>2. FT[Head(queue)] \in Nat
      BY <3>1, TimingAssumption
    <3>3. Fitting(t, b) > 0 <=> FT[Head(queue)] <= t.timeleft
      BY <1>1, <2>1, FittingOK
    <3>4. QED
      BY <1>1, <2>1, <3>2, <3>3
  <2>3. ~TimerRuns(t, b)
    BY <1>2 DEF NothingFits, Quiet, TimerRuns
  <2>4. u = t
    BY <2>2, <2>3 DEF StartBuffering, CanStart
  <2>5. QED
    BY <2>4 DEF SameHeld
<1>3. CASE InTXOP(t, b)
  <2>1. TimerRuns(t, b) /\ FrameOK(t, b)
    BY <1>3 DEF InTXOP
  <2>2. u = FillBuffer(t, b)
    BY <2>1 DEF StartBuffering
  <2>3. PICK moved \in Seq(Compounds) : StationOK(u) /\ Filled(t, u, b, moved)
    <3> HIDE DEF b
    <3>1. QED
      BY <1>1, <2>2, FillOK
  <2>4. /\ FrameOK(u, b)
        /\ u.buf[b].timer = t.buf[b].timer
        /\ u.buf[b].isTransmissionStarted = t.buf[b].isTransmissionStarted
        /\ u.buf[b].isWaitingSIFS = t.buf[b].isWaitingSIFS
        /\ u.buf[b].pdus = t.buf[b].pdus \o moved
    <3> HIDE DEF b
    <3>1. QED
      BY <1>1, <2>1, <2>3, FrameKept
  <2>5. PICK rest \in Seq(Compounds) :
          rest = Rest(t, b) /\ Rest(u, b) = rest \o moved
    <3>1. PICK pdus \in Seq(Compounds) : pdus = t.buf[b].pdus
      <4>1. t.buf[b].pdus \in Seq(Compounds)
        BY <1>1 DEF StationOK, Stations, BufferRecords
      <4>2. QED
        BY <4>1, Zenon
    <3>2. CASE t.buf[b].isWaitingSIFS
      BY <2>4, <3>1, <3>2 DEF Rest
    <3>3. CASE ~t.buf[b].isWaitingSIFS
      <4>1. pdus # <<>>
        BY <2>1, <3>1, <3>3 DEF FrameOK
      <4>2. Tail(pdus \o moved) = Tail(pdus) \o moved /\ Tail(pdus) \in Seq(Compounds)
        BY <4>1, TailOfBoth
      <4>3. QED
        BY <2>4, <3>1, <3>3, <4>2 DEF Rest
    <3>4. QED
      BY <3>2, <3>3
  <2>6. TimeOf(Rest(u, b)) = TimeOf(rest) + TimeOf(moved) /\ TimeOf(moved) \in Nat
        /\ TimeOf(rest) \in Nat
    BY <2>5, TimeOfBoth, TimeOfType
  <2>7. u.timeleft = t.timeleft - TimeOf(moved) /\ u.txOPLeft = t.txOPLeft
        /\ SameAccess(t, u) /\ SameTXOP(t, u) /\ SameTurn(t, u) /\ SameHeld(t, u)
        /\ u.counting = t.counting /\ u.startedInDRP = t.startedInDRP /\ OthersQuiet(u, b)
    BY <2>3 DEF Filled, SameAir
  <2>8. rest # <<>> => Rest(u, b) # <<>>
    BY <2>5, HeadOfBoth
  <2>9. t.buf[b].timer \in Nat
    BY <1>1, <2>1 DEF StationOK, Stations, BufferRecords, TimerRuns
  <2>10. u.buf[b].timer + TimeOf(Rest(u, b)) + u.timeleft <= u.txOPLeft
    <3>1. t.buf[b].timer + TimeOf(rest) + t.timeleft <= t.txOPLeft
      BY <1>3, <2>5 DEF InTXOP
    <3>2. u.buf[b].timer = t.buf[b].timer /\ u.txOPLeft = t.txOPLeft
          /\ u.timeleft = t.timeleft - TimeOf(moved)
      BY <2>4, <2>7
    <3>3. TimeOf(Rest(u, b)) + u.timeleft = TimeOf(rest) + t.timeleft
      BY <1>1, <2>6, <3>2
    <3>4. t.buf[b].timer + (TimeOf(Rest(u, b)) + u.timeleft) <= t.txOPLeft
      BY <1>1, <2>6, <2>9, <3>1, <3>3
    <3>5. u.timeleft \in Int /\ TimeOf(Rest(u, b)) \in Int /\ t.buf[b].timer \in Int
      BY <1>1, <2>6, <2>9, <3>2
    <3>6. t.buf[b].timer + TimeOf(Rest(u, b)) + u.timeleft <= t.txOPLeft
      BY <3>4, <3>5
    <3>7. QED
      BY <3>2, <3>6
  <2>11. InTXOP(u, b)
    <3>1. TimerRuns(u, b) /\ u.buf[b].isTransmissionStarted
      BY <1>3, <2>4 DEF InTXOP, TimerRuns
    <3>2. \/ u.remainingTXOPDuration > 0 /\ u.closes = {} /\ Rest(u, b) # <<>>
          \/ u.remainingTXOPDuration = 0 /\ u.closes = {u.buf[b].timer - CloseLead}
      BY <1>3, <2>4, <2>5, <2>7, <2>8 DEF InTXOP, SameTXOP
    <3>3. QED
      BY <2>4, <2>10, <3>1, <3>2 DEF InTXOP
  <2>12. PCAOn(u, res, next) /\ u.ActivePCArx = t.ActivePCArx
    BY <1>1, <2>7 DEF PCAOn, SameAccess, SameTurn
  <2>13. QED
    BY <2>3, <2>7, <2>11, <2>12 DEF PCAAccess, SameTXOP
<1>4. QED
  BY <1>2, <1>3 DEF PCAAccess

-----------------------------------------------------------------------------
(***************************************************************************)
(* The beginning of an access.                                             *)
(***************************************************************************)
LEMMA TimeUntilNext ==
    ASSUME nextChange \in Nat, NEW duration, duration = getTimeUntilNextDRPReservation
    PROVE  /\ duration \in Nat
           /\ duration # 0 => /\ ~reserved /\ duration <= nextChange
                              /\ duration > GuardDuration /\ duration > TimerLead
<1>1. {TimerLead, CloseLead, Sifs, GuardDuration, MinAccess, MaxAccess} \subseteq Nat
  BY TimingAssumption
<1>2. /\ TimerLead < CloseLead /\ CloseLead < Sifs /\ Sifs < GuardDuration
      /\ GuardDuration < MinAccess /\ MinAccess <= MaxAccess
  BY TimingAssumption
<1>3. CASE reserved \/ nextChange < MinAccess
  BY <1>3 DEF getTimeUntilNextDRPReservation
<1>4. CASE ~(reserved \/ nextChange < MinAccess)
  <2>1. duration = UpTo(nextChange, MaxAccess)
    BY <1>4 DEF getTimeUntilNextDRPReservation
  <2>2. CASE nextChange > MaxAccess
    BY <1>1, <1>2, <1>4, <2>1, <2>2 DEF UpTo
  <2>3. CASE ~(nextChange > MaxAccess)
    BY <1>1, <1>2, <1>4, <2>1, <2>3 DEF UpTo
  <2>4. QED
    BY <2>2, <2>3
<1>5. QED
  BY <1>3, <1>4

\* The next receiver, when no access is possible yet.
WithTurn(t, r) == [t EXCEPT !.nextPCAReceiver = r, !.ActivePCArx = r]

\* The choice of the next receiver changes nothing else.
LEMMA TurnOK ==
    ASSUME NEW t, StationOK(t), NEW r \in Receivers \cup {NoReceiver},
           NEW u, u = WithTurn(t, r)
    PROVE  /\ StationOK(u) /\ SameHeld(t, u)
           /\ u.queues = t.queues /\ u.buf = t.buf /\ u.config = t.config
           /\ SameTXOP(t, u) /\ SameAir(t, u)
           /\ u.AccessPermission = t.AccessPermission
           /\ u.isPCAtransmissionActive = t.isPCAtransmissionActive
           /\ u.timer = t.timer
<1>1. t \in Stations
  BY DEF StationOK
<1>2. u \in Stations
  <2>1. [t EXCEPT !.nextPCAReceiver = r, !.ActivePCArx = r] \in Stations
    BY <1>1, Zenon DEF Stations
  <2>2. QED
    BY <2>1 DEF WithTurn
<1>3. /\ u.queues = t.queues /\ u.buf = t.buf /\ u.config = t.config
      /\ SameTXOP(t, u) /\ SameAir(t, u)
      /\ u.AccessPermission = t.AccessPermission
      /\ u.isPCAtransmissionActive = t.isPCAtransmissionActive
      /\ u.timer = t.timer
      /\ u.transmissionWaiting = t.transmissionWaiting /\ u.undefined = t.undefined
  BY <1>1 DEF WithTurn, Stations, SameTXOP, SameAir
<1>4. StationOK(u) /\ SameHeld(t, u)
  BY <1>2, <1>3, SameStation
<1>5. QED
  BY <1>3, <1>4

\* An access of the given kind begins.
Begins(t, u, duration, lead) ==
    /\ u.queues = t.queues /\ u.buf = t.buf /\ u.config = t.config
    /\ SameTXOP(t, u) /\ SameAir(t, u)
    /\ u.timer = duration - lead
    /\ u.txOPLeft = duration - GuardDuration /\ u.timeleft = duration - GuardDuration

\* The station when a contention access begins, and when a reserved one does.
PCABegun(t, r, duration) ==
    SetTxopDuration(
        [[t EXCEPT !.nextPCAReceiver = r, !.ActivePCArx = r]
            EXCEPT !.isPCAtransmissionActive = TRUE, !.timer = duration - TimerLead],
        <<"PCA", r>>, duration)

DRPBegun(t, r, duration) ==
    SetTxopDuration([t EXCEPT !.AccessPermission = TRUE, !.AccessRx = r,
                              !.timer = duration],
                    <<"DRP", r>>, duration)

\* A contention access is granted, and its buffer still empty.
LEMMA BeginPCA ==
    ASSUME NEW t, StationOK(t), Idle(t), NEW r \in Receivers,
           NEW duration \in Nat, duration > GuardDuration, duration > TimerLead,
           NEW u, u = PCABegun(t, r, duration)
    PROVE  /\ StationOK(u) /\ SameHeld(t, u) /\ Begins(t, u, duration, TimerLead)
           /\ u.nextPCAReceiver = r /\ u.ActivePCArx = r
           /\ u.isPCAtransmissionActive /\ ~u.AccessPermission
<1>1. t \in Stations
  BY DEF StationOK
<1>2. <<"PCA", r>> \in Buffers
  BY DEF Buffers
<1>3. t.buf[<<"PCA", r>>].pdus = <<>>
  BY <1>2 DEF Idle, NoAccess, Quiet
<1>4. PICK timer \in Nat \cup {Off}, left \in Nat, long \in Int :
        timer = duration - TimerLead /\ left = duration - GuardDuration /\ long = left
  <2>1. TimerLead \in Nat /\ GuardDuration \in Nat
    BY TimingAssumption
  <2>2. duration - TimerLead \in Nat /\ duration - GuardDuration \in Nat
    BY <2>1
  <2>3. QED
    BY <2>2
<1>5. PICK v : v = [[t EXCEPT !.nextPCAReceiver = r, !.ActivePCArx = r]
                     EXCEPT !.isPCAtransmissionActive = TRUE,
                            !.timer = duration - TimerLead]
  OBVIOUS
<1>6. v = [t EXCEPT !.nextPCAReceiver = r, !.ActivePCArx = r,
                    !.isPCAtransmissionActive = TRUE, !.timer = timer]
  BY <1>4, <1>5
<1>7. v.buf = t.buf
  BY <1>1, <1>6 DEF Stations
<1>8. duration - GuardDuration - TimeOf(v.buf[<<"PCA", r>>].pdus) = left
  BY <1>3, <1>4, <1>7, TimeOfNothing
<1>9. u = [v EXCEPT !.txOPLeft = long, !.timeleft = left]
  BY <1>4, <1>5, <1>8 DEF SetTxopDuration, PCABegun
<1>10. u = [t EXCEPT !.nextPCAReceiver = r, !.ActivePCArx = r,
                     !.isPCAtransmissionActive = TRUE, !.timer = timer,
                     !.txOPLeft = long, !.timeleft = left]
  BY <1>6, <1>9
<1>11. u \in Stations
  <2>1. [t EXCEPT !.nextPCAReceiver = r, !.ActivePCArx = r,
                  !.isPCAtransmissionActive = TRUE, !.timer = timer,
                  !.txOPLeft = long, !.timeleft = left] \in Stations
    <3>1. r \in Receivers \cup {NoReceiver}
      OBVIOUS
    <3>2. QED
      BY <1>1, <3>1, Zenon DEF Stations
  <2>2. QED
    BY <1>10, <2>1
<1>12. /\ u.queues = t.queues /\ u.buf = t.buf /\ u.config = t.config
       /\ SameTXOP(t, u) /\ SameAir(t, u)
       /\ u.timer = timer /\ u.txOPLeft = long /\ u.timeleft = left
       /\ u.nextPCAReceiver = r /\ u.ActivePCArx = r
       /\ u.isPCAtransmissionActive /\ u.AccessPermission = t.AccessPermission
       /\ u.transmissionWaiting = t.transmissionWaiting /\ u.undefined = t.undefined
  BY <1>1, <1>10 DEF Stations, SameTXOP, SameAir
<1>13. StationOK(u) /\ SameHeld(t, u)
  BY <1>11, <1>12, SameStation
<1>14. QED
  BY <1>4, <1>12, <1>13 DEF Begins, Idle, NoAccess

\* A reserved access is granted, and its buffer still empty.
LEMMA BeginDRP ==
    ASSUME NEW t, StationOK(t), Idle(t), NEW r \in Receivers,
           NEW duration \in Nat, duration > GuardDuration,
           NEW u, u = DRPBegun(t, r, duration)
    PROVE  /\ StationOK(u) /\ SameHeld(t, u) /\ Begins(t, u, duration, 0)
           /\ u.AccessRx = r
           /\ ~u.isPCAtransmissionActive /\ u.AccessPermission
<1>1. t \in Stations
  BY DEF StationOK
<1>2. <<"DRP", r>> \in Buffers
  BY DEF Buffers
<1>3. t.buf[<<"DRP", r>>].pdus = <<>>
  BY <1>2 DEF Idle, NoAccess, Quiet
<1>4. PICK timer \in Nat \cup {Off}, left \in Nat, long \in Int :
        timer = duration /\ left = duration - GuardDuration /\ long = left
  <2>1. GuardDuration \in Nat
    BY TimingAssumption
  <2>2. duration - GuardDuration \in Nat
    BY <2>1
  <2>3. QED
    BY <2>2
<1>5. PICK v : v = [t EXCEPT !.AccessPermission = TRUE, !.AccessRx = r, !.timer = timer]
  OBVIOUS
<1>6. v.buf = t.buf
  BY <1>1, <1>5 DEF Stations
<1>7. duration - GuardDuration - TimeOf(v.buf[<<"DRP", r>>].pdus) = left
  BY <1>3, <1>4, <1>6, TimeOfNothing
<1>8. u = [v EXCEPT !.txOPLeft = long, !.timeleft = left]
  BY <1>4, <1>5, <1>7 DEF SetTxopDuration, DRPBegun
<1>9. u = [t EXCEPT !.AccessPermission = TRUE, !.AccessRx = r, !.timer = timer,
                     !.txOPLeft = long, !.timeleft = left]
  BY <1>5, <1>8
<1>10. u \in Stations
  <2>1. [t EXCEPT !.AccessPermission = TRUE, !.AccessRx = r, !.timer = timer,
                  !.txOPLeft = long, !.timeleft = left] \in Stations
    <3>1. r \in Receivers \cup {NoReceiver}
      OBVIOUS
    <3>2. QED
      BY <1>1, <3>1, Zenon DEF Stations
  <2>2. QED
    BY <1>9, <2>1
<1>11. /\ u.queues = t.queues /\ u.buf = t.buf /\ u.config = t.config
       /\ SameTXOP(t, u) /\ SameAir(t, u)
       /\ u.timer = timer /\ u.txOPLeft = long /\ u.timeleft = left
       /\ u.AccessRx = r /\ u.AccessPermission
       /\ u.isPCAtransmissionActive = t.isPCAtransmissionActive
       /\ u.transmissionWaiting = t.transmissionWaiting /\ u.undefined = t.undefined
  BY <1>1, <1>9 DEF Stations, SameTXOP, SameAir
<1>12. StationOK(u) /\ SameHeld(t, u)
  BY <1>10, <1>11, SameStation
<1>13. QED
  BY <1>4, <1>11, <1>12 DEF Begins, Idle, NoAccess

\* A reserved access.
LEMMA TimeToTransmitOK ==
    ASSUME NEW t, StationOK(t), Idle(t), NEW r \in Receivers,
           NEW duration \in Nat, duration > GuardDuration,
           NEW u, u = TimeToTransmit(t, r, duration)
    PROVE  /\ StationOK(u) /\ SameHeld(t, u) /\ DRPAccess(u, duration)
           /\ u.sendNow = t.sendNow
           /\ u.counting = t.counting /\ u.startedInDRP = t.startedInDRP
<1>1. PICK v : v = DRPBegun(t, r, duration)
  OBVIOUS
<1>2. /\ StationOK(v) /\ SameHeld(t, v) /\ Begins(t, v, duration, 0)
      /\ v.AccessRx = r
      /\ ~v.isPCAtransmissionActive /\ v.AccessPermission
  BY <1>1, BeginDRP
<1>3. <<"DRP", r>> \in Buffers
  BY DEF Buffers
<1>4. DRPAccess(v, duration)
  <2>1. v.timer \in Nat /\ v.timer <= duration /\ v.txOPLeft = v.timer - GuardDuration
    BY <1>2 DEF Begins
  <2>2. NoTXOP(v)
    BY <1>2 DEF Begins, SameTXOP, NoTXOP, Idle
  <2>3. \A a \in Buffers : Quiet(v, a)
    BY <1>2 DEF Begins, Idle, NoAccess, Quiet
  <2>4. FrameOK(v, <<"DRP", r>>)
    <3>1. ~TimerRuns(v, <<"DRP", r>>)
      BY <1>3, <2>3 DEF Quiet, TimerRuns
    <3>2. v.onAir = Nothing
      BY <1>2 DEF Begins, SameAir, Idle, NoAccess
    <3>3. QED
      BY <3>1, <3>2 DEF FrameOK
  <2>5. OthersQuiet(v, <<"DRP", r>>)
    BY <2>3 DEF OthersQuiet
  <2>6. QED
    BY <1>2, <2>1, <2>2, <2>4, <2>5 DEF DRPAccess
<1>5. u = StartBuffering(v, <<"DRP", v.AccessRx>>)
  BY <1>1, <1>2 DEF TimeToTransmit, DRPBegun
<1>6. /\ StationOK(u) /\ SameHeld(v, u) /\ DRPAccess(u, duration)
      /\ u.sendNow = v.sendNow
      /\ u.counting = v.counting /\ u.startedInDRP = v.startedInDRP
  BY <1>2, <1>4, <1>5, StartDRPOK DEF SameCountdown
<1>7. QED
  BY <1>2, <1>6 DEF SameHeld, Begins, SameTXOP, SameAir

\* A contention access just begun is ready for its first frame, once the buffer
\* has been filled; or nothing fits into it.
LEMMA FirstFillOK ==
    ASSUME NEW t, StationOK(t), Idle(t), t.config.usePCAchannelAccess,
           nextChange \in Nat, NEW r \in Receivers, t.queues[r] # <<>>,
           NEW duration, duration = getTimeUntilNextDRPReservation, duration # 0,
           NEW v, v = PCABegun(t, r, duration)
    PROVE  /\ StationOK(v) /\ SameHeld(t, v) /\ Begins(t, v, duration, TimerLead)
           /\ v.ActivePCArx = r /\ PCAOn(v, reserved, nextChange)
           /\ ~TimerRuns(v, <<"PCA", r>>)
           /\ ~CanStart(v, <<"PCA", r>>) => NothingFits(v, <<"PCA", r>>)
           /\ CanStart(v, <<"PCA", r>>) =>
                \A w : w = FillBuffer(v, <<"PCA", r>>) =>
                    /\ StationOK(w) /\ SameHeld(v, w) /\ PCAReady(w, reserved, nextChange)
                    /\ w.ActivePCArx = r /\ w.sendNow = v.sendNow
                    /\ w.counting = v.counting /\ w.startedInDRP = v.startedInDRP /\ ~Bypass(w)
<1> DEFINE b == <<"PCA", r>>
<1>1. /\ duration \in Nat /\ ~reserved /\ duration <= nextChange
      /\ duration > GuardDuration /\ duration > TimerLead
      /\ TimerLead \in Nat /\ GuardDuration \in Nat
  BY TimeUntilNext, TimingAssumption
<1>2. /\ StationOK(v) /\ SameHeld(t, v) /\ Begins(t, v, duration, TimerLead)
      /\ v.nextPCAReceiver = r /\ v.ActivePCArx = r
      /\ v.isPCAtransmissionActive /\ ~v.AccessPermission
  BY <1>1, BeginPCA
<1>3. \A a \in Buffers : Quiet(v, a)
  BY <1>2 DEF Begins, Idle, NoAccess, Quiet
<1>4. b \in Buffers
  BY DEF Buffers
<1>5. OthersQuiet(v, b) /\ ~TimerRuns(v, b) /\ v.buf[b].pdus = <<>>
  BY <1>3, <1>4 DEF OthersQuiet, Quiet, TimerRuns
<1>6. NoTXOP(v) /\ v.onAir = Nothing
  BY <1>2 DEF Begins, SameTXOP, SameAir, NoTXOP, Idle, NoAccess
<1>7. PCAOn(v, reserved, nextChange)
  BY <1>1, <1>2, <1>5 DEF PCAOn, Begins
<1>8. v.queues[r] # <<>> /\ v.queues[r] \in Seq(Compounds) /\ v.timeleft \in Nat
  BY <1>2 DEF Begins, StationOK, Stations
<1>9. PICK queue \in Seq(Compounds) : queue = v.queues[r] /\ queue # <<>>
  BY <1>8, Zenon
<1>10. Head(queue) \in Compounds
  BY <1>9
<1>11. FT[Head(queue)] \in Nat
  BY <1>10, TimingAssumption
<1>12. Fitting(v, b) > 0 <=> FT[Head(queue)] <= v.timeleft
  BY <1>8, <1>9, FittingOK
<1>13. CanStart(v, b) <=> Fitting(v, b) > 0
  BY <1>5 DEF CanStart
<1>14. ASSUME ~CanStart(v, b)
       PROVE  NothingFits(v, b)
  BY <1>3, <1>4, <1>6, <1>8, <1>9, <1>11, <1>12, <1>13, <1>14 DEF NothingFits
<1>15. ASSUME CanStart(v, b), NEW w, w = FillBuffer(v, b)
       PROVE  /\ StationOK(w) /\ SameHeld(v, w) /\ PCAReady(w, reserved, nextChange)
              /\ w.ActivePCArx = r /\ w.sendNow = v.sendNow
              /\ w.counting = v.counting /\ w.startedInDRP = v.startedInDRP /\ ~Bypass(w)
  <2>1. PICK moved \in Seq(Compounds) : StationOK(w) /\ Filled(v, w, b, moved)
    <3> HIDE DEF b
    <3>1. QED
      BY <1>2, <1>4, <1>5, <1>15, FillOK
  <2>2. v.buf[b] \in BufferRecords
    BY <1>2, <1>4 DEF StationOK, Stations
  <2>3. w.buf[b].timer = v.buf[b].timer /\ w.buf[b].pdus = <<>> \o moved
    BY <1>5, <2>1, <2>2 DEF Filled, BufferRecords
  <2>4. w.buf[b].pdus = moved /\ moved # <<>>
    <3>1. <<>> \o moved = moved
      OBVIOUS
    <3>2. QED
      BY <1>13, <1>15, <2>1, <2>3, <3>1 DEF Filled
  <2>5. /\ SameHeld(v, w) /\ SameAir(v, w) /\ SameAccess(v, w) /\ SameTXOP(v, w)
        /\ SameTurn(v, w) /\ OthersQuiet(w, b)
        /\ w.txOPLeft = v.txOPLeft /\ w.timeleft = v.timeleft - TimeOf(moved)
    BY <2>1 DEF Filled
  <2>6. w.ActivePCArx = r
    BY <1>2, <2>5 DEF SameAccess
  <2>7. PCAOn(w, reserved, nextChange)
    BY <1>2, <1>7, <2>5, <2>6 DEF PCAOn, SameAccess, SameTurn
  <2>8. TimeOf(w.buf[b].pdus) + w.timeleft <= w.txOPLeft
    <3>1. TimeOf(moved) \in Nat
      BY TimeOfType
    <3>2. v.timeleft = v.txOPLeft /\ v.txOPLeft \in Int
      BY <1>2 DEF Begins, StationOK, Stations
    <3>3. QED
      BY <1>8, <2>4, <2>5, <3>1, <3>2
  <2>9. w.remainingTXOPDuration = 0 /\ w.closes = {} /\ w.onAir = Nothing
    BY <1>6, <2>5 DEF SameTXOP, SameAir, NoTXOP
  <2>10. PCAReady(w, reserved, nextChange)
    BY <1>5, <2>3, <2>4, <2>6, <2>7, <2>8, <2>9 DEF PCAReady, TimerRuns
  <2>11. QED
    BY <2>1, <2>5, <2>6, <2>9, <2>10 DEF SameTXOP, SameAir, Bypass
<1>16. QED
  BY <1>2, <1>5, <1>7, <1>14, <1>15

\* Whether the first compound fits is known before the access begins.
LEMMA SameStart ==
    ASSUME NEW t, NEW u, NEW b, u.queues = t.queues, u.buf = t.buf,
           u.timeleft = t.timeleft, CanStart(t, b)
    PROVE  CanStart(u, b)
<1>1. Fitting(u, b) = Fitting(t, b)
  BY DEF Fitting
<1>2. QED
  BY <1>1 DEF CanStart, TimerRuns

\* A contention access, or a request for one.
LEMMA StartPCAOK ==
    ASSUME NEW t, StationOK(t), Idle(t), t.config.usePCAchannelAccess,
           nextChange \in Nat, NEW u, u = startPCAtransmission(t)
    PROVE  /\ StationOK(u) /\ SameHeld(t, u)
           /\ u.counting = t.counting /\ u.startedInDRP = t.startedInDRP
           /\ Idle(u) \/ PCAAccess(u, reserved, nextChange)
           /\ ~t.sendNow \/ PCAcanStart(t) => ~u.sendNow
<1> DEFINE r == NextReceiver(t)
<1>1. PICK turn : turn = WithTurn(t, r)
  OBVIOUS
<1>2. r \in Receivers \cup {NoReceiver} /\ (r # NoReceiver => t.queues[r] # <<>>)
  BY NextReceiverOK
<1>3. /\ StationOK(turn) /\ SameHeld(t, turn)
      /\ turn.queues = t.queues /\ turn.buf = t.buf /\ turn.config = t.config
      /\ SameTXOP(t, turn) /\ SameAir(t, turn)
      /\ turn.AccessPermission = t.AccessPermission
      /\ turn.isPCAtransmissionActive = t.isPCAtransmissionActive
      /\ turn.timer = t.timer
  <2> HIDE DEF r
  <2>1. QED
    BY <1>1, <1>2, TurnOK
<1>4. Idle(turn)
  BY <1>3 DEF Idle, NoAccess, NoTXOP, Quiet, SameTXOP, SameAir
<1>5. AssureNoDRP(t) = t
  <2>1. t \in Stations /\ ~t.AccessPermission
    BY DEF StationOK, Idle, NoAccess
  <2>2. PICK x \in BOOLEAN : x = (t.startedInDRP \/ t.AccessPermission) /\ x = t.startedInDRP
    <3>1. t.startedInDRP \in BOOLEAN
      BY <2>1 DEF Stations
    <3>2. QED
      BY <2>1, <3>1
  <2>3. [t EXCEPT !.startedInDRP = x] = t
    BY <2>1, <2>2 DEF Stations
  <2>4. QED
    BY <2>2, <2>3 DEF AssureNoDRP
<1>6. t.timer = Off
  BY DEF Idle, NoAccess
<1>7. CASE r = NoReceiver
  <2>1. u = turn
    BY <1>1, <1>6, <1>7, <1>5 DEF startPCAtransmission, WithTurn
  <2>2. ~PCAcanStart(t)
    BY <1>7 DEF PCAcanStart
  <2>3. QED
    BY <1>3, <1>4, <2>1, <2>2 DEF SameTXOP, SameAir
<1>8. CASE r # NoReceiver /\ getTimeUntilNextDRPReservation = 0
  <2>1. u = transmissionRequest(turn)
    BY <1>1, <1>6, <1>8, <1>5 DEF startPCAtransmission, WithTurn
  <2>2. /\ StationOK(u) /\ SameHeld(turn, u)
        /\ u.queues = turn.queues /\ u.buf = turn.buf
        /\ SameAir(turn, u) /\ SameAccess(turn, u) /\ SameTXOP(turn, u)
    BY <1>3, <2>1, RequestOK
  <2>3. Idle(u)
    BY <1>4, <2>2 DEF Idle, NoAccess, NoTXOP, Quiet, SameTXOP, SameAir, SameAccess
  <2>4. ~PCAcanStart(t)
    BY <1>8 DEF PCAcanStart
  <2>5. QED
    BY <1>3, <2>2, <2>3, <2>4 DEF SameHeld, SameTXOP, SameAir
<1>9. CASE r # NoReceiver /\ getTimeUntilNextDRPReservation # 0
  <2>1. PICK duration : duration = getTimeUntilNextDRPReservation /\ duration # 0
    BY <1>9
  <2>2. PICK v : v = PCABegun(t, r, duration)
    OBVIOUS
  <2>3. u = StartBuffering(v, <<"PCA", r>>)
    BY <1>1, <1>6, <1>9, <1>5, <2>1, <2>2 DEF startPCAtransmission, PCABegun
  <2>4. r \in Receivers /\ t.queues[r] # <<>>
    BY <1>2, <1>9
  <2> HIDE DEF r
  <2>5. /\ StationOK(v) /\ SameHeld(t, v) /\ Begins(t, v, duration, TimerLead)
        /\ v.ActivePCArx = r /\ PCAOn(v, reserved, nextChange)
        /\ ~TimerRuns(v, <<"PCA", r>>)
        /\ ~CanStart(v, <<"PCA", r>>) => NothingFits(v, <<"PCA", r>>)
        /\ CanStart(v, <<"PCA", r>>) =>
                \A w : w = FillBuffer(v, <<"PCA", r>>) =>
                    /\ StationOK(w) /\ SameHeld(v, w) /\ PCAReady(w, reserved, nextChange)
                    /\ w.ActivePCArx = r /\ w.sendNow = v.sendNow
                    /\ w.counting = v.counting /\ w.startedInDRP = v.startedInDRP /\ ~Bypass(w)
    BY <2>1, <2>2, <2>4, FirstFillOK
  <2>6. /\ v.sendNow = t.sendNow
        /\ v.counting = t.counting /\ v.startedInDRP = t.startedInDRP
    BY <2>5 DEF Begins, SameTXOP, SameAir
  <2>7. CASE ~CanStart(v, <<"PCA", r>>)
    <3>1. u = v
      BY <2>3, <2>5, <2>7 DEF StartBuffering
    <3>2. PCAAccess(v, reserved, nextChange)
      BY <2>5, <2>7 DEF PCAAccess
    <3>3. ~PCAcanStart(t)
      <4>1. PICK x : x = SetTxopDuration(t, <<"PCA", r>>, duration)
        OBVIOUS
      <4>2. x.queues = t.queues /\ x.buf = t.buf
            /\ x.timeleft = duration - GuardDuration - TimeOf(t.buf[<<"PCA", r>>].pdus)
        BY <4>1 DEF SetTxopDuration, StationOK, Stations
      <4>3. t.buf[<<"PCA", r>>].pdus = <<>>
        BY <2>4 DEF Idle, NoAccess, Quiet, Buffers
      <4>4. v.queues = t.queues /\ v.buf = t.buf /\ v.timeleft = duration - GuardDuration
        BY <2>5 DEF Begins
      <4>5. duration - GuardDuration \in Int
        BY <2>1, TimeUntilNext, TimingAssumption
      <4>6. x.timeleft = v.timeleft
        BY <4>2, <4>3, <4>4, <4>5, TimeOfNothing
      <4>7. ~CanStart(x, <<"PCA", r>>)
        BY <2>7, <4>2, <4>4, <4>6, SameStart
      <4>8. QED
        BY <2>1, <4>1, <4>7 DEF PCAcanStart, r
    <3>4. QED
      BY <2>5, <2>6, <3>1, <3>2, <3>3
  <2>8. CASE CanStart(v, <<"PCA", r>>)
    <3>1. PICK w : w = FillBuffer(v, <<"PCA", r>>)
      OBVIOUS
    <3>2. /\ StationOK(w) /\ SameHeld(v, w) /\ PCAReady(w, reserved, nextChange)
          /\ w.ActivePCArx = r /\ w.sendNow = v.sendNow
          /\ w.counting = v.counting /\ w.startedInDRP = v.startedInDRP /\ ~Bypass(w)
      BY <2>5, <2>8, <3>1
    <3>3. u = SendCompounds(w, <<"PCA", w.ActivePCArx>>)
      BY <2>3, <2>5, <2>8, <3>1, <3>2 DEF StartBuffering
    <3>4. /\ StationOK(u) /\ SameHeld(w, u)
          /\ PCAAccess(u, reserved, nextChange) \/ (Idle(u) /\ ~Bypass(w))
          /\ ~u.sendNow /\ u.counting = w.counting /\ u.startedInDRP = w.startedInDRP
      BY <3>2, <3>3, PCASendOK
    <3>5. QED
      BY <2>5, <2>6, <3>2, <3>4 DEF SameHeld
  <2>9. QED
    BY <2>7, <2>8
<1>10. QED
  BY <1>7, <1>8, <1>9

-----------------------------------------------------------------------------
(***************************************************************************)
(* A frame fails, or is acknowledged.                                      *)
(***************************************************************************)
\* Another record for the buffer, with the same compounds.
LEMMA SamePDUs ==
    ASSUME NEW t, StationOK(t), NEW b \in Buffers, OthersQuiet(t, b),
           NEW buffer \in BufferRecords, buffer.pdus = t.buf[b].pdus,
           buffer.isWaitingSIFS => buffer.timer # Off,
           BufferCounted(t.config.isDroppingAfterRetr, buffer),
           NEW u, u = WithBuffer(t, b, buffer)
    PROVE  StationOK(u) /\ OtherBuffer(t, u, b, buffer) /\ SameHeld(t, u)
<1>1. /\ t.buf[b].pdus \in Seq(For(b[2]))
      /\ Alone(t.queues[b[2]], t.buf[b].pdus)
  BY InUse
<1>2. StationOK(u) /\ OtherBuffer(t, u, b, buffer)
  BY <1>1, BufferOK
<1>3. SameHeld(t, u)
  BY <1>2, OnlySame DEF OtherBuffer
<1>4. QED
  BY <1>2, <1>3

\* Only the first compound of the buffer is taken from the station.
TakesFirst(t, u, b) ==
    \A r \in Receivers :
        /\ HeldFor(u, r) \subseteq HeldFor(t, r)
        /\ HeldFor(t, r) \ HeldFor(u, r) \subseteq {First(t, b)}

\* Only the first compound of a buffer leaves the station.
LEMMA TailOK ==
    ASSUME NEW t, StationOK(t), NEW b \in Buffers, OthersQuiet(t, b),
           t.buf[b].pdus # <<>>,
           NEW buffer \in BufferRecords, buffer.pdus = Tail(t.buf[b].pdus),
           buffer.isWaitingSIFS => buffer.timer # Off,
           BufferCounted(t.config.isDroppingAfterRetr, buffer),
           NEW u, u = WithBuffer(t, b, buffer)
    PROVE  StationOK(u) /\ OtherBuffer(t, u, b, buffer) /\ TakesFirst(t, u, b)
<1>1. /\ b[2] \in Receivers
      /\ t.queues[b[2]] \in Seq(For(b[2])) /\ t.buf[b].pdus \in Seq(For(b[2]))
      /\ Alone(t.queues[b[2]], t.buf[b].pdus)
      /\ HeldFor(t, b[2]) = ToSet(t.queues[b[2]]) \cup ToSet(t.buf[b].pdus)
  BY InUse
<1>2. /\ Tail(t.buf[b].pdus) \in Seq(For(b[2]))
      /\ ToSet(t.buf[b].pdus) = {First(t, b)} \cup ToSet(Tail(t.buf[b].pdus))
      /\ IsInjective(t.buf[b].pdus) => IsInjective(Tail(t.buf[b].pdus))
  BY <1>1, TailOnce DEF First
<1>3. Alone(t.queues[b[2]], Tail(t.buf[b].pdus))
  BY <1>1, <1>2 DEF Alone
<1>4. StationOK(u) /\ OtherBuffer(t, u, b, buffer)
  BY <1>2, <1>3, BufferOK
<1>5. HeldFor(u, b[2]) = ToSet(t.queues[b[2]]) \cup ToSet(Tail(t.buf[b].pdus))
  BY <1>4 DEF OtherBuffer, OnlyIn
<1>6. \A r \in Receivers \ {b[2]} : HeldFor(u, r) = HeldFor(t, r)
  BY <1>4 DEF OtherBuffer, OnlyIn
<1>7. QED
  BY <1>1, <1>2, <1>4, <1>5, <1>6 DEF TakesFirst

\* The first compound of a buffer is sent again or dropped: the second half of
\* the unsuccessful end of its frame exchange.
DropOrRetry(u, b) ==
    LET n == u.buf[b].numOfRetransmissions
    IN  IF \/ u.config.isDroppingAfterRetr = -1
           \/ n < u.config.isDroppingAfterRetr
        THEN [u EXCEPT !.buf[b].numOfRetransmissions =
                            UpTo(n + 1, MaxRetransmissions(u))]
        ELSE DropFront(u, b)

DroppedOrRetried(t, u, b) ==
    /\ u.buf[b].timer = t.buf[b].timer
    /\ u.buf[b].isWaitingSIFS = t.buf[b].isWaitingSIFS
    /\ u.buf[b].isTransmissionStarted = t.buf[b].isTransmissionStarted
    /\ u.buf[b].pdus = <<>> \/ t.buf[b].pdus # <<>>
    /\ u.queues = t.queues
    /\ OthersQuiet(u, b)
    /\ SameTimes(t, u) /\ SameAir(t, u) /\ SameAccess(t, u) /\ SameTXOP(t, u)
    /\ SameTurn(t, u)
    /\ TakesFirst(t, u, b)
    /\ SameHeld(t, u) \/ UsedUp(t, b, First(t, b))
    /\ t.buf[b].pdus = <<>> => SameHeld(t, u)

\* The buffer has sent a frame that is not answered and not counted yet.
Unanswered(t, b) ==
    t.config.isDroppingAfterRetr # -1 =>
        t.buf[b].numOfRetransmissions + 1 <= t.buf[b].unanswered

\* A compound is dropped or will be sent again; a drop from an empty buffer is
\* undefined, which only contention access with drops can do.
LEMMA DropOrRetryOK ==
    ASSUME NEW t, StationOK(t), NEW b \in Buffers, OthersQuiet(t, b),
           t.buf[b].pdus = <<>> => t.config.usePCAchannelAccess,
           ~TimerRuns(t, b), Unanswered(t, b),
           NEW u, u = DropOrRetry(t, b)
    PROVE  StationOK(u) /\ DroppedOrRetried(t, u, b)
<1>1. PICK old \in BufferRecords : old = t.buf[b]
  BY InUse
<1>2. t.config \in [usePCAchannelAccess : BOOLEAN, isDroppingAfterRetr : Nat \cup {-1}]
  BY ConfigAssumption DEF StationOK, Stations
<1>3. t.buf[b].numOfRetransmissions \in Nat /\ t.buf[b].unanswered \in Nat
  BY InUse DEF BufferRecords
<1>4. CASE \/ t.config.isDroppingAfterRetr = -1
           \/ t.buf[b].numOfRetransmissions < t.config.isDroppingAfterRetr
  <2>1. PICK n \in Nat : n = UpTo(old.numOfRetransmissions + 1, MaxRetransmissions(t))
    BY <1>1, <1>2 DEF UpTo, MaxRetransmissions, BufferRecords
  <2>2. PICK buffer \in BufferRecords :
          /\ buffer = [old EXCEPT !.numOfRetransmissions = n]
          /\ buffer.pdus = old.pdus /\ buffer.timer = old.timer
          /\ buffer.isWaitingSIFS = old.isWaitingSIFS
          /\ buffer.isTransmissionStarted = old.isTransmissionStarted
          /\ buffer.numOfRetransmissions = n /\ buffer.unanswered = old.unanswered
    <3>1. [old EXCEPT !.numOfRetransmissions = n] \in BufferRecords
      BY <1>1, <2>1, Zenon DEF BufferRecords
    <3>2. QED
      BY <1>1, <3>1 DEF BufferRecords
  <2>3. u = [t EXCEPT !.buf[b].numOfRetransmissions = n]
    BY <1>1, <1>4, <2>1 DEF DropOrRetry
  <2>4. u = WithBuffer(t, b, buffer)
    BY <1>1, <2>2, <2>3 DEF WithBuffer
  <2>5. buffer.isWaitingSIFS => buffer.timer # Off
    BY <1>1, <2>2 DEF StationOK, WaitingRuns
  <2>6. BufferCounted(t.config.isDroppingAfterRetr, buffer)
    <3>1. UnderWay(buffer) = 0
      BY <1>1, <2>2 DEF UnderWay, TimerRuns
    <3>2. t.config.isDroppingAfterRetr # -1 =>
            /\ t.config.isDroppingAfterRetr \in Nat
            /\ n <= t.config.isDroppingAfterRetr
            /\ n <= old.numOfRetransmissions + 1
      BY <1>1, <1>2, <1>3, <2>1 DEF UpTo, MaxRetransmissions
    <3>3. QED
      BY <1>1, <1>3, <2>1, <2>2, <3>1, <3>2 DEF BufferCounted, Unanswered
  <2>7. StationOK(u) /\ OtherBuffer(t, u, b, buffer) /\ SameHeld(t, u)
    BY <1>1, <2>2, <2>4, <2>5, <2>6, SamePDUs
  <2>8. TakesFirst(t, u, b)
    BY <2>7 DEF SameHeld, TakesFirst
  <2>9. QED
    BY <1>1, <2>2, <2>7, <2>8 DEF OtherBuffer, OnlyIn, DroppedOrRetried
<1>5. CASE /\ t.config.isDroppingAfterRetr # -1
           /\ ~(t.buf[b].numOfRetransmissions < t.config.isDroppingAfterRetr)
           /\ t.buf[b].pdus # <<>>
  <2>1. PICK rest \in Seq(Compounds) : rest = Tail(old.pdus)
    <3>1. t.buf[b].pdus \in Seq(Compounds)
      BY InUse
    <3>2. Tail(t.buf[b].pdus) \in Seq(Compounds)
      BY <1>5, <3>1
    <3>3. QED
      BY <1>1, <3>2, Zenon
  <2>2. PICK buffer \in BufferRecords :
          /\ buffer = [old EXCEPT !.pdus = rest, !.numOfRetransmissions = 0,
                                  !.unanswered = 0]
          /\ buffer.pdus = rest /\ buffer.timer = old.timer
          /\ buffer.isWaitingSIFS = old.isWaitingSIFS
          /\ buffer.isTransmissionStarted = old.isTransmissionStarted
          /\ buffer.numOfRetransmissions = 0 /\ buffer.unanswered = 0
    <3>1. 0 \in Nat
      OBVIOUS
    <3>2. [old EXCEPT !.pdus = rest, !.numOfRetransmissions = 0,
                      !.unanswered = 0] \in BufferRecords
      BY <1>1, <2>1, <3>1, Zenon DEF BufferRecords
    <3>3. QED
      BY <1>1, <2>1, <3>2 DEF BufferRecords
  <2>3. u = [t EXCEPT !.buf[b].pdus = rest, !.buf[b].numOfRetransmissions = 0,
                      !.buf[b].unanswered = 0]
    BY <1>1, <1>5, <2>1 DEF DropOrRetry, DropFront, IsEmpty
  <2>4. u = WithBuffer(t, b, buffer)
    <3>1. PICK v : v = [t EXCEPT !.buf[b].pdus = rest]
      OBVIOUS
    <3>2. PICK w : w = [v EXCEPT !.buf[b].numOfRetransmissions = 0]
      OBVIOUS
    <3>3. t \in Stations /\ t.buf \in [Buffers -> BufferRecords]
      BY DEF StationOK, Stations
    <3>4. v.buf[b] = [old EXCEPT !.pdus = rest]
      BY <1>1, <3>1, <3>3 DEF Stations
    <3>5. PICK second : second = [old EXCEPT !.pdus = rest, !.numOfRetransmissions = 0]
      OBVIOUS
    <3>6. [v.buf[b] EXCEPT !.numOfRetransmissions = 0] = second
      BY <3>4, <3>5
    <3>7. w = [v EXCEPT !.buf[b] = second]
      BY <3>2, <3>6
    <3>8. w = [t EXCEPT !.buf[b] = second]
      BY <3>1, <3>7
    <3>9. w.buf[b] = second
      BY <3>3, <3>8 DEF Stations
    <3>10. [w.buf[b] EXCEPT !.unanswered = 0] = buffer
      BY <2>2, <3>5, <3>9
    <3>11. u = [w EXCEPT !.buf[b].unanswered = 0]
      BY <2>3, <3>1, <3>2
    <3>12. u = [w EXCEPT !.buf[b] = buffer]
      BY <3>10, <3>11
    <3>13. QED
      BY <3>8, <3>12 DEF WithBuffer
  <2>5. buffer.isWaitingSIFS => buffer.timer # Off
    BY <1>1, <2>2 DEF StationOK, WaitingRuns
  <2>6. StationOK(u) /\ OtherBuffer(t, u, b, buffer) /\ TakesFirst(t, u, b)
    <3>1. UnderWay(buffer) = 0
      BY <1>1, <2>2 DEF UnderWay, TimerRuns
    <3>2. BufferCounted(t.config.isDroppingAfterRetr, buffer)
      BY <1>2, <1>5, <2>2, <3>1 DEF BufferCounted
    <3>3. QED
      BY <1>1, <1>5, <2>1, <2>2, <2>4, <2>5, <3>2, TailOK
  <2>7. UsedUp(t, b, First(t, b))
    BY <1>2, <1>5, <1>3 DEF UsedUp, IsEmpty, Unanswered
  <2>8. QED
    BY <1>1, <1>5, <2>2, <2>6, <2>7 DEF OtherBuffer, OnlyIn, DroppedOrRetried
<1>6. CASE /\ t.config.isDroppingAfterRetr # -1
           /\ ~(t.buf[b].numOfRetransmissions < t.config.isDroppingAfterRetr)
           /\ t.buf[b].pdus = <<>>
  <2>1. u = [t EXCEPT !.undefined = TRUE]
    BY <1>6 DEF DropOrRetry, DropFront, IsEmpty
  <2>2. t \in Stations
    BY DEF StationOK
  <2>3. u \in Stations
    <3>1. [t EXCEPT !.undefined = TRUE] \in Stations
      BY <2>2, Zenon DEF Stations
    <3>2. QED
      BY <2>1, <3>1
  <2>4. /\ u.queues = t.queues /\ u.buf = t.buf
        /\ SameTimes(t, u) /\ SameAir(t, u) /\ SameAccess(t, u) /\ SameTXOP(t, u)
        /\ SameTurn(t, u) /\ u.transmissionWaiting = t.transmissionWaiting
    BY <2>1, <2>2 DEF Stations, SameTimes, SameAir, SameAccess, SameTXOP, SameTurn
  <2>5. SameHeld(t, u)
    BY <2>4 DEF SameHeld, HeldFor
  <2>6. Separated(u) /\ Once(u) /\ WaitingRuns(u) /\ ForPCAOnly(u) /\ Counted(u)
    BY <1>6, <2>4 DEF StationOK, Separated, Once, WaitingRuns, ForPCAOnly, Counted, SameAccess
  <2>7. OthersQuiet(u, b) /\ TakesFirst(t, u, b)
    BY <2>4, <2>5 DEF OthersQuiet, Quiet, TakesFirst, SameHeld
  <2>8. QED
    BY <1>6, <2>3, <2>4, <2>5, <2>6, <2>7 DEF StationOK, DroppedOrRetried
<1>7. QED
  BY <1>4, <1>5, <1>6

\* The timer of a buffer ends, and sending from a buffer is stopped.
TimerStopped(t, b) == [t EXCEPT !.buf[b].timer = Off, !.buf[b].isWaitingSIFS = FALSE]
SendingStopped(t, b) == [t EXCEPT !.buf[b].isTransmissionStarted = FALSE]

\* Only these fields of a buffer change.
SameButBuffer(t, u, b) ==
    /\ u.buf[b].pdus = t.buf[b].pdus /\ SameCounts(t.buf[b], u.buf[b])
    /\ u.queues = t.queues
    /\ OthersQuiet(u, b)
    /\ SameTimes(t, u) /\ SameAir(t, u) /\ SameAccess(t, u) /\ SameTXOP(t, u)
    /\ SameTurn(t, u)
    /\ SameHeld(t, u)

\* A buffer's timer runs out.
LEMMA TimerStoppedOK ==
    ASSUME NEW t, StationOK(t), NEW b \in Buffers, OthersQuiet(t, b),
           NEW u, u = TimerStopped(t, b)
    PROVE  /\ StationOK(u) /\ SameButBuffer(t, u, b)
           /\ ~TimerRuns(u, b) /\ ~u.buf[b].isWaitingSIFS
           /\ u.buf[b].isTransmissionStarted = t.buf[b].isTransmissionStarted
           /\ TimerRuns(t, b) /\ ~t.buf[b].isWaitingSIFS => Unanswered(u, b)
<1>1. PICK old \in BufferRecords : old = t.buf[b]
  BY InUse
<1>2. PICK buffer \in BufferRecords :
        /\ buffer = [old EXCEPT !.timer = Off, !.isWaitingSIFS = FALSE]
        /\ buffer.pdus = old.pdus /\ buffer.timer = Off /\ ~buffer.isWaitingSIFS
        /\ buffer.isTransmissionStarted = old.isTransmissionStarted
        /\ SameCounts(old, buffer)
  <2>1. Off \in Nat \cup {Off}
    OBVIOUS
  <2>2. [old EXCEPT !.timer = Off, !.isWaitingSIFS = FALSE] \in BufferRecords
    BY <1>1, <2>1, Zenon DEF BufferRecords
  <2>3. QED
    BY <1>1, <2>2 DEF BufferRecords, SameCounts
<1>3. u = WithBuffer(t, b, buffer)
  <2>1. PICK v : v = [t EXCEPT !.buf[b].timer = Off]
    OBVIOUS
  <2>2. u = [v EXCEPT !.buf[b].isWaitingSIFS = FALSE]
    BY <2>1 DEF TimerStopped
  <2>3. t \in Stations /\ t.buf \in [Buffers -> BufferRecords]
    BY DEF StationOK, Stations
  <2>4. v.buf[b] = [old EXCEPT !.timer = Off]
    BY <1>1, <2>1, <2>3 DEF Stations
  <2>5. [v.buf[b] EXCEPT !.isWaitingSIFS = FALSE] = buffer
    BY <1>2, <2>4
  <2>6. u = [v EXCEPT !.buf[b] = buffer]
    BY <2>2, <2>5
  <2>7. QED
    BY <2>1, <2>6 DEF WithBuffer
<1>4. BufferCounted(t.config.isDroppingAfterRetr, buffer)
  BY <1>1, <1>2, CountsKept
<1>5. StationOK(u) /\ OtherBuffer(t, u, b, buffer) /\ SameHeld(t, u)
  BY <1>1, <1>2, <1>3, <1>4, SamePDUs
<1>6. ASSUME TimerRuns(t, b), ~t.buf[b].isWaitingSIFS
      PROVE  Unanswered(u, b)
  <2>1. UnderWay(t.buf[b]) = 1
    BY <1>6 DEF UnderWay, TimerRuns
  <2>2. BufferCounted(t.config.isDroppingAfterRetr, t.buf[b])
    BY DEF StationOK, Counted
  <2>3. u.config = t.config /\ SameCounts(t.buf[b], u.buf[b])
    BY <1>1, <1>2, <1>5 DEF OtherBuffer, SameAccess
  <2>4. QED
    BY <2>1, <2>2, <2>3 DEF BufferCounted, Unanswered, SameCounts
<1>7. QED
  BY <1>1, <1>2, <1>5, <1>6 DEF OtherBuffer, OnlyIn, SameButBuffer, TimerRuns

\* A buffer sends no further compound.
LEMMA SendingStoppedOK ==
    ASSUME NEW t, StationOK(t), NEW b \in Buffers, OthersQuiet(t, b),
           NEW u, u = SendingStopped(t, b)
    PROVE  /\ StationOK(u) /\ SameButBuffer(t, u, b)
           /\ u.buf[b].timer = t.buf[b].timer
           /\ u.buf[b].isWaitingSIFS = t.buf[b].isWaitingSIFS
           /\ ~u.buf[b].isTransmissionStarted
<1>1. PICK old \in BufferRecords : old = t.buf[b]
  BY InUse
<1>2. PICK buffer \in BufferRecords :
        /\ buffer = [old EXCEPT !.isTransmissionStarted = FALSE]
        /\ buffer.pdus = old.pdus /\ buffer.timer = old.timer
        /\ buffer.isWaitingSIFS = old.isWaitingSIFS
        /\ ~buffer.isTransmissionStarted
        /\ SameCounts(old, buffer)
  <2>1. [old EXCEPT !.isTransmissionStarted = FALSE] \in BufferRecords
    BY <1>1, Zenon DEF BufferRecords
  <2>2. QED
    BY <1>1, <2>1 DEF BufferRecords, SameCounts
<1>3. u = WithBuffer(t, b, buffer)
  BY <1>1, <1>2 DEF SendingStopped, WithBuffer
<1>4. buffer.isWaitingSIFS => buffer.timer # Off
  BY <1>1, <1>2 DEF StationOK, WaitingRuns
<1>5. BufferCounted(t.config.isDroppingAfterRetr, buffer)
  BY <1>1, <1>2, CountsKept
<1>6. StationOK(u) /\ OtherBuffer(t, u, b, buffer) /\ SameHeld(t, u)
  BY <1>1, <1>2, <1>3, <1>4, <1>5, SamePDUs
<1>7. QED
  BY <1>1, <1>2, <1>6 DEF OtherBuffer, OnlyIn, SameButBuffer

\* The ImmAck is due before its timer ends.
LEMMA NothingOnAir ==
    ASSUME NEW t, StationOK(t), NEW b \in Buffers, FrameOK(t, b),
           TimerRuns(t, b) => t.buf[b].timer < Sifs
    PROVE  t.onAir = Nothing
<1> SUFFICES ASSUME t.onAir # Nothing PROVE FALSE
  OBVIOUS
<1>1. t.onAir \in Frames
  BY DEF StationOK, Stations
<1>2. t.onAir.due \in Nat /\ Sifs \in Nat
  BY <1>1, TimingAssumption DEF Frames
<1>3. t.buf[b].timer = t.onAir.due + Sifs /\ t.buf[b].timer < Sifs
  BY DEF FrameOK
<1>4. QED
  BY <1>2, <1>3

\* A change of these fields does not give a reason to drop a compound.
LEMMA SameLosses ==
    ASSUME NEW t, NEW v, NEW b \in Buffers, SameButBuffer(t, v, b), NEW u, Loses(v, u)
    PROVE  Loses(t, u)
<1>1. ASSUME NEW c, NEW a \in Buffers, UsedUp(v, a, c)
      PROVE  UsedUp(t, b, c)
  <2>1. a = b
    BY <1>1 DEF UsedUp, IsEmpty, SameButBuffer, OthersQuiet, Quiet
  <2>2. QED
    BY <1>1, <2>1 DEF UsedUp, IsEmpty, First, SameButBuffer, SameCounts, SameAccess
<1>2. SameHeld(t, v)
  BY DEF SameButBuffer
<1>3. QED
  BY <1>1, <1>2 DEF Loses, SameHeld

-----------------------------------------------------------------------------
(***************************************************************************)
(* The same within a reserved access.                                      *)
(***************************************************************************)
LEMMA UnacknowledgedDRP ==
    ASSUME NEW t, StationOK(t), NEW next, DRPAccess(t, next), t.onAir = Nothing,
           ~TimerRuns(t, <<"DRP", t.AccessRx>>),
           t.buf[<<"DRP", t.AccessRx>>].pdus # <<>>,
           Unanswered(t, <<"DRP", t.AccessRx>>),
           NEW u, u = Unacknowledged(t, <<"DRP", t.AccessRx>>)
    PROVE  /\ StationOK(u) /\ Loses(t, u) /\ DRPAccess(u, next)
           /\ ~TimerRuns(u, <<"DRP", t.AccessRx>>)
           /\ u.AccessRx = t.AccessRx /\ u.sendNow = t.sendNow /\ u.config = t.config
           /\ SameCountdown(t, u)
<1> DEFINE b == <<"DRP", t.AccessRx>>
<1>1. b \in Buffers /\ OthersQuiet(t, b) /\ ~t.isPCAtransmissionActive /\ NoTXOP(t)
  BY DEF Buffers, DRPAccess
<1>2. u = DropOrRetry(t, b)
  BY <1>1 DEF Unacknowledged, failedAck, DropOrRetry, MaxRetransmissions
<1>3. StationOK(u) /\ DroppedOrRetried(t, u, b)
  <2> HIDE DEF b
  <2>1. QED
    BY <1>1, <1>2, DropOrRetryOK DEF b
<1>4. Loses(t, u)
  <2>1. CASE SameHeld(t, u)
    BY <2>1 DEF SameHeld, Loses
  <2>2. CASE UsedUp(t, b, First(t, b))
    <3>1. TakesFirst(t, u, b)
      BY <1>3 DEF DroppedOrRetried
    <3>2. QED
      BY <1>1, <2>2, <3>1 DEF Loses, TakesFirst
  <2>3. QED
    BY <1>3, <2>1, <2>2 DEF DroppedOrRetried
<1>5. u.AccessRx = t.AccessRx /\ u.sendNow = t.sendNow /\ u.config = t.config
      /\ SameCountdown(t, u)
  BY <1>3 DEF DroppedOrRetried, SameAccess, SameTXOP, SameAir, SameCountdown
<1>6. ~TimerRuns(u, b)
  BY <1>3 DEF DroppedOrRetried, TimerRuns
<1>7. DRPAccess(u, next)
  <2>1. FrameOK(u, b)
    BY <1>3, <1>6 DEF FrameOK, DroppedOrRetried, SameAir
  <2>2. NoTXOP(u)
    BY <1>1, <1>3 DEF DroppedOrRetried, SameTXOP, NoTXOP
  <2>3. OthersQuiet(u, b)
    BY <1>3 DEF DroppedOrRetried
  <2>4. /\ u.AccessPermission = t.AccessPermission
        /\ u.isPCAtransmissionActive = t.isPCAtransmissionActive
        /\ u.timer = t.timer /\ u.txOPLeft = t.txOPLeft
    BY <1>3 DEF DroppedOrRetried, SameAccess, SameTimes
  <2>5. QED
    BY <1>5, <2>1, <2>2, <2>3, <2>4 DEF DRPAccess
<1>8. QED
  BY <1>3, <1>4, <1>5, <1>6, <1>7

\* The end of a frame exchange, after which the next compound is sent.
LEMMA TimeoutDRP ==
    ASSUME NEW t, StationOK(t), NEW next, DRPAccess(t, next),
           t.buf[<<"DRP", t.AccessRx>>].timer = 0,
           NEW u, u = BufferTimeout(t, <<"DRP", t.AccessRx>>)
    PROVE  /\ StationOK(u) /\ Loses(t, u) /\ DRPAccess(u, next)
           /\ u.sendNow = t.sendNow /\ u.config = t.config
           /\ SameCountdown(t, u)
<1> DEFINE b == <<"DRP", t.AccessRx>>
<1>1. b \in Buffers /\ OthersQuiet(t, b) /\ FrameOK(t, b) /\ NoTXOP(t)
  BY DEF Buffers, DRPAccess
<1>2. 0 < Sifs /\ TimerRuns(t, b)
  <2>1. {TimerLead, CloseLead, Sifs} \subseteq Nat /\ TimerLead < CloseLead /\ CloseLead < Sifs
        /\ 0 < TimerLead
    BY TimingAssumption
  <2>2. QED
    BY <2>1 DEF TimerRuns, Off
<1>3. t.onAir = Nothing
  <2> HIDE DEF b
  <2>1. t.buf[b].timer < Sifs
    BY <1>2 DEF b
  <2>2. QED
    BY <1>1, <2>1, NothingOnAir
<1>4. PICK v : v = TimerStopped(t, b)
  OBVIOUS
<1>5. /\ StationOK(v) /\ SameButBuffer(t, v, b)
      /\ ~TimerRuns(v, b) /\ ~v.buf[b].isWaitingSIFS
      /\ v.buf[b].isTransmissionStarted = t.buf[b].isTransmissionStarted
      /\ ~t.buf[b].isWaitingSIFS => Unanswered(v, b)
  <2> HIDE DEF b
  <2>1. QED
    BY <1>1, <1>2, <1>4, TimerStoppedOK
<1>6. v.AccessRx = t.AccessRx /\ v.onAir = Nothing /\ v.sendNow = t.sendNow
      /\ v.buf[b].pdus = t.buf[b].pdus /\ v.config = t.config
      /\ SameCountdown(t, v)
  BY <1>3, <1>5 DEF SameButBuffer, SameAccess, SameAir, SameTXOP, SameCountdown
<1>7. DRPAccess(v, next)
  <2>1. FrameOK(v, b)
    BY <1>5, <1>6 DEF FrameOK
  <2>2. QED
    BY <1>1, <1>5, <1>6, <2>1 DEF DRPAccess, SameButBuffer, SameAccess, SameTimes, SameTXOP,
                                  NoTXOP
<1>8. PICK w : w = IF t.buf[b].isWaitingSIFS THEN v ELSE Unacknowledged(v, b)
  OBVIOUS
<1>9. u = IF w.buf[b].isTransmissionStarted THEN SendCompounds(w, b) ELSE w
  BY <1>4, <1>8 DEF BufferTimeout, TimerStopped
<1>10. /\ StationOK(w) /\ Loses(t, w) /\ DRPAccess(w, next)
       /\ w.AccessRx = t.AccessRx /\ w.sendNow = t.sendNow /\ w.config = t.config
       /\ SameCountdown(t, w)
       /\ ~TimerRuns(w, b)
  <2>1. CASE t.buf[b].isWaitingSIFS
    <3>1. w = v
      BY <1>8, <2>1
    <3>2. Loses(t, v)
      BY <1>5 DEF SameButBuffer, SameHeld, Loses
    <3>3. QED
      BY <1>5, <1>6, <1>7, <3>1, <3>2
  <2>2. CASE ~t.buf[b].isWaitingSIFS
    <3>1. w = Unacknowledged(v, <<"DRP", v.AccessRx>>)
      BY <1>6, <1>8, <2>2
    <3>2. v.buf[<<"DRP", v.AccessRx>>].pdus # <<>>
      BY <1>1, <1>2, <1>6, <2>2 DEF FrameOK
    <3>3. ~TimerRuns(v, <<"DRP", v.AccessRx>>) /\ Unanswered(v, <<"DRP", v.AccessRx>>)
      BY <1>5, <1>6, <2>2
    <3>4. /\ StationOK(w) /\ Loses(v, w) /\ DRPAccess(w, next)
          /\ ~TimerRuns(w, <<"DRP", v.AccessRx>>)
          /\ w.AccessRx = v.AccessRx /\ w.sendNow = v.sendNow /\ w.config = v.config
          /\ SameCountdown(v, w)
      BY <1>5, <1>6, <1>7, <3>1, <3>2, <3>3, UnacknowledgedDRP
    <3>5. Loses(t, w)
      <4> HIDE DEF b
      <4>1. QED
        BY <1>1, <1>5, <3>4, SameLosses
    <3>6. SameCountdown(t, w)
      BY <1>6, <3>4 DEF SameCountdown
    <3>7. QED
      BY <1>6, <3>4, <3>5, <3>6
  <2>3. QED
    BY <2>1, <2>2
<1>11. CASE ~w.buf[b].isTransmissionStarted
  BY <1>9, <1>10, <1>11
<1>12. CASE w.buf[b].isTransmissionStarted
  <2>1. u = SendCompounds(w, <<"DRP", w.AccessRx>>)
    BY <1>9, <1>10, <1>12
  <2>2. ~TimerRuns(w, <<"DRP", w.AccessRx>>)
    BY <1>10
  <2>3. /\ StationOK(u) /\ SameHeld(w, u) /\ DRPAccess(u, next)
        /\ SameAccess(w, u) /\ u.sendNow = w.sendNow
        /\ u.counting = w.counting /\ u.startedInDRP = w.startedInDRP
    BY <1>10, <2>1, <2>2, DRPSendOK
  <2>4. Loses(t, u)
    BY <1>10, <2>3 DEF SameHeld, Loses, SameAccess
  <2>5. SameCountdown(t, u)
    BY <1>10, <2>3 DEF SameCountdown, SameAccess
  <2>6. QED
    BY <1>10, <2>3, <2>4, <2>5 DEF SameAccess
<1>13. QED
  BY <1>11, <1>12

-----------------------------------------------------------------------------
(***************************************************************************)
(* The same within a contention access.                                    *)
(***************************************************************************)
\* No frame exchange is on: a contention access can end.
PCAEnds(t) ==
    /\ StationOK(t)
    /\ t.config.usePCAchannelAccess
    /\ ~t.AccessPermission
    /\ t.ActivePCArx \in Receivers
    /\ OthersQuiet(t, <<"PCA", t.ActivePCArx>>)
    /\ ~TimerRuns(t, <<"PCA", t.ActivePCArx>>)
    /\ t.onAir = Nothing

\* A contention access has ended.
PCAEnded(t, u) ==
    /\ StationOK(u) /\ SameHeld(t, u)
    /\ Idle(u)
    /\ u.ActivePCArx = t.ActivePCArx /\ u.config = t.config
    /\ u.sendNow = t.sendNow
    /\ u.counting = t.counting /\ u.startedInDRP = t.startedInDRP
    /\ TurnPassed(t, u)

\* EndPCA ends a contention access whose frame exchange and TXOP are over.
LEMMA EndPCAEnds ==
    ASSUME NEW t, PCAEnds(t), NoTXOP(t), NEW u, u = EndPCA(t)
    PROVE  PCAEnded(t, u)
<1>1. /\ StationOK(u) /\ SameHeld(t, u) /\ NoAccess(u)
      /\ u.ActivePCArx = t.ActivePCArx /\ u.config = t.config
      /\ SameTXOP(t, u) /\ TurnPassed(t, u)
      /\ u.counting = t.counting /\ u.startedInDRP = t.startedInDRP
  BY EndPCAOK DEF PCAEnds
<1>2. NoTXOP(u) /\ u.sendNow = t.sendNow
  BY <1>1 DEF NoTXOP, SameTXOP
<1>3. QED
  BY <1>1, <1>2 DEF PCAEnded, Idle

\* The TXOP is closed.
LEMMA CloseOK ==
    ASSUME NEW t, StationOK(t), NEW u, u = closeTXOP(t)
    PROVE  /\ StationOK(u) /\ SameHeld(t, u)
           /\ u.remainingTXOPDuration = 0 /\ u.closes = t.closes /\ u.sendNow = t.sendNow
           /\ u.queues = t.queues /\ u.buf = t.buf
           /\ SameAir(t, u) /\ SameAccess(t, u) /\ SameTurn(t, u)
<1>1. t \in Stations
  BY DEF StationOK
<1>2. u \in Stations
  <2>1. 0 \in Int
    OBVIOUS
  <2>2. [t EXCEPT !.remainingTXOPDuration = 0] \in Stations
    BY <1>1, <2>1, Zenon DEF Stations
  <2>3. QED
    BY <2>2 DEF closeTXOP
<1>3. /\ u.remainingTXOPDuration = 0 /\ u.closes = t.closes /\ u.sendNow = t.sendNow
      /\ u.queues = t.queues /\ u.buf = t.buf
      /\ SameAir(t, u) /\ SameAccess(t, u) /\ SameTurn(t, u)
      /\ u.transmissionWaiting = t.transmissionWaiting /\ u.undefined = t.undefined
  BY <1>1 DEF closeTXOP, Stations, SameAir, SameAccess, SameTurn
<1>4. u.config = t.config
  BY <1>3 DEF SameAccess
<1>5. StationOK(u) /\ SameHeld(t, u)
  BY <1>2, <1>3, <1>4, SameStation
<1>6. QED
  BY <1>3, <1>5

\* A missing acknowledgment ends a contention access, its TXOP included, and then
\* the compound is counted or dropped.
LEMMA UnacknowledgedPCA ==
    ASSUME NEW t, PCAEnds(t), t.isPCAtransmissionActive, t.closes = {},
           Unanswered(t, <<"PCA", t.ActivePCArx>>),
           NEW u, u = Unacknowledged(t, <<"PCA", t.ActivePCArx>>)
    PROVE  PCAEnded(t, u)
<1> DEFINE b == <<"PCA", t.ActivePCArx>>
<1>1. b \in Buffers /\ StationOK(t)
  BY DEF Buffers, PCAEnds
<1>2. PICK w : w = EndPCA(t)
  OBVIOUS
<1>3. /\ StationOK(w) /\ SameHeld(t, w) /\ NoAccess(w)
      /\ w.ActivePCArx = t.ActivePCArx /\ w.config = t.config
      /\ SameCounts(t.buf[b], w.buf[b])
      /\ SameTXOP(t, w) /\ TurnPassed(t, w)
      /\ w.counting = t.counting /\ w.startedInDRP = t.startedInDRP
  BY <1>2, EndPCAOK DEF PCAEnds
<1>4. PICK x : x = closeTXOP(w)
  OBVIOUS
<1>5. /\ StationOK(x) /\ SameHeld(w, x)
      /\ x.remainingTXOPDuration = 0 /\ x.closes = w.closes /\ x.sendNow = w.sendNow
      /\ x.queues = w.queues /\ x.buf = w.buf
      /\ SameAir(w, x) /\ SameAccess(w, x) /\ SameTurn(w, x)
  BY <1>3, <1>4, CloseOK
<1>6. Idle(x)
  <2>1. x.closes = {}
    BY <1>3, <1>5 DEF SameTXOP
  <2>2. NoAccess(x)
    BY <1>3, <1>5 DEF NoAccess, Quiet, SameAir, SameAccess
  <2>3. QED
    BY <1>5, <2>1, <2>2 DEF Idle, NoTXOP
<1>7. x.config = t.config /\ x.sendNow = t.sendNow /\ x.ActivePCArx = t.ActivePCArx
  BY <1>3, <1>5 DEF SameAccess, SameTXOP
<1>8. u = DropOrRetry(x, b)
  BY <1>2, <1>4, <1>7 DEF Unacknowledged, failedAck, DropOrRetry, MaxRetransmissions
<1>9. /\ OthersQuiet(x, b) /\ x.buf[b].pdus = <<>> /\ x.config.usePCAchannelAccess
      /\ ~TimerRuns(x, b) /\ Unanswered(x, b)
  BY <1>1, <1>3, <1>5, <1>6, <1>7 DEF Idle, NoAccess, Quiet, OthersQuiet, PCAEnds, TimerRuns,
                                       Unanswered, SameCounts
<1>10. StationOK(u) /\ DroppedOrRetried(x, u, b)
  <2> HIDE DEF b
  <2>1. QED
    BY <1>1, <1>5, <1>8, <1>9, DropOrRetryOK
<1>11. Idle(u)
  <2>1. Quiet(u, b)
    BY <1>1, <1>6, <1>9, <1>10 DEF DroppedOrRetried, Quiet, Idle, NoAccess
  <2>2. \A a \in Buffers : Quiet(u, a)
    BY <1>10, <2>1 DEF DroppedOrRetried, OthersQuiet
  <2>3. QED
    BY <1>6, <1>10, <2>2 DEF DroppedOrRetried, Idle, NoAccess, NoTXOP, SameAir, SameAccess,
                             SameTXOP
<1>12. SameHeld(t, u)
  BY <1>3, <1>5, <1>9, <1>10 DEF DroppedOrRetried, SameHeld
<1>13. TurnPassed(t, u)
  <2>1. /\ u.queues = w.queues /\ u.PCAcompoundsWereSent = w.PCAcompoundsWereSent
        /\ u.nextPCAReceiver = w.nextPCAReceiver
    BY <1>5, <1>10 DEF DroppedOrRetried, SameTurn
  <2>2. QED
    BY <1>3, <2>1 DEF TurnPassed
<1>14. u.config = t.config /\ u.sendNow = t.sendNow /\ u.ActivePCArx = t.ActivePCArx
       /\ u.counting = t.counting /\ u.startedInDRP = t.startedInDRP
  BY <1>3, <1>5, <1>7, <1>10 DEF DroppedOrRetried, SameAccess, SameTXOP, SameAir
<1>15. QED
  BY <1>10, <1>11, <1>12, <1>13, <1>14 DEF PCAEnded

\* The frame exchange of an active access ends in time.
LEMMA PCAFrameEnds ==
    ASSUME NEW t, StationOK(t), t.config.usePCAchannelAccess, ~t.AccessPermission,
           t.ActivePCArx \in Receivers, OthersQuiet(t, <<"PCA", t.ActivePCArx>>),
           t.onAir = Nothing,
           NEW u, u = TimerStopped(t, <<"PCA", t.ActivePCArx>>)
    PROVE  /\ PCAEnds(u) /\ SameButBuffer(t, u, <<"PCA", t.ActivePCArx>>)
           /\ u.ActivePCArx = t.ActivePCArx
           /\ u.buf[<<"PCA", t.ActivePCArx>>].isTransmissionStarted
                = t.buf[<<"PCA", t.ActivePCArx>>].isTransmissionStarted
           /\ ~u.buf[<<"PCA", t.ActivePCArx>>].isWaitingSIFS
           /\ TimerRuns(t, <<"PCA", t.ActivePCArx>>)
              /\ ~t.buf[<<"PCA", t.ActivePCArx>>].isWaitingSIFS
              => Unanswered(u, <<"PCA", t.ActivePCArx>>)
<1> DEFINE b == <<"PCA", t.ActivePCArx>>
<1>1. b \in Buffers
  BY DEF Buffers
<1>2. /\ StationOK(u) /\ SameButBuffer(t, u, b)
      /\ ~TimerRuns(u, b) /\ ~u.buf[b].isWaitingSIFS
      /\ u.buf[b].isTransmissionStarted = t.buf[b].isTransmissionStarted
      /\ TimerRuns(t, b) /\ ~t.buf[b].isWaitingSIFS => Unanswered(u, b)
  <2> HIDE DEF b
  <2>1. QED
    BY <1>1, TimerStoppedOK DEF b
<1>3. u.ActivePCArx = t.ActivePCArx
  BY <1>2 DEF SameButBuffer, SameAccess
<1>4. PCAEnds(u)
  BY <1>2, <1>3 DEF PCAEnds, SameButBuffer, SameAccess, SameAir
<1>5. QED
  BY <1>2, <1>3, <1>4

\* The end of a frame exchange, after which the TXOP goes on.
LEMMA TimeoutPCA ==
    ASSUME NEW t, StationOK(t), NEW res, NEW next, PCAAccess(t, res, next), ~t.sendNow,
           t.buf[<<"PCA", t.ActivePCArx>>].timer = 0,
           NEW u, u = BufferTimeout(t, <<"PCA", t.ActivePCArx>>)
    PROVE  /\ StationOK(u) /\ SameHeld(t, u) /\ ~u.sendNow
           /\ PCAAccess(u, res, next) \/ (Idle(u) /\ TurnPassed(t, u))
           /\ u.counting = t.counting /\ u.startedInDRP = t.startedInDRP
<1> DEFINE b == <<"PCA", t.ActivePCArx>>
<1>1. /\ PCAOn(t, res, next) /\ b \in Buffers /\ OthersQuiet(t, b)
      /\ t.timeleft \in Nat /\ t.txOPLeft \in Int
  BY PCABuffer DEF PCAAccess
<1>2. 0 < Sifs /\ 0 < CloseLead /\ CloseLead \in Nat /\ TimerRuns(t, b)
  <2>1. {TimerLead, CloseLead, Sifs} \subseteq Nat /\ TimerLead < CloseLead /\ CloseLead < Sifs
        /\ 0 < TimerLead
    BY TimingAssumption
  <2>2. QED
    BY <2>1 DEF TimerRuns, Off
<1>3. InTXOP(t, b)
  BY <1>2 DEF PCAAccess, NothingFits, Quiet, TimerRuns
<1>4. t.onAir = Nothing
  <2> HIDE DEF b
  <2>1. t.buf[b].timer < Sifs /\ FrameOK(t, b)
    BY <1>2, <1>3 DEF b, InTXOP
  <2>2. QED
    BY <1>1, <2>1, NothingOnAir
<1>5. t.remainingTXOPDuration > 0 /\ t.closes = {} /\ Rest(t, b) # <<>>
  <2>1. t.closes \subseteq Nat
    BY DEF StationOK, Stations
  <2>2. t.closes # {t.buf[b].timer - CloseLead}
    BY <1>2, <2>1
  <2>3. QED
    BY <1>3, <2>2 DEF InTXOP
<1>6. PICK v : v = TimerStopped(t, b)
  OBVIOUS
<1>7. /\ PCAEnds(v) /\ SameButBuffer(t, v, b) /\ v.ActivePCArx = t.ActivePCArx
      /\ v.buf[b].isTransmissionStarted /\ ~v.buf[b].isWaitingSIFS
      /\ ~t.buf[b].isWaitingSIFS => Unanswered(v, b)
  <2>1. t.config.usePCAchannelAccess /\ ~t.AccessPermission /\ t.ActivePCArx \in Receivers
    BY <1>1 DEF PCAOn
  <2>2. t.buf[b].isTransmissionStarted
    BY <1>3 DEF InTXOP
  <2>3. QED
    BY <1>1, <1>2, <1>4, <1>6, <2>1, <2>2, PCAFrameEnds
<1>8. v.sendNow = t.sendNow /\ v.closes = {} /\ v.isPCAtransmissionActive
      /\ v.remainingTXOPDuration = t.remainingTXOPDuration
      /\ v.counting = t.counting /\ v.startedInDRP = t.startedInDRP
  BY <1>1, <1>5, <1>7 DEF SameButBuffer, SameTXOP, SameAccess, SameAir, PCAOn
<1>9. CASE t.buf[b].isWaitingSIFS
  <2>1. u = SendCompounds(v, <<"PCA", v.ActivePCArx>>)
    BY <1>6, <1>7, <1>9 DEF BufferTimeout, TimerStopped
  <2>2. PCAOn(v, res, next)
    BY <1>1, <1>7 DEF PCAOn, PCAEnds, SameButBuffer, SameAccess, SameTimes, SameTurn
  <2>3. v.buf[b].pdus = Rest(t, b)
    BY <1>7, <1>9 DEF Rest, SameButBuffer
  <2>4. TimeOf(v.buf[b].pdus) + v.timeleft <= v.txOPLeft
    <3>1. 0 + TimeOf(Rest(t, b)) + t.timeleft <= t.txOPLeft
      BY <1>3 DEF InTXOP
    <3>2. v.timeleft = t.timeleft /\ v.txOPLeft = t.txOPLeft
      BY <1>7 DEF SameButBuffer, SameTimes
    <3>3. TimeOf(v.buf[b].pdus) \in Nat
      <4>1. v.buf[b].pdus \in Seq(Compounds)
        BY <1>1, <1>7 DEF PCAEnds, StationOK, Stations, BufferRecords
      <4>2. QED
        BY <4>1, TimeOfType
    <3>4. QED
      BY <1>1, <2>3, <3>1, <3>2, <3>3
  <2>5. PCAReady(v, res, next)
    <3>1. v.remainingTXOPDuration >= 0
      BY <1>5, <1>8 DEF StationOK, Stations
    <3>2. QED
      BY <3>1, <1>5, <1>7, <1>8, <2>2, <2>3, <2>4 DEF PCAReady, PCAEnds
  <2>6. Bypass(v)
    BY <1>5, <1>8 DEF Bypass
  <2>7. /\ StationOK(u) /\ SameHeld(v, u)
        /\ PCAAccess(u, res, next) \/ (Idle(u) /\ ~Bypass(v))
        /\ ~u.sendNow
        /\ u.counting = v.counting /\ u.startedInDRP = v.startedInDRP
    BY <1>7, <1>8, <2>1, <2>5, PCASendOK DEF PCAEnds
  <2>8. QED
    BY <1>7, <1>8, <2>6, <2>7 DEF SameHeld, SameButBuffer
<1>10. CASE ~t.buf[b].isWaitingSIFS
  <2>1. PICK w : w = Unacknowledged(v, <<"PCA", v.ActivePCArx>>)
    OBVIOUS
  <2>2. Unanswered(v, <<"PCA", v.ActivePCArx>>)
    BY <1>7, <1>10
  <2>3. PCAEnded(v, w)
    BY <1>7, <1>8, <2>1, <2>2, UnacknowledgedPCA
  <2>4. ~w.buf[b].isTransmissionStarted
    BY <1>1, <2>3 DEF PCAEnded, Idle, NoAccess, Quiet
  <2>5. u = w
    BY <1>6, <1>7, <1>10, <2>1, <2>4 DEF BufferTimeout, TimerStopped
  <2>6. TurnPassed(t, u)
    BY <1>7, <2>3, <2>5 DEF PCAEnded, TurnPassed, SameButBuffer, SameTurn
  <2>7. QED
    BY <1>7, <1>8, <2>3, <2>5, <2>6 DEF PCAEnded, SameHeld, SameButBuffer
<1>11. QED
  BY <1>9, <1>10

\* The access is stopped, be a frame exchange on or not.
LEMMA StopPCA ==
    ASSUME NEW t, StationOK(t), t.config.usePCAchannelAccess, ~t.AccessPermission,
           t.isPCAtransmissionActive, t.ActivePCArx \in Receivers,
           OthersQuiet(t, <<"PCA", t.ActivePCArx>>), t.onAir = Nothing, NoTXOP(t),
           FrameOK(t, <<"PCA", t.ActivePCArx>>),
           NEW u, u = stopPCAtransmission(t)
    PROVE  PCAEnded(t, u)
<1> DEFINE b == <<"PCA", t.ActivePCArx>>
<1>1. b \in Buffers
  BY DEF Buffers
<1>2. PICK s : s = SendingStopped(t, b)
  OBVIOUS
<1>3. /\ StationOK(s) /\ SameButBuffer(t, s, b)
      /\ s.buf[b].timer = t.buf[b].timer
      /\ s.buf[b].isWaitingSIFS = t.buf[b].isWaitingSIFS
      /\ ~s.buf[b].isTransmissionStarted
  <2> HIDE DEF b
  <2>1. QED
    BY <1>1, <1>2, SendingStoppedOK DEF b
<1>4. /\ s.ActivePCArx = t.ActivePCArx /\ s.config = t.config /\ s.onAir = Nothing
      /\ ~s.AccessPermission /\ s.sendNow = t.sendNow /\ NoTXOP(s)
      /\ s.isPCAtransmissionActive
      /\ s.counting = t.counting /\ s.startedInDRP = t.startedInDRP
      /\ OthersQuiet(s, b) /\ s.buf[b].pdus = t.buf[b].pdus
  BY <1>3 DEF SameButBuffer, SameAccess, SameAir, SameTXOP, NoTXOP
<1>5. PICK h : h = HaltBuffer(t, b)
  OBVIOUS
<1>6. u = EndPCA(h)
  BY <1>5 DEF stopPCAtransmission
<1>7. ASSUME ~TimerRuns(t, b)
      PROVE  PCAEnded(t, u)
  <2>1. h = s
    BY <1>2, <1>5, <1>7 DEF HaltBuffer, SendingStopped
  <2>2. PCAEnds(s)
    BY <1>3, <1>4, <1>7 DEF PCAEnds, TimerRuns
  <2>3. PCAEnded(s, u)
    BY <1>4, <1>6, <2>1, <2>2, EndPCAEnds
  <2>4. QED
    BY <1>3, <1>4, <2>3 DEF PCAEnded, TurnPassed, SameButBuffer, SameTurn, SameHeld
<1>8. ASSUME TimerRuns(t, b)
      PROVE  PCAEnded(t, u)
  <2>1. PICK v : v = TimerStopped(s, <<"PCA", s.ActivePCArx>>)
    OBVIOUS
  <2>2. /\ PCAEnds(v) /\ SameButBuffer(s, v, <<"PCA", s.ActivePCArx>>)
        /\ v.ActivePCArx = s.ActivePCArx
        /\ v.buf[<<"PCA", s.ActivePCArx>>].isTransmissionStarted
             = s.buf[<<"PCA", s.ActivePCArx>>].isTransmissionStarted
        /\ TimerRuns(s, <<"PCA", s.ActivePCArx>>)
           /\ ~s.buf[<<"PCA", s.ActivePCArx>>].isWaitingSIFS
           => Unanswered(v, <<"PCA", s.ActivePCArx>>)
    BY <1>3, <1>4, <2>1, PCAFrameEnds
  <2>3. /\ v.ActivePCArx = t.ActivePCArx /\ v.config = t.config /\ NoTXOP(v)
        /\ v.sendNow = t.sendNow /\ v.isPCAtransmissionActive
        /\ ~v.buf[b].isTransmissionStarted /\ v.buf[b].pdus = t.buf[b].pdus
        /\ v.queues = t.queues /\ SameHeld(t, v)
        /\ v.PCAcompoundsWereSent = t.PCAcompoundsWereSent
        /\ v.nextPCAReceiver = t.nextPCAReceiver
        /\ v.counting = t.counting /\ v.startedInDRP = t.startedInDRP
    BY <1>3, <1>4, <2>2 DEF SameButBuffer, SameAccess, SameTXOP, NoTXOP, SameHeld, SameTurn,
                             SameAir
  <2>4. h = BufferTimeout(s, b)
    BY <1>2, <1>5, <1>8 DEF HaltBuffer, SendingStopped
  <2>5. CASE t.buf[b].isWaitingSIFS
    <3>1. h = v
      BY <1>3, <1>4, <2>1, <2>3, <2>4, <2>5 DEF BufferTimeout, TimerStopped
    <3>2. PCAEnded(v, u)
      BY <1>6, <2>2, <2>3, <3>1, EndPCAEnds
    <3>3. QED
      BY <2>3, <3>2 DEF PCAEnded, TurnPassed, SameHeld
  <2>6. CASE ~t.buf[b].isWaitingSIFS
    <3>1. PICK w : w = Unacknowledged(v, <<"PCA", v.ActivePCArx>>)
      OBVIOUS
    <3>2. Unanswered(v, <<"PCA", v.ActivePCArx>>) /\ v.closes = {}
      BY <1>3, <1>4, <1>8, <2>2, <2>3, <2>6 DEF TimerRuns, NoTXOP
    <3>3. PCAEnded(v, w)
      BY <2>2, <2>3, <3>1, <3>2, UnacknowledgedPCA
    <3>4. ~w.buf[b].isTransmissionStarted
      BY <1>1, <3>3 DEF PCAEnded, Idle, NoAccess, Quiet
    <3>5. h = w
      BY <1>3, <1>4, <2>1, <2>3, <2>4, <2>6, <3>1, <3>4 DEF BufferTimeout, TimerStopped
    <3>6. PCAEnds(w) /\ NoTXOP(w)
      <4>1. /\ StationOK(w) /\ w.config = v.config /\ w.ActivePCArx = v.ActivePCArx
            /\ \A a \in Buffers : Quiet(w, a)
            /\ w.onAir = Nothing /\ ~w.AccessPermission /\ NoTXOP(w)
        BY <3>3 DEF PCAEnded, Idle, NoAccess
      <4>2. OthersQuiet(w, b) /\ ~TimerRuns(w, b)
        BY <1>1, <4>1 DEF OthersQuiet, Quiet, TimerRuns
      <4>3. QED
        BY <2>3, <4>1, <4>2 DEF PCAEnds
    <3>7. PCAEnded(w, u)
      BY <1>6, <3>5, <3>6, EndPCAEnds
    <3>8. TurnPassed(t, u)
      <4>1. TurnPassed(v, w) /\ TurnPassed(w, u) /\ w.ActivePCArx = t.ActivePCArx
        BY <2>3, <3>3, <3>7 DEF PCAEnded
      <4>2. QED
        BY <2>3, <4>1 DEF TurnPassed
    <3>9. QED
      BY <2>3, <3>3, <3>7, <3>8 DEF PCAEnded, SameHeld
  <2>7. QED
    BY <2>5, <2>6
<1>9. QED
  BY <1>7, <1>8

-----------------------------------------------------------------------------
(***************************************************************************)
(* The inductive invariant.                                                *)
(***************************************************************************)
\* The compounds the station is responsible for are the ones it holds.
Accepts(t, compounds) ==
    /\ compounds \subseteq Compounds
    /\ \A r \in Receivers : HeldFor(t, r) = {c \in compounds : Dest[c] = r}

Access(t, res, next) == Idle(t) \/ DRPAccess(t, next) \/ PCAAccess(t, res, next)

IInv ==
    /\ StationOK(st)
    /\ ~st.sendNow
    /\ nextChange \in Nat /\ reserved \in BOOLEAN
    /\ Accepts(st, accepted)
    /\ Access(st, reserved, nextChange)
    /\ Started(st, reserved, nextChange)

\* What a step may do to the compounds and to the turn.
StepOK ==
    /\ \A c \in accepted \ accepted' : st.onAir.c = c \/ GivenUp(c)
    /\ st.isPCAtransmissionActive /\ ~st'.isPCAtransmissionActive
       /\ st.PCAcompoundsWereSent
       => \/ st'.nextPCAReceiver # st.ActivePCArx
          \/ \A r \in Receivers \ {st.ActivePCArx} : st'.queues[r] = <<>>

\* The compounds of a station with types as they are.
LEMMA WhereHeld ==
    ASSUME NEW t, StationOK(t), NEW c \in Compounds
    PROVE  InStation(t, c) <=> c \in HeldFor(t, Dest[c])
<1>1. Dest[c] \in Receivers
  BY ReceiversAssumption
<1>2. ASSUME NEW b \in Buffers, c \in ToSet(t.buf[b].pdus)
      PROVE  b[2] = Dest[c]
  <2>1. t.buf[b].pdus \in Seq(For(b[2]))
    BY DEF StationOK, Separated
  <2>2. c \in For(b[2])
    BY <1>2, <2>1 DEF ToSet
  <2>3. QED
    BY <2>2 DEF For
<1>3. \A b \in Buffers : b \in {"DRP", "PCA"} \X {b[2]}
  BY DEF Buffers
<1>4. {"DRP", "PCA"} \X {Dest[c]} \subseteq Buffers
  BY <1>1 DEF Buffers
<1>5. ASSUME c \in HeldFor(t, Dest[c]) PROVE InStation(t, c)
  BY <1>4, <1>5 DEF InStation, HeldFor
<1>6. ASSUME InStation(t, c) PROVE c \in HeldFor(t, Dest[c])
  <2>1. CASE c \in ToSet(t.queues[Dest[c]])
    BY <2>1 DEF HeldFor
  <2>2. CASE \E b \in Buffers : c \in ToSet(t.buf[b].pdus)
    <3>1. PICK b \in Buffers : c \in ToSet(t.buf[b].pdus)
      BY <2>2
    <3>2. b \in {"DRP", "PCA"} \X {Dest[c]}
      BY <1>2, <1>3, <3>1
    <3>3. QED
      BY <3>1, <3>2 DEF HeldFor
  <2>3. QED
    BY <1>6, <2>1, <2>2 DEF InStation
<1>7. QED
  BY <1>5, <1>6

\* A step that takes compounds only, and drops the history of the others.
LEMMA KeepOK ==
    ASSUME Accepts(st, accepted), StationOK(st'), accepted' = Keep,
           \A r \in Receivers : HeldFor(st', r) \subseteq HeldFor(st, r)
    PROVE  /\ Accepts(st', accepted')
           /\ \A c \in accepted \ accepted' :
                /\ Dest[c] \in Receivers
                /\ c \in HeldFor(st, Dest[c]) \ HeldFor(st', Dest[c])
<1>1. accepted \subseteq Compounds /\ \A c \in Compounds : Dest[c] \in Receivers
  BY ReceiversAssumption DEF Accepts
<1>2. \A c \in accepted : c \in accepted' <=> c \in HeldFor(st', Dest[c])
  BY <1>1, WhereHeld DEF Keep
<1>3. accepted' \subseteq accepted
  BY DEF Keep
<1>4. \A c \in accepted : c \in HeldFor(st, Dest[c])
  BY <1>1 DEF Accepts
<1>5. ASSUME NEW r \in Receivers
      PROVE  HeldFor(st', r) = {c \in accepted' : Dest[c] = r}
  <2>1. HeldFor(st', r) \subseteq {c \in accepted : Dest[c] = r}
    BY DEF Accepts
  <2>2. QED
    BY <1>2, <1>3, <2>1
<1>6. QED
  BY <1>1, <1>2, <1>3, <1>4, <1>5 DEF Accepts

\* A step that takes nothing.
LEMMA NothingTaken ==
    ASSUME Accepts(st, accepted), StationOK(st'), SameHeld(st, st'),
           accepted' = accepted \/ accepted' = Keep
    PROVE  Accepts(st', accepted') /\ accepted' = accepted
<1>1. CASE accepted' = accepted
  BY <1>1 DEF Accepts, SameHeld
<1>2. CASE accepted' = Keep
  <2>1. \A r \in Receivers : HeldFor(st', r) = HeldFor(st, r)
    BY DEF SameHeld
  <2>2. /\ Accepts(st', accepted')
        /\ \A c \in accepted \ accepted' :
             /\ Dest[c] \in Receivers
             /\ c \in HeldFor(st, Dest[c]) \ HeldFor(st', Dest[c])
    BY <1>2, <2>1, KeepOK
  <2>3. accepted' \subseteq accepted
    BY <1>2 DEF Keep
  <2>4. QED
    BY <2>1, <2>2, <2>3
<1>3. QED
  BY <1>1, <1>2

\* What an access depends on.
SameForAccess(t, u) ==
    /\ u.queues = t.queues /\ u.buf = t.buf
    /\ u.onAir = t.onAir
    /\ SameTimes(t, u) /\ SameAccess(t, u)
    /\ u.nextPCAReceiver = t.nextPCAReceiver
    /\ u.remainingTXOPDuration = t.remainingTXOPDuration
    /\ u.closes = t.closes

\* The kind of an access depends on nothing else.
LEMMA AccessKept ==
    ASSUME NEW t, NEW u, SameForAccess(t, u), NEW res, NEW next
    PROVE  /\ Idle(t) => Idle(u)
           /\ DRPAccess(t, next) => DRPAccess(u, next)
           /\ PCAAccess(t, res, next) => PCAAccess(u, res, next)
<1> USE DEF SameForAccess, SameTimes, SameAccess
<1>1. \A b : Quiet(t, b) <=> Quiet(u, b)
  BY DEF Quiet
<1>2. \A b : OthersQuiet(t, b) <=> OthersQuiet(u, b)
  BY <1>1 DEF OthersQuiet
<1>3. NoTXOP(t) <=> NoTXOP(u)
  BY DEF NoTXOP
<1>4. \A b : FrameOK(t, b) <=> FrameOK(u, b)
  BY DEF FrameOK, TimerRuns, First
<1>5. Idle(t) => Idle(u)
  BY <1>1, <1>3 DEF Idle, NoAccess
<1>6. DRPAccess(t, next) => DRPAccess(u, next)
  BY <1>2, <1>3, <1>4 DEF DRPAccess
<1>7. PCAOn(t, res, next) <=> PCAOn(u, res, next)
  BY <1>2 DEF PCAOn
<1>8. \A b : InTXOP(t, b) <=> InTXOP(u, b)
  BY <1>4 DEF InTXOP, TimerRuns, Rest
<1>9. \A b : NothingFits(t, b) <=> NothingFits(u, b)
  BY <1>1, <1>3 DEF NothingFits
<1>10. PCAAccess(t, res, next) => PCAAccess(u, res, next)
  BY <1>7, <1>8, <1>9 DEF PCAAccess
<1>11. QED
  BY <1>5, <1>6, <1>10

\* The states of the three kinds.
LEMMA Kinds ==
    ASSUME NEW t, NEW res, NEW next
    PROVE  /\ Idle(t) => t.timer = Off /\ ~t.isPCAtransmissionActive
           /\ DRPAccess(t, next) => t.timer \in Nat /\ t.timer # Off /\ ~t.isPCAtransmissionActive
           /\ PCAAccess(t, res, next) => t.timer \in Nat /\ t.timer # Off /\ t.isPCAtransmissionActive
  BY DEF Idle, NoAccess, DRPAccess, PCAAccess, PCAOn, Off

\* Steps of one kind of access.
LEMMA SameKept ==
    ASSUME IInv, StationOK(st'), ~st'.sendNow, nextChange' \in Nat, reserved' \in BOOLEAN,
           SameHeld(st, st'), accepted' = accepted \/ accepted' = Keep,
           Access(st', reserved', nextChange'), Started(st', reserved', nextChange'),
           \/ ~st.isPCAtransmissionActive \/ st'.isPCAtransmissionActive
           \/ TurnPassed(st, st') /\ st.nextPCAReceiver = st.ActivePCArx
    PROVE  IInv' /\ StepOK
<1>1. Accepts(st', accepted') /\ accepted' = accepted
  BY NothingTaken DEF IInv
<1>2. IInv'
  <2>1. /\ StationOK(st') /\ ~st'.sendNow
        /\ nextChange' \in Nat /\ reserved' \in BOOLEAN
        /\ Accepts(st', accepted')
        /\ Access(st', reserved', nextChange') /\ Started(st', reserved', nextChange')
    BY <1>1
  <2>2. QED
    BY <2>1 DEF IInv
<1>3. StepOK
  BY <1>1 DEF StepOK, TurnPassed
<1>4. QED
  BY <1>2, <1>3

\* A post-backoff ends or begins anew.
LEMMA PostBackoffOK ==
    ASSUME IInv, PostBackoff
    PROVE  IInv' /\ StepOK
<1>1. st \in Stations /\ StationOK(st) /\ st.backoffFinished \in BOOLEAN
  BY DEF IInv, StationOK, Stations
<1>2. PICK finished \in BOOLEAN : finished = ~st.backoffFinished
  BY <1>1
<1>3. st' = [st EXCEPT !.backoffFinished = finished]
  BY <1>2 DEF PostBackoff, Becomes
<1>4. st' \in Stations
  <2>1. [st EXCEPT !.backoffFinished = finished] \in Stations
    BY <1>1, Zenon DEF Stations
  <2>2. QED
    BY <1>3, <2>1
<1>5. /\ SameForAccess(st, st') /\ st'.sendNow = st.sendNow
      /\ st'.transmissionWaiting = st.transmissionWaiting /\ st'.undefined = st.undefined
      /\ st'.isPCAtransmissionActive = st.isPCAtransmissionActive
      /\ SameCountdown(st, st')
  BY <1>1, <1>3 DEF Stations, SameForAccess, SameTimes, SameAccess, SameCountdown
<1>6. st'.queues = st.queues /\ st'.buf = st.buf /\ st'.config = st.config
  BY <1>5 DEF SameForAccess, SameAccess
<1>7. StationOK(st') /\ SameHeld(st, st')
  BY <1>1, <1>4, <1>5, <1>6, SameStation
<1>8. Access(st', reserved, nextChange) /\ Started(st', reserved, nextChange)
  BY <1>5, AccessKept, StartedKept DEF IInv, Access
<1>9. QED
  <2>1. reserved' = reserved /\ nextChange' = nextChange /\ accepted' = accepted
    BY DEF PostBackoff
  <2>2. QED
    BY <1>5, <1>7, <1>8, <2>1, SameKept DEF IInv

\* A reservation ends, and with it no contention access, since none is on.
LEMMA ReservationStopsOK ==
    ASSUME IInv, ReservationStops
    PROVE  IInv' /\ StepOK
<1>1. st \in Stations /\ StationOK(st)
  BY DEF IInv, StationOK
<1>2. st' = [st EXCEPT !.backoffFinished = FALSE]
  BY DEF ReservationStops, Becomes
<1>3. st' \in Stations
  <2>1. [st EXCEPT !.backoffFinished = FALSE] \in Stations
    BY <1>1, Zenon DEF Stations
  <2>2. QED
    BY <1>2, <2>1
<1>4. /\ SameForAccess(st, st') /\ st'.sendNow = st.sendNow
      /\ st'.transmissionWaiting = st.transmissionWaiting /\ st'.undefined = st.undefined
      /\ st'.isPCAtransmissionActive = st.isPCAtransmissionActive
      /\ SameCountdown(st, st')
      /\ st'.AccessPermission = st.AccessPermission /\ st'.timer = st.timer
  BY <1>1, <1>2 DEF Stations, SameForAccess, SameTimes, SameAccess, SameCountdown
<1>5. st'.queues = st.queues /\ st'.buf = st.buf /\ st'.config = st.config
  BY <1>4 DEF SameForAccess, SameAccess
<1>6. StationOK(st') /\ SameHeld(st, st')
  BY <1>1, <1>3, <1>4, <1>5, SameStation
<1>7. nextChange' \in Nat /\ nextChange = 0 /\ reserved /\ reserved' = FALSE
      /\ accepted' = accepted
  BY TimingAssumption DEF ReservationStops
<1>8. ~PCAAccess(st, reserved, nextChange)
  BY <1>7 DEF PCAAccess, PCAOn
<1>9. ~st.counting /\ ~st.startedInDRP
  BY <1>7 DEF IInv, Started
<1>10. ASSUME st.AccessPermission => st.timer = 0
       PROVE  Started(st', reserved', nextChange')
  BY <1>4, <1>7, <1>9, <1>10 DEF SameCountdown, Started
<1>11. CASE Idle(st)
  <2>1. Started(st', reserved', nextChange')
    BY <1>11, <1>10 DEF Idle, NoAccess
  <2>2. QED
    BY <1>4, <1>6, <1>7, <1>11, <2>1, AccessKept, SameKept DEF IInv, Access
<1>12. CASE DRPAccess(st, nextChange)
  <2>1. st.timer \in Nat /\ st.timer <= nextChange'
    BY <1>7, <1>12 DEF DRPAccess
  <2>2. DRPAccess(st, nextChange')
    BY <1>12, <2>1 DEF DRPAccess
  <2>3. DRPAccess(st', nextChange')
    BY <1>4, <2>2, AccessKept
  <2>4. Started(st', reserved', nextChange')
    <3>1. st.timer = 0
      BY <1>7, <1>12 DEF DRPAccess
    <3>2. QED
      BY <1>10, <3>1
  <2>5. QED
    BY <1>4, <1>6, <1>7, <2>3, <2>4, SameKept DEF IInv, Access
<1>13. QED
  BY <1>8, <1>11, <1>12 DEF IInv, Access

\* What was on the air is not any more.
AirCleared(t) == [t EXCEPT !.onAir = Nothing]

\* The frame on the air, or its acknowledgment, is lost.
LEMMA AirClearedOK ==
    ASSUME NEW t, StationOK(t), NEW u, u = AirCleared(t)
    PROVE  /\ StationOK(u) /\ SameHeld(t, u)
           /\ u.queues = t.queues /\ u.buf = t.buf /\ u.onAir = Nothing
           /\ u.counting = t.counting /\ u.startedInDRP = t.startedInDRP
           /\ SameTimes(t, u) /\ SameAccess(t, u) /\ SameTXOP(t, u) /\ SameTurn(t, u)
<1>1. t \in Stations
  BY DEF StationOK
<1>2. u \in Stations
  <2>1. Nothing \in Frames \cup {Nothing}
    OBVIOUS
  <2>2. [t EXCEPT !.onAir = Nothing] \in Stations
    BY <1>1, <2>1, Zenon DEF Stations
  <2>3. QED
    BY <2>2 DEF AirCleared
<1>3. /\ u.queues = t.queues /\ u.buf = t.buf /\ u.onAir = Nothing
      /\ u.counting = t.counting /\ u.startedInDRP = t.startedInDRP
      /\ SameTimes(t, u) /\ SameAccess(t, u) /\ SameTXOP(t, u) /\ SameTurn(t, u)
      /\ u.transmissionWaiting = t.transmissionWaiting /\ u.undefined = t.undefined
  BY <1>1 DEF AirCleared, Stations, SameTimes, SameAccess, SameTXOP, SameTurn
<1>4. u.config = t.config
  BY <1>3 DEF SameAccess
<1>5. StationOK(u) /\ SameHeld(t, u)
  BY <1>1, <1>2, <1>3, <1>4, SameStation
<1>6. QED
  BY <1>3, <1>5

\* A frame is lost: its timer runs on.
LEMMA FrameLostOK ==
    ASSUME IInv, FrameLost
    PROVE  IInv' /\ StepOK
<1>1. StationOK(st)
  BY DEF IInv
<1>2. st' = AirCleared(st)
  BY DEF FrameLost, Becomes, AirCleared
<1>3. /\ StationOK(st') /\ SameHeld(st, st')
      /\ st'.queues = st.queues /\ st'.buf = st.buf /\ st'.onAir = Nothing
      /\ st'.counting = st.counting /\ st'.startedInDRP = st.startedInDRP
      /\ SameTimes(st, st') /\ SameAccess(st, st') /\ SameTXOP(st, st') /\ SameTurn(st, st')
  BY <1>1, <1>2, AirClearedOK
<1>4. st'.sendNow = st.sendNow
      /\ st'.isPCAtransmissionActive = st.isPCAtransmissionActive
  BY <1>3 DEF SameAccess, SameTXOP
<1>5. /\ \A b : Quiet(st', b) <=> Quiet(st, b)
      /\ \A b : OthersQuiet(st', b) <=> OthersQuiet(st, b)
      /\ NoTXOP(st') <=> NoTXOP(st)
      /\ \A b : FrameOK(st, b) => FrameOK(st', b)
  BY <1>3 DEF Quiet, OthersQuiet, NoTXOP, SameTXOP, FrameOK, SameTimes, TimerRuns
<1>6. Access(st', reserved, nextChange)
  <2>1. CASE Idle(st)
    BY <1>3, <1>5, <2>1 DEF Access, Idle, NoAccess, SameAccess
  <2>2. CASE DRPAccess(st, nextChange)
    BY <1>3, <1>5, <2>2 DEF Access, DRPAccess, SameAccess, SameTimes
  <2>3. CASE PCAAccess(st, reserved, nextChange)
    <3>1. st'.ActivePCArx = st.ActivePCArx
      BY <1>3 DEF SameAccess
    <3>2. PCAOn(st', reserved, nextChange)
      BY <1>3, <1>5, <2>3 DEF PCAAccess, PCAOn, SameAccess, SameTimes, SameTurn
    <3>3. \A b : InTXOP(st, b) => InTXOP(st', b)
      BY <1>3, <1>5 DEF InTXOP, TimerRuns, Rest, SameTimes, SameTXOP
    <3>4. \A b : NothingFits(st, b) => NothingFits(st', b)
      BY <1>3, <1>5 DEF NothingFits, SameTimes
    <3>5. QED
      BY <2>3, <3>1, <3>2, <3>3, <3>4 DEF Access, PCAAccess
  <2>4. QED
    BY <2>1, <2>2, <2>3 DEF IInv, Access
<1>7. reserved' = reserved /\ nextChange' = nextChange /\ accepted' = accepted
  BY DEF FrameLost
<1>8. Started(st', reserved, nextChange)
  <2>1. SameCountdown(st, st')
    BY <1>3 DEF SameAccess, SameCountdown
  <2>2. QED
    BY <2>1, StartedKept DEF IInv
<1>9. QED
  BY <1>3, <1>4, <1>6, <1>7, <1>8, SameKept DEF IInv

\* A reservation starts, when no contention access is on any more, and its owner
\* gets its access.
LEMMA ReservationStartsOK ==
    ASSUME IInv, ReservationStarts
    PROVE  IInv' /\ StepOK
<1>1. nextChange = 0 /\ st.timer # 0 /\ reserved' = TRUE /\ nextChange' \in Lengths
      /\ accepted' = Keep
  BY DEF ReservationStarts
<1>2. nextChange' \in Nat /\ nextChange' > GuardDuration /\ TimerLead \in Nat
  BY <1>1, TimingAssumption
<1>3. Idle(st)
  <2>1. ~DRPAccess(st, nextChange)
    BY <1>1 DEF DRPAccess
  <2>2. ~PCAAccess(st, reserved, nextChange)
    BY <1>1, <1>2 DEF PCAAccess, PCAOn
  <2>3. QED
    BY <2>1, <2>2 DEF IInv, Access
<1>4. ~st.isPCAtransmissionActive /\ ~st.AccessPermission
  BY <1>3 DEF Idle, NoAccess
<1>5. ~st.startedInDRP /\ nextChange' > 0
  <2>1. GuardDuration \in Nat
    BY TimingAssumption
  <2>2. QED
    BY <1>1, <1>2, <2>1 DEF IInv, Started
<1>6. ASSUME st'.startedInDRP = st.startedInDRP
      PROVE  Started(st', reserved', nextChange')
  BY <1>1, <1>5, <1>6 DEF Started
<1>7. CASE st' = st
  <2>1. SameHeld(st, st')
    BY <1>7 DEF SameHeld
  <2>2. StationOK(st') /\ ~st'.sendNow /\ Idle(st')
    BY <1>3, <1>7 DEF IInv
  <2>3. QED
    BY <1>1, <1>2, <1>4, <1>7, <1>6, <2>1, <2>2, SameKept DEF Access
<1>8. ASSUME NEW r \in Receivers, st' = TimeToTransmit(st, r, nextChange')
      PROVE  IInv' /\ StepOK
  <2>1. /\ StationOK(st') /\ SameHeld(st, st') /\ DRPAccess(st', nextChange')
        /\ st'.sendNow = st.sendNow /\ st'.startedInDRP = st.startedInDRP
    BY <1>2, <1>3, <1>8, TimeToTransmitOK DEF IInv
  <2>2. QED
    BY <1>1, <1>2, <1>4, <1>6, <2>1, SameKept DEF IInv, Access
<1>9. QED
  BY <1>7, <1>8 DEF ReservationStarts, Becomes

\* The state of the DCF changes.
WithDCF(t, waiting, finished, go) ==
    [t EXCEPT !.transmissionWaiting = waiting, !.backoffFinished = finished,
              !.sendNow = go]

\* The answers of the DCF do not matter to an access that is on.
LEMMA GoOK ==
    ASSUME NEW t, StationOK(t), NEW x \in BOOLEAN, NEW y \in BOOLEAN, NEW z \in BOOLEAN,
           x => t.transmissionWaiting,
           NEW u, u = WithDCF(t, x, y, z)
    PROVE  /\ StationOK(u) /\ SameHeld(t, u) /\ SameForAccess(t, u)
           /\ u.sendNow = z /\ u.config = t.config /\ u.timer = t.timer
           /\ u.isPCAtransmissionActive = t.isPCAtransmissionActive
           /\ u.AccessPermission = t.AccessPermission
           /\ SameCountdown(t, u)
<1>1. t \in Stations
  BY DEF StationOK
<1>2. u \in Stations
  <2>1. [t EXCEPT !.transmissionWaiting = x, !.backoffFinished = y, !.sendNow = z] \in Stations
    BY <1>1, Zenon DEF Stations
  <2>2. QED
    BY <2>1 DEF WithDCF
<1>3. /\ SameForAccess(t, u) /\ u.sendNow = z
      /\ u.transmissionWaiting = x /\ u.undefined = t.undefined
      /\ SameCountdown(t, u)
  BY <1>1 DEF WithDCF, Stations, SameForAccess, SameTimes, SameAccess, SameCountdown
<1>4. u.queues = t.queues /\ u.buf = t.buf /\ u.config = t.config /\ u.timer = t.timer
      /\ u.isPCAtransmissionActive = t.isPCAtransmissionActive
      /\ u.AccessPermission = t.AccessPermission
  BY <1>3 DEF SameForAccess, SameAccess
<1>5. StationOK(u) /\ SameHeld(t, u)
  BY <1>1, <1>2, <1>3, <1>4, SameStation
<1>6. QED
  BY <1>3, <1>4, <1>5

\* The permission of the DCF is used or lost.
LEMMA NoGoOK ==
    ASSUME NEW t, StationOK(t), NEW u, u = [t EXCEPT !.sendNow = FALSE]
    PROVE  /\ StationOK(u) /\ SameHeld(t, u) /\ SameForAccess(t, u) /\ ~u.sendNow
           /\ u.isPCAtransmissionActive = t.isPCAtransmissionActive
           /\ SameCountdown(t, u)
<1>1. t \in Stations
  BY DEF StationOK
<1>2. u \in Stations
  <2>1. FALSE \in BOOLEAN
    OBVIOUS
  <2>2. [t EXCEPT !.sendNow = FALSE] \in Stations
    BY <1>1, <2>1, Zenon DEF Stations
  <2>3. QED
    BY <2>2
<1>3. /\ SameForAccess(t, u) /\ ~u.sendNow /\ SameCountdown(t, u)
      /\ u.transmissionWaiting = t.transmissionWaiting /\ u.undefined = t.undefined
  BY <1>1 DEF Stations, SameForAccess, SameTimes, SameAccess, SameCountdown
<1>4. u.queues = t.queues /\ u.buf = t.buf /\ u.config = t.config
      /\ u.isPCAtransmissionActive = t.isPCAtransmissionActive
  BY <1>3 DEF SameForAccess, SameAccess
<1>5. StationOK(u) /\ SameHeld(t, u)
  BY <1>1, <1>2, <1>3, <1>4, SameStation
<1>6. QED
  BY <1>3, <1>4, <1>5

\* The assertion of l.428 is checked, and nothing else done.
LEMMA AssureOK ==
    ASSUME NEW t, StationOK(t), NEW u, u = AssureNoDRP(t)
    PROVE  /\ StationOK(u) /\ SameHeld(t, u) /\ SameForAccess(t, u)
           /\ u.sendNow = t.sendNow /\ u.counting = t.counting
           /\ u.startedInDRP => t.startedInDRP \/ t.AccessPermission
           /\ u.AccessPermission = t.AccessPermission /\ u.timer = t.timer
           /\ u.isPCAtransmissionActive = t.isPCAtransmissionActive
<1>1. t \in Stations
  BY DEF StationOK
<1>2. PICK x \in BOOLEAN : x <=> t.startedInDRP \/ t.AccessPermission
  OBVIOUS
<1>3. u = [t EXCEPT !.startedInDRP = x]
  <2>1. x = (t.startedInDRP \/ t.AccessPermission)
    BY <1>1, <1>2 DEF Stations
  <2>2. QED
    BY <2>1 DEF AssureNoDRP
<1>4. u \in Stations
  <2>1. [t EXCEPT !.startedInDRP = x] \in Stations
    BY <1>1, Zenon DEF Stations
  <2>2. QED
    BY <1>3, <2>1
<1>5. /\ SameForAccess(t, u) /\ u.sendNow = t.sendNow /\ u.counting = t.counting
      /\ u.startedInDRP = x
      /\ u.transmissionWaiting = t.transmissionWaiting /\ u.undefined = t.undefined
  BY <1>1, <1>3 DEF Stations, SameForAccess, SameTimes, SameAccess
<1>6. /\ u.queues = t.queues /\ u.buf = t.buf /\ u.config = t.config /\ u.timer = t.timer
      /\ u.AccessPermission = t.AccessPermission
      /\ u.isPCAtransmissionActive = t.isPCAtransmissionActive
  BY <1>5 DEF SameForAccess, SameAccess
<1>7. StationOK(u) /\ SameHeld(t, u)
  BY <1>1, <1>4, <1>5, <1>6, SameStation
<1>8. QED
  BY <1>2, <1>5, <1>6, <1>7

\* The backoff expires: a contention access begins, unless an access is on.
LEMMA BackoffExpiredOK ==
    ASSUME IInv, backoffExpired
    PROVE  IInv' /\ StepOK
<1>1. PICK t : t = WithDCF(st, FALSE, FALSE, TRUE)
  OBVIOUS
<1>2. /\ StationOK(t) /\ SameHeld(st, t) /\ SameForAccess(st, t)
      /\ t.sendNow = TRUE /\ t.config = st.config /\ t.timer = st.timer
      /\ t.AccessPermission = st.AccessPermission
      /\ t.isPCAtransmissionActive = st.isPCAtransmissionActive
      /\ SameCountdown(st, t)
  <2>1. StationOK(st)
    BY DEF IInv
  <2>2. QED
    BY <1>1, <2>1, GoOK
<1>3. PICK u : u = startPCAtransmission(t)
  OBVIOUS
<1>4. st' = [u EXCEPT !.sendNow = @ /\ PCAcanStart(t)]
  BY <1>1, <1>3 DEF backoffExpired, Becomes, WithDCF
<1>5. reserved' = reserved /\ nextChange' = nextChange /\ accepted' = accepted
  BY DEF backoffExpired
<1>6. t.config.usePCAchannelAccess
  BY <1>2 DEF backoffExpired, IInv, StationOK, ForPCAOnly
<1>7. Started(st, reserved, nextChange) /\ st.counting
  BY DEF IInv, backoffExpired
<1>8. Started(t, reserved, nextChange) /\ t.counting
  BY <1>2, <1>7, StartedKept DEF SameCountdown
<1>9. /\ StationOK(u) /\ SameHeld(st, u)
      /\ Access(u, reserved, nextChange) /\ Started(u, reserved, nextChange)
      /\ ~(u.sendNow /\ PCAcanStart(t))
      /\ st.isPCAtransmissionActive => u.isPCAtransmissionActive
  <2>1. CASE Idle(st)
    <3>1. Idle(t)
      BY <1>2, <2>1, AccessKept
    <3>2. /\ StationOK(u) /\ SameHeld(t, u)
          /\ Idle(u) \/ PCAAccess(u, reserved, nextChange)
          /\ PCAcanStart(t) => ~u.sendNow
          /\ u.counting = t.counting /\ u.startedInDRP = t.startedInDRP
      <4>1. nextChange \in Nat
        BY DEF IInv
      <4>2. QED
        BY <1>2, <1>3, <1>6, <3>1, <4>1, StartPCAOK
    <3>3. ~st.isPCAtransmissionActive
      BY <2>1, Kinds
    <3>4. SameCountdown(t, u)
      BY <3>2 DEF SameCountdown, Idle, NoAccess, PCAAccess, PCAOn
    <3>5. QED
      BY <1>2, <1>8, <3>2, <3>3, <3>4, StartedKept DEF SameHeld, Access
  <2>2. CASE DRPAccess(st, nextChange) \/ PCAAccess(st, reserved, nextChange)
    <3>1. t.timer # Off
      BY <1>2, <2>2, Kinds
    <3>2. u = AssureNoDRP(t) /\ ~PCAcanStart(t)
      BY <1>3, <3>1 DEF startPCAtransmission, PCAcanStart
    <3>3. /\ StationOK(u) /\ SameHeld(t, u) /\ SameForAccess(t, u)
          /\ u.sendNow = t.sendNow /\ u.counting = t.counting
          /\ u.startedInDRP => t.startedInDRP \/ t.AccessPermission
          /\ u.AccessPermission = t.AccessPermission /\ u.timer = t.timer
          /\ u.isPCAtransmissionActive = t.isPCAtransmissionActive
      BY <1>2, <3>2, AssureOK
    <3>4. Access(t, reserved, nextChange)
      BY <1>2, <2>2, AccessKept DEF Access
    <3>5. Access(u, reserved, nextChange)
      BY <3>3, <3>4, AccessKept DEF Access
    <3>6. Started(u, reserved, nextChange)
      BY <1>8, <3>3 DEF Started
    <3>7. QED
      BY <1>2, <3>2, <3>3, <3>5, <3>6 DEF SameHeld
  <2>3. QED
    BY <2>1, <2>2 DEF IInv, Access
<1>10. /\ StationOK(st') /\ SameHeld(u, st') /\ SameForAccess(u, st') /\ ~st'.sendNow
      /\ st'.isPCAtransmissionActive = u.isPCAtransmissionActive
      /\ SameCountdown(u, st')
  <2>1. st' = [u EXCEPT !.sendNow = FALSE]
    BY <1>4, <1>9
  <2>2. QED
    BY <1>9, <2>1, NoGoOK
<1>11. Access(st', reserved, nextChange) /\ Started(st', reserved, nextChange)
  BY <1>9, <1>10, AccessKept, StartedKept DEF Access
<1>12. SameHeld(st, st')
  BY <1>9, <1>10 DEF SameHeld
<1>13. QED
  BY <1>5, <1>9, <1>10, <1>11, <1>12, SameKept DEF IInv

\* A step that takes compounds, within an access or at its end.
LEMMA SomeTaken ==
    ASSUME IInv, StationOK(st'), ~st'.sendNow, nextChange' = nextChange,
           reserved' = reserved, accepted' = Keep,
           Access(st', reserved, nextChange), Started(st', reserved, nextChange),
           ~st.isPCAtransmissionActive \/ st'.isPCAtransmissionActive,
           \A r \in Receivers :
               /\ HeldFor(st', r) \subseteq HeldFor(st, r)
               /\ \A c \in HeldFor(st, r) \ HeldFor(st', r) :
                     st.onAir.c = c \/ GivenUp(c)
    PROVE  IInv' /\ StepOK
<1>1. /\ Accepts(st', accepted')
      /\ \A c \in accepted \ accepted' :
           /\ Dest[c] \in Receivers
           /\ c \in HeldFor(st, Dest[c]) \ HeldFor(st', Dest[c])
  BY KeepOK DEF IInv
<1>2. IInv'
  BY <1>1 DEF IInv
<1>3. StepOK
  BY <1>1 DEF StepOK
<1>4. QED
  BY <1>2, <1>3

\* A buffer's timer runs out: the frame exchange is over, or SIFS after it.
LEMMA OnBufferTimeoutOK ==
    ASSUME IInv, onBufferTimeout
    PROVE  IInv' /\ StepOK
<1>1. PICK b \in Buffers : st.buf[b].timer = 0 /\ st' = BufferTimeout(st, b)
  BY DEF onBufferTimeout, Becomes
<1>2. reserved' = reserved /\ nextChange' = nextChange /\ accepted' = Keep
  BY DEF onBufferTimeout
<1>3. StationOK(st) /\ ~st.sendNow
  BY DEF IInv
<1>4. ~Quiet(st, b)
  BY <1>1 DEF Quiet, Off
<1>5. CASE Idle(st)
  BY <1>4, <1>5 DEF Idle, NoAccess
<1>6. CASE DRPAccess(st, nextChange)
  <2>1. b = <<"DRP", st.AccessRx>>
    BY <1>4, <1>6 DEF DRPAccess, OthersQuiet
  <2>2. /\ StationOK(st') /\ Loses(st, st') /\ DRPAccess(st', nextChange)
        /\ st'.sendNow = st.sendNow /\ st'.config = st.config
        /\ SameCountdown(st, st')
    BY <1>1, <1>3, <1>6, <2>1, TimeoutDRP
  <2>3. ~st.isPCAtransmissionActive
    BY <1>6, Kinds
  <2>4. Started(st', reserved, nextChange)
    BY <2>2, StartedKept DEF IInv
  <2>5. \A r \in Receivers :
          /\ HeldFor(st', r) \subseteq HeldFor(st, r)
          /\ \A c \in HeldFor(st, r) \ HeldFor(st', r) : GivenUp(c)
    BY <2>2 DEF Loses, UsedUp, GivenUp
  <2>6. QED
    BY <1>2, <1>3, <2>2, <2>3, <2>4, <2>5, SomeTaken DEF Access
<1>7. CASE PCAAccess(st, reserved, nextChange)
  <2>1. b = <<"PCA", st.ActivePCArx>>
    BY <1>4, <1>7 DEF PCAAccess, PCAOn, OthersQuiet
  <2>2. /\ StationOK(st') /\ SameHeld(st, st') /\ ~st'.sendNow
        /\ PCAAccess(st', reserved, nextChange) \/ (Idle(st') /\ TurnPassed(st, st'))
        /\ st'.counting = st.counting /\ st'.startedInDRP = st.startedInDRP
    BY <1>1, <1>3, <1>7, <2>1, TimeoutPCA
  <2>3. st.nextPCAReceiver = st.ActivePCArx
    BY <1>7 DEF PCAAccess, PCAOn
  <2>4. \/ st'.isPCAtransmissionActive
        \/ TurnPassed(st, st') /\ st.nextPCAReceiver = st.ActivePCArx
    BY <2>2, <2>3, Kinds
  <2>5. nextChange' \in Nat /\ reserved' \in BOOLEAN /\ Access(st', reserved', nextChange')
    BY <1>2, <2>2 DEF IInv, Access
  <2>6. Started(st', reserved', nextChange')
    <3>1. SameCountdown(st, st')
      BY <2>2 DEF SameCountdown, Idle, NoAccess, PCAAccess, PCAOn
    <3>2. QED
      BY <1>2, <3>1, StartedKept DEF IInv
  <2>7. QED
    BY <1>2, <2>2, <2>4, <2>5, <2>6, SameKept
<1>8. QED
  BY <1>5, <1>6, <1>7 DEF IInv, Access

\* The delayed stop ends the contention access it was made for.
LEMMA TxOPCloseOK ==
    ASSUME IInv, txOPClose
    PROVE  IInv' /\ StepOK
<1>1. PICK t : t = [st EXCEPT !.closes = st.closes \ {0}]
  OBVIOUS
<1>2. 0 \in st.closes /\ st' = stopPCAtransmission(t)
  BY <1>1 DEF txOPClose, Becomes
<1>3. reserved' = reserved /\ nextChange' = nextChange /\ accepted' = Keep
  BY DEF txOPClose
<1>4. StationOK(st) /\ st \in Stations /\ ~st.sendNow
  BY DEF IInv, StationOK
<1>5. PCAAccess(st, reserved, nextChange)
  BY <1>2 DEF IInv, Access, Idle, DRPAccess, NoTXOP
<1> DEFINE b == <<"PCA", st.ActivePCArx>>
<1>6. PCAOn(st, reserved, nextChange) /\ b \in Buffers
  BY <1>5 DEF PCAAccess, PCAOn, Buffers
<1>7. InTXOP(st, b)
  BY <1>2, <1>5 DEF PCAAccess, NothingFits, NoTXOP
<1>8. st.remainingTXOPDuration = 0 /\ st.closes = {st.buf[b].timer - CloseLead}
      /\ FrameOK(st, b)
  BY <1>2, <1>7 DEF InTXOP
<1>9. st.buf[b].timer < Sifs
  <2>1. CloseLead \in Nat /\ CloseLead < Sifs
    BY TimingAssumption
  <2>2. st.buf[b].timer \in Nat
    BY <1>4, <1>6, <1>7 DEF Stations, BufferRecords, InTXOP, TimerRuns
  <2>3. st.buf[b].timer - CloseLead = 0
    BY <1>2, <1>8
  <2>4. QED
    BY <2>1, <2>2, <2>3
<1>10. st.onAir = Nothing
  <2> HIDE DEF b
  <2>1. QED
    BY <1>4, <1>6, <1>8, <1>9, NothingOnAir
<1>11. PICK closes \in SUBSET Nat : closes = st.closes \ {0} /\ closes = {}
  <2>1. st.closes \ {0} = {}
    BY <1>2, <1>8
  <2>2. QED
    BY <2>1
<1>12. t \in Stations
  <2>1. [st EXCEPT !.closes = closes] \in Stations
    BY <1>4, Zenon DEF Stations
  <2>2. QED
    BY <1>1, <1>11, <2>1
<1>13. /\ t.queues = st.queues /\ t.buf = st.buf /\ t.closes = {}
       /\ t.onAir = st.onAir /\ t.remainingTXOPDuration = st.remainingTXOPDuration
       /\ t.sendNow = st.sendNow
       /\ t.counting = st.counting /\ t.startedInDRP = st.startedInDRP
       /\ SameTimes(st, t) /\ SameAccess(st, t) /\ SameTurn(st, t)
       /\ t.transmissionWaiting = st.transmissionWaiting /\ t.undefined = st.undefined
  BY <1>1, <1>4, <1>11 DEF Stations, SameTimes, SameAccess, SameTurn
<1>14. t.config = st.config /\ t.ActivePCArx = st.ActivePCArx
  BY <1>13 DEF SameAccess
<1>15. StationOK(t) /\ SameHeld(st, t)
  BY <1>4, <1>12, <1>13, <1>14, SameStation
<1>16. PCAEnded(t, st')
  <2>1. OthersQuiet(t, b) /\ FrameOK(t, b)
    BY <1>6, <1>8, <1>13 DEF PCAOn, OthersQuiet, Quiet, FrameOK, TimerRuns, First, SameTimes
  <2>2. /\ t.config.usePCAchannelAccess /\ ~t.AccessPermission
        /\ t.isPCAtransmissionActive /\ t.ActivePCArx \in Receivers
        /\ t.onAir = Nothing /\ NoTXOP(t)
    BY <1>6, <1>8, <1>10, <1>13 DEF PCAOn, SameAccess, NoTXOP
  <2>3. QED
    BY <1>2, <1>14, <1>15, <2>1, <2>2, StopPCA
<1>17. QED
  <2>1. TurnPassed(st, st') /\ st.nextPCAReceiver = st.ActivePCArx
    BY <1>6, <1>13, <1>14, <1>16 DEF PCAEnded, TurnPassed, SameTurn, PCAOn
  <2>2. StationOK(st') /\ SameHeld(st, st') /\ Idle(st') /\ ~st'.sendNow
    BY <1>4, <1>13, <1>15, <1>16 DEF PCAEnded, SameHeld
  <2>3. nextChange' \in Nat /\ reserved' \in BOOLEAN /\ Access(st', reserved', nextChange')
    BY <1>3, <2>2 DEF IInv, Access
  <2>4. Started(st', reserved', nextChange')
    <3>1. SameCountdown(st, st')
      BY <1>13, <1>16 DEF SameCountdown, PCAEnded, Idle, NoAccess
    <3>2. QED
      BY <1>3, <3>1, StartedKept DEF IInv
  <2>5. QED
    BY <1>3, <2>1, <2>2, <2>3, <2>4, SameKept

\* The shared timer ends the access, when no frame exchange is on any more.
LEMMA OnTimeoutOK ==
    ASSUME IInv, onTimeout
    PROVE  IInv' /\ StepOK
<1>1. PICK t : t = [st EXCEPT !.timer = Off]
  OBVIOUS
<1>2. st.timer = 0 /\ st' = AccessTimeout(st)
  BY DEF onTimeout, Becomes
<1>3. reserved' = reserved /\ nextChange' = nextChange /\ accepted' = Keep
  BY DEF onTimeout
<1>4. StationOK(st) /\ st \in Stations /\ ~st.sendNow
  BY DEF IInv, StationOK
<1>5. t \in Stations
  <2>1. Off \in Nat \cup {Off}
    OBVIOUS
  <2>2. [st EXCEPT !.timer = Off] \in Stations
    BY <1>4, <2>1, Zenon DEF Stations
  <2>3. QED
    BY <1>1, <2>2
<1>6. /\ t.queues = st.queues /\ t.buf = st.buf /\ t.timer = Off
      /\ SameTXOP(st, t) /\ SameAir(st, t) /\ SameTimes(st, t) /\ SameTurn(st, t)
      /\ t.config = st.config /\ t.AccessPermission = st.AccessPermission
      /\ t.AccessRx = st.AccessRx /\ t.ActivePCArx = st.ActivePCArx
      /\ t.isPCAtransmissionActive = st.isPCAtransmissionActive
      /\ t.transmissionWaiting = st.transmissionWaiting /\ t.undefined = st.undefined
  BY <1>1, <1>4 DEF Stations, SameTXOP, SameAir, SameTimes, SameTurn
<1>7. StationOK(t) /\ SameHeld(st, t)
  BY <1>4, <1>5, <1>6, SameStation
<1>8. /\ \A b : OthersQuiet(t, b) <=> OthersQuiet(st, b)
      /\ NoTXOP(t) <=> NoTXOP(st)
      /\ \A b : FrameOK(t, b) <=> FrameOK(st, b)
      /\ \A b : TimerRuns(t, b) <=> TimerRuns(st, b)
  BY <1>6 DEF Quiet, OthersQuiet, NoTXOP, SameTXOP, FrameOK, SameTimes, SameAir, TimerRuns, First
<1>9. ASSUME NEW b \in Buffers, FrameOK(st, b), st.txOPLeft < 0
      PROVE  ~TimerRuns(st, b) /\ st.onAir = Nothing
  <2>1. st.buf[b].timer \in Nat \cup {Off} /\ st.txOPLeft \in Int
    BY <1>4 DEF Stations, BufferRecords
  <2>2. ~TimerRuns(st, b)
    BY <1>9, <2>1 DEF FrameOK, TimerRuns
  <2>3. QED
    BY <1>9, <2>2 DEF FrameOK
<1>10. /\ GuardDuration \in Nat /\ TimerLead \in Nat
       /\ 0 < GuardDuration /\ TimerLead < GuardDuration
  <2>1. {TimerLead, CloseLead, Sifs, GuardDuration} \subseteq Nat
        /\ TimerLead < CloseLead /\ CloseLead < Sifs /\ Sifs < GuardDuration
    BY TimingAssumption
  <2>2. QED
    BY <2>1
<1>11. CASE DRPAccess(st, nextChange)
  <2> DEFINE b == <<"DRP", st.AccessRx>>
  <2>1. b \in Buffers /\ FrameOK(st, b) /\ OthersQuiet(st, b) /\ NoTXOP(st)
        /\ st.AccessPermission /\ ~st.isPCAtransmissionActive /\ st.txOPLeft < 0
    BY <1>2, <1>10, <1>11 DEF DRPAccess, Buffers
  <2>2. ~TimerRuns(st, b) /\ st.onAir = Nothing
    <3> HIDE DEF b
    <3>1. QED
      BY <1>9, <2>1
  <2>3. PICK s : s = SendingStopped(t, b)
    OBVIOUS
  <2>4. /\ StationOK(s) /\ SameButBuffer(t, s, b)
        /\ s.buf[b].timer = t.buf[b].timer
        /\ ~s.buf[b].isTransmissionStarted
    <3> HIDE DEF b
    <3>1. QED
      BY <1>7, <1>8, <2>1, <2>3, SendingStoppedOK
  <2>5. PICK r : r = ReturnCompounds(s, b)
    OBVIOUS
  <2>6. /\ StationOK(r)
        /\ OthersQuiet(r, b) /\ SameHeld(s, r)
        /\ r.buf[b] = [s.buf[b] EXCEPT !.pdus = <<>>]
        /\ SameAir(s, r) /\ SameAccess(s, r) /\ SameTXOP(s, r)
    <3> HIDE DEF b
    <3>1. OthersQuiet(s, b)
      BY <2>4 DEF SameButBuffer
    <3>2. QED
      BY <2>1, <2>4, <2>5, <3>1, ReturnOK
  <2>7. st' = [r EXCEPT !.AccessPermission = FALSE]
    <3>1. HaltBuffer(t, b) = s
      BY <1>8, <2>2, <2>3 DEF HaltBuffer, SendingStopped
    <3>2. QED
      BY <1>1, <1>2, <2>1, <2>5, <3>1 DEF AccessTimeout
  <2>8. r \in Stations /\ r.buf[b] \in BufferRecords /\ s.buf[b] \in BufferRecords
    BY <2>1, <2>4, <2>6 DEF StationOK, Stations
  <2>9. st' \in Stations
    <3>1. [r EXCEPT !.AccessPermission = FALSE] \in Stations
      BY <2>8, Zenon DEF Stations
    <3>2. QED
      BY <2>7, <3>1
  <2>10. /\ st'.queues = r.queues /\ st'.buf = r.buf /\ st'.config = r.config
         /\ SameTXOP(r, st') /\ st'.onAir = r.onAir /\ ~st'.AccessPermission
         /\ st'.timer = r.timer /\ st'.isPCAtransmissionActive = r.isPCAtransmissionActive
         /\ st'.transmissionWaiting = r.transmissionWaiting /\ st'.undefined = r.undefined
         /\ st'.counting = r.counting /\ st'.startedInDRP = r.startedInDRP
    BY <2>7, <2>8 DEF Stations, SameTXOP
  <2>11. StationOK(st') /\ SameHeld(r, st')
    BY <2>6, <2>9, <2>10, SameStation
  <2>12. Quiet(r, b)
    <3>1. r.buf[b].pdus = <<>> /\ r.buf[b].timer = Off /\ ~r.buf[b].isTransmissionStarted
      BY <1>6, <2>2, <2>4, <2>6, <2>8 DEF BufferRecords, TimerRuns
    <3>2. QED
      BY <3>1 DEF Quiet
  <2>13. \A a \in Buffers : Quiet(st', a)
    <3>1. \A a \in Buffers : Quiet(r, a)
      BY <2>6, <2>12 DEF OthersQuiet
    <3>2. QED
      BY <2>10, <3>1 DEF Quiet
  <2>14. Idle(st')
    <3>1. /\ st'.timer = Off /\ ~st'.isPCAtransmissionActive /\ st'.onAir = Nothing
      BY <1>6, <2>1, <2>2, <2>4, <2>6, <2>10 DEF SameButBuffer, SameAccess, SameAir
    <3>2. NoTXOP(st')
      BY <1>8, <2>1, <2>4, <2>6, <2>10 DEF SameButBuffer, SameTXOP, NoTXOP
    <3>3. QED
      BY <2>10, <2>13, <3>1, <3>2 DEF Idle, NoAccess
  <2>15. SameHeld(st, st') /\ ~st'.sendNow
    BY <1>4, <1>6, <1>7, <2>4, <2>6, <2>10, <2>11 DEF SameHeld, SameButBuffer, SameTXOP
  <2>16. nextChange' \in Nat /\ reserved' \in BOOLEAN /\ Access(st', reserved', nextChange')
    BY <1>3, <2>14 DEF IInv, Access
  <2>17. Started(st', reserved', nextChange')
    <3>1. SameCountdown(st, st')
      BY <1>6, <2>4, <2>6, <2>10 DEF SameCountdown, SameButBuffer, SameAir
    <3>2. QED
      BY <1>3, <3>1, StartedKept DEF IInv
  <2>18. QED
    BY <1>3, <2>1, <2>11, <2>15, <2>16, <2>17, SameKept
<1>12. CASE PCAAccess(st, reserved, nextChange)
  <2> DEFINE b == <<"PCA", st.ActivePCArx>>
  <2>1. b \in Buffers /\ PCAOn(st, reserved, nextChange) /\ st.txOPLeft < 0
    BY <1>2, <1>10, <1>12 DEF PCAAccess, PCAOn, Buffers
  <2>2. NothingFits(st, b)
    <3>1. ASSUME InTXOP(st, b) PROVE FALSE
      <4> HIDE DEF b
      <4>1. FrameOK(st, b) /\ TimerRuns(st, b)
        BY <3>1 DEF InTXOP
      <4>2. QED
        BY <1>9, <2>1, <4>1
    <3>2. QED
      BY <1>12, <3>1 DEF PCAAccess
  <2>3. st' = stopPCAtransmission(t)
    BY <1>1, <1>2, <2>1 DEF AccessTimeout, PCAOn
  <2>4. st.onAir = Nothing /\ NoTXOP(st) /\ ~TimerRuns(st, b)
    BY <2>2 DEF NothingFits, Quiet, TimerRuns
  <2>5. FrameOK(st, b)
    BY <2>4 DEF FrameOK
  <2>6. PCAEnded(t, st')
    <3>1. /\ t.config.usePCAchannelAccess /\ ~t.AccessPermission
          /\ t.isPCAtransmissionActive /\ t.ActivePCArx \in Receivers
          /\ OthersQuiet(t, b) /\ t.onAir = Nothing /\ NoTXOP(t) /\ FrameOK(t, b)
      BY <1>6, <1>8, <2>1, <2>4, <2>5 DEF PCAOn, SameAir
    <3>2. QED
      BY <1>6, <1>7, <2>3, <3>1, StopPCA
  <2>7. TurnPassed(st, st') /\ st.nextPCAReceiver = st.ActivePCArx
    BY <1>6, <2>1, <2>6 DEF PCAEnded, TurnPassed, SameTurn, PCAOn
  <2>8. StationOK(st') /\ SameHeld(st, st') /\ Idle(st') /\ ~st'.sendNow
    BY <1>4, <1>6, <1>7, <2>6 DEF PCAEnded, SameHeld, SameTXOP
  <2>9. nextChange' \in Nat /\ reserved' \in BOOLEAN /\ Access(st', reserved', nextChange')
    BY <1>3, <2>8 DEF IInv, Access
  <2>10. Started(st', reserved', nextChange')
    <3>1. SameCountdown(st, st')
      BY <1>6, <2>6 DEF SameCountdown, SameAir, PCAEnded, Idle, NoAccess
    <3>2. QED
      BY <1>3, <3>1, StartedKept DEF IInv
  <2>11. QED
    BY <1>3, <2>7, <2>8, <2>9, <2>10, SameKept
<1>13. ~Idle(st)
  BY <1>2, Kinds DEF Off
<1>14. QED
  BY <1>11, <1>12, <1>13 DEF IInv, Access

\* An ImmAck for the frame of buffer b.
LEMMA ImmAckOK ==
    ASSUME NEW t, StationOK(t), NEW b \in Buffers, OthersQuiet(t, b), FrameOK(t, b),
           t.onAir # Nothing, t.onAir.due = 0,
           NEW u, u = ImmAck(AirCleared(t), b)
    PROVE  /\ StationOK(u) /\ TakesFirst(t, u, b)
           /\ t.onAir.c = First(t, b)
           /\ u.queues = t.queues
           /\ OthersQuiet(u, b) /\ FrameOK(u, b)
           /\ TimerRuns(u, b) /\ u.buf[b].timer = t.buf[b].timer
           /\ u.buf[b].isTransmissionStarted = t.buf[b].isTransmissionStarted
           /\ Rest(u, b) = Rest(t, b)
           /\ u.onAir = Nothing
           /\ u.counting = t.counting /\ u.startedInDRP = t.startedInDRP
           /\ SameTimes(t, u) /\ SameAccess(t, u) /\ SameTXOP(t, u) /\ SameTurn(t, u)
<1>1. PICK v : v = AirCleared(t)
  OBVIOUS
<1>2. /\ StationOK(v) /\ SameHeld(t, v)
      /\ v.queues = t.queues /\ v.buf = t.buf /\ v.onAir = Nothing
      /\ v.counting = t.counting /\ v.startedInDRP = t.startedInDRP
      /\ SameTimes(t, v) /\ SameAccess(t, v) /\ SameTXOP(t, v) /\ SameTurn(t, v)
  BY <1>1, AirClearedOK
<1>3. /\ TimerRuns(t, b) /\ ~t.buf[b].isWaitingSIFS /\ t.onAir.c = First(t, b)
      /\ t.buf[b].timer = Sifs /\ t.buf[b].pdus # <<>> /\ t.buf[b].timer <= t.txOPLeft
      /\ Sifs \in Nat
  <2>1. Sifs \in Nat
    BY TimingAssumption
  <2>2. QED
    BY <2>1 DEF FrameOK
<1>4. PICK old \in BufferRecords : old = v.buf[b]
  BY <1>2 DEF StationOK, Stations
<1>5. PICK rest \in Seq(Compounds) : rest = Tail(old.pdus)
  <2>1. old.pdus \in Seq(Compounds) /\ old.pdus # <<>>
    BY <1>2, <1>3, <1>4 DEF BufferRecords
  <2>2. Tail(old.pdus) \in Seq(Compounds)
    BY <2>1
  <2>3. QED
    BY <2>2, Zenon
<1>6. PICK buffer \in BufferRecords :
        /\ buffer = [old EXCEPT !.pdus = rest, !.numOfRetransmissions = 0,
                                !.isWaitingSIFS = TRUE, !.timer = Sifs,
                                !.unanswered = 0]
        /\ buffer.pdus = rest /\ buffer.isWaitingSIFS /\ buffer.timer = Sifs
        /\ buffer.numOfRetransmissions = 0 /\ buffer.unanswered = 0
        /\ buffer.isTransmissionStarted = old.isTransmissionStarted
  <2>1. 0 \in Nat /\ Sifs \in Nat \cup {Off} /\ TRUE \in BOOLEAN
    BY <1>3
  <2>2. [old EXCEPT !.pdus = rest, !.numOfRetransmissions = 0,
                    !.isWaitingSIFS = TRUE, !.timer = Sifs,
                    !.unanswered = 0] \in BufferRecords
    BY <1>4, <1>5, <2>1, Zenon DEF BufferRecords
  <2>3. QED
    BY <1>4, <2>2 DEF BufferRecords
<1>7. u = WithBuffer(v, b, buffer)
  <2>1. u = [v EXCEPT !.buf[b].pdus = rest, !.buf[b].numOfRetransmissions = 0,
                      !.buf[b].isWaitingSIFS = TRUE, !.buf[b].timer = Sifs,
                      !.buf[b].unanswered = 0]
    BY <1>1, <1>2, <1>3, <1>4, <1>5 DEF ImmAck, TimerRuns
  <2>2. PICK w : w = [v EXCEPT !.buf[b].pdus = rest]
    OBVIOUS
  <2>3. PICK x : x = [w EXCEPT !.buf[b].numOfRetransmissions = 0]
    OBVIOUS
  <2>4. PICK y : y = [x EXCEPT !.buf[b].isWaitingSIFS = TRUE]
    OBVIOUS
  <2>5. PICK z : z = [y EXCEPT !.buf[b].timer = Sifs]
    OBVIOUS
  <2>6. u = [z EXCEPT !.buf[b].unanswered = 0]
    BY <2>1, <2>2, <2>3, <2>4, <2>5
  <2>7. v \in Stations /\ v.buf \in [Buffers -> BufferRecords]
    BY <1>2 DEF StationOK, Stations
  <2>8. w = [v EXCEPT !.buf[b] = [old EXCEPT !.pdus = rest]]
        /\ w.buf[b] = [old EXCEPT !.pdus = rest]
    BY <1>4, <2>2, <2>7 DEF Stations
  <2>9. x = [v EXCEPT !.buf[b] = [old EXCEPT !.pdus = rest, !.numOfRetransmissions = 0]]
        /\ x.buf[b] = [old EXCEPT !.pdus = rest, !.numOfRetransmissions = 0]
    BY <2>3, <2>7, <2>8 DEF Stations
  <2>10. y = [v EXCEPT !.buf[b] = [old EXCEPT !.pdus = rest, !.numOfRetransmissions = 0,
                                             !.isWaitingSIFS = TRUE]]
        /\ y.buf[b] = [old EXCEPT !.pdus = rest, !.numOfRetransmissions = 0,
                                  !.isWaitingSIFS = TRUE]
    BY <2>4, <2>7, <2>9 DEF Stations
  <2>11. z = [v EXCEPT !.buf[b] = [old EXCEPT !.pdus = rest, !.numOfRetransmissions = 0,
                                              !.isWaitingSIFS = TRUE, !.timer = Sifs]]
         /\ z.buf[b] = [old EXCEPT !.pdus = rest, !.numOfRetransmissions = 0,
                                   !.isWaitingSIFS = TRUE, !.timer = Sifs]
    BY <2>7, <2>10, <2>5 DEF Stations
  <2>12. u = [v EXCEPT !.buf[b] = buffer]
    <3>1. [z.buf[b] EXCEPT !.unanswered = 0] = buffer
      BY <1>6, <2>11
    <3>2. u = [z EXCEPT !.buf[b] = buffer]
      BY <2>6, <3>1
    <3>3. QED
      BY <2>11, <3>2
  <2>13. QED
    BY <2>12 DEF WithBuffer
<1>8. OthersQuiet(v, b) /\ v.buf[b].pdus # <<>> /\ buffer.pdus = Tail(v.buf[b].pdus)
      /\ First(v, b) = First(t, b)
  BY <1>2, <1>3, <1>4, <1>5, <1>6 DEF OthersQuiet, Quiet, First
<1>9. Off # Sifs
  BY <1>3 DEF Off
<1>10. BufferCounted(v.config.isDroppingAfterRetr, buffer)
  <2>1. v.config.isDroppingAfterRetr \in Nat \cup {-1}
    BY <1>2, ConfigAssumption DEF StationOK, Stations
  <2>2. UnderWay(buffer) = 0
    BY <1>6 DEF UnderWay
  <2>3. QED
    BY <1>6, <2>1, <2>2 DEF BufferCounted
<1>11. StationOK(u) /\ OtherBuffer(v, u, b, buffer) /\ TakesFirst(v, u, b)
  BY <1>2, <1>6, <1>7, <1>8, <1>9, <1>10, TailOK
<1>12. TakesFirst(t, u, b)
  BY <1>2, <1>8, <1>11 DEF TakesFirst, SameHeld
<1>13. /\ u.buf[b].timer = Sifs /\ u.buf[b].isWaitingSIFS /\ u.buf[b].pdus = rest
       /\ u.buf[b].isTransmissionStarted = t.buf[b].isTransmissionStarted
       /\ u.queues = t.queues /\ OthersQuiet(u, b) /\ u.onAir = Nothing
       /\ u.counting = t.counting /\ u.startedInDRP = t.startedInDRP
       /\ SameTimes(t, u) /\ SameAccess(t, u) /\ SameTXOP(t, u) /\ SameTurn(t, u)
  BY <1>2, <1>4, <1>6, <1>11 DEF OtherBuffer, OnlyIn, SameTimes, SameAccess, SameTXOP, SameTurn,
                                 SameAir
<1>14. FrameOK(u, b) /\ TimerRuns(u, b)
  BY <1>3, <1>9, <1>13 DEF FrameOK, TimerRuns, SameTimes
<1>15. Rest(u, b) = Rest(t, b)
  BY <1>2, <1>3, <1>4, <1>5, <1>13 DEF Rest
<1>16. QED
  BY <1>3, <1>11, <1>12, <1>13, <1>14, <1>15

\* The ImmAck takes the first compound of the buffer in use from the station.
LEMMA AcknowledgmentOK ==
    ASSUME IInv, Acknowledgment
    PROVE  IInv' /\ StepOK
<1> DEFINE r == Dest[st.onAir.c]
           b == <<IF st.AccessPermission THEN "DRP" ELSE "PCA", r>>
<1>1. st.onAir.due = 0 /\ accepted' = Keep /\ reserved' = reserved /\ nextChange' = nextChange
  BY DEF Acknowledgment
<1>2. st' = IF TakesFrom(st, r) THEN ImmAck(AirCleared(st), b) ELSE AirCleared(st)
  BY DEF Acknowledgment, Becomes, AirCleared
<1>3. st.onAir # Nothing
  BY <1>1 DEF Nothing, Off
<1>4. StationOK(st) /\ ~st.sendNow
  BY DEF IInv
<1>5. ASSUME NEW a \in Buffers, FrameOK(st, a)
      PROVE  r = a[2]
  <2>1. st.onAir.c = First(st, a) /\ st.buf[a].pdus # <<>>
    BY <1>3, <1>5 DEF FrameOK
  <2>2. st.buf[a].pdus \in Seq(For(a[2]))
    BY <1>4 DEF StationOK, Separated
  <2>3. First(st, a) \in For(a[2])
    BY <2>1, <2>2 DEF First
  <2>4. QED
    BY <2>1, <2>3 DEF For
<1>6. ~Idle(st)
  BY <1>3 DEF Idle, NoAccess
<1>7. CASE DRPAccess(st, nextChange)
  <2>1. <<"DRP", st.AccessRx>> \in Buffers /\ FrameOK(st, <<"DRP", st.AccessRx>>)
        /\ OthersQuiet(st, <<"DRP", st.AccessRx>>) /\ st.AccessPermission
        /\ ~st.isPCAtransmissionActive
    BY <1>7 DEF DRPAccess, Buffers
  <2>2. r = st.AccessRx
    BY <1>5, <2>1
  <2>3. TakesFrom(st, r)
    BY <2>1, <2>2 DEF TakesFrom, getCurrentTransmissionTarget
  <2>4. b = <<"DRP", st.AccessRx>>
    BY <2>1, <2>2
  <2>5. st' = ImmAck(AirCleared(st), b)
    BY <1>2, <2>3
  <2>6. b \in Buffers /\ FrameOK(st, b) /\ OthersQuiet(st, b)
    BY <2>1, <2>4
  <2>7. /\ StationOK(st') /\ TakesFirst(st, st', b)
        /\ st.onAir.c = First(st, b)
        /\ OthersQuiet(st', b) /\ FrameOK(st', b)
        /\ st'.counting = st.counting /\ st'.startedInDRP = st.startedInDRP
        /\ SameTimes(st, st') /\ SameAccess(st, st') /\ SameTXOP(st, st')
    <3> HIDE DEF b
    <3>1. QED
      BY <1>1, <1>3, <1>4, <2>5, <2>6, ImmAckOK
  <2>8. DRPAccess(st', nextChange)
    <3> HIDE DEF b
    <3>1. st'.AccessRx = st.AccessRx
      BY <2>7 DEF SameAccess
    <3>2. NoTXOP(st')
      BY <1>7, <2>7 DEF DRPAccess, NoTXOP, SameTXOP
    <3>3. QED
      BY <1>7, <2>4, <2>7, <3>1, <3>2 DEF DRPAccess, SameAccess, SameTimes
  <2>9. ~st'.sendNow
    BY <1>4, <2>7 DEF SameTXOP
  <2>10. Started(st', reserved, nextChange)
    <3>1. SameCountdown(st, st')
      BY <2>7 DEF SameCountdown, SameAccess
    <3>2. QED
      BY <3>1, StartedKept DEF IInv
  <2>11. QED
    BY <1>1, <2>1, <2>7, <2>8, <2>9, <2>10, SomeTaken DEF Access, TakesFirst
<1>8. CASE PCAAccess(st, reserved, nextChange)
  <2> DEFINE a == <<"PCA", st.ActivePCArx>>
  <2>1. /\ PCAOn(st, reserved, nextChange) /\ a \in Buffers /\ OthersQuiet(st, a)
        /\ st.config.usePCAchannelAccess /\ ~st.AccessPermission
        /\ st.isPCAtransmissionActive
    BY <1>8 DEF PCAAccess, PCAOn, Buffers
  <2>2. InTXOP(st, a) /\ FrameOK(st, a)
    BY <1>3, <1>8 DEF PCAAccess, NothingFits, InTXOP
  <2>3. r = st.ActivePCArx
    BY <1>5, <2>1, <2>2
  <2>4. TakesFrom(st, r)
    BY <2>1, <2>3 DEF TakesFrom, getCurrentTransmissionTarget
  <2>5. b = a
    BY <2>1, <2>3
  <2>6. st' = ImmAck(AirCleared(st), a)
    BY <1>2, <2>4, <2>5
  <2>7. /\ StationOK(st') /\ TakesFirst(st, st', a)
        /\ st.onAir.c = First(st, a)
        /\ OthersQuiet(st', a) /\ FrameOK(st', a)
        /\ TimerRuns(st', a) /\ st'.buf[a].timer = st.buf[a].timer
        /\ st'.buf[a].isTransmissionStarted = st.buf[a].isTransmissionStarted
        /\ Rest(st', a) = Rest(st, a)
        /\ st'.counting = st.counting /\ st'.startedInDRP = st.startedInDRP
        /\ SameTimes(st, st') /\ SameAccess(st, st') /\ SameTXOP(st, st') /\ SameTurn(st, st')
    <3> HIDE DEF a
    <3>1. QED
      BY <1>1, <1>3, <1>4, <2>1, <2>2, <2>6, ImmAckOK
  <2>8. PCAAccess(st', reserved, nextChange)
    <3>1. st'.ActivePCArx = st.ActivePCArx
      BY <2>7 DEF SameAccess
    <3>2. PCAOn(st', reserved, nextChange)
      BY <2>1, <2>7, <3>1 DEF PCAOn, SameAccess, SameTimes, SameTurn
    <3>3. InTXOP(st', a)
      BY <2>2, <2>7 DEF InTXOP, SameTimes, SameTXOP
    <3>4. QED
      BY <3>1, <3>2, <3>3 DEF PCAAccess
  <2>9. ~st'.sendNow /\ st'.isPCAtransmissionActive
    BY <1>4, <2>1, <2>7 DEF SameTXOP, SameAccess
  <2>10. Started(st', reserved, nextChange)
    <3>1. SameCountdown(st, st')
      BY <2>7 DEF SameCountdown, SameAccess
    <3>2. QED
      BY <3>1, StartedKept DEF IInv
  <2>11. QED
    BY <1>1, <2>7, <2>8, <2>9, <2>10, SomeTaken DEF Access, TakesFirst
<1>9. QED
  BY <1>6, <1>7, <1>8 DEF IInv, Access

\* A compound is put into its queue.
PutCompound(t, c) == [t EXCEPT !.queues = put(@, c)]

\* A new compound is once in the station, in its queue, and disturbs no access.
LEMMA PutOK ==
    ASSUME NEW t, StationOK(t), NEW c \in Compounds, c \notin HeldFor(t, Dest[c]),
           NEW u, u = PutCompound(t, c)
    PROVE  /\ StationOK(u)
           /\ \A r \in Receivers :
                HeldFor(u, r) = HeldFor(t, r) \cup (IF r = Dest[c] THEN {c} ELSE {})
           /\ u.config = t.config
           /\ u.sendNow = t.sendNow
           /\ SameCountdown(t, u)
           /\ \A res, next :
                /\ Idle(t) => Idle(u)
                /\ DRPAccess(t, next) => DRPAccess(u, next)
                /\ PCAAccess(t, res, next) => PCAAccess(u, res, next)
<1>1. PICK r \in Receivers : r = Dest[c]
  BY ReceiversAssumption
<1>2. PICK old \in Seq(For(r)) : old = t.queues[r] /\ old \in Seq(Compounds)
  BY ForIsCompounds DEF StationOK, Separated
<1>3. c \in For(r)
  BY <1>1 DEF For
<1>4. PICK new \in Seq(For(r)) :
        /\ new = Append(old, c) /\ new \in Seq(Compounds)
        /\ ToSet(new) = ToSet(old) \cup {c}
        /\ IsInjective(old) /\ c \notin ToSet(old) => IsInjective(new)
        /\ old # <<>> => new # <<>> /\ Head(new) = Head(old)
  <2>1. /\ Append(old, c) \in Seq(For(r))
        /\ ToSet(Append(old, c)) = ToSet(old) \cup {c}
        /\ IsInjective(old) /\ c \notin ToSet(old) => IsInjective(Append(old, c))
    BY <1>3, AppendOnce
  <2>2. ASSUME old # <<>>
        PROVE  Append(old, c) # <<>> /\ Head(Append(old, c)) = Head(old)
    <3>1. <<c>> \in Seq(For(r)) /\ Append(old, c) = old \o <<c>>
      BY <1>3
    <3>2. old \o <<c>> # <<>> /\ Head(old \o <<c>>) = Head(old)
      BY <2>2, <3>1, HeadOfBoth
    <3>3. QED
      BY <3>1, <3>2
  <2>3. Append(old, c) \in Seq(Compounds)
    BY <2>1, ForIsCompounds
  <2>4. QED
    BY <2>1, <2>2, <2>3, Zenon
<1>5. t \in Stations /\ t.queues \in [Receivers -> Seq(Compounds)]
  BY DEF StationOK, Stations
<1>6. PICK queues \in [Receivers -> Seq(Compounds)] :
        /\ queues = [t.queues EXCEPT ![r] = new]
        /\ queues[r] = new /\ \A s \in Receivers \ {r} : queues[s] = t.queues[s]
  <2>1. [t.queues EXCEPT ![r] = new] \in [Receivers -> Seq(Compounds)]
        /\ [t.queues EXCEPT ![r] = new][r] = new
        /\ \A s \in Receivers \ {r} : [t.queues EXCEPT ![r] = new][s] = t.queues[s]
    BY <1>4, <1>5
  <2>2. QED
    BY <2>1, Zenon
<1>7. u = [t EXCEPT !.queues = queues]
  <2>1. put(t.queues, c) = queues
    BY <1>1, <1>2, <1>4, <1>6 DEF put
  <2>2. QED
    BY <2>1 DEF PutCompound
<1>8. u \in Stations
  <2>1. [t EXCEPT !.queues = queues] \in Stations
    BY <1>5, Zenon DEF Stations
  <2>2. QED
    BY <1>7, <2>1
<1>9. /\ u.queues = queues /\ u.buf = t.buf /\ u.onAir = t.onAir
       /\ u.counting = t.counting /\ u.startedInDRP = t.startedInDRP
       /\ SameTimes(t, u) /\ SameAccess(t, u) /\ SameTXOP(t, u) /\ SameTurn(t, u)
       /\ u.transmissionWaiting = t.transmissionWaiting /\ u.undefined = t.undefined
  BY <1>5, <1>7 DEF Stations, SameTimes, SameAccess, SameTXOP, SameTurn
<1>10. \A s \in Receivers :
         HeldFor(u, s) = HeldFor(t, s) \cup (IF s = Dest[c] THEN {c} ELSE {})
  BY <1>1, <1>2, <1>4, <1>6, <1>9 DEF HeldFor
<1>11. Separated(u) /\ WaitingRuns(u) /\ ForPCAOnly(u) /\ Counted(u)
  BY <1>4, <1>6, <1>9 DEF StationOK, Separated, WaitingRuns, ForPCAOnly, Counted, SameAccess
<1>12. Once(u)
  <2> SUFFICES ASSUME NEW b \in Buffers
               PROVE  Alone(u.queues[b[2]], u.buf[b].pdus)
    BY DEF Once
  <2>1. Alone(t.queues[b[2]], t.buf[b].pdus) /\ b[2] \in Receivers
    BY DEF StationOK, Once, Buffers
  <2>2. CASE b[2] # r
    BY <1>6, <1>9, <2>1, <2>2
  <2>3. CASE b[2] = r
    <3>1. b \in {"DRP", "PCA"} \X {r}
      BY <2>3 DEF Buffers
    <3>2. c \notin ToSet(t.buf[b].pdus) /\ c \notin ToSet(old)
      BY <1>1, <1>2, <3>1 DEF HeldFor
    <3>3. Alone(old, t.buf[b].pdus)
      BY <1>2, <2>1, <2>3
    <3>4. Alone(new, t.buf[b].pdus)
      BY <1>4, <3>2, <3>3 DEF Alone
    <3>5. QED
      BY <1>6, <1>9, <2>3, <3>4
  <2>4. QED
    BY <2>2, <2>3
<1>13. /\ \A b : Quiet(u, b) <=> Quiet(t, b)
       /\ \A b : OthersQuiet(u, b) <=> OthersQuiet(t, b)
       /\ NoTXOP(u) <=> NoTXOP(t)
       /\ \A b : FrameOK(u, b) <=> FrameOK(t, b)
       /\ \A b : InTXOP(u, b) <=> InTXOP(t, b)
  BY <1>9 DEF Quiet, OthersQuiet, NoTXOP, SameTXOP, FrameOK, SameTimes, TimerRuns, First,
               InTXOP, Rest
<1>14. ASSUME NEW res, NEW next
       PROVE  /\ Idle(t) => Idle(u)
              /\ DRPAccess(t, next) => DRPAccess(u, next)
              /\ PCAAccess(t, res, next) => PCAAccess(u, res, next)
  <2>1. Idle(t) => Idle(u)
    BY <1>9, <1>13 DEF Idle, NoAccess, SameAccess
  <2>2. DRPAccess(t, next) => DRPAccess(u, next)
    BY <1>9, <1>13 DEF DRPAccess, SameAccess, SameTimes
  <2>3. ASSUME PCAAccess(t, res, next)
        PROVE  PCAAccess(u, res, next)
    <3> DEFINE b == <<"PCA", t.ActivePCArx>>
    <3>1. PCAOn(u, res, next) /\ u.ActivePCArx = t.ActivePCArx
      BY <1>9, <1>13, <2>3 DEF PCAAccess, PCAOn, SameAccess, SameTimes, SameTurn
    <3>2. ASSUME NothingFits(t, b) PROVE NothingFits(u, b)
      <4>1. b[2] = t.ActivePCArx /\ t.ActivePCArx \in Receivers
        BY <2>3 DEF PCAAccess, PCAOn
      <4>2. u.queues[b[2]] # <<>> /\ Head(u.queues[b[2]]) = Head(t.queues[b[2]])
        <5>1. CASE b[2] = r
          BY <1>2, <1>4, <1>6, <1>9, <3>2, <5>1 DEF NothingFits
        <5>2. CASE b[2] # r
          BY <1>6, <1>9, <3>2, <4>1, <5>2 DEF NothingFits
        <5>3. QED
          BY <5>1, <5>2
      <4>3. Quiet(u, b) /\ u.onAir = Nothing /\ NoTXOP(u) /\ u.timeleft = t.timeleft
        BY <1>9, <1>13, <3>2 DEF NothingFits, SameTimes
      <4>4. QED
        BY <3>2, <4>2, <4>3 DEF NothingFits
    <3>3. QED
      BY <1>13, <2>3, <3>1, <3>2 DEF PCAAccess
  <2>4. QED
    BY <2>1, <2>2, <2>3
<1>15. u.config = t.config /\ u.sendNow = t.sendNow /\ SameCountdown(t, u)
  BY <1>9 DEF SameAccess, SameTXOP, SameCountdown
<1>16. QED
  BY <1>8, <1>10, <1>11, <1>12, <1>14, <1>15 DEF StationOK

\* A compound arrives from above, and may begin or extend an access.
LEMMA DoSendDataOK ==
    ASSUME IInv, NEW c \in Compounds, doSendData(c)
    PROVE  IInv' /\ StepOK
<1>1. PICK t : t = PutCompound(st, c)
  OBVIOUS
<1>2. st' = NewArrival(t, Dest[c]) /\ c \notin accepted /\ accepted' = accepted \cup {c}
      /\ reserved' = reserved /\ nextChange' = nextChange
  BY <1>1 DEF doSendData, Becomes, PutCompound
<1>3. StationOK(st) /\ ~st.sendNow /\ nextChange \in Nat
  BY DEF IInv
<1>4. Dest[c] \in Receivers /\ c \notin HeldFor(st, Dest[c])
  BY <1>2, ReceiversAssumption DEF IInv, Accepts
<1>5. /\ StationOK(t) /\ t.config = st.config /\ ~t.sendNow /\ SameCountdown(st, t)
      /\ \A r \in Receivers :
            HeldFor(t, r) = HeldFor(st, r) \cup (IF r = Dest[c] THEN {c} ELSE {})
      /\ Idle(st) => Idle(t)
      /\ DRPAccess(st, nextChange) => DRPAccess(t, nextChange)
      /\ PCAAccess(st, reserved, nextChange) => PCAAccess(t, reserved, nextChange)
  BY <1>1, <1>3, <1>4, PutOK
<1>6. /\ StationOK(st') /\ SameHeld(t, st') /\ ~st'.sendNow
      /\ Access(st', reserved, nextChange) /\ SameCountdown(t, st')
      /\ st.isPCAtransmissionActive => st'.isPCAtransmissionActive
  <2>1. SameHeld(t, t) /\ SameCountdown(t, t)
    BY DEF SameHeld, SameCountdown
  <2>2. CASE Idle(st)
    <3>1. Idle(t) /\ ~st.isPCAtransmissionActive
      BY <1>5, <2>2, Kinds
    <3>2. ~t.AccessPermission /\ ~t.isPCAtransmissionActive
      BY <3>1 DEF Idle, NoAccess
    <3>3. CASE t.config.usePCAchannelAccess
      <4>1. st' = startPCAtransmission(t)
        BY <1>2, <3>2, <3>3 DEF NewArrival
      <4>2. /\ StationOK(st') /\ SameHeld(t, st')
            /\ Idle(st') \/ PCAAccess(st', reserved, nextChange)
            /\ ~st'.sendNow
            /\ st'.counting = t.counting /\ st'.startedInDRP = t.startedInDRP
        BY <1>3, <1>5, <3>1, <3>3, <4>1, StartPCAOK
      <4>3. SameCountdown(t, st')
        BY <4>2 DEF SameCountdown, Idle, NoAccess, PCAAccess, PCAOn
      <4>4. QED
        BY <3>1, <4>2, <4>3 DEF Access
    <3>4. CASE ~t.config.usePCAchannelAccess
      <4>1. st' = t
        BY <1>2, <3>2, <3>4 DEF NewArrival
      <4>2. QED
        BY <1>5, <2>1, <3>1, <4>1 DEF Access
    <3>5. QED
      BY <3>3, <3>4
  <2>3. CASE DRPAccess(st, nextChange)
    <3>1. DRPAccess(t, nextChange) /\ ~st.isPCAtransmissionActive
      BY <1>5, <2>3, Kinds
    <3>2. CASE t.AccessRx = Dest[c]
      <4>1. st' = StartBuffering(t, <<"DRP", t.AccessRx>>)
        BY <1>2, <3>1, <3>2 DEF NewArrival, DRPAccess
      <4>2. /\ StationOK(st') /\ SameHeld(t, st') /\ DRPAccess(st', nextChange)
            /\ st'.sendNow = t.sendNow /\ SameCountdown(t, st')
        BY <1>5, <3>1, <4>1, StartDRPOK
      <4>3. QED
        BY <1>5, <3>1, <4>2 DEF Access
    <3>3. CASE t.AccessRx # Dest[c]
      <4>1. st' = t
        BY <1>2, <3>1, <3>3 DEF NewArrival, DRPAccess
      <4>2. QED
        BY <1>5, <2>1, <3>1, <4>1 DEF Access
    <3>4. QED
      BY <3>2, <3>3
  <2>4. CASE PCAAccess(st, reserved, nextChange)
    <3>1. PCAAccess(t, reserved, nextChange)
      BY <1>5, <2>4
    <3>2. t.isPCAtransmissionActive /\ ~t.AccessPermission /\ t.config.usePCAchannelAccess
      BY <3>1 DEF PCAAccess, PCAOn
    <3>3. CASE t.ActivePCArx = Dest[c]
      <4>1. st' = StartBuffering(t, <<"PCA", t.ActivePCArx>>)
        BY <1>2, <3>2, <3>3 DEF NewArrival
      <4>2. /\ StationOK(st') /\ SameHeld(t, st') /\ PCAAccess(st', reserved, nextChange)
            /\ st'.sendNow = t.sendNow
            /\ st'.counting = t.counting /\ st'.startedInDRP = t.startedInDRP
        BY <1>5, <3>1, <4>1, RefillPCAOK
      <4>3. SameCountdown(t, st')
        BY <4>2 DEF SameCountdown, PCAAccess, PCAOn
      <4>4. QED
        BY <1>5, <4>2, <4>3, Kinds DEF Access
    <3>4. CASE t.ActivePCArx # Dest[c]
      <4>1. st' = t
        BY <1>2, <3>2, <3>4 DEF NewArrival
      <4>2. QED
        BY <1>5, <2>1, <3>1, <3>2, <4>1 DEF Access
    <3>5. QED
      BY <3>3, <3>4
  <2>5. QED
    BY <2>2, <2>3, <2>4 DEF IInv, Access
<1>7. Accepts(st', accepted')
  <2>1. \A r \in Receivers : HeldFor(st', r) = HeldFor(st, r) \cup (IF r = Dest[c] THEN {c} ELSE {})
    BY <1>5, <1>6 DEF SameHeld
  <2>2. Accepts(st, accepted)
    BY DEF IInv
  <2>3. QED
    BY <1>2, <2>1, <2>2 DEF Accepts
<1>8. Started(st', reserved, nextChange)
  BY <1>5, <1>6, StartedKept DEF IInv
<1>9. IInv'
  BY <1>2, <1>6, <1>7, <1>8 DEF IInv
<1>10. StepOK
  BY <1>2, <1>6 DEF StepOK
<1>11. QED
  BY <1>9, <1>10

-----------------------------------------------------------------------------
(***************************************************************************)
(* Time passes.                                                            *)
(***************************************************************************)
\* d passes for all timers, which run at least that long.
Passes(t, d) ==
    /\ t.timer # Off => d <= t.timer
    /\ t.onAir # Nothing => d <= t.onAir.due
    /\ \A e \in t.closes : d <= e
    /\ \A b \in Buffers : t.buf[b].timer # Off => d <= t.buf[b].timer

InUseNow(t) == t.AccessPermission \/ t.isPCAtransmissionActive

Passed(t, u, d) ==
    /\ u.timer = Later(d, t.timer)
    /\ u.onAir = Nothing <=> t.onAir = Nothing
    /\ t.onAir # Nothing => u.onAir.c = t.onAir.c /\ u.onAir.due = t.onAir.due - d
    /\ u.closes = {e - d : e \in t.closes}
    /\ u.txOPLeft = IF InUseNow(t) THEN t.txOPLeft - d ELSE t.txOPLeft
    /\ \A b \in Buffers :
        /\ u.buf[b].timer = Later(d, t.buf[b].timer)
        /\ u.buf[b].pdus = t.buf[b].pdus
        /\ u.buf[b].isWaitingSIFS = t.buf[b].isWaitingSIFS
        /\ u.buf[b].isTransmissionStarted = t.buf[b].isTransmissionStarted
        /\ SameCounts(t.buf[b], u.buf[b])
    /\ u.queues = t.queues /\ u.timeleft = t.timeleft /\ u.config = t.config
    /\ u.AccessPermission = t.AccessPermission /\ u.AccessRx = t.AccessRx
    /\ u.isPCAtransmissionActive = t.isPCAtransmissionActive
    /\ u.ActivePCArx = t.ActivePCArx /\ u.nextPCAReceiver = t.nextPCAReceiver
    /\ u.remainingTXOPDuration = t.remainingTXOPDuration /\ u.sendNow = t.sendNow
    /\ u.transmissionWaiting = t.transmissionWaiting /\ u.undefined = t.undefined

\* What is left of a timer.
LEMMA LaterOK ==
    ASSUME NEW d \in Nat, NEW timer \in Nat \cup {Off}, timer # Off => d <= timer
    PROVE  /\ Later(d, timer) \in Nat \cup {Off}
           /\ Later(d, timer) = Off <=> timer = Off
           /\ timer # Off => Later(d, timer) = timer - d
  BY DEF Later, Off

TimePassed(t, d, res) ==
    [t EXCEPT !.timer = Later(d, @),
              !.onAir.due = Later(d, @),
              !.closes = {e - d : e \in @},
              !.txOPLeft = IF InUseNow(t) THEN @ - d ELSE @,
              !.buf = TimersLater(d, @),
              !.counting = ~res,
              !.startedInDRP = FALSE]

\* As time passes, all timers that run do so.
LEMMA TimePassedOK ==
    ASSUME NEW t, StationOK(t), NEW d \in Nat, Passes(t, d), NEW res \in BOOLEAN,
           NEW u, u = TimePassed(t, d, res)
    PROVE  /\ StationOK(u) /\ SameHeld(t, u) /\ Passed(t, u, d)
           /\ u.counting = ~res /\ u.startedInDRP = FALSE
<1>1. /\ t \in Stations /\ t.timer \in Nat \cup {Off} /\ t.onAir \in Frames \cup {Nothing}
      /\ t.closes \in SUBSET Nat /\ t.txOPLeft \in Int /\ t.buf \in [Buffers -> BufferRecords]
  BY DEF StationOK, Stations
<1>2. PICK timer \in Nat \cup {Off} : timer = Later(d, t.timer)
  BY <1>1, LaterOK DEF Passes
<1>3. PICK air \in Frames \cup {Nothing} :
        /\ air = [t.onAir EXCEPT !.due = Later(d, t.onAir.due)]
        /\ air = Nothing <=> t.onAir = Nothing
        /\ t.onAir # Nothing => air.c = t.onAir.c /\ air.due = t.onAir.due - d
  <2>1. CASE t.onAir = Nothing
    <3>1. [t.onAir EXCEPT !.due = Later(d, t.onAir.due)] = Nothing
      BY <2>1 DEF Nothing, Later
    <3>2. QED
      BY <2>1, <3>1
  <2>2. CASE t.onAir # Nothing
    <3>1. PICK frame \in Frames : frame = t.onAir
      BY <1>1, <2>2
    <3>2. PICK due \in Nat : due = Later(d, frame.due) /\ due = frame.due - d
      <4>1. frame.due \in Nat /\ frame.due # Off /\ d <= frame.due
        BY <2>2, <3>1 DEF Passes, Frames, Off
      <4>2. Later(d, frame.due) = frame.due - d /\ frame.due - d \in Nat
        BY <4>1 DEF Later
      <4>3. QED
        BY <4>2
    <3>3. PICK new \in Frames :
            new = [frame EXCEPT !.due = due] /\ new.c = frame.c /\ new.due = due
      <4>1. [frame EXCEPT !.due = due] \in Frames
        BY Zenon DEF Frames
      <4>2. QED
        BY <4>1 DEF Frames
    <3>4. new # Nothing
      <4>1. new.due \in Nat
        BY <3>3
      <4>2. QED
        BY <4>1 DEF Nothing, Off
    <3>5. QED
      BY <2>2, <3>1, <3>2, <3>3, <3>4
  <2>3. QED
    BY <2>1, <2>2
<1>4. PICK closes \in SUBSET Nat : closes = {e - d : e \in t.closes}
  <2>1. \A e \in t.closes : e - d \in Nat
    BY <1>1 DEF Passes
  <2>2. QED
    BY <2>1
<1>5. PICK left \in Int : left = IF InUseNow(t) THEN t.txOPLeft - d ELSE t.txOPLeft
  BY <1>1
<1>6. PICK buf \in [Buffers -> BufferRecords] :
        /\ buf = TimersLater(d, t.buf)
        /\ \A b \in Buffers :
            /\ buf[b].timer = Later(d, t.buf[b].timer)
            /\ buf[b].pdus = t.buf[b].pdus
            /\ buf[b].isWaitingSIFS = t.buf[b].isWaitingSIFS
            /\ buf[b].isTransmissionStarted = t.buf[b].isTransmissionStarted
            /\ SameCounts(t.buf[b], buf[b])
  <2> DEFINE new(b) == [t.buf[b] EXCEPT !.timer = Later(d, t.buf[b].timer)]
  <2>1. ASSUME NEW b \in Buffers
        PROVE  /\ new(b) \in BufferRecords
               /\ new(b).timer = Later(d, t.buf[b].timer)
               /\ new(b).pdus = t.buf[b].pdus
               /\ new(b).isWaitingSIFS = t.buf[b].isWaitingSIFS
               /\ new(b).isTransmissionStarted = t.buf[b].isTransmissionStarted
               /\ SameCounts(t.buf[b], new(b))
    <3>1. PICK old \in BufferRecords : old = t.buf[b]
      BY <1>1
    <3>2. PICK timer1 \in Nat \cup {Off} : timer1 = Later(d, old.timer)
      BY <3>1, LaterOK DEF Passes, BufferRecords
    <3>3. [old EXCEPT !.timer = timer1] \in BufferRecords
      BY <3>2, Zenon DEF BufferRecords
    <3>4. QED
      BY <3>1, <3>2, <3>3 DEF BufferRecords, SameCounts
  <2> HIDE DEF new
  <2>2. /\ [b \in Buffers |-> new(b)] \in [Buffers -> BufferRecords]
        /\ \A b \in Buffers : [c \in Buffers |-> new(c)][b] = new(b)
    BY <2>1
  <2>3. PICK buf \in [Buffers -> BufferRecords] :
          buf = [b \in Buffers |-> new(b)] /\ \A b \in Buffers : buf[b] = new(b)
    BY <2>2, Zenon
  <2>4. buf = TimersLater(d, t.buf)
    BY <2>3 DEF new, TimersLater
  <2>5. QED
    BY <2>1, <2>3, <2>4
<1>7. PICK counting \in BOOLEAN : counting = ~res
  OBVIOUS
<1>8. u = [t EXCEPT !.timer = timer, !.onAir = air, !.closes = closes,
                    !.txOPLeft = left, !.buf = buf, !.counting = counting,
                    !.startedInDRP = FALSE]
  <2>1. PICK v : v = [t EXCEPT !.timer = timer]
    OBVIOUS
  <2>2. /\ v.onAir = t.onAir /\ v.closes = t.closes /\ v.txOPLeft = t.txOPLeft
        /\ v.buf = t.buf
    BY <1>1, <2>1 DEF Stations
  <2>3. PICK w : w = [v EXCEPT !.onAir = air]
    OBVIOUS
  <2>4. w.closes = t.closes /\ w.txOPLeft = t.txOPLeft /\ w.buf = t.buf
    BY <1>1, <2>1, <2>2, <2>3 DEF Stations
  <2>5. [v EXCEPT !.onAir.due = Later(d, @)] = w
    BY <1>3, <2>2, <2>3
  <2>6. PICK x : x = [w EXCEPT !.closes = closes]
    OBVIOUS
  <2>7. x.txOPLeft = t.txOPLeft /\ x.buf = t.buf
    BY <1>1, <2>1, <2>3, <2>4, <2>6 DEF Stations
  <2>8. PICK y : y = [x EXCEPT !.txOPLeft = left]
    OBVIOUS
  <2>9. y.buf = t.buf
    BY <1>1, <2>1, <2>3, <2>6, <2>7, <2>8 DEF Stations
  <2>10. [w EXCEPT !.closes = {e - d : e \in @}] = x
    BY <1>4, <2>4, <2>6
  <2>11. [x EXCEPT !.txOPLeft = IF InUseNow(t) THEN @ - d ELSE @] = y
    BY <1>5, <2>7, <2>8
  <2>12. [y EXCEPT !.buf = TimersLater(d, @)] = [y EXCEPT !.buf = buf]
    BY <1>6, <2>9
  <2>13. u = [y EXCEPT !.buf = buf, !.counting = counting, !.startedInDRP = FALSE]
    <3>1. u = [[[[[[[t EXCEPT !.timer = Later(d, @)] EXCEPT !.onAir.due = Later(d, @)]
                    EXCEPT !.closes = {e - d : e \in @}]
                    EXCEPT !.txOPLeft = IF InUseNow(t) THEN @ - d ELSE @]
                    EXCEPT !.buf = TimersLater(d, @)]
                    EXCEPT !.counting = ~res]
                    EXCEPT !.startedInDRP = FALSE]
      BY <1>1 DEF TimePassed
    <3>2. [t EXCEPT !.timer = Later(d, @)] = v
      BY <1>2, <2>1
    <3>3. [[[[[t EXCEPT !.timer = Later(d, @)] EXCEPT !.onAir.due = Later(d, @)]
               EXCEPT !.closes = {e - d : e \in @}]
               EXCEPT !.txOPLeft = IF InUseNow(t) THEN @ - d ELSE @]
               EXCEPT !.buf = TimersLater(d, @)] = [y EXCEPT !.buf = buf]
      BY <2>5, <2>10, <2>11, <2>12, <3>2, Zenon
    <3>4. u = [[[y EXCEPT !.buf = buf] EXCEPT !.counting = ~res] EXCEPT !.startedInDRP = FALSE]
      BY <3>1, <3>3, Zenon
    <3>5. QED
      BY <1>7, <3>4
  <2>14. QED
    BY <2>1, <2>3, <2>6, <2>8, <2>13
<1>9. u \in Stations
  <2>1. FALSE \in BOOLEAN
    OBVIOUS
  <2>2. [t EXCEPT !.timer = timer, !.onAir = air, !.closes = closes,
                  !.txOPLeft = left, !.buf = buf, !.counting = counting,
                  !.startedInDRP = FALSE] \in Stations
    BY <1>1, <2>1, Zenon DEF Stations
  <2>3. QED
    BY <1>8, <2>2
<1>10. /\ u.timer = timer /\ u.onAir = air /\ u.closes = closes /\ u.txOPLeft = left
      /\ u.buf = buf /\ u.counting = counting /\ u.startedInDRP = FALSE
      /\ u.queues = t.queues /\ u.timeleft = t.timeleft /\ u.config = t.config
      /\ u.AccessPermission = t.AccessPermission /\ u.AccessRx = t.AccessRx
      /\ u.isPCAtransmissionActive = t.isPCAtransmissionActive
      /\ u.ActivePCArx = t.ActivePCArx /\ u.nextPCAReceiver = t.nextPCAReceiver
      /\ u.remainingTXOPDuration = t.remainingTXOPDuration /\ u.sendNow = t.sendNow
      /\ u.transmissionWaiting = t.transmissionWaiting /\ u.undefined = t.undefined
  BY <1>1, <1>8 DEF Stations
<1>11. Passed(t, u, d)
  BY <1>2, <1>3, <1>4, <1>5, <1>6, <1>10 DEF Passed
<1>12. \A b \in Buffers : u.buf[b].pdus = t.buf[b].pdus
  BY <1>6, <1>10
<1>13. SameHeld(t, u)
  <2>1. ASSUME NEW r \in Receivers
        PROVE  HeldFor(u, r) = HeldFor(t, r)
    <3>1. \A b \in {"DRP", "PCA"} \X {r} : u.buf[b].pdus = t.buf[b].pdus
      BY <1>12 DEF Buffers
    <3>2. {ToSet(u.buf[b].pdus) : b \in {"DRP", "PCA"} \X {r}}
            = {ToSet(t.buf[b].pdus) : b \in {"DRP", "PCA"} \X {r}}
      BY <3>1
    <3>3. QED
      BY <1>10, <3>2 DEF HeldFor
  <2>2. QED
    BY <2>1 DEF SameHeld
<1>14. WaitingRuns(u)
  <2>1. ASSUME NEW b \in Buffers, u.buf[b].isWaitingSIFS
        PROVE  u.buf[b].timer # Off
    <3>1. t.buf[b].timer # Off /\ t.buf[b].timer \in Nat \cup {Off}
      <4>1. t.buf[b].isWaitingSIFS
        BY <1>6, <1>10, <2>1
      <4>2. t.buf[b].timer # Off
        BY <4>1 DEF StationOK, WaitingRuns
      <4>3. QED
        BY <1>1, <4>2 DEF BufferRecords
    <3>2. Later(d, t.buf[b].timer) # Off
      BY <3>1, LaterOK DEF Passes
    <3>3. QED
      BY <1>6, <1>10, <3>2
  <2>2. QED
    BY <2>1 DEF WaitingRuns
<1>15. Separated(u) /\ Once(u) /\ ForPCAOnly(u)
  BY <1>10, <1>12 DEF StationOK, Separated, Once, ForPCAOnly
<1>16. Counted(u)
  <2>1. ASSUME NEW b \in Buffers
        PROVE  BufferCounted(u.config.isDroppingAfterRetr, u.buf[b])
    <3>1. PICK timer1 \in Nat \cup {Off} :
            timer1 = t.buf[b].timer /\ (timer1 # Off => d <= timer1)
      BY <1>1 DEF BufferRecords, Passes
    <3>2. u.buf[b].timer = Off <=> t.buf[b].timer = Off
      <4>1. u.buf[b].timer = Later(d, timer1)
        BY <1>6, <1>10, <3>1
      <4>2. QED
        BY <3>1, <4>1, LaterOK
    <3>3. UnderWay(u.buf[b]) = UnderWay(t.buf[b])
      BY <1>6, <1>10, <3>2 DEF UnderWay
    <3>4. SameCounts(t.buf[b], u.buf[b]) /\ u.config = t.config
      BY <1>6, <1>10
    <3>5. QED
      BY <3>3, <3>4 DEF StationOK, Counted, BufferCounted, SameCounts
  <2>2. QED
    BY <2>1 DEF Counted
<1>17. QED
  BY <1>9, <1>10, <1>11, <1>13, <1>14, <1>15, <1>7, <1>16 DEF StationOK

\* Quiet buffers stay quiet, and a frame exchange is shifted with its access.
LEMMA PassedBuffers ==
    ASSUME NEW t, StationOK(t), NEW d \in Nat, Passes(t, d),
           NEW u, StationOK(u), Passed(t, u, d), NEW b \in Buffers
    PROVE  /\ Quiet(t, b) => Quiet(u, b)
           /\ OthersQuiet(t, b) => OthersQuiet(u, b)
           /\ NoTXOP(t) => NoTXOP(u)
           /\ TimerRuns(t, b) <=> TimerRuns(u, b)
           /\ TimerRuns(t, b) => /\ t.buf[b].timer \in Nat
                                 /\ u.buf[b].timer = t.buf[b].timer - d
           /\ InUseNow(t) /\ FrameOK(t, b) => FrameOK(u, b)
<1>1. \A a \in Buffers : /\ t.buf[a].timer \in Nat \cup {Off}
                         /\ t.buf[a].timer # Off => d <= t.buf[a].timer
  BY DEF StationOK, Stations, BufferRecords, Passes
<1>2. \A a \in Buffers :
        /\ u.buf[a].timer = Off <=> t.buf[a].timer = Off
        /\ t.buf[a].timer # Off => u.buf[a].timer = t.buf[a].timer - d
  <2> SUFFICES ASSUME NEW a \in Buffers
               PROVE  /\ u.buf[a].timer = Off <=> t.buf[a].timer = Off
                      /\ t.buf[a].timer # Off => u.buf[a].timer = t.buf[a].timer - d
    OBVIOUS
  <2>1. PICK timer \in Nat \cup {Off} : timer = t.buf[a].timer /\ (timer # Off => d <= timer)
    BY <1>1
  <2>2. u.buf[a].timer = Later(d, timer)
    BY <2>1 DEF Passed
  <2>3. QED
    BY <2>1, <2>2, LaterOK
<1>3. \A a \in Buffers : Quiet(t, a) => Quiet(u, a)
  BY <1>2 DEF Quiet, Passed
<1>4. OthersQuiet(t, b) => OthersQuiet(u, b)
  BY <1>3 DEF OthersQuiet
<1>5. NoTXOP(t) => NoTXOP(u)
  BY DEF NoTXOP, Passed
<1>6. TimerRuns(t, b) => t.buf[b].timer \in Nat /\ u.buf[b].timer = t.buf[b].timer - d
  BY <1>1, <1>2 DEF TimerRuns
<1>7. TimerRuns(t, b) <=> TimerRuns(u, b)
  BY <1>2 DEF TimerRuns
<1>8. ASSUME InUseNow(t), FrameOK(t, b) PROVE FrameOK(u, b)
  <2>1. TimerRuns(u, b) => /\ u.buf[b].timer <= u.txOPLeft
                           /\ ~u.buf[b].isWaitingSIFS => u.buf[b].pdus # <<>>
    <3>1. t.txOPLeft \in Int /\ (TimerRuns(t, b) => t.buf[b].timer <= t.txOPLeft)
      BY <1>8 DEF StationOK, Stations, FrameOK
    <3>2. u.txOPLeft = t.txOPLeft - d
      BY <1>8 DEF Passed
    <3>3. TimerRuns(u, b) => u.buf[b].timer <= u.txOPLeft
      BY <1>6, <1>7, <3>1, <3>2
    <3>4. TimerRuns(u, b) /\ ~u.buf[b].isWaitingSIFS => u.buf[b].pdus # <<>>
      BY <1>7, <1>8 DEF FrameOK, Passed
    <3>5. QED
      BY <3>3, <3>4
  <2>2. ASSUME u.onAir # Nothing
        PROVE  /\ TimerRuns(u, b) /\ ~u.buf[b].isWaitingSIFS
               /\ u.onAir.c = First(u, b)
               /\ u.buf[b].timer = u.onAir.due + Sifs
    <3>1. t.onAir # Nothing /\ u.onAir.c = t.onAir.c /\ u.onAir.due = t.onAir.due - d
      BY <2>2 DEF Passed
    <3>2. /\ TimerRuns(t, b) /\ ~t.buf[b].isWaitingSIFS /\ t.onAir.c = First(t, b)
          /\ t.buf[b].timer = t.onAir.due + Sifs
      BY <1>8, <3>1 DEF FrameOK
    <3>3. t.onAir.due \in Nat /\ Sifs \in Nat
      <4>1. t.onAir \in Frames
        BY <3>1 DEF StationOK, Stations
      <4>2. QED
        BY <4>1, TimingAssumption DEF Frames
    <3>4. u.buf[b].timer = u.onAir.due + Sifs
      BY <1>6, <3>1, <3>2, <3>3
    <3>5. u.onAir.c = First(u, b) /\ ~u.buf[b].isWaitingSIFS
      BY <3>1, <3>2 DEF Passed, First
    <3>6. QED
      BY <1>7, <3>2, <3>4, <3>5
  <2>3. QED
    BY <2>1, <2>2 DEF FrameOK
<1>9. QED
  BY <1>3, <1>4, <1>5, <1>6, <1>7, <1>8

\* An access is shifted with the next reservation.
LEMMA PassedAccess ==
    ASSUME NEW t, StationOK(t), NEW d \in Nat, Passes(t, d),
           NEW u, StationOK(u), Passed(t, u, d),
           NEW res, NEW next \in Nat, d <= next, Access(t, res, next)
    PROVE  /\ Access(u, res, next - d)
           /\ u.isPCAtransmissionActive = t.isPCAtransmissionActive
<1>1. u.isPCAtransmissionActive = t.isPCAtransmissionActive
  BY DEF Passed
<1>2. t.timer # Off => t.timer \in Nat /\ d <= t.timer /\ u.timer = t.timer - d
                       /\ u.timer \in Nat
  <2>1. PICK timer \in Nat \cup {Off} : timer = t.timer /\ (timer # Off => d <= timer)
    BY DEF StationOK, Stations, Passes
  <2>2. u.timer = Later(d, timer)
    BY <2>1 DEF Passed
  <2>3. timer # Off => timer \in Nat
    OBVIOUS
  <2>4. QED
    BY <2>1, <2>2, <2>3, LaterOK
<1>3. CASE Idle(t)
  <2>1. \A b \in Buffers : Quiet(u, b)
    BY <1>3, PassedBuffers DEF Idle, NoAccess
  <2>2. NoTXOP(u)
    BY <1>3 DEF Idle, NoTXOP, Passed
  <2>3. u.timer = Off
    BY <1>3 DEF Idle, NoAccess, Passed, Later
  <2>4. ~u.AccessPermission /\ ~u.isPCAtransmissionActive /\ u.onAir = Nothing
    BY <1>3 DEF Idle, NoAccess, Passed
  <2>5. Idle(u)
    BY <2>1, <2>2, <2>3, <2>4 DEF Idle, NoAccess
  <2>6. QED
    BY <1>1, <2>5 DEF Access
<1>4. CASE DRPAccess(t, next)
  <2> DEFINE b == <<"DRP", t.AccessRx>>
  <2>1. /\ InUseNow(t) /\ b \in Buffers /\ OthersQuiet(t, b) /\ FrameOK(t, b) /\ NoTXOP(t)
    BY <1>4 DEF DRPAccess, InUseNow, Buffers
  <2>2. u.AccessPermission /\ ~u.isPCAtransmissionActive /\ u.AccessRx = t.AccessRx
        /\ u.AccessRx \in Receivers /\ u.txOPLeft = t.txOPLeft - d
    BY <1>4, <2>1 DEF DRPAccess, Passed
  <2>3. OthersQuiet(u, b) /\ FrameOK(u, b) /\ NoTXOP(u)
    <3> HIDE DEF b
    <3>1. QED
      BY <2>1, PassedBuffers
  <2>4. /\ t.timer \in Nat /\ t.timer # Off /\ t.timer <= next
        /\ t.txOPLeft = t.timer - GuardDuration
    BY <1>4 DEF DRPAccess, Off
  <2>5. u.timer \in Nat /\ u.timer <= next - d /\ u.txOPLeft = u.timer - GuardDuration
    <3>1. GuardDuration \in Nat
      BY TimingAssumption
    <3>2. QED
      BY <1>2, <2>2, <2>4, <3>1
  <2>6. DRPAccess(u, next - d)
    BY <2>2, <2>3, <2>5 DEF DRPAccess
  <2>7. QED
    BY <1>1, <2>6 DEF Access
<1>5. CASE PCAAccess(t, res, next)
  <2> DEFINE b == <<"PCA", t.ActivePCArx>>
  <2>1. PCAOn(t, res, next) /\ (InTXOP(t, b) \/ NothingFits(t, b))
    BY <1>5 DEF PCAAccess
  <2>2. InUseNow(t) /\ b \in Buffers /\ OthersQuiet(t, b)
    BY <2>1 DEF PCAOn, InUseNow, Buffers
  <2>3. b = <<"PCA", u.ActivePCArx>> /\ u.txOPLeft = t.txOPLeft - d
    BY <2>2 DEF Passed
  <2>4. PCAOn(u, res, next - d)
    <3>1. OthersQuiet(u, b)
      <4> HIDE DEF b
      <4>1. QED
        BY <2>2, PassedBuffers
    <3>2. /\ t.timer \in Nat /\ t.timer # Off /\ t.timer + TimerLead <= next
          /\ t.txOPLeft = t.timer + TimerLead - GuardDuration
      BY <2>1 DEF PCAOn, Off
    <3>3. /\ u.timer \in Nat /\ u.timer + TimerLead <= next - d
          /\ u.txOPLeft = u.timer + TimerLead - GuardDuration
      <4>1. GuardDuration \in Nat /\ TimerLead \in Nat
        BY TimingAssumption
      <4>2. QED
        BY <1>2, <2>3, <3>2, <4>1
    <3>4. /\ ~u.AccessPermission /\ u.isPCAtransmissionActive
          /\ u.config.usePCAchannelAccess /\ ~res
          /\ u.ActivePCArx \in Receivers /\ u.nextPCAReceiver = u.ActivePCArx
      BY <2>1 DEF PCAOn, Passed
    <3>5. QED
      BY <2>3, <3>1, <3>3, <3>4 DEF PCAOn
  <2>5. ASSUME InTXOP(t, b) PROVE InTXOP(u, b)
    <3>1. TimerRuns(t, b) /\ FrameOK(t, b)
      BY <2>5 DEF InTXOP
    <3>2. TimerRuns(u, b) /\ FrameOK(u, b) /\ t.buf[b].timer \in Nat
          /\ u.buf[b].timer = t.buf[b].timer - d
      <4> HIDE DEF b
      <4>1. QED
        BY <2>2, <3>1, PassedBuffers
    <3>3. u.buf[b].isTransmissionStarted /\ u.buf[b].pdus = t.buf[b].pdus
          /\ u.buf[b].isWaitingSIFS = t.buf[b].isWaitingSIFS /\ u.timeleft = t.timeleft
          /\ u.remainingTXOPDuration = t.remainingTXOPDuration
      BY <2>2, <2>5 DEF InTXOP, Passed
    <3>4. Rest(u, b) = Rest(t, b)
      BY <3>3 DEF Rest
    <3>5. u.buf[b].timer + TimeOf(Rest(u, b)) + u.timeleft <= u.txOPLeft
      <4>1. PICK pdus \in Seq(Compounds) : pdus = Rest(t, b)
        <5>1. PICK all \in Seq(Compounds) : all = t.buf[b].pdus
          BY <2>2 DEF StationOK, Stations, BufferRecords
        <5>2. t.buf[b].isWaitingSIFS \/ all # <<>>
          BY <3>1, <5>1 DEF FrameOK
        <5>3. all # <<>> => Tail(all) \in Seq(Compounds)
          OBVIOUS
        <5>4. QED
          BY <5>1, <5>2, <5>3 DEF Rest
      <4>2. PICK time \in Nat : time = TimeOf(pdus)
        BY TimeOfType
      <4>3. t.timeleft \in Nat /\ t.txOPLeft \in Int
        BY DEF StationOK, Stations
      <4>4. t.buf[b].timer + time + t.timeleft <= t.txOPLeft
        BY <2>5, <4>1, <4>2 DEF InTXOP
      <4>5. (t.buf[b].timer - d) + time + t.timeleft <= t.txOPLeft - d
        <5>1. PICK timer \in Int, timeleft \in Int, left \in Int :
                timer = t.buf[b].timer /\ timeleft = t.timeleft /\ left = t.txOPLeft
          BY <3>2, <4>3
        <5>2. timer + time + timeleft <= left => (timer - d) + time + timeleft <= left - d
          BY <4>2
        <5>3. QED
          BY <4>4, <5>1, <5>2
      <4>6. QED
        BY <2>3, <3>2, <3>3, <3>4, <4>1, <4>2, <4>5
    <3>6. \/ u.remainingTXOPDuration > 0 /\ u.closes = {} /\ Rest(u, b) # <<>>
          \/ u.remainingTXOPDuration = 0 /\ u.closes = {u.buf[b].timer - CloseLead}
      <4>1. CASE t.remainingTXOPDuration > 0 /\ t.closes = {} /\ Rest(t, b) # <<>>
        BY <3>3, <3>4, <4>1 DEF Passed
      <4>2. CASE t.remainingTXOPDuration = 0 /\ t.closes = {t.buf[b].timer - CloseLead}
        <5>1. u.closes = {(t.buf[b].timer - CloseLead) - d}
          BY <4>2 DEF Passed
        <5>2. (t.buf[b].timer - CloseLead) - d = u.buf[b].timer - CloseLead
          BY <3>2, TimingAssumption
        <5>3. QED
          BY <3>3, <4>2, <5>1, <5>2
      <4>3. QED
        BY <2>5, <4>1, <4>2 DEF InTXOP
    <3>7. QED
      BY <3>2, <3>3, <3>5, <3>6 DEF InTXOP
  <2>6. ASSUME NothingFits(t, b) PROVE NothingFits(u, b)
    <3>1. Quiet(u, b) /\ NoTXOP(u)
      <4> HIDE DEF b
      <4>1. QED
        BY <2>2, <2>6, PassedBuffers DEF NothingFits
    <3>2. QED
      BY <2>6, <3>1 DEF NothingFits, Passed
  <2>7. PCAAccess(u, res, next - d)
    BY <2>1, <2>3, <2>4, <2>5, <2>6 DEF PCAAccess
  <2>8. QED
    BY <1>1, <2>7 DEF Access
<1>6. QED
  BY <1>3, <1>4, <1>5 DEF Access

\* Time passes up to the next event or less, for the access as for the reservations.
LEMMA AdvanceOK ==
    ASSUME IInv, Advance
    PROVE  IInv' /\ StepOK
<1>1. /\ StationOK(st) /\ st \in Stations /\ ~st.sendNow
      /\ nextChange \in Nat /\ reserved \in BOOLEAN
  BY DEF IInv, StationOK
<1>2. Deadlines \subseteq Nat /\ nextChange \in Deadlines
  <2>1. st.timer \in Nat \cup {Off} /\ st.closes \in SUBSET Nat
        /\ \A b \in Buffers : st.buf[b].timer \in Nat \cup {Off}
    BY <1>1 DEF Stations, BufferRecords
  <2>2. st.onAir.due \in Nat \cup {Off}
    BY <1>1 DEF Stations, Frames, Nothing
  <2>3. QED
    BY <1>1, <2>1, <2>2 DEF Deadlines
<1>3. Least(Deadlines) \in Nat /\ \A n \in Deadlines : Least(Deadlines) <= n
  BY <1>2, LeastOK
<1>4. PICK d \in Nat : /\ d <= Least(Deadlines)
                       /\ st' = TimePassed(st, d, reserved)
                       /\ nextChange' = nextChange - d
  <2>1. PICK d \in {Least(Deadlines)} \cup {s \in Steps : s < Least(Deadlines) /\ Resting} :
          /\ st' = [st EXCEPT !.timer = Later(d, @),
                              !.onAir.due = Later(d, @),
                              !.closes = {e - d : e \in @},
                              !.txOPLeft = IF Active THEN @ - d ELSE @,
                              !.buf = TimersLater(d, @),
                              !.counting = ~reserved,
                              !.startedInDRP = FALSE]
          /\ nextChange' = nextChange - d
    BY DEF Advance, Becomes
  <2>2. d \in Nat /\ d <= Least(Deadlines)
    BY <1>3, <2>1, TimingAssumption
  <2>3. st' = TimePassed(st, d, reserved)
    BY <2>1 DEF TimePassed, Active, InUseNow
  <2>4. QED
    BY <2>1, <2>2, <2>3
<1>5. reserved' = reserved /\ accepted' = accepted
  BY DEF Advance
<1>6. \A n \in Deadlines : d <= n
  BY <1>2, <1>3, <1>4
<1>7. Passes(st, d)
  <2>1. st.timer # Off => st.timer \in Deadlines
    BY DEF Deadlines
  <2>2. st.onAir # Nothing => st.onAir.due \in Deadlines
    <3>1. st.onAir # Nothing => st.onAir.due # Off
      BY <1>1 DEF Stations, Frames, Off
    <3>2. QED
      BY <3>1 DEF Deadlines
  <2>3. st.closes \subseteq Deadlines
    BY DEF Deadlines
  <2>4. \A b \in Buffers : st.buf[b].timer # Off => st.buf[b].timer \in Deadlines
    BY DEF Deadlines
  <2>5. QED
    BY <1>6, <2>1, <2>2, <2>3, <2>4 DEF Passes
<1>8. /\ StationOK(st') /\ SameHeld(st, st') /\ Passed(st, st', d)
      /\ st'.counting = ~reserved /\ st'.startedInDRP = FALSE
  BY <1>1, <1>4, <1>7, TimePassedOK
<1>9. d <= nextChange /\ nextChange - d \in Nat
  BY <1>1, <1>2, <1>6
<1>10. Access(st', reserved, nextChange - d)
       /\ st'.isPCAtransmissionActive = st.isPCAtransmissionActive
  BY <1>1, <1>7, <1>8, <1>9, PassedAccess DEF IInv
<1>11. ~st'.sendNow
  BY <1>1, <1>8 DEF Passed
<1>12. Started(st', reserved, nextChange - d)
  <2>1. st.timer # 0
    <3>1. Least(Deadlines) > 0
      BY DEF Advance
    <3>2. st.timer = 0 => st.timer \in Deadlines
      BY DEF Deadlines, Off
    <3>3. QED
      BY <1>3, <3>1, <3>2
  <2>2. ~reserved => ~st'.AccessPermission
    BY <1>8, <2>1 DEF IInv, Started, Passed
  <2>3. QED
    BY <1>8, <2>2 DEF Started
<1>13. QED
  BY <1>1, <1>4, <1>5, <1>8, <1>9, <1>10, <1>11, <1>12, SameKept

-----------------------------------------------------------------------------
(***************************************************************************)
(* The invariant is inductive.                                             *)
(***************************************************************************)
\* All begins without an access and without compounds.
LEMMA InitOK == Init => IInv
<1> SUFFICES ASSUME Init PROVE IInv
  OBVIOUS
<1>1. PICK config \in Configs : st = [config |-> config,
             queues |-> [r \in Receivers |-> <<>>],
             nextPCAReceiver |-> NoReceiver,
             buf |-> [b \in Buffers |-> IdleBuffer],
             txOPLeft |-> 0,
             timeleft |-> 0,
             AccessPermission |-> FALSE,
             AccessRx |-> NoReceiver,
             isPCAtransmissionActive |-> FALSE,
             ActivePCArx |-> NoReceiver,
             PCAcompoundsWereSent |-> FALSE,
             timer |-> Off,
             closes |-> {},
             remainingTXOPDuration |-> 0,
             sendNow |-> FALSE,
             backoffFinished |-> FALSE,
             transmissionWaiting |-> FALSE,
             onAir |-> Nothing,
             counting |-> TRUE,
             startedInDRP |-> FALSE,
             undefined |-> FALSE]
  BY DEF Init
<1>2. PICK none \in Seq(Compounds) : none = <<>>
  <2>1. <<>> \in Seq(Compounds)
    OBVIOUS
  <2>2. QED
    BY <2>1, Zenon
<1>3. PICK idle \in BufferRecords : idle = IdleBuffer
  <2>1. IdleBuffer \in BufferRecords
    BY DEF IdleBuffer, BufferRecords
  <2>2. QED
    BY <2>1
<1>4. PICK queues \in [Receivers -> Seq(Compounds)], buf \in [Buffers -> BufferRecords] :
        /\ queues = [r \in Receivers |-> <<>>] /\ \A r \in Receivers : queues[r] = <<>>
        /\ buf = [b \in Buffers |-> IdleBuffer] /\ \A b \in Buffers : buf[b] = IdleBuffer
  <2>1. [r \in Receivers |-> none] \in [Receivers -> Seq(Compounds)]
    OBVIOUS
  <2>2. [b \in Buffers |-> idle] \in [Buffers -> BufferRecords]
    OBVIOUS
  <2>3. QED
    BY <1>2, <1>3, <2>1, <2>2
<1>5. st \in Stations
  BY <1>1, <1>4 DEF Stations
<1>6. \A b \in Buffers : Quiet(st, b) /\ ~st.buf[b].isWaitingSIFS /\ st.buf[b].pdus = <<>>
  BY <1>1, <1>4 DEF IdleBuffer, Quiet
<1>7. \A r \in Receivers : st.queues[r] = <<>>
  BY <1>1, <1>4
<1>8. StationOK(st)
  <2>1. Separated(st)
    <3>1. \A r : <<>> \in Seq(For(r))
      OBVIOUS
    <3>2. QED
      BY <1>6, <1>7, <3>1 DEF Separated
  <2>2. WaitingRuns(st)
    BY <1>6 DEF WaitingRuns
  <2>3. ForPCAOnly(st)
    BY <1>1 DEF ForPCAOnly
  <2>4. Once(st)
    <3>1. \A b \in Buffers : b[2] \in Receivers
      BY DEF Buffers
    <3>2. Alone(<<>>, <<>>)
      BY NothingIn DEF Alone
    <3>3. QED
      BY <1>6, <1>7, <3>1, <3>2 DEF Once
  <2>5. Counted(st)
    <3>1. /\ IdleBuffer.numOfRetransmissions = 0 /\ IdleBuffer.unanswered = 0
          /\ UnderWay(IdleBuffer) = 0
      BY DEF IdleBuffer, UnderWay
    <3>2. st.config.isDroppingAfterRetr \in Nat \cup {-1}
      BY <1>5, ConfigAssumption DEF Stations
    <3>3. \A b \in Buffers : st.buf[b] = IdleBuffer
      BY <1>1, <1>4
    <3>4. QED
      BY <3>1, <3>2, <3>3 DEF Counted, BufferCounted
  <2>6. QED
    BY <1>5, <2>1, <2>2, <2>3, <2>4, <2>5 DEF StationOK
<1>9. Idle(st)
  BY <1>1, <1>6 DEF Idle, NoAccess, NoTXOP
<1>10. ~st.sendNow /\ nextChange \in Nat /\ reserved \in BOOLEAN
  BY <1>1, TimingAssumption DEF Init
<1>11. Accepts(st, accepted)
  <2>1. accepted = {}
    BY DEF Init
  <2>2. ASSUME NEW r \in Receivers PROVE HeldFor(st, r) = {}
    <3>1. \A b \in {"DRP", "PCA"} \X {r} : ToSet(st.buf[b].pdus) = {}
      BY <1>6, NothingIn DEF Buffers
    <3>2. QED
      BY <1>7, <3>1, NothingIn DEF HeldFor
  <2>3. QED
    BY <2>1, <2>2 DEF Accepts
<1>12. Started(st, reserved, nextChange)
  BY <1>1 DEF Init, Started
<1>13. QED
  BY <1>8, <1>9, <1>10, <1>11, <1>12 DEF IInv, Access

\* Every step keeps the invariant, and treats compounds and turns well.
LEMMA NextOK == IInv /\ [Next]_vars => IInv' /\ [StepOK]_vars
<1> SUFFICES ASSUME IInv, [Next]_vars PROVE IInv' /\ [StepOK]_vars
  OBVIOUS
<1>1. ASSUME NEW c \in Compounds, doSendData(c) PROVE IInv' /\ StepOK
  BY <1>1, DoSendDataOK
<1>2. CASE backoffExpired
  BY <1>2, BackoffExpiredOK
<1>3. CASE PostBackoff
  BY <1>3, PostBackoffOK
<1>4. CASE Acknowledgment
  BY <1>4, AcknowledgmentOK
<1>5. CASE FrameLost
  BY <1>5, FrameLostOK
<1>6. CASE onBufferTimeout
  BY <1>6, OnBufferTimeoutOK
<1>7. CASE txOPClose
  BY <1>7, TxOPCloseOK
<1>8. CASE onTimeout
  BY <1>8, OnTimeoutOK
<1>9. CASE ReservationStarts
  BY <1>9, ReservationStartsOK
<1>10. CASE ReservationStops
  BY <1>10, ReservationStopsOK
<1>11. CASE Advance
  BY <1>11, AdvanceOK
<1>12. CASE UNCHANGED vars
  <2>1. st' = st /\ reserved' = reserved /\ nextChange' = nextChange /\ accepted' = accepted
    BY <1>12 DEF vars
  <2>2. IInv'
    BY <2>1 DEF IInv
  <2>3. QED
    BY <1>12, <2>2
<1>13. QED
  BY <1>1, <1>2, <1>3, <1>4, <1>5, <1>6, <1>7, <1>8, <1>9, <1>10, <1>11, <1>12 DEF Next

\* The station is idle or in one access whose timers end before the reservations
\* change, whatever the compounds, receivers, durations and configurations, and
\* in whatever order arrivals, acknowledgments, losses and timers come.
THEOREM InductiveInvariant == Spec => []IInv
<1>1. IInv /\ [Next]_vars => IInv'
  BY NextOK
<1>2. QED
  BY InitOK, <1>1, PTL DEF Spec

\* The station's state has its type (DRPScheduler.hpp, TempSendBuffer.hpp).
THEOREM StationType == Spec => [](st \in Stations)
<1>1. IInv => st \in Stations
  BY DEF IInv, StationOK
<1>2. QED
  BY <1>1, InductiveInvariant, PTL

-----------------------------------------------------------------------------
(***************************************************************************)
(* The properties.                                                         *)
(***************************************************************************)
\* A reserved and a contention access never overlap, and the shared timer runs
\* exactly while an access is on (DRPScheduler.cpp:232-233); startPCAtransmission is
\* entered with a reserved access on (l.428) only while the backoff is not frozen yet.
THEOREM OneAccessHolds == Spec => []OneAccess
<1>1. IInv => OneAccess
  <2> SUFFICES ASSUME IInv PROVE OneAccess
    OBVIOUS
  <2>1. st.startedInDRP => reserved /\ st.counting
    BY DEF IInv, Started
  <2>2. CASE Idle(st)
    BY <2>2, <2>1 DEF OneAccess, Active, Idle, NoAccess
  <2>3. CASE DRPAccess(st, nextChange)
    BY <2>3, <2>1 DEF OneAccess, Active, DRPAccess, Off
  <2>4. CASE PCAAccess(st, reserved, nextChange)
    BY <2>4, <2>1 DEF OneAccess, Active, PCAAccess, PCAOn, Off
  <2>5. QED
    BY <2>2, <2>3, <2>4 DEF IInv, Access
<1>2. QED
  BY <1>1, InductiveInvariant, PTL

\* A TXOP, the DCF's permission and the delayed stop (TXOP.cpp:145-165) belong to
\* the contention access that is on: none outlives its access.
THEOREM TXOPInPCAHolds == Spec => []TXOPInPCA
<1>1. IInv => TXOPInPCA
  <2> SUFFICES ASSUME IInv PROVE TXOPInPCA
    OBVIOUS
  <2>1. ~st.sendNow
    BY DEF IInv
  <2>2. CASE NoTXOP(st)
    BY <2>1, <2>2 DEF TXOPInPCA, NoTXOP
  <2>3. CASE PCAOn(st, reserved, nextChange) /\ InTXOP(st, <<"PCA", st.ActivePCArx>>)
    <3>1. st.isPCAtransmissionActive /\ ActiveBuffer = <<"PCA", st.ActivePCArx>>
      BY <2>3 DEF PCAOn, ActiveBuffer
    <3>2. TimerRuns(st, ActiveBuffer)
      BY <2>3, <3>1 DEF InTXOP
    <3>3. st.closes = {} \/ \E x : st.closes = {x}
      BY <2>3 DEF InTXOP
    <3>4. st.closes # {} => Cardinality(st.closes) = 1
      BY <3>3, FS_Singleton
    <3>5. QED
      BY <2>1, <3>1, <3>2, <3>4 DEF TXOPInPCA
  <2>4. QED
    BY <2>2, <2>3 DEF IInv, Access, Idle, DRPAccess, PCAAccess, NothingFits
<1>2. QED
  BY <1>1, InductiveInvariant, PTL

\* The buffer in use, and when its access ends.
LEMMA InUseOK ==
    ASSUME IInv, Active
    PROVE  /\ ActiveBuffer \in Buffers
           /\ OthersQuiet(st, ActiveBuffer)
           /\ FrameOK(st, ActiveBuffer)
           /\ st.txOPLeft < nextChange
<1>1. /\ GuardDuration \in Nat /\ TimerLead \in Nat /\ 0 < GuardDuration
      /\ nextChange \in Nat /\ st.txOPLeft \in Int
  <2>1. /\ {TimerLead, CloseLead, Sifs, GuardDuration} \subseteq Nat
        /\ TimerLead < CloseLead /\ CloseLead < Sifs /\ Sifs < GuardDuration
    BY TimingAssumption
  <2>2. QED
    BY <2>1 DEF IInv, StationOK, Stations
<1>2. CASE DRPAccess(st, nextChange)
  <2>1. ActiveBuffer = <<"DRP", st.AccessRx>> /\ st.AccessRx \in Receivers
    BY <1>2 DEF DRPAccess, ActiveBuffer
  <2>2. OthersQuiet(st, ActiveBuffer) /\ FrameOK(st, ActiveBuffer)
    BY <1>2, <2>1 DEF DRPAccess
  <2>3. st.txOPLeft < nextChange
    <3>1. st.timer \in Nat /\ st.timer <= nextChange /\ st.txOPLeft = st.timer - GuardDuration
      BY <1>2 DEF DRPAccess
    <3>2. QED
      BY <1>1, <3>1
  <2>4. QED
    BY <2>1, <2>2, <2>3 DEF Buffers
<1>3. CASE PCAAccess(st, reserved, nextChange)
  <2>1. ActiveBuffer = <<"PCA", st.ActivePCArx>> /\ st.ActivePCArx \in Receivers
        /\ OthersQuiet(st, ActiveBuffer)
    BY <1>3 DEF PCAAccess, PCAOn, ActiveBuffer
  <2>2. FrameOK(st, ActiveBuffer)
    <3>1. CASE InTXOP(st, ActiveBuffer)
      BY <3>1 DEF InTXOP
    <3>2. CASE NothingFits(st, ActiveBuffer)
      BY <3>2 DEF NothingFits, Quiet, FrameOK, TimerRuns
    <3>3. QED
      BY <1>3, <2>1, <3>1, <3>2 DEF PCAAccess
  <2>3. st.txOPLeft < nextChange
    <3>1. st.timer \in Nat /\ st.timer + TimerLead <= nextChange
          /\ st.txOPLeft = st.timer + TimerLead - GuardDuration
      BY <1>3 DEF PCAAccess, PCAOn
    <3>2. QED
      BY <1>1, <3>1
  <2>4. QED
    BY <2>1, <2>2, <2>3 DEF Buffers
<1>4. ~Idle(st)
  BY DEF Active, Idle, NoAccess
<1>5. QED
  BY <1>2, <1>3, <1>4 DEF IInv, Access

\* A frame exchange, retransmissions included, is over before the reservations
\* change, and refills never overdraw the buffer's time (TempSendBuffer.cpp:172).
THEOREM FrameFitsHolds == Spec => []FrameFits
<1>1. IInv => FrameFits
  <2> SUFFICES ASSUME IInv PROVE FrameFits
    OBVIOUS
  <2>1. st.timeleft >= 0
    BY DEF IInv, StationOK, Stations
  <2>2. ASSUME st.onAir # Nothing
        PROVE  /\ Active
               /\ ActiveBuffer[2] = Dest[st.onAir.c]
               /\ First(st, ActiveBuffer) = st.onAir.c
               /\ TimerRuns(st, ActiveBuffer)
               /\ st.onAir.due + Sifs < nextChange
    <3>1. Active
      <4>1. ~Idle(st)
        BY <2>2 DEF Idle, NoAccess
      <4>2. QED
        BY <4>1 DEF IInv, Access, DRPAccess, PCAAccess, PCAOn, Active
    <3>2. PICK b \in Buffers : b = ActiveBuffer /\ FrameOK(st, b) /\ st.txOPLeft < nextChange
      BY <3>1, InUseOK
    <3>3. /\ TimerRuns(st, b) /\ ~st.buf[b].isWaitingSIFS
          /\ st.onAir.c = First(st, b)
          /\ st.buf[b].timer = st.onAir.due + Sifs
          /\ st.buf[b].timer <= st.txOPLeft
          /\ st.buf[b].pdus # <<>>
      BY <2>2, <3>2 DEF FrameOK
    <3>4. st.onAir.due + Sifs < nextChange
      <4>1. st.buf[b].timer \in Int /\ st.txOPLeft \in Int /\ nextChange \in Int
        BY <3>2 DEF IInv, StationOK, Stations, BufferRecords, Off
      <4>2. st.buf[b].timer < nextChange
        BY <3>2, <3>3, <4>1
      <4>3. QED
        BY <3>3, <4>2
    <3>5. Dest[First(st, b)] = b[2]
      <4>1. st.buf[b].pdus \in Seq(For(b[2]))
        BY DEF IInv, StationOK, Separated
      <4>2. Head(st.buf[b].pdus) \in For(b[2])
        BY <3>3, <4>1
      <4>3. QED
        BY <4>2 DEF First, For
    <3>6. QED
      BY <3>1, <3>2, <3>3, <3>4, <3>5
  <2>3. QED
    BY <2>1, <2>2 DEF FrameFits
<1>2. QED
  BY <1>1, InductiveInvariant, PTL

\* Every compound the station is responsible for is in one of its queue and its
\* buffers, once (TempSendBuffer.cpp:139-150).
THEOREM EachOnceHolds == Spec => []EachOnce
<1>1. IInv => EachOnce
  <2> SUFFICES ASSUME IInv, NEW r \in Receivers
               PROVE  /\ IsInjective(AllFor(r))
                      /\ ToSet(AllFor(r)) = {c \in accepted : Dest[c] = r}
    BY DEF EachOnce
  <2> DEFINE drp == <<"DRP", r>>
             pca == <<"PCA", r>>
  <2>1. drp \in Buffers /\ pca \in Buffers /\ drp # pca /\ drp[2] = r /\ pca[2] = r
    BY DEF Buffers
  <2>2. PICK queue \in Seq(Compounds), sent \in Seq(Compounds), shared \in Seq(Compounds) :
          /\ queue = st.queues[r] /\ sent = st.buf[drp].pdus /\ shared = st.buf[pca].pdus
          /\ Alone(queue, sent) /\ Alone(queue, shared)
    BY <2>1 DEF IInv, StationOK, Stations, BufferRecords, Once
  <2>3. sent = <<>> \/ shared = <<>>
    <3>1. CASE Active
      <4>1. ActiveBuffer # drp \/ ActiveBuffer # pca
        BY <2>1
      <4>2. Quiet(st, drp) \/ Quiet(st, pca)
        BY <2>1, <3>1, <4>1, InUseOK DEF OthersQuiet
      <4>3. QED
        BY <2>2, <4>2 DEF Quiet
    <3>2. CASE ~Active
      <4>1. Idle(st)
        BY <3>2 DEF IInv, Access, DRPAccess, PCAAccess, PCAOn, Active
      <4>2. Quiet(st, drp)
        BY <2>1, <4>1 DEF Idle, NoAccess
      <4>3. QED
        BY <2>2, <4>2 DEF Quiet
    <3>3. QED
      BY <3>1, <3>2
  <2>4. ToSet(AllFor(r)) = ToSet(queue) \cup ToSet(sent) \cup ToSet(shared)
    <3>1. PICK one \in Seq(Compounds) : one = queue \o sent
      <4>1. queue \o sent \in Seq(Compounds)
        OBVIOUS
      <4>2. QED
        BY <4>1, Zenon
    <3>2. ToSet(queue \o sent) = ToSet(queue) \cup ToSet(sent)
      BY ToSetBoth, Zenon
    <3>3. ToSet(one \o shared) = ToSet(one) \cup ToSet(shared)
      BY ToSetBoth, Zenon
    <3>4. AllFor(r) = one \o shared
      BY <2>2, <3>1 DEF AllFor
    <3>5. QED
      BY <3>1, <3>2, <3>3, <3>4
  <2>5. ToSet(AllFor(r)) = HeldFor(st, r)
    <3>1. {"DRP", "PCA"} \X {r} = {drp, pca}
      OBVIOUS
    <3>2. HeldFor(st, r) = ToSet(queue) \cup UNION {ToSet(st.buf[b].pdus) : b \in {drp, pca}}
      BY <2>2, <3>1 DEF HeldFor
    <3>3. QED
      BY <2>2, <2>4, <3>2
  <2>6. IsInjective(AllFor(r))
    <3>1. PICK one \in Seq(Compounds) : one = queue \o sent
      <4>1. queue \o sent \in Seq(Compounds)
        OBVIOUS
      <4>2. QED
        BY <4>1, Zenon
    <3>2. AllFor(r) = one \o shared
      BY <2>2, <3>1 DEF AllFor
    <3>3. CASE shared = <<>>
      <4>1. one \o shared = one
        BY <3>3
      <4>2. QED
        BY <2>2, <3>1, <3>2, <4>1, InjectiveBoth
    <3>4. CASE sent = <<>>
      <4>1. one = queue
        BY <3>1, <3>4
      <4>2. QED
        BY <2>2, <3>2, <4>1, InjectiveBoth
    <3>5. QED
      BY <2>3, <3>3, <3>4
  <2>7. QED
    BY <2>5, <2>6 DEF IInv, Accepts
<1>2. QED
  BY <1>1, InductiveInvariant, PTL

\* Where contention access never drops compounds.
NoDropsInPCA == \A c \in Configs : c.usePCAchannelAccess => c.isDroppingAfterRetr = -1

\* The assertions of TempSendBuffer.cpp:388 and DRPScheduler.cpp:233 hold, and no
\* compound is taken from an empty buffer; the hypothesis is needed, since a drop in
\* contention access does take one from an empty buffer (DropsFromHead).
THEOREM NothingUndefinedHolds == NoDropsInPCA => (Spec => []NothingUndefined)
<1> SUFFICES ASSUME NoDropsInPCA PROVE Spec => []NothingUndefined
  OBVIOUS
<1>1. IInv => NothingUndefined
  <2>1. ASSUME IInv PROVE st.config \in Configs /\ ForPCAOnly(st)
    BY <2>1 DEF IInv, StationOK, Stations
  <2>2. QED
    BY <2>1 DEF NoDropsInPCA, ForPCAOnly, NothingUndefined
<1>2. QED
  BY <1>1, InductiveInvariant, PTL

\* No move between queue and buffer loses a compound: it leaves when it is
\* acknowledged, or from the head of a buffer that has sent more frames in a row
\* without an answer than isDroppingAfterRetr allows (TempSendBuffer.cpp:325-360).
THEOREM LeavesOnlyWhenDoneHolds == Spec => LeavesOnlyWhenDone
<1>1. StepOK => \A c \in accepted \ accepted' :
                   st.onAir.c = c \/ GivenUp(c)
  BY DEF StepOK
<1>2. QED
  BY <1>1, NextOK, InductiveInvariant, PTL DEF Spec, LeavesOnlyWhenDone

\* The end of a contention access that sent something passes the turn to another
\* receiver that has compounds (DRPScheduler.cpp:592-604).
THEOREM TakeTurnsHolds == Spec => TakeTurns
<1>1. StepOK => (st.isPCAtransmissionActive /\ ~st'.isPCAtransmissionActive
                 /\ st.PCAcompoundsWereSent
                 => \/ st'.nextPCAReceiver # st.ActivePCArx
                    \/ \A r \in Receivers \ {st.ActivePCArx} : st'.queues[r] = <<>>)
  BY DEF StepOK
<1>2. QED
  BY <1>1, NextOK, InductiveInvariant, PTL DEF Spec, TakeTurns
=============================================================================
