----------------------------- MODULE Induction -----------------------------
(***************************************************************************)
(* Induction and recursion over the natural numbers, stated with sets and  *)
(* functions where the library's theorems take operators: the provers used *)
(* here cannot instantiate those.  A proof by induction puts the numbers   *)
(* with the property into a set; a recursive function is given its steps   *)
(* as a function.                                                          *)
(***************************************************************************)
EXTENDS Integers, WellFoundedInduction, TLAPS

\* A set of natural numbers that is not empty has a least element.
LEMMA LeastNumber ==
    ASSUME NEW S, S \subseteq Nat, S # {}
    PROVE  \E least \in S : \A n \in S : least <= n
<1> DEFINE less == {p \in Nat \X Nat : p[1] < p[2]}
<1>1. IsWellFoundedOn(less, Nat)
  BY NatLessThanWellFounded DEF OpToRel
<1>2. PICK least \in S : \A n \in S : <<n, least>> \notin less
  <2> HIDE DEF less
  <2>1. QED
    BY <1>1, WFMin
<1>3. \A n \in S : ~(n < least)
  BY <1>2
<1>4. QED
  BY <1>3

\* A set that has zero and with each number its successor has all of them.
LEMMA NumberInduction ==
    ASSUME NEW S, 0 \in S, \A n \in Nat : n \in S => n + 1 \in S
    PROVE  Nat \subseteq S
<1> SUFFICES ASSUME Nat \ S # {} PROVE FALSE
  OBVIOUS
<1>1. PICK least \in Nat \ S : \A n \in Nat \ S : least <= n
  BY LeastNumber
<1>2. least - 1 \in Nat /\ least - 1 \notin Nat \ S
  BY <1>1
<1>3. least - 1 + 1 \in S
  BY <1>2
<1>4. QED
  BY <1>1, <1>3

\* The same up to a bound.
LEMMA BoundedInduction ==
    ASSUME NEW S, NEW bound \in Nat, 0 \in S,
           \A n \in 0 .. bound - 1 : n \in S => n + 1 \in S
    PROVE  0 .. bound \subseteq S
<1> DEFINE good == {n \in Nat : n <= bound => n \in S}
<1>1. 0 \in good
  OBVIOUS
<1>2. \A n \in Nat : n \in good => n + 1 \in good
  OBVIOUS
<1>3. Nat \subseteq good
  <2> HIDE DEF good
  <2>1. QED
    BY <1>1, <1>2, NumberInduction
<1>4. QED
  BY <1>3

\* The function f begins with a value and goes on by the given steps.
Goes(f, initial, step, bound) ==
    f[0] = initial /\ \A n \in 1 .. bound : f[n] = step[n][f[n - 1]]

\* There is such a function.
LEMMA RecursiveFunction ==
    ASSUME NEW T, NEW initial \in T, NEW bound \in Nat, NEW step \in [Nat -> [T -> T]]
    PROVE  \E f \in [0 .. bound -> T] : Goes(f, initial, step, bound)
<1> DEFINE good == {n \in Nat : \E f \in [0 .. n -> T] : Goes(f, initial, step, n)}
<1>1. 0 \in good
  <2>1. [i \in 0 .. 0 |-> initial] \in [0 .. 0 -> T]
    OBVIOUS
  <2>2. Goes([i \in 0 .. 0 |-> initial], initial, step, 0)
    BY DEF Goes
  <2>3. QED
    BY <2>1, <2>2
<1>2. ASSUME NEW n \in Nat, n \in good
      PROVE  n + 1 \in good
  <2>1. PICK f \in [0 .. n -> T] : Goes(f, initial, step, n)
    BY <1>2
  <2> DEFINE g == [i \in 0 .. n + 1 |-> IF i = n + 1 THEN step[n + 1][f[n]] ELSE f[i]]
  <2>2. step[n + 1][f[n]] \in T
    OBVIOUS
  <2>3. g \in [0 .. n + 1 -> T]
    BY <2>2
  <2>4. g[0] = initial
    BY <2>1 DEF Goes
  <2>5. ASSUME NEW i \in 1 .. n + 1
        PROVE  g[i] = step[i][g[i - 1]]
    <3>1. i - 1 \in 0 .. n /\ i - 1 # n + 1 /\ g[i - 1] = f[i - 1]
      OBVIOUS
    <3>2. CASE i = n + 1
      BY <3>1, <3>2
    <3>3. CASE i # n + 1
      <4>1. i \in 1 .. n
        BY <3>3
      <4>2. QED
        BY <2>1, <3>1, <3>3, <4>1 DEF Goes
    <3>4. QED
      BY <3>2, <3>3
  <2>6. Goes(g, initial, step, n + 1)
    BY <2>4, <2>5 DEF Goes
  <2> HIDE DEF g
  <2>7. QED
    BY <2>3, <2>6
<1>3. Nat \subseteq good
  <2> HIDE DEF good
  <2>1. QED
    BY <1>1, <1>2, NumberInduction
<1>4. QED
  BY <1>3
=============================================================================
