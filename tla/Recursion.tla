----------------------------- MODULE Recursion -----------------------------
(***************************************************************************)
(* What the proofs about recursive functions have in common.  The theorems *)
(* of the library on induction and on recursive definitions take operators *)
(* as parameters; here the property is a set of numbers and the step of a  *)
(* recursion is a function, and both are instantiated by first-order means.*)
(***************************************************************************)
EXTENDS Naturals, Sequences, WellFoundedInduction, TLAPS

Less == OpToRel(<, Nat)

LEMMA LeastNumber ==
    ASSUME NEW S, S \subseteq Nat, S # {}
    PROVE  \E x \in S : \A y \in S : x <= y
<1>1. IsWellFoundedOn(Less, Nat)
    BY NatLessThanWellFounded DEF Less
<1>2. PICK x \in S : \A y \in S : <<y, x>> \notin Less
    BY <1>1, WFMin
<1>3. \A y, z \in Nat : y < z => <<y, z>> \in Less
    BY DEF Less, OpToRel
<1>4. ASSUME NEW y \in S PROVE x <= y
  <2>1. x \in Nat /\ y \in Nat /\ ~(y < x)
      BY <1>2, <1>3
  <2> QED
      BY <2>1
<1> QED
    BY <1>2, <1>4

\* A list of n numbers falls: the first number that changes becomes smaller.
Falling(n) == LexProductOrdering(Less, Nat, n)

\* No list of numbers falls for ever.
LEMMA NothingFallsForEver ==
    ASSUME NEW n \in Nat
    PROVE  IsWellFoundedOn(Falling(n), [1..n -> Nat])
BY NatLessThanWellFounded, WFLexProductOrdering DEF Less, Falling

LEMMA FallsAt ==
    ASSUME NEW n \in Nat, NEW s \in [1..n -> Nat], NEW t \in [1..n -> Nat], NEW j \in 1..n,
           t[j] < s[j], \A i \in 1..(j - 1) : t[i] = s[i]
    PROVE  <<t, s>> \in Falling(n)
<1>1. <<t[j], s[j]>> \in Less
    BY DEF Less, OpToRel
<1> QED
    BY <1>1 DEF Falling, LexProductOrdering

\* A set of numbers that has 0 and all successors has every number.
LEMMA Induction ==
    ASSUME NEW S, 0 \in S, \A n \in Nat : n \in S => n + 1 \in S
    PROVE  \A n \in Nat : n \in S
<1>1. ASSUME NEW n \in Nat, n \notin S PROVE FALSE
  <2> DEFINE T == Nat \ S
  <2>1. T \subseteq Nat /\ T # {}
      BY <1>1
  <2>2. PICK x \in T : \A y \in T : x <= y
    <3> HIDE DEF T
    <3> QED
        BY <2>1, LeastNumber
  <2>3. x \in Nat /\ x # 0
      BY <2>2
  <2>4. x - 1 \in Nat /\ x - 1 \notin T
      BY <2>2, <2>3
  <2>5. x - 1 + 1 \in S
      BY <2>4
  <2> QED
      BY <2>2, <2>3, <2>5
<1> QED
    BY <1>1

\* The first n + 1 values of a recursion.
FirstValues(f, S, start, step, n) ==
    /\ f \in [0..n -> S]
    /\ f[0] = start
    /\ \A i \in 1..n : f[i] = step[i][f[i - 1]]

LEMMA ValuesExist ==
    ASSUME NEW S, NEW start \in S, NEW step \in [Nat -> [S -> S]], NEW m \in Nat
    PROVE  \E f : FirstValues(f, S, start, step, m)
<1> DEFINE Good == {n \in Nat : \E f : FirstValues(f, S, start, step, n)}
<1>1. 0 \in Good
  <2> DEFINE f == [i \in 0..0 |-> start]
  <2>1. FirstValues(f, S, start, step, 0)
      BY DEF FirstValues
  <2> HIDE DEF f
  <2> QED
      BY <2>1
<1>2. ASSUME NEW n \in Nat, n \in Good PROVE n + 1 \in Good
  <2>1. PICK f : FirstValues(f, S, start, step, n)
      BY <1>2
  <2> DEFINE g == [i \in 0..n + 1 |-> IF i = n + 1 THEN step[i][f[n]] ELSE f[i]]
  <2>2. f[n] \in S /\ \A i \in 0..n : f[i] \in S
      BY <2>1 DEF FirstValues
  <2>3. step[n + 1][f[n]] \in S
      BY <2>2
  <2>4. \A i \in 0..n : i \in 0..n + 1 /\ i # n + 1
      OBVIOUS
  <2>5. g \in [0..n + 1 -> S]
    <3>1. ASSUME NEW i \in 0..n + 1 PROVE g[i] \in S
      <4>1. CASE i = n + 1
          BY <4>1, <2>3
      <4>2. CASE i # n + 1
        <5>1. i \in 0..n
            BY <4>2
        <5> QED
            BY <4>2, <5>1, <2>2
      <4> QED
          BY <4>1, <4>2
    <3> QED
        BY <3>1
  <2>6. \A i \in 0..n : g[i] = f[i]
      BY <2>4
  <2>7. g[n + 1] = step[n + 1][f[n]]
      OBVIOUS
  <2> HIDE DEF g
  <2>8. g[0] = start
      BY <2>1, <2>6 DEF FirstValues
  <2>9. ASSUME NEW i \in 1..n + 1 PROVE g[i] = step[i][g[i - 1]]
    <3>1. CASE i = n + 1
        BY <3>1, <2>6, <2>7
    <3>2. CASE i # n + 1
      <4>1. i \in 1..n /\ i - 1 \in 0..n /\ i \in 0..n
          BY <3>2
      <4> QED
          BY <4>1, <2>1, <2>6 DEF FirstValues
    <3> QED
        BY <3>1, <3>2
  <2>10. FirstValues(g, S, start, step, n + 1)
      BY <2>5, <2>8, <2>9 DEF FirstValues
  <2> QED
      BY <2>10
<1> HIDE DEF Good
<1>3. \A n \in Nat : n \in Good
    BY <1>1, <1>2, Induction
<1> QED
    BY <1>3 DEF Good
=============================================================================
