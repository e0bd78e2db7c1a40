----------------------------- MODULE Recursion ------------------------------
(***************************************************************************)
(* Induction over the natural numbers, and what follows from it, stated    *)
(* with sets in place of predicates.  The induction theorems of the        *)
(* library have an operator for a parameter, which its provers cannot      *)
(* instantiate; that finite sets are well founded under inclusion has      *)
(* none, and the least number principle is the case of it for 0..n.        *)
(***************************************************************************)
EXTENDS FiniteSetTheorems, TLAPS

(* A set of natural numbers that has an element has a least one.            *)
LEMMA LeastNumber ==
  ASSUME NEW S \in SUBSET Nat, S # {}
  PROVE  \E m \in S : \A n \in S : m <= n
<1> DEFINE Initial  == {0..n : n \in S}
           Included == StrictSubsetOrdering(Nat)
<1>1. Initial \subseteq FiniteSubsetsOf(Nat) /\ Initial # {}
  <2>1. \A n \in S : 0..n \in SUBSET Nat /\ IsFiniteSet(0..n)
    BY FS_Interval
  <2>2. QED BY <2>1 DEF FiniteSubsetsOf
<1>2. \E x \in Initial : \A y \in Initial : <<y, x>> \notin Included
  <2>1. IsWellFoundedOn(Included, FiniteSubsetsOf(Nat))
    BY FS_StrictSubsetOrderingWellFounded
  <2> HIDE DEF Initial, Included
  <2>2. QED BY <1>1, <2>1, WFMin
<1>3. PICK m \in S : \A n \in S : <<0..n, 0..m>> \notin Included
  BY <1>2
<1>4. ASSUME NEW n \in S, n < m PROVE FALSE
  <2>1. 0..n \in SUBSET Nat /\ 0..m \in SUBSET Nat /\ 0..n \subseteq 0..m
    BY <1>4
  <2>2. m \in 0..m /\ m \notin 0..n
    BY <1>4
  <2>3. QED BY <2>1, <2>2, <1>3 DEF StrictSubsetOrdering
<1>5. QED BY <1>4

(* Induction: a set that has 0 and the successors of its numbers has all.   *)
LEMMA SetInduction ==
  ASSUME NEW S, 0 \in S, \A n \in Nat : n \in S => n + 1 \in S
  PROVE  Nat \subseteq S
<1> DEFINE Missing == Nat \ S
<1>1. SUFFICES ASSUME Missing # {} PROVE FALSE
  OBVIOUS
<1>2. PICK m \in Missing : \A n \in Missing : m <= n
  <2> HIDE DEF Missing
  <2>1. Missing \subseteq Nat BY DEF Missing
  <2>2. QED BY <1>1, <2>1, LeastNumber
<1>3. m - 1 \in Nat /\ m - 1 \in S
  BY <1>2
<1>4. QED BY <1>2, <1>3

(* The same as far as n: with 0 and the successors below n, all up to n.    *)
LEMMA BoundedInduction ==
  ASSUME NEW n \in Nat, NEW S, 0 \in S, \A i \in 0..(n - 1) : i \in S => i + 1 \in S
  PROVE  0..n \subseteq S
<1> DEFINE Reached == {i \in Nat : i <= n => i \in S}
<1>1. 0 \in Reached /\ \A i \in Nat : i \in Reached => i + 1 \in Reached
  OBVIOUS
<1>2. Nat \subseteq Reached
  <2> HIDE DEF Reached
  <2>1. QED BY <1>1, SetInduction
<1>3. QED BY <1>2

(* A set of natural numbers up to b that has an element has a greatest one. *)
LEMMA GreatestNumber ==
  ASSUME NEW b \in Nat, NEW S \in SUBSET (0..b), S # {}
  PROVE  \E m \in S : \A n \in S : n <= m
<1> DEFINE Distance == {b - n : n \in S}
<1>1. Distance \subseteq Nat /\ Distance # {}
  <2>1. \A n \in S : n \in 0..b /\ b - n \in Nat
    OBVIOUS
  <2>2. PICK n \in S : TRUE
    OBVIOUS
  <2>3. b - n \in Distance
    BY <2>2
  <2>4. QED BY <2>1, <2>3
<1>2. PICK d \in Distance : \A e \in Distance : d <= e
  <2> HIDE DEF Distance
  <2>1. QED BY <1>1, LeastNumber
<1>3. PICK m \in S : d = b - m
  BY <1>2
<1>4. ASSUME NEW n \in S PROVE n <= m
  BY <1>2, <1>3
<1>5. QED BY <1>4

(* A function may be defined by its value at 0 and a step: the equations of *)
(* a recursive definition over 0..n have a solution.                        *)
Recursive(n, T, base, step) ==
  \E f \in [0..n -> T] : f[0] = base /\ \A i \in 1..n : f[i] = step[<<i, f[i - 1]>>]

LEMMA PrimitiveRecursion ==
  ASSUME NEW n \in Nat, NEW T, NEW base \in T, NEW step \in [(1..n) \X T -> T]
  PROVE  Recursive(n, T, base, step)
<1> DEFINE Solves(f, m) == f[0] = base /\ \A i \in 1..m : f[i] = step[<<i, f[i - 1]>>]
           S == {m \in 0..n : \E f \in [0..m -> T] : Solves(f, m)}
<1>1. 0 \in S
  <2> DEFINE g == [i \in 0..0 |-> base]
  <2>1. g \in [0..0 -> T] /\ g[0] = base /\ 1..0 = {}
    OBVIOUS
  <2>2. Solves(g, 0)
    BY <2>1
  <2> HIDE DEF g, Solves
  <2>3. QED BY <2>1, <2>2
<1>2. ASSUME NEW m \in 0..(n - 1), m \in S PROVE m + 1 \in S
  <2>1. PICK f \in [0..m -> T] : Solves(f, m)
    BY <1>2
  <2> DEFINE g == [i \in 0..(m + 1) |-> IF i <= m THEN f[i] ELSE step[<<m + 1, f[m]>>]]
  <2>2. g \in [0..(m + 1) -> T]
    OBVIOUS
  <2>3. \A i \in 1..(m + 1) : g[i] = step[<<i, g[i - 1]>>]
    <3>1. ASSUME NEW i \in 1..m PROVE g[i] = step[<<i, g[i - 1]>>]
      BY <2>1
    <3>2. g[m + 1] = step[<<m + 1, g[m + 1 - 1]>>]
      <4>1. m + 1 - 1 = m /\ ~(m + 1 <= m) /\ m + 1 \in 0..(m + 1) /\ m \in 0..(m + 1)
        OBVIOUS
      <4>2. g[m] = f[m] /\ g[m + 1] = step[<<m + 1, f[m]>>]
        BY <4>1
      <4>3. QED BY <4>1, <4>2
    <3>3. 1..(m + 1) = 1..m \union {m + 1}
      OBVIOUS
    <3> HIDE DEF g
    <3>4. QED BY <3>1, <3>2, <3>3
  <2>4. g[0] = base
    BY <2>1
  <2>5. Solves(g, m + 1)
    BY <2>3, <2>4
  <2> HIDE DEF g, Solves
  <2>6. m + 1 \in 0..n
    OBVIOUS
  <2>7. QED BY <2>2, <2>5, <2>6
<1>3. 0..n \subseteq S
  <2> HIDE DEF S
  <2>1. QED BY <1>1, <1>2, BoundedInduction
<1>4. QED BY <1>3 DEF Recursive
=============================================================================
