--------------------------- MODULE RecursionLemmas ---------------------------
(***************************************************************************)
(* Induction on 0..n and functions defined by recursion on it, for the     *)
(* proofs about operators that work their way through a sequence.  A       *)
(* property is given as the set of the numbers that have it, and the       *)
(* recursion's step as a function, so that first-order provers can apply   *)
(* the lemmas.                                                             *)
(***************************************************************************)
EXTENDS Integers, WellFoundedInduction, TLAPS

(* A nonempty set of naturals has a least element.                         *)
LEMMA LeastNatural ==
  ASSUME NEW T \in SUBSET Nat, T # {}
  PROVE  \E x \in T : \A y \in T : x <= y
<1>1. PICK x \in T : \A y \in T : ~(<<y, x>> \in OpToRel(<, Nat))
  BY NatLessThanWellFounded, WFMin
<1>2. ASSUME NEW y \in T, y < x PROVE FALSE
  <2>1. x \in Nat /\ y \in Nat
    OBVIOUS
  <2>2. <<y, x>> \in OpToRel(<, Nat)
    BY <1>2, <2>1 DEF OpToRel
  <2>3. QED  BY <1>1, <2>2
<1>3. \A y \in T : x \in Int /\ y \in Int /\ ~(y < x)
  BY <1>2
<1>4. QED  BY <1>3

(* So does one of integers that are not less than some a.                  *)
LEMMA LeastInteger ==
  ASSUME NEW a \in Int, NEW T \in SUBSET Int, T # {}, \A x \in T : a <= x
  PROVE  \E x \in T : \A y \in T : x <= y
<1>. DEFINE D == {x - a : x \in T}
<1>1. D \in SUBSET Nat /\ D # {}
  <2>1. \A x \in T : x - a \in Nat
    OBVIOUS
  <2>2. PICK x \in T : TRUE
    OBVIOUS
  <2>3. x - a \in D
    OBVIOUS
  <2>4. QED  BY <2>1, <2>3
<1>. HIDE DEF D
<1>2. PICK d \in D : \A e \in D : d <= e
  BY <1>1, LeastNatural
<1>3. PICK x \in T : d = x - a
  BY <1>2 DEF D
<1>4. \A y \in T : y - a \in D
  BY DEF D
<1>5. QED  BY <1>2, <1>3, <1>4

(* A set that holds 0, and k with k - 1 for every k up to n, holds 0..n.   *)
LEMMA InductionUpTo ==
  ASSUME NEW n \in Nat, NEW T, 0 \in T, \A k \in 1..n : k - 1 \in T => k \in T
  PROVE  \A k \in 0..n : k \in T
<1>. DEFINE U == {k \in 0..n : k \notin T}
<1>. SUFFICES ASSUME U # {} PROVE FALSE
  OBVIOUS
<1>1. PICK x \in U : \A y \in U : x <= y
  <2>1. U \in SUBSET Nat  OBVIOUS
  <2>2. QED  BY <2>1, LeastNatural
<1>2. x \in 1..n /\ x - 1 \in 0..n /\ x \notin T
  BY <1>1
<1>3. x - 1 \in T
  BY <1>1, <1>2
<1>4. QED  BY <1>2, <1>3

(* f begins with a on 0..n and goes on with the functions G[1], G[2], ...  *)
Recurs(f, a, G, n) ==
  f = [k \in 0..n |-> IF k = 0 THEN a ELSE G[k][f[k-1]]]

(* There is such a function if the steps stay within a set.                *)
LEMMA RecursionExists ==
  ASSUME NEW n \in Nat, NEW S, NEW a \in S, NEW G,
         \A k \in 1..n : G[k] \in [S -> S]
  PROVE  \E f \in [0..n -> S] : Recurs(f, a, G, n)
<1>. DEFINE T == {m \in 0..n : \E f \in [0..m -> S] : Recurs(f, a, G, m)}
<1>1. 0 \in T
  <2>1. [k \in 0..0 |-> a] \in [0..0 -> S]
    OBVIOUS
  <2>2. Recurs([k \in 0..0 |-> a], a, G, 0)
    BY DEF Recurs
  <2>3. QED  BY <2>1, <2>2
<1>2. ASSUME NEW m \in 1..n, m - 1 \in T PROVE m \in T
  <2>1. PICK f \in [0..m-1 -> S] : Recurs(f, a, G, m - 1)
    BY <1>2
  <2>. DEFINE g == [k \in 0..m |-> IF k = m THEN G[m][f[m-1]] ELSE f[k]]
  <2>2. G[m][f[m-1]] \in S
    BY <1>2, <2>1
  <2>3. g \in [0..m -> S]
    BY <2>1, <2>2
  <2>4. \A k \in 0..m : g[k] = IF k = 0 THEN a ELSE G[k][g[k-1]]
    <3>1. \A k \in 0..m-1 : f[k] = IF k = 0 THEN a ELSE G[k][f[k-1]]
      BY <2>1 DEF Recurs
    <3>2. g[m] = G[m][g[m-1]]
      OBVIOUS
    <3>3. ASSUME NEW k \in 0..m-1 PROVE g[k] = IF k = 0 THEN a ELSE G[k][g[k-1]]
      <4>1. g[k] = f[k] /\ (k # 0 => g[k-1] = f[k-1])
        OBVIOUS
      <4>2. QED  BY <3>1, <4>1
    <3>. HIDE DEF g
    <3>4. QED  BY <3>2, <3>3
  <2>. HIDE DEF g
  <2>5. Recurs(g, a, G, m)
    BY <2>3, <2>4 DEF Recurs
  <2>6. QED  BY <2>3, <2>5
<1>. HIDE DEF T
<1>3. \A m \in 0..n : m \in T
  BY <1>1, <1>2, InductionUpTo
<1>4. QED  BY <1>3 DEF T

=============================================================================
