-------------------------- MODULE Recursion_proofs --------------------------
(***************************************************************************)
(* Induction over the natural numbers, stated of a set so that it needs no *)
(* operator as a parameter, and the functions that recursion defines.      *)
(***************************************************************************)
EXTENDS Integers, TLAPS, WellFoundedInduction

LEMMA Induction ==
    ASSUME NEW S, 0 \in S, \A n \in Nat : n \in S => n + 1 \in S
    PROVE  Nat \subseteq S
<1> DEFINE T == Nat \ S
           R == OpToRel(<, Nat)
<1> SUFFICES ASSUME T # {} PROVE FALSE
  OBVIOUS
<1>1. IsWellFoundedOn(R, Nat)
  BY NatLessThanWellFounded
<1> HIDE DEF R
<1>2. PICK x \in T : \A y \in T : ~(<<y, x>> \in R)
  BY <1>1, WFMin
<1>3. x \in Nat /\ x # 0 /\ x - 1 \in Nat /\ x - 1 < x
  OBVIOUS
<1>4. <<x - 1, x>> \in R
  BY <1>3 DEF R, OpToRel
<1>5. x - 1 \in S
  BY <1>2, <1>3, <1>4
<1>6. (x - 1) + 1 \in S
  BY <1>3, <1>5
<1>7. (x - 1) + 1 = x
  BY <1>3
<1> QED
  BY <1>6, <1>7

(* The values of a loop of n turns: turn k is the function step[k].         *)
Follows(f, n, x, step) ==
    f = [k \in 0 .. n |-> IF k = 0 THEN x ELSE step[k][f[k - 1]]]

LEMMA RecursionExists ==
    ASSUME NEW S, NEW x \in S, NEW n \in Nat, NEW step \in [1 .. n -> [S -> S]]
    PROVE  \E f \in [0 .. n -> S] : Follows(f, n, x, step)
<1> DEFINE N == {m \in Nat : m <= n => \E f \in [0 .. m -> S] : Follows(f, m, x, step)}
<1>1. 0 \in N
  <2>1. [k \in 0 .. 0 |-> x] \in [0 .. 0 -> S] /\ Follows([k \in 0 .. 0 |-> x], 0, x, step)
    BY DEF Follows
  <2> QED
    BY <2>1
<1>2. ASSUME NEW m \in Nat, m \in N PROVE m + 1 \in N
  <2>1. CASE m + 1 > n
    BY <2>1
  <2>2. CASE m + 1 <= n
    <3>1. PICK f \in [0 .. m -> S] : Follows(f, m, x, step)
      BY <1>2, <2>2
    <3>2. \A k \in 0 .. m : f[k] = IF k = 0 THEN x ELSE step[k][f[k - 1]]
      BY <3>1 DEF Follows
    <3>3. step[m + 1] \in [S -> S] /\ f[m] \in S
      BY <2>2
    <3> DEFINE g == [k \in 0 .. m + 1 |-> IF k = m + 1 THEN step[m + 1][f[m]] ELSE f[k]]
    <3>4. g \in [0 .. m + 1 -> S]
      BY <3>3
    <3>5. \A k \in 0 .. m + 1 : g[k] = IF k = 0 THEN x ELSE step[k][g[k - 1]]
      BY <3>2
    <3>6. g = [k \in 0 .. m + 1 |-> g[k]]
      OBVIOUS
    <3> HIDE DEF g
    <3>7. Follows(g, m + 1, x, step)
      BY <3>5, <3>6 DEF Follows
    <3>8. \E h \in [0 .. m + 1 -> S] : Follows(h, m + 1, x, step)
      BY <3>4, <3>7
    <3> QED
      BY <3>8
  <2> QED
    BY <2>1, <2>2
<1> HIDE DEF N
<1>3. n \in N
  BY <1>1, <1>2, Induction
<1> QED
  BY <1>3 DEF N

(* There is no other such function, and it has values in S.                 *)
LEMMA RecursionInside ==
    ASSUME NEW S, NEW x \in S, NEW n \in Nat, NEW step \in [1 .. n -> [S -> S]],
           NEW f, Follows(f, n, x, step)
    PROVE  f \in [0 .. n -> S]
<1>1. \A k \in 0 .. n : f[k] = IF k = 0 THEN x ELSE step[k][f[k - 1]]
  BY DEF Follows
<1> DEFINE N == {m \in Nat : m <= n => f[m] \in S}
<1>2. 0 \in N
  BY <1>1
<1>3. ASSUME NEW m \in Nat, m \in N PROVE m + 1 \in N
  <2>1. CASE m + 1 > n
    BY <2>1
  <2>2. CASE m + 1 <= n
    <3>1. f[m] \in S /\ step[m + 1] \in [S -> S]
      BY <1>3, <2>2
    <3>2. f[m + 1] = step[m + 1][f[m]]
      BY <1>1, <2>2
    <3> QED
      BY <3>1, <3>2
  <2> QED
    BY <2>1, <2>2
<1> HIDE DEF N
<1>4. Nat \subseteq N
  BY <1>2, <1>3, Induction
<1>5. \A k \in 0 .. n : f[k] \in S
  BY <1>4 DEF N
<1>6. f = [k \in 0 .. n |-> f[k]]
  BY DEF Follows
<1> QED
  BY <1>5, <1>6
=============================================================================
