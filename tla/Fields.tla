------------------------------- MODULE Fields -------------------------------
(***************************************************************************)
(* The arithmetic of src/Math: numbers modulo a prime in Montgomery form   *)
(* (Zp_Data, modp, gfp), the binary fields (gf2n_short, gf2n_long) and     *)
(* the number theory on top (bigint, Subroutines).                         *)
(*                                                                         *)
(* A modp is the number its limbs hold.  The size of a limb is a field of  *)
(* the record Zp_Data, so that small numbers have several of them.  A word *)
(* of gf2n is the set of the positions of its one bits: exclusive or is    *)
(* the symmetric difference, and the words keep the code's widths.         *)
(***************************************************************************)
EXTENDS Integers, FiniteSets, Sequences, FiniteSetsExt, SequencesExt, Bitwise

RECURSIVE PowMod(_, _, _)
PowMod(x, e, p) ==
  IF e = 0 THEN 1 % p
  ELSE LET h == PowMod((x * x) % p, e \div 2, p) IN IF e % 2 = 1 THEN (h * x) % p ELSE h

(* The value of x in 0..p-1 with x * y = 1 modulo p. *)
InvMod(x, p) == CHOOSE y \in 0..(p - 1) : (x * y) % p = 1 % p

-----------------------------------------------------------------------------
(* Zp_Data: base^t is the first power of the base above the prime.  pi is  *)
(* -1/p modulo a limb, R, R2 and R3 are powers of base^t.                  *)

Zp_init(p, mont, base) ==
  LET t == CHOOSE t \in 1..8 : base^(t-1) <= p /\ p < base^t
      R == base^t % p
  IN  [p |-> p, montgomery |-> mont, base |-> base, t |-> t,
       pi |-> base - InvMod(p % base, base),
       R |-> R, R2 |-> (R * R) % p, R3 |-> (((R * R) % p) * R) % p]

(* Zp_Data::Add compares the carry and the limbs, Sub the borrow: both     *)
(* come down to one correction by the prime.                               *)
Zp_Add(Z, x, y) ==
  LET s == x + y IN IF s >= Z.base^Z.t \/ s % Z.base^Z.t >= Z.p THEN (s - Z.p) % Z.base^Z.t ELSE s
Zp_Sub(Z, x, y) ==
  IF x < y THEN (x - y + Z.p) % Z.base^Z.t ELSE x - y

(* Mont_Mult: limb by limb of x, ans has t + 1 limbs, of which the carry   *)
(* of the first product is added to the last without a further carry.      *)
Mont_MultUnreduced(Z, x, y) ==
  LET Limb(i)  == (x \div Z.base^i) % Z.base
      Step(a, i) == LET s == a + Limb(i) * y IN (s + (((s % Z.base) * Z.pi) % Z.base) * Z.p) \div Z.base
  IN  FoldLeft(Step, 0, [i \in 1..Z.t |-> i - 1]) % Z.base^Z.t

Mont_Mult(Z, x, y) ==
  LET Limb(i)  == (x \div Z.base^i) % Z.base
      Step(a, i) == LET s == (a + Limb(i) * y) % Z.base^(Z.t + 1)
                        u == ((s % Z.base) * Z.pi) % Z.base
                    IN  (s + u * Z.p) \div Z.base
      ans == FoldLeft(Step, 0, [i \in 1..Z.t |-> i - 1])
  IN  IF ans >= Z.p THEN (ans - Z.p) % Z.base^Z.t ELSE ans % Z.base^Z.t

(* Without Montgomery form the product is divided by the prime. *)
Mul(Z, x, y) == IF Z.montgomery THEN Mont_Mult(Z, x, y) ELSE (x * y) % Z.p
Sqr(Z, x)    == Mul(Z, x, x)

assignOne(Z)    == IF Z.montgomery THEN Z.R ELSE 1
to_bigint(Z, x) == IF Z.montgomery THEN Mont_Mult(Z, x, 1) ELSE x

(* convert_destroy: any integer. *)
to_modp(Z, x) == LET r == x % Z.p IN IF Z.montgomery THEN Mont_Mult(Z, r, Z.R2) ELSE r

(* The conversion of an int: one limb holds it (a negative one is added to *)
(* the prime modulo the limb), several hold it unreduced.                  *)
int_to_modp(Z, x) ==
  LET r == IF x >= 0 THEN (IF Z.t = 1 THEN x % Z.p ELSE x)
           ELSE IF Z.t = 1 THEN ((Z.p + x) % Z.base) % Z.p ELSE (Z.p + x) % Z.p
  IN  IF Z.montgomery THEN Mont_Mult(Z, r, Z.R2) ELSE r

Negate(Z, x) == IF x = 0 THEN x ELSE Z.p - x

(* Inv: the cofactor of the extended Euclid is of either sign.  In         *)
(* Montgomery form it lacks R twice.                                       *)
Inv(Z, x) ==
  LET s   == CHOOSE s \in -(Z.p \div 2)..(Z.p \div 2) : (s * x) % Z.p = 1
      ans == IF s < 0 THEN Z.p - (-s) ELSE s
  IN  IF Z.montgomery THEN Mont_Mult(Z, ans, Z.R3) ELSE ans

(* The bits of a number, least significant first. *)
BitsOf(e) == LET len == CHOOSE k \in 0..31 : e < 2^k /\ (k = 0 \/ e >= 2^(k-1))
             IN  [i \in 1..len |-> (e \div 2^(i-1)) % 2]

(* Power: square and multiply; negative exponents are not implemented. *)
Power(Z, x, exp) ==
  LET Step(s, b) == [ans |-> IF b = 1 THEN Mul(Z, s.ans, s.t) ELSE s.ans, t |-> Sqr(Z, s.t)]
  IN  IF exp = 1 THEN x
      ELSE FoldLeft(Step, [ans |-> assignOne(Z), t |-> x], BitsOf(exp)).ans

-----------------------------------------------------------------------------
(* gfp works on the integers behind its elements. *)

gfp_bits(Z, op(_, _), x, y) == to_modp(Z, op(to_bigint(Z, x), to_bigint(Z, y)))
gfp_AND(Z, x, y) == LET BitAnd(a, b) == a & b IN gfp_bits(Z, BitAnd, x, y)
gfp_OR(Z, x, y)  == LET BitOr(a, b) == a | b IN gfp_bits(Z, BitOr, x, y)
gfp_XOR(Z, x, y) == LET BitXor(a, b) == a ^^ b IN gfp_bits(Z, BitXor, x, y)

(* The shift to the left stays in the t limbs: what leaves them is lost. *)
gfp_SHL(Z, x, n) == to_modp(Z, (to_bigint(Z, x) * 2^n) % Z.base^Z.t)
gfp_SHR(Z, x, n) == to_modp(Z, to_bigint(Z, x) \div 2^n)

Legendre(a, p) == PowMod(a, (p - 1) \div 2, p)

(* Shanks' algorithm for p = 1 mod 4 with n the non-residue drawn: b and x *)
(* are followed until b is 1, r is the exponent of the order of y.         *)
RECURSIVE Shanks(_, _, _, _, _)
Shanks(p, x, b, y, r) ==
  IF b = 1 THEN x
  ELSE LET m  == CHOOSE m \in 1..r : PowMod(b, 2^m, p) = 1 /\ \A k \in 1..(m-1) : PowMod(b, 2^k, p) # 1
           t  == PowMod(y, 2^(r - m - 1), p)
           yy == (t * t) % p
       IN  Shanks(p, (x * t) % p, (b * yy) % p, yy, m)

sqrRootMod(a, p, n) ==
  IF a = 0 THEN 0
  ELSE IF (p \div 2) % 2 = 1 THEN PowMod(a, (p + 1) \div 4, p)
  ELSE LET e == CHOOSE e \in 1..31 : (p - 1) % 2^e = 0 /\ ((p - 1) \div 2^e) % 2 = 1
           q == (p - 1) \div 2^e
           x == PowMod(a, (q - 1) \div 2, p)
       IN  Shanks(p, (a * x) % p, (((a * x) % p) * x) % p, PowMod(n, q, p), e)

(* The square root of a gfp is the odd one. *)
sqrRoot(Z, x, n) ==
  LET ti == sqrRootMod(to_bigint(Z, x), Z.p, n) IN to_modp(Z, IF ti % 2 = 0 THEN Z.p - ti ELSE ti)

(* Negative exponents invert first. *)
powerMod(x, e, p) == IF e >= 0 THEN PowMod(x, e, p) ELSE PowMod(InvMod(x, p), -e, p)

(* modp::output writes the representative nearest to zero. *)
Printed(Z, x) == LET te == to_bigint(Z, x) IN IF te < Z.p \div 2 THEN te ELSE te - Z.p

-----------------------------------------------------------------------------
(* Subroutines: roots of unity. *)

(* Subs: a polynomial with small coefficients by Horner's rule, adding or  *)
(* subtracting one as often as the coefficient says; larger ones throw.    *)
Subs(Z, poly, x) ==
  LET one == assignOne(Z)
      Times(n, Op(_, _), a) == FoldLeft(LAMBDA s, i : Op(s, one), a, [i \in 1..n |-> i])
      Plus(a, b)  == Zp_Add(Z, a, b)
      Minus(a, b) == Zp_Sub(Z, a, b)
      Step(co, a) == LET ax == Mul(Z, a, x) IN IF co >= 0 THEN Times(co, Plus, ax) ELSE Times(-co, Minus, ax)
  IN  FoldRight(Step, poly, 0)

(* The base is incremented from 2 until its power is a root of Phi_m. *)
Find_Primitive_Root_m(Z, m, poly) ==
  LET Root(b)  == Power(Z, to_modp(Z, b), (Z.p - 1) \div m)
      IsRoot(b) == Subs(Z, poly, Root(b)) = 0
  IN  Root(CHOOSE b \in 2..Z.p : IsRoot(b) /\ \A c \in 2..(b-1) : ~ IsRoot(c))

Find_Primitive_Root_2m(Z, m, poly) ==
  Find_Primitive_Root_m(Z, 2 * m, [i \in 1..(2 * Len(poly)) |-> IF i % 2 = 1 THEN poly[(i + 1) \div 2] ELSE 0])

Find_Primitive_Root_2powerAny(Z, m) ==
  LET Root(b) == Power(Z, to_modp(Z, b), (Z.p - 1) \div m)
      IsRoot(b) == Power(Z, Root(b), m) = assignOne(Z)
  IN  Root(CHOOSE b \in 2..Z.p : IsRoot(b) /\ \A c \in 2..(b-1) : ~ IsRoot(c))

Find_Primitive_Root_2power(Z, m) ==
  LET Root(b)  == Power(Z, to_modp(Z, b), (Z.p - 1) \div m)
      IsRoot(b) == Zp_Add(Z, Power(Z, Root(b), m \div 2), assignOne(Z)) = 0
  IN  Root(CHOOSE b \in 2..Z.p : IsRoot(b) /\ \A c \in 2..(b-1) : ~ IsRoot(c))

-----------------------------------------------------------------------------
(* Words as sets of bit positions. *)

Bits(n)      == 0..(n - 1)
Xor2(a, b)   == SymDiff(a, b)
Shl(a, n, w) == {i + n : i \in a} \cap Bits(w)
Shr(a, n)    == {i - n : i \in {j \in a : j >= n}}
Low(a, n)    == a \cap Bits(n)

(* The product without carries: what the tables hold and the processor's   *)
(* instruction computes.                                                   *)
Clmul(a, b) == {k \in {i + j : i \in a, j \in b} : Cardinality({i \in a : k - i \in b}) % 2 = 1}

(* The exclusive or of the words that end the tuples of a set. *)
XorParts(parts) == {k \in UNION {q[3] : q \in parts} : Cardinality({q \in parts : k \in q[3]}) % 2 = 1}

(* The piece i of n bits. *)
Piece(x, i, n) == Low(Shr(x, i * n), n)

(* gf2n_short: a field of n bits in words of w bits, with a trinomial or a *)
(* pentanomial x^n + x^t1 (+ x^t2 + x^t3) + 1.                             *)
gf2n_init(nn) ==
  LET Row(t1, t) == [n |-> nn, w |-> 64, t1 |-> t1, t |-> t]
  IN  CASE nn = 4  -> Row(1, {1})
        [] nn = 8  -> Row(4, {4, 3, 1})
        [] nn = 28 -> Row(1, {1})
        [] nn = 40 -> Row(20, {20, 15, 10})

(* x is added at 0 and at every t, all of them moved by k. *)
TimesTail(g, x, k) == Shl(Clmul(x, g.t \cup {0}), k, g.w)

(* The upper word moves down by n and is added at 0 and at every t, then   *)
(* what is left above n in the word until nothing is.                      *)
RECURSIVE ReduceWord(_, _)
ReduceWord(g, a) ==
  IF Shr(a, g.n) = {} THEN a ELSE ReduceWord(g, Xor2(Low(a, g.n), TimesTail(g, Shr(a, g.n), 0)))

ReduceOnce(g, a) == Xor2(Low(a, g.n), TimesTail(g, Shr(a, g.n), 0))
gf2n_reduceOnce(g, xh, xl) == ReduceOnce(g, Xor2(xl, TimesTail(g, xh, g.w - g.n)))

gf2n_reduce(g, xh, xl) == ReduceWord(g, Xor2(xl, TimesTail(g, xh, g.w - g.n)))

(* Products of 16 bits from tables of 8, of 32 from 16. *)
mul16(x, y) == XorParts({<<i, j, Shl(Clmul(Piece(x, i, 8), Piece(y, j, 8)), 8 * (i + j), 64)>> : i, j \in 0..1})
mul32(x, y) == XorParts({<<i, j, Shl(mul16(Piece(x, i, 16), Piece(y, j, 16)), 16 * (i + j), 64)>> : i, j \in 0..1})

(* Karatsuba: c and d are the products of the lower and of the upper       *)
(* halves, t, which is added between them, that of the sums.               *)
Karatsuba(g, c, d, t) == gf2n_reduce(g, Xor2(d, Shr(t, 32)), Xor2(c, Shl(t, 32, 64)))
Halves(g, c, d, m) == Karatsuba(g, c, d, Xor2(Xor2(c, m), d))
ReduceProduct(g, z) == gf2n_reduce(g, Shr(z, 64), Low(z, 64))

(* useC: without the processor's instruction, Karatsuba on halves of 32. *)
gf2n_mul(g, useC, x, y) ==
  IF useC
  THEN Halves(g, mul32(Low(x, 32), Low(y, 32)), mul32(Shr(x, 32), Shr(y, 32)),
                 mul32(Xor2(Low(x, 32), Shr(x, 32)), Xor2(Low(y, 32), Shr(y, 32))))
  ELSE ReduceProduct(g, Clmul(x, y))

(* Squaring spreads the bits. *)
sqr32(x) == {2 * i : i \in x}
gf2n_square(g, x) == gf2n_reduce(g, sqr32(Shr(x, 32)), sqr32(Low(x, 32)))

(* The order of words as numbers. *)
Geq(a, b) == LET d == SymDiff(a, b) IN d = {} \/ Max(d) \in a

(* invert: u and v shrink from the field's polynomial and the element, B   *)
(* and D keep them multiples of the element.  Zero throws.                 *)
RECURSIVE Strip(_, _, _)
Strip(mod, u, B) ==
  IF 0 \in u \/ u = {} THEN <<u, B>>
  ELSE IF 0 \in B THEN Strip(mod, Shr(u, 1), Shr(Xor2(B, mod), 1)) ELSE Strip(mod, Shr(u, 1), Shr(B, 1))

RECURSIVE Euclid(_, _, _)
Euclid(mod, su, sv) ==
  IF su[1] = {} THEN sv[2]
  ELSE IF Geq(su[1], sv[1]) THEN Euclid(mod, Strip(mod, Xor2(su[1], sv[1]), Xor2(su[2], sv[2])), sv)
       ELSE Euclid(mod, su, Strip(mod, Xor2(su[1], sv[1]), Xor2(su[2], sv[2])))

PolynomialOf(g) == {0, g.n} \cup g.t
gf2n_invert(g, x) ==
  IF x = {0} THEN x ELSE Euclid(PolynomialOf(g), <<PolynomialOf(g), {}>>, Strip(PolynomialOf(g), x, {0}))

(* power: negative exponents invert first. *)
gf2n_power(g, useC, x, i) ==
  LET Step(s, b) == [ans |-> IF b = 1 THEN gf2n_mul(g, useC, s.ans, s.t) ELSE s.ans, t |-> gf2n_square(g, s.t)]
      start == IF i < 0 THEN gf2n_invert(g, x) ELSE x
  IN  FoldLeft(Step, [ans |-> {0}, t |-> start], BitsOf(IF i < 0 THEN -i ELSE i)).ans

(* The operations that are one of words, and the ones that mask. *)
gf2n_NOT(g, x)    == Bits(g.n) \ x
gf2n_SHL(g, x, n) == Shl(x, n, g.w) \cap Bits(g.n)
gf2n_SHR(g, x, n) == Shr(x, n)

-----------------------------------------------------------------------------
(* gf2n_long: 128 bits in two lanes of 64. *)

long_init == [n |-> 128, w |-> 128, t1 |-> 7, t |-> {7, 2, 1}]

(* mul128: four products of lanes. *)
Lane(x, i) == Piece(x, i, 64)
mul128(a, b) ==
  XorParts({<<i, j, Shl(Clmul(Lane(a, i), Lane(b, j)), 64 * (i + j), 256)>> : i, j \in 0..1})

(* The bits of the upper word that would leave the word again, the upper   *)
(* t1, are folded first.  With n = 128, l0 is 0 and the others are t.      *)
Folded(g, xh) == Shr(Clmul(xh \ Bits(g.n - g.t1), g.t \cup {0}), g.n - g.t1)
FoldedIn(g, xh, xl, tmp) ==
  Xor2(Xor2(xl, Shl(tmp, g.n - g.t1, g.w)), TimesTail(g, Xor2(Low(xh, g.n - g.t1), Shr(tmp, g.t1)), 0))
long_reduce(g, xh, xl) == FoldedIn(g, xh, xl, Folded(g, xh))
ReduceLanes(g, z) == long_reduce(g, Shr(z, 128), Low(z, 128))
long_mul(g, x, y) == ReduceLanes(g, mul128(x, y))

(* mul_by_bit: the vector product multiplies the lanes as numbers, so that *)
(* a bit, which is in the lower lane, clears the upper one.                *)
NumberLane(x, y) == IF x = {} \/ y = {} THEN {} ELSE IF y = {0} THEN x ELSE y
long_mul_by_bit(x, y) == NumberLane(Lane(x, 0), Lane(y, 0)) \cup
                         {i + 64 : i \in NumberLane(Lane(x, 1), Lane(y, 1))}

-----------------------------------------------------------------------------
(* For reference: multiplication by x^i, one place at a time. *)
RECURSIVE Horner(_, _, _, _, _)
Horner(g, a, b, i, s) ==
  IF i < 0 THEN s
  ELSE IF g.n - 1 \in s
  THEN Horner(g, a, b, i - 1, Xor2(Xor2(Shl(s, 1, g.n), g.t \cup {0}), IF i \in b THEN a ELSE {}))
  ELSE Horner(g, a, b, i - 1, Xor2(Shl(s, 1, g.n), IF i \in b THEN a ELSE {}))
Product(g, a, b) == Horner(g, a, b, g.n - 1, {})
=============================================================================
