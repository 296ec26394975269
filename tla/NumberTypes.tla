----------------------------- MODULE NumberTypes -----------------------------
(***************************************************************************)
(* The secret numbers of programs: sfloat and sfix of src/Compiler/types.py *)
(* and the quotients of src/Compiler/library.py.  A float is its           *)
(* significand v, exponent p, zero flag z and sign s, with the parameters  *)
(* of its class: lengths vlen and plen, kappa, near to round to nearest;   *)
(* a fixed-point number is the integer that stands for it.                 *)
(***************************************************************************)
EXTENDS Comparison, FiniteSets

Pick(b, x, y) == b * x + (1 - b) * y
Float(f, v, p, z, s) == [f EXCEPT !.v = v % P, !.p = Signed(p), !.z = z, !.s = s]

(* add: align to the larger exponent, or ignore the smaller number (d),    *)
(* take the sum or the difference, move its highest bit to the top.        *)
AddFlags(x, y, v, p, z, s) ==
  Float(x, v, ((1 - x.z - y.z + x.z * y.z) * p + x.z * y.p + y.z * x.p) * (1 - z), z,
        (1 - x.z - y.z + x.z * y.z) * s + (y.z - x.z * y.z) * x.s + (x.z - x.z * y.z) * y.s)
AddZeros(x, y, v, p, s, rnd) == AddFlags(x, y, v, p, EQZ(x.variant, v, x.vlen, x.kappa, rnd), s)
AddPlaced(x, y, t, p, s, rnd) ==
  AddZeros(x, y, ((1 - x.z - y.z + x.z * y.z) * t + x.z * y.v + y.z * x.v) % P, p, s, rnd)
AddRounded(x, y, t, pmax, p0, s, rnd) == AddPlaced(x, y, t.v, pmax - (p0 - t.overflow) + 1, s, rnd)
AddToTop(x, y, v, h, pmax, s, rnd) ==
  AddRounded(x, y, IF x.near = 1 THEN TruncRoundNearestAdjustOverflow(x.variant, ToTheTop(h) * v, x.vlen + 3, x.vlen, x.kappa, rnd)
                   ELSE [v |-> Trunc(x.variant, ToTheTop(h) * v, x.vlen + 2, 2, x.kappa, FALSE, rnd), overflow |-> 0],
             pmax, x.vlen + 1 - Total(h), s, After(rnd))
FromTop(u, near) == Reverse(SubSeq(u, near + 2, Len(u)))
AddBits(x, y, v, pmax, s, rnd) ==
  AddToTop(x, y, v, PreOR(x.variant, FromTop(BitDec(v, x.vlen + 2 + x.near, x.vlen + 2 + x.near, x.kappa, rnd), x.near), x.kappa, After(rnd)),
           pmax, s, rnd + 1)
AddShifted(x, y, v, pmax, s, rnd) ==
  AddBits(x, y, Trunc(x.variant, v, 2 * x.vlen + 1 + x.near, x.vlen - 1, x.kappa, FALSE, rnd), pmax, s, After(rnd))
AddAligned(x, y, o, d, pow_delta, rnd) ==
  AddShifted(x, y, ((d * o.vmax + (1 - d) * (o.vmax * pow_delta + (1 - 2 * Xor(x.s, y.s)) * o.vmin)) * 2^(x.vlen + x.near)) ** FInv(pow_delta, rnd),
             o.pmax, o.s, After(rnd))
AddFar(x, y, o, d, rnd) ==
  AddAligned(x, y, o, d, Pow2(x.variant, (1 - d) * (o.pmax - o.pmin), x.vlen + 1 + x.near, x.kappa, rnd), After(rnd))
AddOrdered(x, y, o, rnd) ==
  AddFar(x, y, o, LTZ(x.variant, x.vlen + o.pmin - o.pmax + x.near, x.plen, x.kappa, rnd), After(rnd))
Ordered(x, y, a, b, c) ==
  [pmax |-> Pick(a, y.p, x.p), pmin |-> Pick(a, x.p, y.p), vmax |-> Pick(b, Pick(c, y.v, x.v), Pick(a, y.v, x.v)),
   vmin |-> Pick(b, Pick(c, x.v, y.v), Pick(a, x.v, y.v)), s |-> Pick(b, Pick(c, y.s, x.s), Pick(a, y.s, x.s))]
float_add(x, y, rnd) ==
  AddOrdered(x, y, Ordered(x, y, LTZ(x.variant, x.p - y.p, x.plen, x.kappa, rnd), EQZ(x.variant, x.p - y.p, x.plen, x.kappa, rnd + 1),
                           LTZ(x.variant, x.v - y.v, x.vlen, x.kappa, rnd + 2)), After(rnd))

(* mul: the product has one bit more or not. *)
MulFlags(x, y, v1, b, z, rnd) ==
  Float(x, Trunc(x.variant, b * v1 + v1, x.vlen + 1, 1, x.kappa, FALSE, rnd), (x.p + y.p - b + x.vlen) * (1 - z), z, Xor(x.s, y.s))
MulShortNarrow(x, y, v1, rnd) ==      \* slip: the difference has one bit more than that
  MulFlags(x, y, v1, LTZ(x.variant, v1 - 2^x.vlen, x.vlen, x.kappa, rnd), or_op(x.z, y.z), After(rnd))
MulShort(x, y, v1, rnd) ==
  MulFlags(x, y, v1, LTZ(x.variant, v1 - 2^x.vlen, x.vlen + 1, x.kappa, rnd), or_op(x.z, y.z), After(rnd))
float_mul(x, y, rnd) ==
  MulShort(x, y, IF x.near = 1 THEN TruncRoundNearest(x.variant, x.v * y.v, 2 * x.vlen, x.vlen - 1, x.kappa, rnd)
                 ELSE Trunc(x.variant, x.v * y.v, 2 * x.vlen, x.vlen - 1, x.kappa, FALSE, rnd), After(rnd))

float_neg(x) == [x EXCEPT !.s = (1 - x.s) * (1 - x.z)]
float_sub(x, y, rnd) == float_add(x, float_neg(y), rnd)

(* Comparisons: of exponents, and of signed significands. *)
LessOf(x, y, b1, b2) ==
  (x.z - x.z * y.z) * (1 - y.s) + (y.z - x.z * y.z) * x.s +
  (1 + x.z * y.z - x.z - y.z) * (x.s - x.s * y.s + (1 + x.s * y.s - x.s - y.s) * b1 + x.s * y.s * b2)
LessFlags(x, y, a, c, d) == LessOf(x, y, c * d + a - c * a, c * d + 1 + c * a - c - a)
float_lt(x, y, rnd) ==
  LessFlags(x, y, LTZ(x.variant, x.p - y.p, x.plen, x.kappa, rnd), EQZ(x.variant, x.p - y.p, x.plen, x.kappa, rnd + 1),
            LTZ(x.variant, (1 - 2 * x.s) * x.v - (1 - 2 * y.s) * y.v, x.vlen + 1, x.kappa, rnd + 2))
float_eq(x, y, rnd) ==
  EQZ(x.variant, x.v - y.v, x.vlen, x.kappa, rnd) * EQZ(x.variant, x.p - y.p, x.plen, x.kappa, rnd + 1) *
    (1 - x.s - y.s + 2 * x.s * y.s) * (1 - x.z * y.z) + x.z * y.z

(* From an integer of gamma bits. *)
OfParts(f, r) == Float(f, r.v, r.p, r.z, r.s)
float_of(f, a, gamma, rnd) == OfParts(f, Int2FL(f.variant, a, gamma, f.vlen, f.near, f.kappa, rnd))
float_round(x, mode, rnd) == OfParts(x, FLRound(x, mode, rnd))

-----------------------------------------------------------------------------
(* Fixed point: k bits, f of them behind the point. *)
fix_mul(a, b, k, f, kappa, rnd) == Signed(TruncPr(a * b, 2 * k, f, kappa, rnd))
SignOf(x) == IF x < 0 THEN -1 ELSE 1
cfix_mul(a, b, f) == SignOf(a * b) * ((a * b * SignOf(a * b)) \div 2^f)

(* Quotients of secret numbers: v moves the highest bit of b to the top,   *)
(* 2.9142 - 2c approximates 1/c between 1/2 and 1. *)
SuffixOrs(variant, bits, kappa, rnd) == Reverse(PreOR(variant, Reverse(bits), kappa, rnd))
HighestBit(s) == Total([i \in 1..Len(s) |-> 2^(Len(s) - i) * (s[i] - (IF i = Len(s) THEN 0 ELSE s[i + 1]))])
NormOf(sign, x, acc) == [c |-> x * acc, v |-> sign * acc]
NormOfBits(variant, sign, x, k, kappa, rnd) ==
  NormOf(sign, x, HighestBit(SuffixOrs(variant, BitDec(x, k, k, kappa, rnd), kappa, After(rnd))))
Norm(variant, sign, b, k, kappa, rnd) == NormOfBits(variant, sign, sign * b, k, kappa, rnd)
AppRcrOf(n, k, f, kappa, rnd) ==
  TruncPr((((29142 * 2^k) \div 10000) - 2 * n.c) * n.v, 2 * k, 2 * (k - f), kappa, rnd)
AppRcr(variant, b, k, f, kappa, simplex, rnd) ==
  AppRcrOf(Norm(variant, IF simplex THEN 1 ELSE 1 - 2 * LTZ(variant, b, k + 1, kappa, rnd), b, k, kappa, After(rnd)), k, f, kappa, rnd + 1)
YStep(s, k, f, kappa, rnd) == TruncPr(s.y ** (2^(2 * f) + s.x), 2 * k, 2 * f, kappa, rnd)
GoldschmidtStep(s, k, f, kappa, rnd) ==
  [y |-> YStep(s, k, f, kappa, rnd), x |-> TruncPr(s.x ** s.x, 2 * k, 2 * f, kappa, After(rnd))]
GoldschmidtSteps(s, n, k, f, kappa, rnd) == Fold(LAMBDA t, i : GoldschmidtStep(t, k, f, kappa, After(rnd + i)), s, Upto(n))
FPDivFrom(w, a, b, k, f, kappa, rnd) ==
  YStep(GoldschmidtSteps([x |-> (2^(2 * f) - (b ** w)) % P, y |-> TruncPr(a ** w, 2 * k, f, kappa, rnd)], Rounds(k), k, f, kappa, After(rnd)),
        k, f, kappa, rnd)
FPDiv(variant, a, b, k, f, kappa, simplex, rnd) ==
  Signed(FPDivFrom(AppRcr(variant, b, k, f, kappa, simplex, rnd), a, b, k, f, kappa, After(rnd)))

(* Quotients by a clear number: its reciprocal from the one with the       *)
(* highest bit moved to the top, and Goldschmidt's rounds on clear numbers. *)
LeadingZeros(d, k) == Cardinality({i \in 0..(k - 1) : d < 2^i})
ReciprocalStep(s, k) == [q |-> s.q + ((s.q * s.e) \div 2^k), e |-> (s.e * s.e) \div 2^k]
approximate_reciprocal(d, k, f, theta) ==
  Fold(LAMBDA s, i : ReciprocalStep(s, k), [q |-> 2^k, e |-> 2^k - d * 2^LeadingZeros(d, k)], Upto(theta)).q
    \div 2^(2 * k - 2 * f - LeadingZeros(d, k))
NextW(a, b, f) == [a |-> a, b |-> b, w |-> 2 * 2^f - b]
ClearStep(s, f) == NextW((s.a * s.w) \div 2^f, (s.b * s.w) \div 2^f, f)
SecretStep(s, k, f, kappa, rnd) == NextW(TruncPr(s.a * s.w, 2 * k, f, kappa, rnd), (s.b * s.w) \div 2^f, f)
Absolute(x) == x * SignOf(x)
DivisionStart(a, b, k, f) == [a |-> Absolute(a), b |-> Absolute(b), w |-> approximate_reciprocal(Absolute(b), k, f, Rounds(k))]
cint_cint_division(a, b, k, f) ==
  SignOf(b) * SignOf(a) * Fold(LAMBDA s, i : ClearStep(s, f), DivisionStart(a, b, k, f), Upto(Rounds(k) - 1)).a
sint_cint_division(a, b, k, f, kappa, rnd) ==
  SignOf(b) * SignOf(a) * Signed(Fold(LAMBDA s, i : SecretStep(s, k, f, kappa, After(rnd + i)), DivisionStart(a, b, k, f), Upto(Rounds(k) - 1)).a)
=============================================================================
