---------------------------- MODULE ProtocolCalls ----------------------------
(***************************************************************************)
(* Calls of the compiler's protocols on secret numbers: comparisons, and   *)
(* floating-point and fixed-point numbers, with every number and masks of  *)
(* small lengths.                                                          *)
(***************************************************************************)
EXTENDS Integers, Sequences, Calls

CONSTANTS SmallPrime, LargePrime, Kappa,
          Lengths,      \* lengths of integers
          Draws         \* random numbers for the longer protocols

ASSUME PrimesAssumption == \A p \in {SmallPrime, LargePrime} : p \in 3..(2^20 - 1) /\ \A d \in 2..1023 : p % d # 0 \/ p = d

N == INSTANCE NumberTypes WITH P <- SmallPrime
W == INSTANCE NumberTypes WITH P <- LargePrime

BitNumber(a, k) == [i \in 1..k |-> (a \div 2^(i - 1)) % 2]
Flag(b) == IF b THEN 1 ELSE 0
Size(x) == IF x < 0 THEN -x ELSE x

-----------------------------------------------------------------------------
(* Comparisons, remainders and shifts by known numbers of places. *)
Compare(v, k, a, rnd) ==
  [ltz |-> N!LTZ(v, a, k, Kappa, rnd), shift |-> [m \in 0..(k - 1) |-> N!Signed(N!Trunc(v, a, k, m, Kappa, a < 0, rnd))],
   mod |-> [m \in 1..(k - 1) |-> N!Mod2m(v, a, k, m, Kappa, a < 0, rnd)],
   near |-> [m \in 1..(k - 1) |-> IF a < 0 THEN 0 ELSE N!TruncRoundNearest(v, a, k, m, Kappa, rnd)]]
CallCompare ==
  \E v \in N!variants, k \in Lengths : \E a \in -(2^(k - 1))..(2^k - 1), rnd \in 0..(2^(k + Kappa - 1) - 1) :
    Called("compare", [k |-> k, a |-> a], Compare(v, k, a, rnd))

(* Bits, zeros, prefixes, and shifts by secret numbers of places. *)
Decompose(v, k, a, rnd) ==
  [zero |-> <<N!EQZ(v, a, k, Kappa, rnd), N!EQZ(v, -a, k, Kappa, rnd)>>, bits |-> N!BitDec(a, k, k, Kappa, rnd),
   inverse |-> N!FInv(a + 1, rnd), or |-> N!PreOR(v, BitNumber(a, k), Kappa, rnd),
   long_or |-> N!PreOR(v, BitNumber(a, k) \o BitNumber(a, k), 11, rnd),
   mod |-> [m \in 0..(k - 1) |-> N!ObliviousMod(v, a, k, m, Kappa, rnd)],
   shift |-> [m \in 0..(k - 1) |-> N!ObliviousTrunc(v, a, k, m, Kappa, rnd)]]
CallDecompose ==
  \E v \in N!variants, k \in 1..4 : \E a \in 0..(2^k - 1), rnd \in Draws :
    Called("decompose", [k |-> k, a |-> a], Decompose(v, k, a, rnd))

(* The comparisons of this code: of numbers of k bits, and of bits.        *)
(* Whatever the variant and the mask, sign, quotient, remainder, rounding, *)
(* bits and prefixes are those of the number (comparison.py:76,            *)
(* comparison.py:145, floatingpoint.py:33, floatingpoint.py:303).          *)
ComparisonsRight ==
  /\ call.fn = "compare" =>
       LET a == call.in.a  k == call.in.k  got == call.got IN
       /\ a < 2^(k - 1) => got.ltz = Flag(a < 0)
       /\ \A m \in 1..(k - 1) : got.shift[m] = a \div 2^m /\ got.mod[m] = a % 2^m
       /\ a >= 0 => \A m \in 1..(k - 1) : got.near[m] = (a + 2^(m - 1)) \div 2^m
  /\ call.fn = "decompose" =>
       LET a == call.in.a  k == call.in.k  got == call.got IN
       /\ got.zero = <<Flag(a = 0), Flag(a = 0)>> /\ got.bits = BitNumber(a, k)
       /\ (got.inverse * (a + 1)) % SmallPrime = 1
       /\ \A i \in 1..k : got.or[i] = Flag(a % 2^i # 0)
       /\ \A i \in 1..(2 * k) : got.long_or[i] = Flag((a * (2^k + 1)) % 2^i # 0)
       /\ \A m \in 0..(k - 1) : got.mod[m] = [b |-> a % 2^m, pow2 |-> 2^m] /\ got.shift[m] = a \div 2^m

-----------------------------------------------------------------------------
(* Floats of three bits and their sums, products, comparisons, roundings. *)
Zero(v, near) == [variant |-> v, vlen |-> 3, plen |-> 4, kappa |-> Kappa, near |-> near, v |-> 0, p |-> 0, z |-> 1, s |-> 0]
Floats(v, near) ==
  {Zero(v, near)} \cup {[Zero(v, near) EXCEPT !.v = m, !.p = p, !.z = 0, !.s = s] : m \in 4..7, p \in {-4, -2, -1, 0, 1}, s \in {0, 1}}
FloatOps(x, y, rnd) ==
  [sum |-> N!float_add(x, y, rnd), product |-> N!float_mul(x, y, rnd),
   less |-> N!float_lt(x, y, rnd), equal |-> N!float_eq(x, y, rnd)]
CallFloat ==
  \E near \in {0, 1} : \E x, y \in Floats("log", near) :
    Called("float", [x |-> x, y |-> y], FloatOps(x, y, 77 + 8 * x.v + y.v))
CallRound ==
  \E v \in N!variants, near \in {0, 1}, rnd \in Draws, mode \in {-1, 0, 1} :
    \/ \E x \in Floats(v, near) : Called("round", [x |-> x, mode |-> mode],
           [integer |-> N!float_round(x, mode, rnd), cancelled |-> N!float_sub(x, x, rnd)])
    \/ mode = 0 /\ \E a \in -31..31 : Called("float_of", [a |-> a], N!float_of(Zero(v, near), a, 6, rnd))

(* Fixed-point numbers of 6 bits, 3 of them behind the point, and of 8     *)
(* bits for the quotients that are found in more rounds. *)
CallFixed ==
  \E rnd \in Draws :
    \/ \E a, b \in -16..16 :
         Called("fix", [a |-> a, b |-> b, f |-> 3], <<N!fix_mul(a, b, 6, 3, Kappa, rnd), N!cfix_mul(a, b, 3)>>)
    \/ \E a \in {-9, -8, 1, 8, 11, 20}, b \in (-12..20) \ {0} :
         Called("quotient", [a |-> a * 2^3, b |-> b, error |-> 3 + (Size(a) \div Size(b))],
                {N!FPDiv("log", a, b, 6, 3, Kappa, FALSE, rnd), IF b > 0 THEN N!FPDiv("log", a, b, 6, 3, Kappa, TRUE, rnd) ELSE (8 * a) \div b})
    \/ \E a \in {-9, 1, 8, 12, 16, 20, 40}, b \in (-40..127) \ {0} :
         Called("quotient", [a |-> a * 2^4, b |-> b, error |-> 3 + (Size(a) \div Size(b))],
                {W!cint_cint_division(a, b, 8, 4), W!sint_cint_division(a, b, 8, 4, Kappa, rnd)})
    \/ \E a \in {128, 170, 255}, b \in 128..255 :
         Called("quotient", [a |-> a * 2^8, b |-> b, error |-> 3], {W!SDiv("log", a, b, 8, Kappa, rnd)})

Value(x) == (1 - 2 * x.s) * (1 - x.z) * x.v * 2^(x.p + 12)        \* times 2^12
Normal(x) == IF x.z = 1 THEN x.v = 0 /\ x.p = 0 ELSE x.z = 0 /\ x.v \in 2^(x.vlen - 1)..(2^x.vlen - 1) /\ x.s \in {0, 1}
(* x stands for the value exact with less than one unit of the last place of x, *)
(* or with at most half of one if it rounds to the nearest. *)
Stands(x, exact) ==
  Normal(x) /\ IF x.z = 1 THEN exact = 0 ELSE (1 + x.near) * Size(Value(x) - exact) <= 2^(x.p + 12) - 1 + x.near
Integral(x) == (x \div 2^12) * 2^12

(* Floating-point and fixed-point numbers: every result is normalized and  *)
(* as near to the exact one as the last place, or half of it, allows;      *)
(* comparisons and roundings to integers are exact; quotients by           *)
(* approximation are off by a bounded number of last places (types.py:2072, *)
(* types.py:2149, types.py:2197, floatingpoint.py:375, library.py:1267).   *)
NumbersRight ==
  /\ call.fn = "float" =>
       LET x == call.in.x  y == call.in.y  got == call.got IN
       /\ Stands(got.sum, Value(x) + Value(y))
       /\ Normal(got.product) /\ got.product.z = 1 <=> (x.z = 1 \/ y.z = 1)
       /\ LET exact == ((1 - 2 * x.s) * x.v * (1 - 2 * y.s) * y.v) * 2^(x.p + y.p + 12) IN
          got.product.z = 0 => Size(Value(got.product) - exact) <= 2^(got.product.p + 12) - 1 + x.near
       /\ got.less = Flag(Value(x) < Value(y)) /\ got.equal = Flag(Value(x) = Value(y))
  /\ call.fn = "round" =>
       LET x == call.in.x  down == Integral(Value(x))  up == -Integral(-Value(x)) IN
       /\ Normal(call.got.integer) /\ Stands(call.got.cancelled, 0)
       /\ Value(call.got.integer) = IF call.in.mode = 0 \/ (call.in.mode = -1 /\ x.s = 0) THEN down ELSE up
  /\ call.fn = "float_of" => Stands(call.got, call.in.a * 2^12)
  /\ call.fn = "fix" =>
       LET exact == call.in.a * call.in.b IN
       /\ call.got[1] \in {exact \div 2^3, (exact \div 2^3) + 1}
       /\ Size(call.got[2]) = Size(exact) \div 2^3 /\ call.got[2] * exact >= 0
  /\ call.fn = "quotient" =>
       \A q \in call.got : Size(q * call.in.b - call.in.a) <= call.in.error * Size(call.in.b)

ProtocolCall ==
  (Chosen(2) /\ (CallCompare \/ CallFixed)) \/ (Chosen(3) /\ CallFloat) \/ (Chosen(4) /\ (CallDecompose \/ CallRound))
=============================================================================
