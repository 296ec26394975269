------------------------------ MODULE Comparison ------------------------------
(***************************************************************************)
(* The protocols of src/Compiler/comparison.py and floatingpoint.py on the *)
(* values that the registers hold: a secret or clear register is its       *)
(* number modulo P, an opening makes a secret known, and lists of the code *)
(* begin with 1 here.  What the offline phase draws at random is a         *)
(* function of the number rnd that a call gets: its binary digits are the  *)
(* random bits.                                                            *)
(* The high part of a mask has its highest bit set: a smaller one, which   *)
(* comes with probability 2^-kappa, may not lift a negative number.        *)
(***************************************************************************)
EXTENDS Lists, SequencesExt

CONSTANT P          \* the prime, below 2^20 so that products fit into TLC's integers

(* The product modulo P; exact quotients; the number that a residue means. *)
Product2(x, y) == IF P < 46341 THEN (x * y) % P ELSE (((x * (y \div 1024)) % P) * 1024 + x * (y % 1024)) % P
x ** y == Product2(x % P, y % P)
RECURSIVE ToThe(_, _)
Square(x) == x ** x
ToThe(x, n) == IF n = 0 THEN 1 ELSE IF n % 2 = 0 THEN Square(ToThe(x, n \div 2)) ELSE x ** ToThe(x, n - 1)
Reciprocal(x)  == ToThe(x, P - 2)
Over(x, y)  == x ** Reciprocal(y)
Halved(x)   == x ** ((P + 1) \div 2)
Signed(x)   == IF x % P > P \div 2 THEN (x % P) - P ELSE x % P

(* The random data of the next protocol that a protocol calls. *)
After(rnd) == (rnd * 167 + 89) % 8191
Digit(x, i) == (x \div 2^i) % 2
Units(n, rnd) == Listed([i \in 1..n |-> 1 + ((rnd * 31 + i * i * 17 + i) % (P - 1))])

variants == {"log", "plain", "inv", "sinv"}
const_rounds(variant) == variant # "log"

(* The bits of r, its lower m of them as a number, and the others. *)
PRandInt(rnd, k) == IF k = 0 THEN 0 ELSE 2^(k - 1) + (rnd % 2^(k - 1))
PRandM(rnd, k, m, kappa) ==
  [b |-> Listed([i \in 1..m |-> Digit(rnd, i - 1)]), prime |-> rnd % 2^m,
   dprime |-> PRandInt(rnd \div 2^m, k + kappa - m)]

(* The value to open: made positive if it has a sign, and masked. *)
Masked(r, a, k, m, signed) == (2^m * r.dprime + a + (IF signed THEN 2^(k - 1) ELSE 0) + r.prime) % P

Xor(a, b) == a + b - 2 * a * b
Mod2(a, k, kappa, signed, rnd) ==
  IF k <= 1 THEN a % P
  ELSE LET r == PRandM(rnd, k, 1, kappa) IN Xor(r.b[1], Masked(r, a, k, 1, signed) % 2) % P

-----------------------------------------------------------------------------
(* Products of all prefixes.  For each of the n factors a random unit over *)
(* the one before, which is what is opened times the factor, and its       *)
(* inverse: from inverse pairs, or from products of two random units.      *)
InverseFactors(r) ==
  Listed([i \in 1..Len(r) |-> <<IF i = 1 THEN r[1] ELSE r[i] ** Reciprocal(r[i - 1]), Reciprocal(r[i])>>])
PlainFactors(s, r) ==
  Listed([i \in 1..Len(r) |-> <<IF i = 1 THEN r[1] ELSE Over(r[i] ** s[i - 1], s[i - 1] ** r[i - 1]), Over(s[i], s[i] ** r[i])>>])
Factors(variant, n, rnd) ==
  IF variant = "plain" THEN PlainFactors(Units(n, rnd), Units(n, rnd + 5)) ELSE InverseFactors(Units(n, rnd))

PrefixProducts(m) == Fold(LAMBDA c, x : Append(c, Last(c) ** x), <<m[1]>>, Tail(m))
Opened(a, f) == PrefixProducts(Listed([i \in 1..Len(a) |-> f[i][1] ** a[i]]))
PreMulC_end(a, f, c) == Listed([j \in 1..Len(a) |-> IF j = 1 THEN a[1] ELSE f[j][2] ** c[j]])
PreMulOf(a, f) == PreMulC_end(a, f, Opened(a, f))
PreMulC(variant, a, rnd) == PreMulOf(a, Factors(variant, Len(a), rnd))

(* Only the last product; with one factor the plain variant has no z. *)
KMulOf(a, f) == f[Len(a)][2] ** Last(Opened(a, f))
KMulC(variant, a, rnd) == KMulOf(a, Factors(variant, Len(a), rnd))

-----------------------------------------------------------------------------
(* The bits of a clear register: take the last, subtract, halve. *)
ClearBits(a, k) ==
  LET c == Fold(LAMBDA s, i : Append(s, Halved(Last(s) - (Last(s) % 2))), <<a>>, Upto(k - 1))
  IN  Listed([i \in 1..k |-> c[i] % 2])

(* a < b for a clear number and secret bits, in a constant number of rounds: *)
(* the prefix products drop where the first difference from the top is.      *)
Differences(a_bits, b) == Listed([i \in 1..Len(b) |-> Xor(b[i], a_bits[i])])
Descending(variant, d, rnd) == Reverse(PreMulC(variant, Reverse(Listed([i \in 1..Len(d) |-> d[i] + 1])), rnd))
Drops(a_bits, p) ==
  Total([i \in 1..Len(p) |-> (p[i] - (IF i = Len(p) THEN 1 ELSE p[i + 1])) * (1 - a_bits[i])])
BitsLT(variant, a_bits, b, rnd) == Drops(a_bits, Descending(variant, Differences(a_bits, b), rnd))
BitLTC1(variant, a, b, kappa, rnd) ==
  Mod2(BitsLT(variant, ClearBits(a, Len(b)), b, rnd) % P, Len(b), kappa, FALSE, After(rnd))

(* Carries of an addition; None stands for a place that is not there. *)
None == <<>>
carry(b, a, compute_p) ==
  IF a = None THEN b
  ELSE IF b = None THEN a
  ELSE <<IF compute_p THEN a[1] * b[1] ELSE 0, a[2] + a[1] * b[2]>>

CarryPairs(r) == Reverse(Listed([i \in 1..(Len(r) \div 2) |-> carry(r[2 * i], r[2 * i - 1], i # Len(r) \div 2)]))
RECURSIVE CarryOutAux(_)
CarryOutAux(a) ==
  IF Len(a) = 1 THEN a[1][2]
  ELSE CarryOutAux(CarryPairs(Reverse(IF Len(a) % 2 = 1 THEN Append(a, None) ELSE a)))

PropagateGenerate(a, b) == Listed([i \in 1..Len(a) |-> <<Xor(a[i], b[i]), b[i] * a[i]>>])
WithCarry(d, c) == [d EXCEPT ![Len(d)][2] = @ + d[Len(d)][1] * c]
CarryOut(a, b, c) == CarryOutAux(Reverse(WithCarry(PropagateGenerate(a, b), c)))

(* The same in a logarithmic number of rounds: the carry of a + not b + 1. *)
BitLTL(a, b) ==
  1 - CarryOut(Reverse(ClearBits(a, Len(b))), Reverse(Listed([i \in 1..Len(b) |-> 1 - b[i]])), 1)

BitLT(variant, a, b, kappa, rnd) ==
  IF const_rounds(variant) THEN BitLTC1(variant, a, b, kappa, rnd) ELSE BitLTL(a, b)

-----------------------------------------------------------------------------
(* Remainder, quotient and sign of a secret number of k bits. *)
Unmasked(variant, r, c_prime, m, kappa, rnd) ==
  (c_prime - r.prime + 2^m * BitLT(variant, c_prime, r.b, kappa, rnd)) % P
Unborrowed(variant, r, c_prime, m, kappa, rnd) == (c_prime - r.prime) % P
Mod2mNoBorrow(variant, a, k, m, kappa, signed, rnd) ==        \* slip: the borrow is not added
  IF m >= k THEN a % P
  ELSE LET r == PRandM(rnd, k, m, kappa)
       IN  Unborrowed(variant, r, Masked(r, a, k, m, signed) % 2^m, m, kappa, After(rnd))
Mod2m(variant, a, k, m, kappa, signed, rnd) ==
  IF m >= k THEN a % P
  ELSE LET r == PRandM(rnd, k, m, kappa)
       IN  Unmasked(variant, r, Masked(r, a, k, m, signed) % 2^m, m, kappa, After(rnd))

Trunc(variant, a, k, m, kappa, signed, rnd) ==
  IF m = 0 THEN a % P
  ELSE Over(a - (IF m = 1 THEN Mod2(a, k, kappa, signed, rnd) ELSE Mod2m(variant, a, k, m, kappa, signed, rnd)), 2^m)

LTZ(variant, a, k, kappa, rnd) == (0 - Trunc(variant, a, k, k - 1, kappa, TRUE, rnd)) % P

(* To the nearest: the bit below the last one that stays is added.  u says *)
(* whether what is below it borrows, xor and the last random bit whether   *)
(* the bit itself does. *)
Rounded(a, r, c, m, u, bit, xor, prod) ==
  (Over(a - ((c % 2^m) - r.prime + 2^m * (bit * u + u - 2 * bit * u + r.b[m] - prod)), 2^m) + xor + r.b[m] - 2 * prod) % P
WithXor(a, r, c, m, u, bit, xor) == Rounded(a, r, c, m, u, bit, xor, xor * r.b[m])
WithBit(a, r, c, m, u, bit) == WithXor(a, r, c, m, u, bit, Xor(bit, u))
RoundNearest(variant, a, r, c, m, kappa, rnd) ==
  WithBit(a, r, c, m, BitLT(variant, c % 2^(m - 1), Front(r.b), kappa, rnd),
          ((c - (c % 2^(m - 1))) \div 2^(m - 1)) % 2)
TruncRoundNearest(variant, a, k, m, kappa, rnd) ==
  IF m = 1 THEN Over(a + Mod2(a, k, kappa, FALSE, rnd), 2)
  ELSE LET r == PRandM(rnd, k, m, kappa)
       IN  RoundNearest(variant, a, r, Masked(r, a, k, m, TRUE), m, kappa, After(rnd))

-----------------------------------------------------------------------------
(* Floating-point steps (src/Compiler/floatingpoint.py): secret bits,       *)
(* shifts by a secret number of places, powers of two, roundings, and       *)
(* quotients by multiplication.                                             *)

CeilLog2(n) == CHOOSE e \in 0..20 : 2^e >= n /\ \A d \in 0..(e - 1) : 2^d < n
FloorLog2(n) == CHOOSE e \in 0..20 : 2^e <= n /\ n < 2^(e + 1)

or_op(a, b) == a + b - a * b
Carried(b, a, compute_p) == <<IF compute_p THEN a[1] * b[1] ELSE 0, a[2] + a[1] * b[2]>>
Applied(op, x, y, inner) == CASE op = "or" -> or_op(x, y)
                              [] op = "mul" -> x ** y
                              [] op = "carry" -> Carried(x, y, inner)

(* All prefixes in a logarithmic number of rounds: in round i every place  *)
(* whose bit i is set takes in the last place before its half.             *)
PreOpRound(op, s, i) ==
  Listed([n \in 1..Len(s) |-> IF Digit(n - 1, i) = 0 THEN s[n]
                              ELSE Applied(op, s[((n - 1) \div 2^i) * 2^i], s[n], n > 2^(i + 1))])
PreOpL(op, s) == Fold(LAMBDA t, i : PreOpRound(op, t, i - 1), s, Upto(CeilLog2(Len(s))))

(* All prefix ors in a constant number of rounds, from the parities of the *)
(* products of bits plus one; a long list in parts that fit into P.        *)
max_k(kappa) == FloorLog2(P) - kappa
Parities(b, k, m, kappa, rnd) == Listed([n \in 1..m |-> 1 - Mod2(b[k - m + n], k, kappa, FALSE, rnd + n)])
Plus1(a) == Listed([i \in 1..Len(a) |-> a[i] + 1])
Chunks(a, size) ==
  Listed([c \in 1..((Len(a) + size - 1) \div size) |-> SubSeq(a, (c - 1) * size + 1, IF c * size < Len(a) THEN c * size ELSE Len(a))])
Joined(s, t) ==
  Fold(LAMBDA whole, c : whole \o Listed([i \in 1..Len(s[c]) |-> or_op(s[c][i], t[c - 1])]), s[1], [c \in 1..(Len(s) - 1) |-> c + 1])
PreORShort(variant, a, m, kappa, rnd) ==
  IF Len(a) = 1 THEN a ELSE Parities(PreMulC(variant, Plus1(a), rnd), Len(a), m, kappa, After(rnd))
PreORParts(variant, s, kappa, rnd) ==
  Joined(s, PreORShort(variant, Listed([c \in 1..(Len(s) - 1) |-> Last(s[c])]), Len(s) - 1, kappa, After(rnd)))
PreORC(variant, a, m, kappa, rnd) ==
  IF Len(a) <= max_k(kappa) THEN PreORShort(variant, a, m, kappa, rnd)
  ELSE LET chunks == Chunks(a, max_k(kappa))
       IN  PreORParts(variant, Listed([c \in 1..Len(chunks) |-> PreORShort(variant, chunks[c], Len(chunks[c]), kappa, rnd + c)]), kappa, rnd)
PreOR(variant, a, kappa, rnd) ==
  IF const_rounds(variant) THEN PreORC(variant, a, Len(a), kappa, rnd) ELSE PreOpL("or", a)

(* One result for all of a list, from its halves. *)
RECURSIVE KOpL(_, _)
KOpL(op, a) ==
  IF Len(a) = 1 THEN a[1]
  ELSE Applied(op, KOpL(op, SubSeq(a, 1, Len(a) \div 2)), KOpL(op, SubSeq(a, Len(a) \div 2 + 1, Len(a))), TRUE)
KOR(variant, a, kappa, rnd) ==
  IF const_rounds(variant) THEN PreORC(variant, a, 1, kappa, rnd)[1] ELSE KOpL("or", a)
KMul(variant, a, rnd) == IF const_rounds(variant) THEN KMulC(variant, a, rnd) ELSE KOpL("mul", a)

-----------------------------------------------------------------------------
(* Is a zero?  A masked a is opened, and equals the mask in every bit. *)
XorBits(c, r) == Listed([i \in 1..Len(r) |-> Xor(c[i], r[i])])
EqualsMask(variant, a, r, k, kappa, rnd) ==
  1 - KOR(variant, XorBits(ClearBits(Masked(r, a, k, k, FALSE), k), r.b), kappa, rnd)
EQZ(variant, a, k, kappa, rnd) == EqualsMask(variant, a, PRandM(rnd, k, k, kappa), k, kappa, After(rnd))

FInv(a, rnd) == LET t == 1 + (rnd % (P - 1)) IN Reciprocal(t ** a) ** t

(* The sum of two numbers in bits, and the bits of a from the sum of the   *)
(* bits of a masked a and of the mask. *)
Carries(a, b) ==
  PreOpL("carry", Listed([i \in 1..Len(a) |-> IF i = 1 THEN <<0, a[1] * b[1]>> ELSE <<Xor(a[i], b[i]), a[i] * b[i]>>]))
SumBits(a, b, c) ==
  Listed([i \in 1..(Len(a) + 1) |->
            IF i = 1 THEN a[1] + b[1] - 2 * c[1][2]
            ELSE IF i > Len(a) THEN c[Len(a)][2] ELSE a[i] + b[i] + c[i - 1][2] - 2 * c[i][2]])
BitAdd(a, b) == SumBits(a, b, Carries(a, b))
BitsFrom(r, a, k, m, kappa) ==
  Front(BitAdd(ClearBits((2^(k + kappa) + 2^k + a - 2^m * r.dprime - r.prime) % P, m), r.b))
BitDec(a, k, m, kappa, rnd) == BitsFrom(PRandM(rnd, k, m, kappa), a, k, m, kappa)

(* 2^a for a secret a < l, and the unary form of a: a ones and then zeros. *)
Pow2Of(variant, t, rnd) == KMul(variant, Listed([i \in 1..Len(t) |-> t[i] * 2^(2^(i - 1)) + 1 - t[i]]), rnd)
Pow2(variant, a, l, kappa, rnd) == Pow2Of(variant, BitDec(a, CeilLog2(l), CeilLog2(l), kappa, rnd), After(rnd))
Complement(y) == Listed([i \in 1..Len(y) |-> 1 - y[i]])
Ones(variant, pow2a, r, t, l, kappa, rnd) ==
  Complement(PreOR(variant, XorBits(ClearBits((pow2a + 2^l * t + r.prime) % P, l), r.b), kappa, rnd))
B2UOf(variant, pow2a, l, kappa, rnd) ==
  [x |-> Ones(variant, pow2a, PRandM(rnd, l, l, 0), PRandInt(After(rnd), kappa), l, kappa, rnd), pow2 |-> pow2a]
B2U(variant, a, l, kappa, rnd) == B2UOf(variant, Pow2(variant, a, l, kappa, rnd), l, kappa, After(rnd))

(* a modulo 2^m, and a shifted by m, for a secret m < l. *)
LowMask(u, r)  == Total([i \in 1..Len(r) |-> 2^(i - 1) * r[i] * u.x[i]])
HighMask(u, r) == Total([i \in 1..Len(r) |-> 2^(i - 1) * r[i] * (1 - u.x[i])])
LowOpened(u, c, l) == Total([i \in 1..(l - 1) |-> (c % 2^i) * (u.x[i] - u.x[i + 1])])
Lowest(variant, u, low, mask, l, kappa, rnd) == low - mask + u.pow2 * LTZ(variant, low - mask, l, kappa, rnd)
Shifted(variant, a, u, low, mask, l, kappa, rnd) ==
  ((a - low + mask) ** FInv(u.pow2, rnd) - LTZ(variant, low - mask, l, kappa, rnd)) % P
TruncModulo(variant, a, u, r, l, kappa, rnd) ==
  Lowest(variant, u, LowOpened(u, (a + HighMask(u, r) + 2^l * PRandInt(rnd, kappa) + LowMask(u, r)) % P, l), LowMask(u, r), l, kappa, After(rnd))
TruncShift(variant, a, u, r, l, kappa, rnd) ==
  Shifted(variant, a, u, LowOpened(u, (a + HighMask(u, r) + 2^l * PRandInt(rnd, kappa) + LowMask(u, r)) % P, l), LowMask(u, r), l, kappa, After(rnd))
ModuloOf(variant, a, u, l, kappa, rnd) ==
  [b |-> TruncModulo(variant, a, u, PRandM(rnd, l, l, 0).b, l, kappa, After(rnd)) % P, pow2 |-> u.pow2]
ObliviousMod(variant, a, l, m, kappa, rnd) ==
  IF l = 1 THEN [b |-> (a * m) % P, pow2 |-> 1 + m] ELSE ModuloOf(variant, a, B2U(variant, m, l, kappa, rnd), l, kappa, rnd + 1)
ObliviousTrunc(variant, a, l, m, kappa, rnd) ==
  IF l = 1 THEN (a * (1 - m)) % P
  ELSE TruncShift(variant, a, B2U(variant, m, l, kappa, rnd), PRandM(rnd + 1, l, l, 0).b, l, kappa, After(rnd + 1))

-----------------------------------------------------------------------------
(* To a float of l bits: rounded, and halved if the rounding carries. *)
GreaterEqual(variant, x, y, k, kappa, rnd) == 1 - LTZ(variant, x - y, k, kappa, rnd)
Adjusted(t, overflow) == [v |-> ((1 - overflow) * t + overflow * Halved(t)) % P, overflow |-> overflow]
AdjustOverflow(variant, t, target, kappa, rnd) ==
  Adjusted(t, GreaterEqual(variant, t, 2^target, target + 1, kappa, rnd))
TruncRoundNearestAdjustOverflow(variant, a, length, target, kappa, rnd) ==
  AdjustOverflow(variant, TruncRoundNearest(variant, a, length, length - target, kappa, rnd), target, kappa, After(rnd))

(* The factor that moves the highest bit to the top, from the prefix ors of *)
(* the bits from the top; they also count the zeros above it. *)
ToTheTop(h) == 1 + Total([i \in 1..Len(h) |-> 2^(i - 1) * (1 - h[i])])
Significand(variant, t, gamma, l, near, kappa, rnd) ==
  IF gamma - 1 <= l THEN [v |-> 2^(l - gamma + 1) * t, overflow |-> 0]
  ELSE IF near = 1 THEN TruncRoundNearestAdjustOverflow(variant, t, gamma - 1, l, kappa, rnd)
  ELSE [v |-> Trunc(variant, t, gamma - 1, gamma - l - 1, kappa, FALSE, rnd), overflow |-> 0]
FloatOf(v, b, s, z, gamma, l) ==
  [v |-> v.v, p |-> (Total(b) - (gamma - 1) + v.overflow + gamma - 1 - l) * (1 - z), z |-> z, s |-> s]
Normalized(variant, a, b, s, z, gamma, l, near, kappa, rnd) ==
  FloatOf(Significand(variant, a * ToTheTop(b), gamma, l, near, kappa, rnd), b, s, z, gamma, l)
Magnitude(variant, a, s, z, gamma, l, near, kappa, rnd) ==
  Normalized(variant, a, PreOR(variant, Reverse(BitDec(a, gamma - 1, gamma - 1, kappa, rnd)), kappa, rnd), s, z, gamma, l, near, kappa, After(rnd))
SignedMagnitude(variant, a, s, z, gamma, l, near, kappa, rnd) ==
  Magnitude(variant, (1 - 2 * s) * a, s, z, gamma, l, near, kappa, rnd)
Int2FL(variant, a, gamma, l, near, kappa, rnd) ==
  SignedMagnitude(variant, a, LTZ(variant, a, gamma, kappa, rnd), EQZ(variant, a, gamma, kappa, rnd + 1), gamma, l, near, kappa, After(rnd))

(* Rounding of a float x to an integer: mode 0 down, 1 up, -1 to zero.  a: *)
(* has places behind the point, b: only such places, low: their value, c:  *)
(* they are zero, d: the rounding carries. *)
Placed(x, a, b, d, away, mode, v, z) ==
  [v |-> v * (1 - z), p |-> ((x.p + d * a) * (1 - b) + b * away * (1 - x.vlen)) * (1 - z), z |-> z, s |-> (1 - b * mode) * x.s]
Resized(x, a, b, d, away, mode, v, rnd) ==
  Placed(x, a, b, d, away, mode, v, or_op(EQZ(x.variant, v, x.vlen, x.kappa, rnd), x.z))
Recarried(x, a, b, d, away, mode, v, rnd) ==
  Resized(x, a, b, d, away, mode,
          a * ((1 - b) * (d * 2^(x.vlen - 1) + (1 - d) * v) + b * away * 2^(x.vlen - 1)) + (1 - a) * x.v, rnd)
Carry1(x, a, b, away, mode, v, rnd) ==
  Recarried(x, a, b, EQZ(x.variant, v - 2^x.vlen, x.vlen + 1, x.kappa, rnd), away, mode, Signed(v), After(rnd))
Away(x, a, b, low, c, away, mode, rnd) == Carry1(x, a, b, away, mode, x.v - low.b + (1 - c) * low.pow2 * away, rnd)
RoundedUp(x, a, b, low, c, mode, rnd) ==
  IF mode = -1 THEN Away(x, a, b, low, c, 0, x.s, rnd) ELSE Away(x, a, b, low, c, Xor(mode, x.s), mode, rnd)
Lowered(x, a, b, low, mode, rnd) ==
  RoundedUp(x, a, b, low, EQZ(x.variant, low.b, x.vlen, x.kappa, rnd), mode, After(rnd))
Pointed(x, a, b, mode, rnd) ==
  Lowered(x, a, b, ObliviousMod(x.variant, x.v, x.vlen, -a * (1 - b) * x.p, x.kappa, rnd), mode, After(rnd))
FLRound(x, mode, rnd) ==
  Pointed(x, LTZ(x.variant, x.p, x.plen, x.kappa, rnd), LTZ(x.variant, x.p - (1 - x.vlen), x.plen, x.kappa, rnd), mode, After(rnd))

-----------------------------------------------------------------------------
(* a / 2^m, rounded down or up, depending on the mask. *)
Approximately(a, r, c, m) == Over(a - ((c % 2^m) - r.prime), 2^m)
TruncPrOf(a, r, k, m) == Approximately(a, r, Masked(r, a, k, m, TRUE), m)
TruncPr(a, k, m, kappa, rnd) == TruncPrOf(a, PRandM(rnd, k, m, kappa), k, m)

(* Quotients of numbers of l bits by Goldschmidt's method: y tends to the  *)
(* quotient, x to zero; x is kept in two parts. *)
Rounds(l) == CHOOSE t \in 0..5 : 7 * 2^t >= 2 * l /\ (t = 0 \/ 7 * 2^(t - 1) < 2 * l)
Parted(x, x2, y, l) == [x2 |-> x2, x1 |-> Over(x - x2, 2^l), y |-> y]
PartsOf(variant, x, y, k, l, kappa, rnd) == Parted(x, Mod2m(variant, x, k, l, kappa, FALSE, rnd), y, l)
SDivStart(variant, a, b, w, l, kappa, rnd) ==
  PartsOf(variant, 2^(2 * l) - b * w, TruncPr(a * w, 2 * l, l, kappa, rnd), 2 * l + 1, l, kappa, After(rnd))
YTimes(s, l, kappa, rnd) == s.y ** (s.x1 + 2^l) + TruncPr(s.y ** s.x2, 2 * l, l, kappa, rnd)
XSquare(s, l, kappa, rnd) ==
  s.x1 ** s.x1 + TruncPr((s.x1 ** s.x2 + TruncPr(s.x2 ** s.x2, 2 * l + 1, l + 1, kappa, rnd)) % P, 2 * l + 1, l - 1, kappa, After(rnd))
SDivStep(variant, s, l, kappa, rnd) ==
  PartsOf(variant, XSquare(s, l, kappa, rnd) % P, TruncPr(YTimes(s, l, kappa, rnd) % P, 2 * l + 1, l + 1, kappa, After(rnd)), 2 * l, l, kappa, rnd + 1)
SDiv(variant, a, b, l, kappa, rnd) ==
  LET last == Fold(LAMBDA s, i : SDivStep(variant, s, l, kappa, After(rnd + i)), SDivStart(variant, a, b, (29142 * 2^l) \div 10000 - 2 * b, l, kappa, rnd),
                   Upto(Rounds(l) - 1))
  IN  TruncPr(YTimes(last, l, kappa, rnd) % P, 2 * l + 1, l - 1, kappa, After(rnd))
=============================================================================
