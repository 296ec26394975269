------------------------------- MODULE Transforms -----------------------------
(***************************************************************************)
(* The cyclotomic rings of src/FHE and the number-theoretic transforms     *)
(* over them.  An element of the prime field is its residue (Fields has    *)
(* the forms the code keeps it in); a polynomial or a vector is a list.    *)
(***************************************************************************)
EXTENDS Lists

RECURSIVE Power(_, _, _), GCD(_, _), NumBits(_), Hwt(_)
Power(x, e, p) == IF e = 0 THEN 1 ELSE IF e % 2 = 1 THEN (x * Power(x, e - 1, p)) % p ELSE Power((x * x) % p, e \div 2, p)
Inverse(x, p) == Power(x, p - 2, p)
GCD(a, b) == IF b = 0 THEN a ELSE GCD(b, a % b)
NumBits(n) == IF n = 0 THEN 0 ELSE 1 + NumBits(n \div 2)
Hwt(n) == IF n = 0 THEN 0 ELSE (n % 2) + Hwt(n \div 2)

-----------------------------------------------------------------------------
(* The number of units, and the cyclotomic polynomial as a quotient. *)
RECURSIVE PhiFrom(_, _), mobius_from(_, _), Exponent(_, _)
Exponent(n, q) == IF n % q = 0 THEN 1 + Exponent(n \div q, q) ELSE 0
PhiFrom(n, q) ==
  IF n = 1 THEN 1
  ELSE IF n % q = 0 THEN (q - 1) * q^(Exponent(n, q) - 1) * PhiFrom(n \div q^Exponent(n, q), q + 1) ELSE PhiFrom(n, q + 1)
phi_N(n) == PhiFrom(n, 2)
mobius_from(n, q) ==
  IF n = 1 THEN 1
  ELSE IF Exponent(n, q) > 1 THEN 0
  ELSE IF Exponent(n, q) = 1 THEN -mobius_from(n \div q, q + 1) ELSE mobius_from(n, q + 1)
mobius(n) == mobius_from(n, 2)

(* Products and exact quotients of integer polynomials (NTL). *)
PolyMul(a, b) ==
  Listed([k \in 1..(Len(a) + Len(b) - 1) |->
    Total([i \in 1..Len(a) |-> IF k - i + 1 \in 1..Len(b) THEN a[i] * b[k - i + 1] ELSE 0])])
RECURSIVE PolyDiv(_, _)
PolyDiv(a, b) ==
  IF Len(a) < Len(b) THEN <<>>
  ELSE Append(PolyDiv(Listed([i \in 1..(Len(a) - 1) |->
                IF i > Len(a) - Len(b) THEN a[i] - a[Len(a)] * b[i - Len(a) + Len(b)] ELSE a[i]]), b), a[Len(a)])
XMinus1(d) == Listed([i \in 1..(d + 1) |-> IF i = 1 THEN -1 ELSE IF i = d + 1 THEN 1 ELSE 0])
ProductOver(n, sign) == Fold(LAMBDA a, d : IF n % d = 0 /\ mobius(d) = sign THEN PolyMul(a, XMinus1(n \div d)) ELSE a, <<1>>, Upto(n))
Cyclotomic(n) == PolyDiv(ProductOver(n, 1), ProductOver(n, -1))

Units(m) == SelectSeq(Upto(m - 1), LAMBDA i : GCD(i, m) = 1)
init_Ring(m) == [m |-> m, phi_m |-> phi_N(m), pi |-> Units(m), poly |-> Cyclotomic(m)]

-----------------------------------------------------------------------------
(* The moduli: primes with roots of the order of the ring and of a power   *)
(* of two, one more than a multiple of the plaintext prime.                *)
IsPrime(n) == n > 1 /\ \A d \in 2..200 : d * d <= n => n % d # 0
RECURSIVE NextModulus(_, _, _, _)
NextModulus(pr, step, lg2pr, pr0) ==
  IF ~ IsPrime(pr) \/ pr = pr0 \/ NumBits(pr) < lg2pr THEN NextModulus(pr + step, step, lg2pr, pr0) ELSE pr
StepFor(m, twop) == (m * twop) \div GCD(m, twop)
FirstModulus(ex, p, step, lg2pr, pr0) == NextModulus((2^ex * p * step) + 1, p * step, lg2pr, pr0)
generate_modulus(m, p, lg2pr, pr0) ==
  FirstModulus(lg2pr - NumBits(p) - NumBits(StepFor(m, 2^(NumBits(m) + 1))) + 1, p, StepFor(m, 2^(NumBits(m) + 1)), lg2pr, pr0)
char_2_modulus(m, lg2p, pr0) ==
  FirstModulus(lg2p - 2 * NumBits(m), 1, m * 2^(NumBits(m) + 1), 0, pr0)

(* For a given plaintext prime the ring is one of whose order divides      *)
(* p - 1, with enough slots and the fewest and smallest prime powers.      *)
MinDimension(lgp) == IF lgp < 48 THEN 100 ELSE IF lgp < 96 THEN 8192 ELSE IF lgp < 384 THEN 16384 ELSE 32768
SmallFactors(t, mm) == SelectSeq(Upto(2 * mm - 1), LAMBDA q : IsPrime(q) /\ t % q = 0)
RECURSIVE Odometer(_)
Odometer(exps) ==
  IF exps = <<>> THEN <<<<>>>>
  ELSE Fold(LAMBDA s, tail : s \o [k \in 1..(Head(exps) + 1) |-> <<k - 1>> \o tail], <<>>, Odometer(Tail(exps)))
Candidate(primes, ee) ==
  [m |-> Fold(LAMBDA x, i : x * primes[i]^ee[i], 1, Upto(Len(ee))), hwt |-> Fold(LAMBDA h, e : IF e # 0 THEN h + 1 ELSE h, 0, ee),
   mx |-> Fold(LAMBDA x, e : IF e > x THEN e ELSE x, 0, ee)]
Better(c, b) ==
  \/ b.m = -1 \/ c.hwt < b.hwt \/ (c.hwt = b.hwt /\ c.mx < b.mx)
  \/ (c.hwt = b.hwt /\ c.mx = b.mx /\ phi_N(c.m) < phi_N(b.m))
Fits(m, mm) == m > 1 /\ m < 4 * mm /\ phi_N(m) > mm /\ phi_N(m) < 3 * mm
Chosen(c, b, mm) == IF Fits(c.m, mm) /\ Better(c, b) THEN c ELSE b
BestOf(primes, exps, mm) ==
  Fold(LAMBDA b, ee : Chosen(Candidate(primes, ee), b, mm),
       [m |-> -1, hwt |-> -1, mx |-> -1], Odometer(exps))
OverFactors(primes, t, mm) == BestOf(primes, Listed([i \in 1..Len(primes) |-> Exponent(t, primes[i])]), mm)
general_dimension(p) ==
  OverFactors(SmallFactors(p - 1, MinDimension(NumBits(p))), p - 1, MinDimension(NumBits(p))).m

-----------------------------------------------------------------------------
(* The transforms: values of the polynomial at the powers of a root. *)
Evaluated(a, x, p) == Fold(LAMBDA v, i : ((v * x) + a[Len(a) - i + 1]) % p, 0, Upto(Len(a)))
NaiveFFT(a, theta, p) == Listed([i \in 1..Len(a) |-> Evaluated(a, Power(theta, i - 1, p), p)])
Evens(a) == Listed([i \in 1..(Len(a) \div 2) |-> a[2 * i - 1]])
Odds(a) == Listed([i \in 1..(Len(a) \div 2) |-> a[2 * i]])
Geometric(first, ratio, n, p) == Listed([i \in 1..n |-> (first * Power(ratio, i - 1, p)) % p])
Butterfly(a0, a1, w, p) ==
  Listed([i \in 1..Len(w) |-> (a0[i] + w[i] * a1[i]) % p]) \o Listed([i \in 1..Len(w) |-> (a0[i] - w[i] * a1[i]) % p])
RECURSIVE FFT(_, _, _), FFT2(_, _, _)
FFT(a, theta, p) ==
  IF Len(a) = 1 THEN a ELSE IF Len(a) < 5 THEN NaiveFFT(a, theta, p)
  ELSE Butterfly(FFT(Evens(a), (theta * theta) % p, p), FFT(Odds(a), (theta * theta) % p, p), Geometric(1, theta, Len(a) \div 2, p), p)
(* At the odd powers, for polynomials modulo X^n + 1. *)
FFT2(a, alpha, p) ==
  IF Len(a) = 1 THEN a
  ELSE Butterfly(FFT2(Evens(a), (alpha * alpha) % p, p), FFT2(Odds(a), (alpha * alpha) % p, p),
                 Geometric(alpha, (alpha * alpha) % p, Len(a) \div 2, p), p)

(* In place: places are exchanged with those of the reversed bits. *)
RECURSIVE NextReversed(_, _)
NextReversed(j, m) == IF m >= 1 /\ j >= m THEN NextReversed(j - m, m \div 2) ELSE j + m
Reversal(n) ==
  Fold(LAMBDA st, i : [a |-> IF st.j >= i - 1 THEN [st.a EXCEPT ![i] = st.a[st.j + 1], ![st.j + 1] = st.a[i]] ELSE st.a,
                       j |-> NextReversed(st.j, n \div 2)], [a |-> Upto(n), j |-> 0], Upto(n)).a
Reversed(a, order) == Listed([i \in 1..Len(a) |-> a[order[i]]])
Stage(a, m, w, p) ==
  Listed([i \in 1..Len(a) |->
    IF (i - 1) % m < m \div 2 THEN (a[i] + w[((i - 1) % m) + 1] * a[i + (m \div 2)]) % p
    ELSE (a[i - (m \div 2)] - w[((i - 1) % m) - (m \div 2) + 1] * a[i]) % p])
Stages(n) == SelectSeq(Upto(n), LAMBDA m : \E k \in 1..5 : m = 2^k)
FFT_Iter(a, root, p) ==
  Fold(LAMBDA x, m : Stage(x, m, Geometric(1, Power(root, Len(a) \div m, p), m \div 2, p), p), Reversed(a, Reversal(Len(a))), Stages(Len(a)))
FFT_Iter2(a, root, p) ==
  Fold(LAMBDA x, m : Stage(x, m, Geometric(Power(root, Len(a) \div m, p), Power(root, 2 * (Len(a) \div m), p), m \div 2, p), p),
       Reversed(a, Reversal(Len(a))), Stages(Len(a)))

-----------------------------------------------------------------------------
(* What the transforms of a ring modulo a prime need.  For a power of two  *)
(* it is a root of unity of the order m; otherwise one of twice the order  *)
(* and one of a power of two, for a convolution (Bluestein). *)
RECURSIVE RootFrom(_, _, _, _)
RootFrom(base, m, poly, p) ==
  IF Evaluated(poly, Power(base, (p - 1) \div m, p), p) = 0 THEN Power(base, (p - 1) \div m, p) ELSE RootFrom(base + 1, m, poly, p)
XPlus1(n) == Listed([i \in 1..(n + 1) |-> IF i \in {1, n + 1} THEN 1 ELSE 0])
Thinned(poly) == Listed([i \in 1..(2 * Len(poly)) |-> IF i % 2 = 1 THEN poly[(i + 1) \div 2] ELSE 0])
Root2power(m, p) == RootFrom(2, m, XPlus1(m \div 2), p)
Root2m(m, poly, p) == RootFrom(2, 2 * m, Thinned(poly), p)

Twop(m, p) == IF (p - 1) % 2^(NumBits(m) + 1) = 0 THEN 2^(NumBits(m) + 1) ELSE -(2^(NumBits(m) + 1))
Abs(x) == IF x < 0 THEN -x ELSE x
Chirp(m, root, p) == Listed([i \in 1..m |-> Power(root, ((i - 1) * (i - 1)) % (2 * m), p)])
Chirps(m, rInv, k2, p) ==
  Listed([k \in 1..k2 |-> IF k < 2 * m THEN Power(rInv, ((k - m) * (k - m)) % (2 * m), p) ELSE 0])
Scaled(a, x, p) == Listed([i \in 1..Len(a) |-> (a[i] * x) % p])

ForPower(R, p, root) ==
  [R |-> R, p |-> p, twop |-> 0, root |-> <<root, Inverse(root, p)>>, iphi |-> Inverse(R.phi_m, p)]
WithRoots(R, p, twop, root, two) ==
  [R |-> R, p |-> p, twop |-> twop, root |-> root, two_root |-> two,
   powers |-> <<Chirp(R.m, root[1], p), Chirp(R.m, root[2], p)>>,
   powers_i |-> <<Scaled(Chirp(R.m, root[1], p), Inverse(Abs(twop) % p, p), p),
                  Scaled(Chirp(R.m, root[2], p), Inverse((Abs(twop) * R.m) % p, p), p)>>,
   b |-> IF twop < 0 THEN <<Chirps(R.m, root[2], -twop, p), Chirps(R.m, root[1], -twop, p)>>
         ELSE <<FFT_Iter(Chirps(R.m, root[2], twop, p), two[1], p), FFT_Iter(Chirps(R.m, root[1], twop, p), two[1], p)>>]
WithInverse(x, p) == <<x, Inverse(x, p)>>
Otherwise(R, p, twop) ==
  WithRoots(R, p, twop, WithInverse(Root2m(R.m, R.poly, p), p), IF twop < 0 THEN <<>> ELSE WithInverse(Root2power(twop, p), p))
FFT_Data_init(R, p) ==
  IF Hwt(R.m) = 1 THEN ForPower(R, p, Root2power(R.m, p))
  ELSE IF (p - 1) % (2 * R.m) # 0 THEN [invalid_params |-> TRUE]
  ELSE Otherwise(R, p, Twop(R.m, p))

Times(a, b, p) == Listed([i \in 1..Len(b) |-> IF i <= Len(a) THEN (a[i] * b[i]) % p ELSE 0])
Convolved(x, D, r) == FFT_Iter(Times(FFT_Iter(x, D.two_root[1], D.p), D.b[r], D.p), D.two_root[2], D.p)
Window(x, n) == SubSeq(x, n, 2 * n - 1)
Padded(a, n) == a \o [i \in 1..(n - Len(a)) |-> 0]
(* The values at all powers of the root (r = 1), or the polynomial back. *)
BFFT(a, D, r) ==
  Times(Window(Convolved(Padded(Times(a, SubSeq(D.powers[r], 1, Len(a)), D.p), D.twop), D, r), D.R.m), D.powers_i[r], D.p)
=============================================================================
