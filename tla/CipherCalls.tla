---------------------------- MODULE CipherCalls -----------------------------
(***************************************************************************)
(* Calls of the transforms, plaintexts, keys, ciphertexts and decryptions  *)
(* of src/FHE in small rings.                                              *)
(***************************************************************************)
EXTENDS Integers, Sequences, FiniteSets, Calls

T == INSTANCE Transforms

(* Rings of an order and a prime; the last has no transform.  The rings of *)
(* encryption are those of two generated moduli. *)
SmallRings == {<<4, 5>>, <<8, 17>>, <<16, 17>>, <<3, 73>>, <<5, 241>>, <<6, 97>>, <<9, 577>>, <<15, 3361>>, <<3, 7>>}
Modulus0 == T!generate_modulus(4, 5, 15, 0)
Modulus1 == T!generate_modulus(4, 5, 15, Modulus0)
ModulusOfOne == T!generate_modulus(3, 73, 15, 0)
Rings == SmallRings \cup {<<4, Modulus0>>, <<4, Modulus1>>, <<3, ModulusOfOne>>, <<3, 97>>}
RingData == T!Tabled([k \in Rings |-> T!FFT_Data_init(T!init_Ring(k[1]), k[2])])

R == INSTANCE RingElements WITH FFTD <- RingData
E == INSTANCE Encryption WITH FFTD <- RingData
Q == INSTANCE Plaintexts WITH FFTD <- RingData

-----------------------------------------------------------------------------
(* Rings, moduli and dimensions. *)
CallRing == \E m \in 2..40 : Called("ring", [m |-> m], T!init_Ring(m))
CallModulus ==
  \/ \E m \in {3, 4, 5, 8}, p \in {5, 7, 73}, lg \in {14, 15} :
       Called("modulus", [m |-> m, p |-> p, lg |-> lg], T!generate_modulus(m, p, lg, 0))
  \/ \E m \in {3, 7, 17} : Called("modulus", [m |-> m, p |-> 1, lg |-> 14], T!char_2_modulus(m, 14, 0))
CallDimension == \E p \in {30941, 31081, 31123, 31249, 31321, 31543, 31741, 31981} : Called("dimension", [p |-> p], T!general_dimension(p))

(* Polynomials and lists with numbers all over the field. *)
Numbers(n, s, p) == T!Listed([i \in 1..n |-> ((s * s * i * i) + (7 * s * i) + s) % p])
CallFFT == \E k \in 0..3, s \in 1..6 :
  \E theta \in {T!Root2power(2 * 2^k, 17)} : \E a \in {Numbers(2^k, s, 17)} :
    Called("fft", [a |-> a, root |-> theta],
      [whole |-> {T!NaiveFFT(a, (theta * theta) % 17, 17), T!FFT(a, (theta * theta) % 17, 17), T!FFT_Iter(a, (theta * theta) % 17, 17)},
       odd |-> {T!FFT2(a, theta, 17), T!FFT_Iter2(a, theta, 17)}])

Poly(D, s) == [D |-> D, rep |-> "polynomial", element |-> Numbers(RingData[D].R.phi_m, s, D[2])]
ElementOps(a, b, A, B) ==
  [values |-> A.element, back |-> R!to_vec_bigint(A), product |-> R!mul(a, b), by_values |-> R!change_rep(R!mul(A, B), "polynomial"),
   sum |-> R!add(a, b), difference |-> R!change_rep(R!sub(A, B), "polynomial"), mixed |-> R!add(a, B).rep,
   constant |-> R!get_constant(A), same |-> R!equals(A, B), rebuilt |-> R!from_vec(B, a.element), one |-> R!mul(A, R!assign_one(A.D, "evaluation"))]
CallElements == \E D \in SmallRings : \E s \in 0..5, t \in 1..4 :
  IF RingData[D].twop < 0 THEN Called("untransformed", [D |-> D], R!change_rep(Poly(D, s), "evaluation").rep)
  ELSE Called("elements", [a |-> Poly(D, s), b |-> Poly(D, t)],
              ElementOps(Poly(D, s), Poly(D, t), R!change_rep(Poly(D, s), "evaluation"), R!change_rep(Poly(D, t), "evaluation")))

-----------------------------------------------------------------------------
(* Numbers modulo two primes, and between the levels. *)
TwoPrimes == <<<<3, 73>>, <<3, 97>>>>
Levels(v, x, p) ==
  [numbers |-> E!to_vec_bigint(x), scaled |-> E!to_vec_bigint(E!Scale(x, p)), lowered |-> E!to_vec_bigint(E!lower_level(x)),
   raised |-> E!to_vec_bigint(E!raise_level(E!lower_level(x))), times |-> E!to_vec_bigint(E!mul_by_p1(E!lower_level(x)))]
CallLevels == \E i \in 0..60, j \in {-37, 0, 1, 999}, p \in {5, 7} : \E v \in {<<(59 * i) - 1770, j>>} :
  Called("levels", [v |-> v, p |-> p], Levels(v, E!from_vec(E!Values(TwoPrimes), v), p))

(* Sampling. *)
CallSample == \E places \in [1..5 -> 0..3], byte \in {6, 9} :
  Called("sample", [h |-> 2, places |-> places], E!sample_Hwt(4, 2, places, <<byte>>, <<>>))

-----------------------------------------------------------------------------
(* Encryption modulo two primes and modulo one, with small numbers drawn. *)
Both == <<<<4, Modulus0>>, <<4, Modulus1>>>>
One == <<<<3, ModulusOfOne>>>>
SmallPolys == <<<<1, -1>>, <<0, 1>>, <<-1, -1>>, <<1, 0>>, <<0, 0>>, <<-1, 1>>, <<1, 1>>>>
Small(k) == SmallPolys[1 + (k % 7)]
CoinsOf(Ds, k) == E!Coins(Ds, E!sample_Half(<<k % 4, 2 + (k % 2)>>), Small(k + 1), Small(k + 2))
Random(Ds, k) ==
  [lev |-> Len(Ds) - 1, a |-> T!Listed([i \in 1..Len(Ds) |->
     [D |-> Ds[i], rep |-> "evaluation", element |-> Numbers(2, (50 * k) + i, Ds[i][2])]])]
SmallElement(Ds, v) == E!from_vec(E!Values(Ds), v)
Keys(Ds, s, k, p) ==
  E!KeyGen(SmallElement(Ds, s), Random(Ds, k), SmallElement(Ds, Small(k)), Random(Ds, k + 1), SmallElement(Ds, Small(k + 3)), p)
Shares(sks, c, masks, p) ==
  T!Listed([i \in 1..Len(sks) |-> E!dist_decrypt_1(sks[i], c, i - 1, Len(sks), T!Listed([j \in 1..2 |-> masks[i]]), 5, p)])
Together(shares, p0, p) == [i \in 1..Len(shares) |-> E!DistDecrypt(shares, i, p0, p)]

Opened(keys, c, d, y, p, Ds) ==
  [first |-> E!decrypt_any(keys.sk, c, p), sum |-> E!decrypt_any(keys.sk, E!c_add(c, d), p),
   difference |-> E!decrypt_any(keys.sk, E!c_sub(c, d), p), plain |-> E!decrypt_any(keys.sk, E!c_mul_plain(c, y, Ds), p),
   product |-> IF Len(Ds) = 1 THEN <<>> ELSE E!decrypt(keys.sk, E!c_mul(c, d, keys.pk), p),
   more |-> IF Len(Ds) = 1 THEN <<>>
            ELSE E!decrypt(keys.sk, E!c_add(E!c_mul(c, d, keys.pk), E!c_Scale(c, p)), p)]
Enciphered(keys, x, y, k, p, Ds) ==
  Opened(keys, E!encrypt(keys.pk, x, CoinsOf(Ds, k), Ds), E!encrypt(keys.pk, y, CoinsOf(Ds, k + 2), Ds), y, p, Ds)
Secrets == {<<1, 0>>, <<0, -1>>}
CallEncrypt ==
  \/ \E x \in (0..4) \X (0..4), y \in {<<1, 2>>, <<4, 3>>, <<0, 4>>}, s \in Secrets, k \in 1..2 :
       Called("encrypt", [x |-> x, y |-> y, p |-> 5, Ds |-> Both], Enciphered(Keys(Both, s, k, 5), x, y, k, 5, Both))
  \/ \E x \in {0, 1, 36, 72} \X {0, 40, 72}, y \in {<<1, 2>>, <<2, 0>>}, s \in Secrets, k \in 1..2 :
       Called("encrypt", [x |-> x, y |-> y, p |-> 73, Ds |-> One], Enciphered(Keys(One, s, k, 73), x, y, k, 73, One))

(* Two parties make keys together and open a product. *)
PartyData(s, k) ==
  [secret |-> SmallElement(Both, s), rc1 |-> CoinsOf(Both, k), rc2 |-> CoinsOf(Both, k + 3), a |-> Random(Both, k), e |-> SmallElement(Both, Small(k + 5))]
Bd == E!Bound(Modulus0, 5, 2, 5)
SharedProduct(keys, x, y, k, masks) ==
  Together(Shares(keys.sks, E!c_mul(E!encrypt(keys.pk, x, CoinsOf(Both, k), Both), E!encrypt(keys.pk, y, CoinsOf(Both, k + 1), Both), keys.pk),
                  masks, 5), Modulus0, 5)
SharedKeys(data, keys, x, y, k, masks) ==
  [checked |-> E!check_randomness(data, keys.half, keys.sw, Both), product |-> SharedProduct(keys, x, y, k, masks)]
SharedFrom(data, x, y, k, masks) == SharedKeys(data, E!DistKeyGen(data, 5, Both), x, y, k, masks)
CallShared ==
  \E s, t \in {<<1, 0>>, <<0, -1>>}, k \in 1..4, x \in {<<3, 4>>, <<0, 2>>}, masks \in {0, (2 * Bd) - 1} \X {0, (2 * Bd) - 1} :
    Called("shared", [x |-> x, y |-> <<4, 2>>], SharedFrom(<<PartyData(s, k), PartyData(t, k + 2)>>, x, <<4, 2>>, k, masks))

(* Plaintexts of every type. *)
Types == {"Polynomial", "Evaluation", "Both"}
Typed(v, type) ==
  IF type = "Evaluation" THEN Q!set_slots(<<4, 5>>, v) ELSE IF type = "Polynomial" THEN Q!set_poly(<<4, 5>>, v)
  ELSE Q!from_poly(Q!set_poly(<<4, 5>>, v))
PlainOps(x, y) ==
  [sum |-> Q!add(x, y), difference |-> Q!sub(x, y), product |-> Q!mul(x, y), square |-> Q!sqr(Q!from_poly(x)), negative |-> Q!negate(x),
   same |-> Q!equals(x, y), more |-> Q!plus_assign(x, y), less |-> Q!minus_assign(x, y),
   set |-> Q!set_element(x, 1, 3), slot |-> Q!element(x, 2), coeff |-> Q!coeff(x, 2), changed |-> Q!set_coeff(x, 1, 2),
   one |-> [t \in Types |-> Q!assign_one(x.FD, t)], zero |-> [t \in Types |-> Q!assign_zero(x.FD, t)]]
CallPlain == \E v \in (0..4) \X (0..4), w \in {<<2, 3>>, <<4, 4>>, <<0, 1>>}, types \in Types \X Types : \E x \in {Typed(v, types[1])} :
  Called("plain", [x |-> x, y |-> Typed(w, types[2])], PlainOps(x, Typed(w, types[2])))

CipherCall ==
  \/ Chosen(1) /\ (CallRing \/ CallModulus \/ CallDimension \/ CallFFT \/ CallSample)
  \/ Chosen(2) /\ CallEncrypt
  \/ Chosen(3) /\ (CallElements \/ CallPlain)
  \/ Chosen(4) /\ (CallShared \/ CallLevels)

-----------------------------------------------------------------------------
(* What they stand for. *)
RECURSIVE ValueAt(_, _)
ValueAt(poly, x) == IF poly = <<>> THEN 0 ELSE Head(poly) + x * ValueAt(Tail(poly), x)
RECURSIVE ProductOf(_, _)
ProductOf(f, S) == IF S = {} THEN 1 ELSE LET d == CHOOSE d \in S : TRUE IN f[d] * ProductOf(f, S \ {d})
Divisors(n) == {d \in 1..n : n % d = 0}
Coprimes(m) == {i \in 1..(m - 1) : T!GCD(i, m) = 1}
RingRight(in, got) ==
  /\ {got.pi[i] : i \in DOMAIN got.pi} = Coprimes(in.m) /\ Len(got.pi) = got.phi_m /\ got.phi_m = Cardinality(Coprimes(in.m))
  /\ Len(got.poly) = got.phi_m + 1 /\ got.poly[got.phi_m + 1] = 1
  /\ in.m <= 24 => ProductOf([d \in Divisors(in.m) |-> ValueAt(T!Cyclotomic(d), 2)], Divisors(in.m)) = 2^in.m - 1
ModulusRight(in, got) ==
  T!IsPrime(got) /\ (got - 1) % (2 * in.m * in.p) = 0 /\ T!Twop(in.m, got) > 0 /\ (in.p > 1 => got >= 2^(in.lg - 1))
PrimeFactors(n) == {q \in Divisors(n) : T!IsPrime(q)}
DimensionRight(in, got) ==
  LET Good == {m \in Divisors(in.p - 1) : m > 1 /\ m < 400 /\ Cardinality(Coprimes(m)) \in 101..299}
  IN  IF got = -1 THEN Good = {} ELSE got \in Good /\ \A m \in Good : Cardinality(PrimeFactors(got)) <= Cardinality(PrimeFactors(m))

PowerSum(a, x) == T!Evaluated(a, x, 17)
FFTRight(in, got) ==
  LET n == Len(in.a) IN
  /\ got.whole = {[i \in 1..n |-> PowerSum(in.a, T!Power(in.root, 2 * (i - 1), 17))]}
  /\ got.odd = {[i \in 1..n |-> PowerSum(in.a, T!Power(in.root, 2 * i - 1, 17))]}
(* The roots the values stand for: primitive ones, each once. *)
Point(D, i) ==
  IF D.twop = 0 THEN T!Power(D.root[1], 2 * i - 1, D.p) ELSE T!Power(D.root[1], 2 * D.R.pi[i], D.p)
ElementsRight(in, got) ==
  LET D == RingData[in.a.D]  n == D.R.phi_m  Value(v, i) == T!Evaluated(v, Point(D, i), D.p) IN
  /\ Cardinality({Point(D, i) : i \in 1..n}) = n /\ \A i \in 1..n : T!Evaluated(D.R.poly, Point(D, i), D.p) = 0
  /\ \A i \in 1..n :
       /\ got.values[i] = Value(in.a.element, i)
       /\ Value(got.product.element, i) = (Value(in.a.element, i) * Value(in.b.element, i)) % D.p
       /\ got.sum.element[i] = (in.a.element[i] + in.b.element[i]) % D.p
       /\ got.difference.element[i] = (in.a.element[i] - in.b.element[i]) % D.p
  /\ got.by_values = got.product /\ got.back = in.a.element /\ got.constant = in.a.element[1]
  /\ got.mixed = "rep_mismatch" /\ got.same = (in.a = in.b)
  /\ got.rebuilt.element = got.values /\ got.rebuilt.rep = "evaluation" /\ got.one.element = got.values

(* What a scaled number times p1 differs by from the number times p1 mod p is a small multiple of p. *)
ScaledRight(v, s, p) ==
  LET d == (E!Centred(s, 73) * 97) - (E!Centred(97 % p, p) * v) IN d % p = 0 /\ d <= (97 * p) \div 2 /\ d >= -((97 * p) \div 2)
LevelsRight(in, got) == \A i \in 1..2 :
  /\ (got.numbers[i] - in.v[i]) % 7081 = 0 /\ got.lowered[i] = in.v[i] % 73
  /\ (got.raised[i] - (in.v[i] % 73)) % 7081 = 0 /\ (got.times[i] - (97 * in.v[i])) % 7081 = 0
  /\ ScaledRight(in.v[i], got.scaled[i], in.p)
SampleRight(in, got) ==
  \A i \in 0..3 : got[i + 1] # 0 <=> \E j \in DOMAIN in.places :
    in.places[j] = i /\ Cardinality({in.places[l] : l \in 1..j}) <= in.h

Slots(v, D) == [i \in 1..2 |-> T!Evaluated(v, Point(D, i), D.p)]
PlainRing(p) == RingData[IF p = 5 THEN <<4, 5>> ELSE <<3, 73>>]
SlotsRight(v, x, y, p, op(_, _)) ==
  /\ Len(v) = 2
  /\ \A i \in 1..2 : v[i] \in 0..(p - 1)
  /\ \A i \in 1..2 : Slots(v, PlainRing(p))[i] = op(Slots(x, PlainRing(p))[i], Slots(y, PlainRing(p))[i]) % p
EncryptRight(in, got) ==
  /\ got.first = in.x
  /\ SlotsRight(got.sum, in.x, in.y, in.p, LAMBDA a, b : a + b)
  /\ SlotsRight(got.difference, in.x, in.y, in.p, LAMBDA a, b : a - b)
  /\ SlotsRight(got.plain, in.x, in.y, in.p, LAMBDA a, b : a * b)
  /\ Len(in.Ds) = 2 => /\ SlotsRight(got.product, in.x, in.y, in.p, LAMBDA a, b : a * b)
                       /\ SlotsRight(got.more, in.x, in.y, in.p, LAMBDA a, b : a * b + a)
SharedRight(in, got) == got.checked /\ \A i \in 1..2 : SlotsRight(got.product[i], in.x, in.y, 5, LAMBDA a, b : a * b)

(* The values of a plaintext, whatever it is kept as. *)
InSlots(x) == IF x.type = "Polynomial" THEN Slots(x.b, PlainRing(5)) ELSE x.a
Consistent(x) == x.type \in Types /\ (x.type = "Both" => Slots(x.b, PlainRing(5)) = x.a)
Holds(x, a, b, op(_, _)) == Consistent(x) /\ \A i \in 1..2 : InSlots(x)[i] = op(InSlots(a)[i], InSlots(b)[i]) % 5
PlainRight(in, got) ==
  LET x == in.x  y == in.y  Mixed == {x.type, y.type} = {"Polynomial", "Evaluation"} IN
  /\ IF Mixed THEN got.sum.type = "rep_mismatch" /\ got.difference.type = "rep_mismatch"
     ELSE Holds(got.sum, x, y, LAMBDA a, b : a + b) /\ Holds(got.difference, x, y, LAMBDA a, b : a - b)
  /\ Holds(got.product, x, y, LAMBDA a, b : a * b) /\ Holds(got.square, x, x, LAMBDA a, b : a * b)
  /\ Holds(got.negative, x, x, LAMBDA a, b : -a) /\ Holds(got.more, x, y, LAMBDA a, b : a + b)
  /\ Holds(got.less, x, y, LAMBDA a, b : a - b) /\ got.same = (InSlots(x) = InSlots(y))
  /\ got.slot = InSlots(x)[2] /\ (x.type # "Polynomial" => InSlots(got.set) = <<3, InSlots(x)[2]>>)
  /\ got.changed.b[1] = 2 /\ got.changed.b[2] = got.coeff
  /\ \A t \in Types : Consistent(got.one[t]) /\ InSlots(got.one[t]) = <<1, 1>> /\ InSlots(got.zero[t]) = <<0, 0>>

(* What is encrypted is what is decrypted: rings, transforms and levels    *)
(* compute what they stand for; sums, differences and products of          *)
(* ciphertexts decrypt to those of the messages, slot by slot, by one key  *)
(* or by the shares of keys made together, for all masks; the keys of an   *)
(* opened run are found again; plaintexts mean the same in all types.      *)
EncryptionRight ==
  /\ call.fn = "ring" => RingRight(call.in, call.got)
  /\ call.fn = "modulus" => ModulusRight(call.in, call.got)
  /\ call.fn = "dimension" => DimensionRight(call.in, call.got)
  /\ call.fn = "fft" => FFTRight(call.in, call.got)
  /\ call.fn = "untransformed" => call.got = "crash_requested"
  /\ call.fn = "elements" => ElementsRight(call.in, call.got)
  /\ call.fn = "levels" => LevelsRight(call.in, call.got)
  /\ call.fn = "sample" => SampleRight(call.in, call.got)
  /\ call.fn = "encrypt" => EncryptRight(call.in, call.got)
  /\ call.fn = "shared" => SharedRight(call.in, call.got)
  /\ call.fn = "plain" => PlainRight(call.in, call.got)
=============================================================================
