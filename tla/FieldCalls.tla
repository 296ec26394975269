----------------------------- MODULE FieldCalls -----------------------------
(***************************************************************************)
(* Calls of the arithmetic of src/Math: prime fields, roots, and binary    *)
(* fields.                                                                 *)
(***************************************************************************)
EXTENDS Fields, Calls

CONSTANTS Moduli,       \* triples of a prime, Montgomery form or not, size of a limb
          RootModuli,   \* the same for the roots of unity
          Degrees       \* degrees of binary fields of words of 64 bits

-----------------------------------------------------------------------------
(* Elements of prime fields through their conversions. *)
PrimeOps(Z, x, y) ==
  LET X == to_modp(Z, x)
      Y == to_modp(Z, y)
      Value(m) == to_bigint(Z, m)
  IN  [sum |-> Value(Zp_Add(Z, X, Y)), difference |-> Value(Zp_Sub(Z, X, Y)), product |-> Value(Mul(Z, X, Y)),
       negative |-> Value(Negate(Z, X)), inverse |-> IF x = 0 THEN 0 ELSE Value(Inv(Z, X)),
       power |-> Value(Power(Z, X, y)), printed |-> Printed(Z, X),
       and |-> Value(gfp_AND(Z, X, Y)), or |-> Value(gfp_OR(Z, X, Y)), xor |-> Value(gfp_XOR(Z, X, Y)),
       right |-> Value(gfp_SHR(Z, X, y % 4)), left |-> Value(gfp_SHL(Z, X, y % 4))]

CallPrime ==
  \E m \in Moduli : LET Z == Zp_init(m[1], m[2], m[3]) IN
    \E x, y \in 0..(Z.p - 1) : Called("prime", [Z |-> Z, x |-> x, y |-> y], PrimeOps(Z, x, y))

(* Conversions of ints, and of numbers of any size and sign. *)
CallConvert ==
  \E m \in Moduli : LET Z == Zp_init(m[1], m[2], m[3]) IN
    \/ \E x \in -Z.p..(Z.base - 1) : Called("int", [Z |-> Z, x |-> x], to_bigint(Z, int_to_modp(Z, x)))
    \/ \E x \in -(2 * Z.p)..(2 * Z.p) : Called("int", [Z |-> Z, x |-> x], to_bigint(Z, to_modp(Z, x)))

(* Square roots of squares, with any non-residue drawn. *)
CallRoot ==
  \E m \in Moduli : LET Z == Zp_init(m[1], m[2], m[3]) IN
    \E x \in 0..(Z.p - 1) : \E n \in {k \in 1..(Z.p - 1) : Legendre(k, Z.p) = Z.p - 1} :
      Called("sqrt", [Z |-> Z, x |-> x], to_bigint(Z, sqrRoot(Z, to_modp(Z, (x * x) % Z.p), n)))

(* Roots of unity for m with Phi_m known: powers of two, and 3. *)
CallUnity ==
  \E r \in RootModuli : LET Z == Zp_init(r[1], r[2], r[3]) IN
    \/ \E m \in {2, 4, 8} : (Z.p - 1) % m = 0 /\
         Called("unity", [Z |-> Z, m |-> m], to_bigint(Z, Find_Primitive_Root_2power(Z, m)))
    \/ (Z.p - 1) % 3 = 0 /\
         Called("unity", [Z |-> Z, m |-> 3], to_bigint(Z, Find_Primitive_Root_m(Z, 3, <<1, 1, 1>>)))
    \/ (Z.p - 1) % 8 = 0 /\
         Called("unity", [Z |-> Z, m |-> 8], to_bigint(Z, Find_Primitive_Root_2m(Z, 4, <<1, 0, 1>>)))

-----------------------------------------------------------------------------
(* Elements of binary fields, with their tables and with the instruction. *)
BinaryOps(g, useC, x, y) ==
  [product |-> gf2n_mul(g, useC, x, y), square |-> gf2n_square(g, x),
   inverse |-> IF x = {} THEN {} ELSE gf2n_invert(g, x),
   power |-> gf2n_power(g, useC, x, IF 0 \in y \/ x = {} THEN 5 ELSE -3),
   left |-> gf2n_SHL(g, x, 3), not |-> gf2n_NOT(g, x)]

Elements(n) == IF n <= 4 THEN SUBSET Bits(n)
               ELSE {{}, {0}, {n-1}, Bits(n), {0, n-1}, {0, 1, 5, n-2}, {i \in Bits(n) : i % 3 = 1}}

CallBinary ==
  \E n \in Degrees, useC \in BOOLEAN : \E x, y \in Elements(n) :
    Called("binary", [g |-> gf2n_init(n), x |-> x, y |-> y], BinaryOps(gf2n_init(n), useC, x, y))

CallLong ==
  \E x, y \in Elements(128) :
    Called("long", [g |-> long_init, x |-> x, y |-> y], [product |-> long_mul(long_init, x, y)])

-----------------------------------------------------------------------------
(* What the prime fields stand for: arithmetic modulo p whatever the form  *)
(* and the number of limbs (Zp_Data.cpp:72, modp.cpp, gfp.cpp).  Roots are *)
(* roots and the same for every party: the odd one of two square roots,    *)
(* and a root of unity of exact order (bigint.cpp:9, Subroutines.cpp:53).  *)
PrimeFieldRight ==
  /\ call.fn = "prime" =>
       LET p == call.in.Z.p  x == call.in.x  y == call.in.y  got == call.got IN
       /\ got.sum = (x + y) % p /\ got.difference = (x - y) % p /\ got.product = (x * y) % p
       /\ got.negative = (-x) % p /\ (x # 0 => (got.inverse * x) % p = 1)
       /\ got.power = PowMod(x, y, p) /\ got.printed % p = x /\ 2 * got.printed <= p /\ -2 * got.printed <= p + 1
       /\ got.and + got.or = x + y \/ got.and + got.or = x + y - p
       /\ (got.xor - got.or + got.and) % p = 0
       /\ got.right = x \div 2^(y % 4)
       /\ (x * 2^(y % 4) < call.in.Z.base^call.in.Z.t => got.left = (x * 2^(y % 4)) % p)
  /\ call.fn = "int" => call.got = call.in.x % call.in.Z.p
  /\ call.fn = "sqrt" => LET p == call.in.Z.p IN
       /\ (call.got * call.got) % p = (call.in.x * call.in.x) % p
       /\ call.got % 2 = 1 \/ call.got = 0
  /\ call.fn = "unity" => LET p == call.in.Z.p IN
       {k \in 1..call.in.m : PowMod(call.got, k, p) = 1} = {call.in.m}

(* The binary fields: every product is reduced completely, with the        *)
(* instruction or without, and invert ends in the inverse (gf2n.cpp:209,   *)
(* gf2n.cpp:271, gf2nlong.cpp:125).                                        *)
BinaryFieldRight ==
  /\ call.fn \in {"binary", "long"} => call.got.product = Product(call.in.g, call.in.x, call.in.y)
  /\ call.fn = "binary" =>
       LET g == call.in.g  x == call.in.x  got == call.got
           cube == Product(g, x, Product(g, x, x)) IN
       /\ got.square = Product(g, x, x)
       /\ x # {} => Product(g, x, got.inverse) = {0}
       /\ IF 0 \in call.in.y \/ x = {} THEN got.power = Product(g, cube, got.square)
          ELSE Product(g, cube, got.power) = {0}
       /\ got.left \subseteq Bits(g.n) /\ got.not \subseteq Bits(g.n) /\ Xor2(got.not, x) = Bits(g.n)

FieldCall == Chosen(1) /\ (CallPrime \/ CallConvert \/ CallRoot \/ CallUnity \/ CallBinary \/ CallLong)
=============================================================================
