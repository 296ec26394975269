----------------------------- MODULE Encryption ------------------------------
(***************************************************************************)
(* The encryption of src/FHE: elements modulo one or two primes, keys,     *)
(* ciphertexts, their products, decryption by one party or by all, and the *)
(* keys the parties make together (src/FHEOffline/DistKeyGen).  Random     *)
(* numbers are inputs.                                                     *)
(***************************************************************************)
EXTENDS Lists

CONSTANT FFTD       \* the data of each ring and prime in use

R == INSTANCE RingElements

(* The remainder of C++ has the sign of the dividend. *)
Rem(a, n) == IF a < 0 THEN -((-a) % n) ELSE a % n
Centred(x, n) == IF x > n \div 2 THEN x - n ELSE x
Bval(p0, sec) == p0 \div (2 * (1 + 2^sec))

-----------------------------------------------------------------------------
(* Elements modulo the primes up to a level.  The level -1 stands for an   *)
(* exception: no operation takes it (check_level).                         *)
n_mults(x) == Len(x.a) - 1
Thrown(x) == [x EXCEPT !.lev = -1]
Element(Ds, reps) == [lev |-> Len(Ds) - 1, a |-> Listed([i \in 1..Len(Ds) |-> R!assign_zero(Ds[i], reps[i])])]
Values(Ds) == Element(Ds, <<"evaluation", "evaluation">>)
Coeffs(Ds) == Element(Ds, <<"polynomial", "polynomial">>)

UpToLevel(x, op(_)) == [x EXCEPT !.a = Listed([i \in 1..Len(x.a) |-> IF i <= x.lev + 1 THEN op(i) ELSE x.a[i]])]
SameLevel(x, y) == x.lev = y.lev /\ x.lev \in 0..n_mults(x) /\ n_mults(x) = n_mults(y)
Combined(x, y, op(_)) == IF SameLevel(x, y) THEN UpToLevel(x, op) ELSE Thrown(x)

assign_zero(x) == UpToLevel(x, LAMBDA i : R!assign_zero(x.a[i].D, x.a[i].rep))
negate(x) == UpToLevel(x, LAMBDA i : R!negate(x.a[i]))
add(x, y) == Combined(x, y, LAMBDA i : R!add(x.a[i], y.a[i]))
sub(x, y) == Combined(x, y, LAMBDA i : R!sub(x.a[i], y.a[i]))
mul(x, y) == Combined(x, y, LAMBDA i : R!mul(x.a[i], y.a[i]))
mul_bigint(x, b) == UpToLevel(x, LAMBDA i : R!mul_modp(x.a[i], b % R!Prime(x.a[i])))
equals(x, y) == IF x.lev # y.lev THEN "level_mismatch" ELSE \A i \in 1..(x.lev + 1) : R!equals(x.a[i], y.a[i]) = TRUE
Sum(s) == Fold(LAMBDA t, i : IF i = 1 THEN s[1] ELSE add(t, s[i]), s[1], Upto(Len(s)))

set_level(x, level) == [x EXCEPT !.lev = IF level = -1 THEN n_mults(x) ELSE level]
lower_level(x) == IF x.lev = 1 THEN [x EXCEPT !.lev = 0] ELSE x
from_vec(x, v) == LET y == set_level(x, -1) IN UpToLevel(y, LAMBDA i : R!from_vec(y.a[i], v))

CRT(v0, v1, p0, p1) == Rem(v0 + p0 * Rem((v1 - v0) * R!Inverse(p0 % p1, p1), p0 * p1), p0 * p1)
Joined(v0, v1, p0, p1) == Listed([i \in 1..Len(v0) |-> CRT(v0[i], v1[i], p0, p1)])
to_vec_bigint(x) ==
  IF x.lev = 1 THEN Joined(R!to_vec_bigint(x.a[1]), R!to_vec_bigint(x.a[2]), R!Prime(x.a[1]), R!Prime(x.a[2]))
  ELSE IF n_mults(x) = 0
       THEN Fold(LAMBDA s, v : Append(s, Centred(v, R!Prime(x.a[1]))), <<>>, R!to_vec_bigint(x.a[1]))
       ELSE R!to_vec_bigint(x.a[1])

change_rep(x, r) == IF x.lev = 1 THEN Thrown(x) ELSE [x EXCEPT !.a[1] = R!change_rep(@, r)]
change_reps(x, r0, r1) ==
  IF x.lev = 0 \/ n_mults(x) # 1 THEN Thrown(x)
  ELSE [x EXCEPT !.a = <<R!change_rep(@[1], r0), R!change_rep(@[2], r1)>>]

-----------------------------------------------------------------------------
(* Between the levels.  The multiple of p that makes an element divisible  *)
(* by p1 is added before it is divided by p1. *)
ScaleFactor(p1, p) == Centred(p1 % p, p)
Lambda(delta, p1, p) ==
  Centred(Rem((((delta * R!Inverse(p1 % p, p)) % p) * p1) - delta, p1 * p), p1 * p)
Lambdas(a1, p1, p) == Fold(LAMBDA s, d : Append(s, Lambda(d, p1, p)), <<>>, R!to_vec_bigint(a1))
Deltas(x, p) ==
  [lev |-> 1, a |-> Listed([i \in 1..2 |->
    R!from_vec(R!assign_zero(x.a[i].D, "evaluation"), Lambdas(x.a[2], R!Prime(x.a[2]), p))])]
Divided(x, p1) ==
  [x EXCEPT !.lev = IF x.lev = 1 THEN 0 ELSE x.lev,
            !.a[1] = R!mul_modp(@, R!Inverse(p1 % R!Prime(@), R!Prime(@)))]
Corrected(x, p) == Divided(add(x, Deltas(x, p)), R!Prime(x.a[2]))
Scale(x, p) == IF x.lev = 0 THEN x ELSE Corrected(mul_bigint(x, ScaleFactor(R!Prime(x.a[2]), p)), p)

mul_by_p1(x) ==
  IF n_mults(x) = 0 THEN Thrown(x)
  ELSE [lev |-> 1, a |-> <<R!mul_modp(x.a[1], R!Prime(x.a[2]) % R!Prime(x.a[1])), R!assign_zero(x.a[2].D, x.a[2].rep)>>]
raise_levelOnly(x) == [x EXCEPT !.lev = n_mults(x)]
raise_level(x) ==
  IF x.lev = n_mults(x) THEN x ELSE [lev |-> 1, a |-> <<x.a[1], R!from_vec(x.a[2], R!to_vec_bigint(x.a[1]))>>]

-----------------------------------------------------------------------------
(* Ciphertexts.  An identity of the key goes with them; -1 stands for the  *)
(* exception when two do not match. *)
check_pk_id(a, b) == IF a = 0 THEN b ELSE IF b = 0 \/ a = b THEN a ELSE -1
EmptyCiphertext(Ds) == [c0 |-> Values(Ds), c1 |-> Values(Ds), pk_id |-> 0]
Set(c0, c1, pk) == [c0 |-> c0, c1 |-> c1, pk_id |-> pk.a0.a[1].element[1]]
c_add(c, d) == [c0 |-> add(c.c0, d.c0), c1 |-> add(c.c1, d.c1), pk_id |-> check_pk_id(c.pk_id, d.pk_id)]
c_sub(c, d) == [c0 |-> sub(c.c0, d.c0), c1 |-> sub(c.c1, d.c1), pk_id |-> check_pk_id(c.pk_id, d.pk_id)]
c_Scale(c, p) == [c EXCEPT !.c0 = Scale(@, p), !.c1 = Scale(@, p)]
Switched(d0, d1, d2, pk, id) ==
  [c0 |-> Scale(add(mul_by_p1(d0), mul(pk.Sw_b, d2)), pk.pr),
   c1 |-> Scale(add(mul_by_p1(d1), mul(pk.Sw_a, d2)), pk.pr), pk_id |-> id]
MulScaled(c, d, pk) ==
  Switched(mul(c.c0, d.c0), add(mul(c.c0, d.c1), mul(c.c1, d.c0)), raise_level(negate(mul(c.c1, d.c1))), pk,
           check_pk_id(c.pk_id, d.pk_id))
c_mul(c, d, pk) == MulScaled(c_Scale(c, pk.pr), c_Scale(d, pk.pr), pk)
(* from_vec takes the factor back to the upper level. *)
Lowered(x, level) == IF level = 0 THEN lower_level(x) ELSE x
c_mul_element(c, ra) == [c EXCEPT !.c0 = mul(ra, @), !.c1 = mul(ra, @)]
c_mul_plain(c, mess, Ds) == c_mul_element(c, from_vec(Lowered(Values(Ds), c.c0.lev), mess))
c_Sum(s) == [c0 |-> Sum([i \in 1..Len(s) |-> s[i].c0]), c1 |-> Sum([i \in 1..Len(s) |-> s[i].c1]),
             pk_id |-> Fold(check_pk_id, 0, [i \in 1..Len(s) |-> s[i].pk_id])]

-----------------------------------------------------------------------------
(* Small random polynomials: bits give 0, 1 and -1; or h places of n are   *)
(* drawn that get 1 or -1 by a bit that is read for every eight of them.   *)
sample_half(v) == IF v % 4 < 2 THEN 0 ELSE IF v % 4 = 2 THEN 1 ELSE -1
sample_Half(bytes) == Listed([i \in 1..Len(bytes) |-> sample_half(bytes[i])])
HwtStep(st, i, h, bytes) ==
  IF st.cnt = h \/ st.ans[i] # 0 THEN st
  ELSE [cnt |-> st.cnt + 1, ans |-> [st.ans EXCEPT ![i] = IF bytes[1 + (st.cnt \div 8)] % 2 = 0 THEN -1 ELSE 1]]
sample_Hwt(n, h, places, bytes, gauss) ==
  IF h > n \div 2 THEN gauss
  ELSE Fold(LAMBDA st, i : HwtStep(st, i + 1, h, bytes), [cnt |-> 0, ans |-> Listed([i \in 1..n |-> 0])], places).ans

-----------------------------------------------------------------------------
(* Keys.  A secret key is kept on the lower level. *)
SwitchKey(s, Sw_a, es, pr) ==
  sub(add(mul(Sw_a, s), mul_bigint(es, pr)), mul_by_p1(mul(lower_level(s), lower_level(s))))
KeyGen(s, a0, e0, Sw_a, es, pr) ==
  [pk |-> [a0 |-> a0, b0 |-> add(mul(a0, s), mul_bigint(e0, pr)), pr |-> pr, Sw_a |-> Sw_a,
           Sw_b |-> IF n_mults(s) = 0 THEN Sw_a ELSE SwitchKey(s, Sw_a, es, pr)],
   sk |-> lower_level(s)]

(* Random coins: small polynomials u, v, w. *)
Coins(Ds, u, v, w) == [u |-> from_vec(Values(Ds), u), v |-> from_vec(Values(Ds), v), w |-> from_vec(Coeffs(Ds), w)]
AsValues(x) == IF n_mults(x) = 0 THEN change_rep(x, "evaluation") ELSE change_reps(x, "evaluation", "evaluation")
quasi_encrypt(pk, mess, rc) ==
  Set(add(mul(pk.b0, rc.u), AsValues(add(mul_bigint(rc.w, pk.pr), mess))), add(mul(pk.a0, rc.u), mul_bigint(rc.v, pk.pr)), pk)
encrypt(pk, mess, rc, Ds) == quasi_encrypt(pk, from_vec(Coeffs(Ds), mess), rc)

(* The numbers are taken as centred, then modulo the plaintext prime. *)
signed_mod(x, n, dest) == (IF x > n \div 2 THEN x - n ELSE x) % dest
set_poly_mod(v, n, dest) == Listed([i \in 1..Len(v) |-> signed_mod(v[i], n, dest)])
DecryptTo(ans, pr) ==
  IF ans.lev = -1 THEN <<>> ELSE set_poly_mod(change_rep(ans, "polynomial").a[1].element, R!Prime(ans.a[1]), pr)
decrypt(sk, c, pr) == DecryptTo(sub(c.c0, mul(c.c1, sk)), pr)
decrypt_any(sk, c, pr) == decrypt(lower_level(sk), c_Scale(c, pr), pr)

-----------------------------------------------------------------------------
(* Decryption by n parties: each puts a multiple of the plaintext prime on *)
(* its share, drawn below a bound. *)
Bound(p0, sec, n, pr) == (((Bval(p0, sec) * 2^sec) \div (n * pr))) \div 2
Share(sk, c, player) == IF player = 0 THEN sub(c.c0, mul(c.c1, sk)) ELSE negate(mul(c.c1, sk))
Masked(v, masks, Bd, p0, pr) == Listed([i \in 1..Len(v) |-> (v[i] + (masks[i] - Bd) * pr) % p0])
dist_decrypt_1(sk, c, player, n, masks, sec, pr) ==
  Masked(to_vec_bigint(Share(sk, c_Scale(c, pr), player)), masks, Bound(R!Prime(sk.a[1]), sec, n, pr), R!Prime(sk.a[1]), pr)
dist_decrypt_2(vv, vv1, p0) == Listed([i \in 1..Len(vv) |-> (vv[i] + vv1[i]) % p0])
(* Every party adds the others' shares, in order, to its own. *)
DistDecrypt(shares, me, p0, pr) ==
  set_poly_mod(Fold(LAMBDA t, i : IF i = me THEN t ELSE dist_decrypt_2(t, shares[i], p0), shares[me], Upto(Len(shares))), p0, pr)

-----------------------------------------------------------------------------
(* Keys made together: data holds each party's secret, coins rc1 and rc2,  *)
(* its part a of the common a, and its noise e. *)
Encrypt_Rq_Element(mess, rc, pk) ==
  Set(add(mul(pk.b0, rc.u), add(change_reps(mul_bigint(rc.w, pk.pr), "evaluation", "evaluation"), mess)),
      add(mul(pk.a0, rc.u), mul_bigint(rc.v, pk.pr)), pk)
sum_a(data) == Sum([i \in 1..Len(data) |-> data[i].a])
compute_b(d, a, pr) == add(mul(a, d.secret), mul_bigint(d.e, pr))
HalfKey(data, a, pr) == [a0 |-> a, b0 |-> Sum([i \in 1..Len(data) |-> compute_b(data[i], a, pr)]), pr |-> pr]
compute_enc_dash(d, pk) == Encrypt_Rq_Element(negate(mul_by_p1(raise_level(d.secret))), d.rc1, pk)
compute_enc(d, enc_dash, pk, Ds) ==
  c_add(Set(mul(enc_dash.c0, d.secret), mul(enc_dash.c1, d.secret), pk), quasi_encrypt(pk, assign_zero(Coeffs(Ds)), d.rc2))
SwitchData(data, dash, pk, Ds) ==
  [enc_dash |-> dash, enc |-> c_Sum([i \in 1..Len(data) |-> compute_enc(data[i], dash, pk, Ds)])]
Finalized(data, pk, sw) ==
  [pk |-> [a0 |-> pk.a0, b0 |-> pk.b0, pr |-> pk.pr, Sw_a |-> sw.enc.c1, Sw_b |-> sw.enc.c0],
   sks |-> Listed([i \in 1..Len(data) |-> lower_level(data[i].secret)]), half |-> pk, sw |-> sw]
WithHalf(data, pk, Ds) == Finalized(data, pk, SwitchData(data, c_Sum([i \in 1..Len(data) |-> compute_enc_dash(data[i], pk)]), pk, Ds))
DistKeyGen(data, pr, Ds) == WithHalf(data, HalfKey(data, sum_a(data), pr), Ds)

(* The keys of a run that was opened are made again from the seeds. *)
GlobalKey(data) == [secret |-> Sum([i \in 1..Len(data) |-> data[i].secret]), a |-> sum_a(data),
                    e |-> Sum([i \in 1..Len(data) |-> data[i].e])]
DashAgain(data, g, pk, Ds) ==
  [c_Sum(<<EmptyCiphertext(Ds)>> \o [i \in 1..Len(data) |-> Encrypt_Rq_Element(Values(Ds), data[i].rc1, pk)])
     EXCEPT !.c0 = add(@, negate(mul_by_p1(raise_level(g.secret))))]
EncAgain(data, dash, g, pk, Ds) ==
  c_add(Set(mul(dash.c0, g.secret), mul(dash.c1, g.secret), pk),
        c_Sum(<<EmptyCiphertext(Ds)>> \o [i \in 1..Len(data) |-> quasi_encrypt(pk, assign_zero(Coeffs(Ds)), data[i].rc2)]))
Matches(dash, enc, g, pk, sw) ==
  /\ equals(pk.a0, g.a) = TRUE
  /\ equals(pk.b0, add(mul(g.a, g.secret), mul_bigint(g.e, pk.pr))) = TRUE
  /\ equals(dash.c1, sw.enc_dash.c1) = TRUE /\ equals(dash.c0, sw.enc_dash.c0) = TRUE
  /\ equals(enc.c0, sw.enc.c0) = TRUE /\ equals(enc.c1, sw.enc.c1) = TRUE
MatchesFrom(data, dash, g, pk, sw, Ds) == Matches(dash, EncAgain(data, dash, g, pk, Ds), g, pk, sw)
check_randomness(data, pk, sw, Ds) ==
  MatchesFrom(data, DashAgain(data, GlobalKey(data), pk, Ds), GlobalKey(data), pk, sw, Ds)
=============================================================================
