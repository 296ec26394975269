---------------------------- MODULE RingElements -----------------------------
(***************************************************************************)
(* Elements of a ring modulo a prime, as their coefficients or as their    *)
(* values at the roots (src/FHE/Ring_Element).  An element points to the   *)
(* data of its ring and prime, a key of FFTD.                              *)
(***************************************************************************)
EXTENDS Transforms

CONSTANT FFTD       \* the data of each ring and prime in use

Data(e) == FFTD[e.D]
Prime(e) == FFTD[e.D].p
phi_m(e) == FFTD[e.D].R.phi_m
Filled(n, first, rest) == Listed([i \in 1..n |-> IF i = 1 THEN first ELSE rest])

assign_zero(D, rep) == [D |-> D, rep |-> rep, element |-> Filled(FFTD[D].R.phi_m, 0, 0)]
assign_one(D, rep) == [D |-> D, rep |-> rep, element |-> Filled(FFTD[D].R.phi_m, 1, IF rep = "polynomial" THEN 0 ELSE 1)]

(* An exception takes the place of the representation. *)
Thrown(e, what) == [e EXCEPT !.rep = what]
With(e, op(_)) == [e EXCEPT !.element = Listed([i \in 1..Len(e.element) |-> op(i) % Prime(e)])]
Mismatch(a, b) == IF a.rep # b.rep THEN "rep_mismatch" ELSE IF a.D # b.D THEN "pr_mismatch" ELSE "none"

negate(e) == With(e, LAMBDA i : -e.element[i])
add(a, b) == IF Mismatch(a, b) # "none" THEN Thrown(a, Mismatch(a, b)) ELSE With(a, LAMBDA i : a.element[i] + b.element[i])
sub(a, b) == IF Mismatch(a, b) # "none" THEN Thrown(a, Mismatch(a, b)) ELSE With(a, LAMBDA i : a.element[i] - b.element[i])
mul_modp(a, x) == With(a, LAMBDA i : a.element[i] * x)

-----------------------------------------------------------------------------
(* The leading coefficient is taken off by a multiple of the cyclotomic polynomial. *)
reduce_step(aa, i, R, p) ==
  Listed([k \in 1..Len(aa) |->
    IF k \in (i - R.phi_m)..(i - 1) THEN (aa[k] - R.poly[k - i + R.phi_m + 1] * aa[i]) % p ELSE aa[k]])
Reduced(aa, R, p) ==
  SubSeq(Fold(LAMBDA x, k : reduce_step(x, Len(aa) + 1 - k, R, p), aa, Upto(Len(aa) - R.phi_m)), 1, R.phi_m)

SchoolBook(a, b, p) == Listed([k \in 1..(2 * Len(a)) |->
  Fold(LAMBDA t, i : IF k - i + 1 \in 1..Len(b) THEN (t + a[i] * b[k - i + 1]) % p ELSE t, 0, Upto(Len(a)))])
(* Modulo X^n + 1 the upper half is taken off the lower. *)
Negacyclic(aa, n, p) == Listed([k \in 1..n |-> (aa[k] - aa[k + n]) % p])
MulPolys(a, b, D) ==
  IF D.twop # 0 THEN Reduced(SchoolBook(a, b, D.p), D.R, D.p) ELSE Negacyclic(SchoolBook(a, b, D.p), D.R.phi_m, D.p)
mul(a, b) ==
  IF Mismatch(a, b) # "none" THEN Thrown(a, Mismatch(a, b))
  ELSE IF a.rep = "evaluation" THEN With(a, LAMBDA i : a.element[i] * b.element[i])
  ELSE [a EXCEPT !.element = MulPolys(a.element, b.element, Data(a))]

-----------------------------------------------------------------------------
(* Between the representations. *)
At(fft, pi) == Listed([i \in 1..Len(pi) |-> fft[pi[i] + 1]])
Spread(values, R) == Listed([k \in 1..R.m |-> IF \E i \in 1..R.phi_m : R.pi[i] = k - 1
                                              THEN values[CHOOSE i \in 1..R.phi_m : R.pi[i] = k - 1] ELSE 0])
Evaluations(a, D) == IF D.twop = 0 THEN FFT_Iter2(a, D.root[1], D.p) ELSE At(BFFT(a, D, 1), D.R.pi)
Coefficients(v, D) ==
  IF D.twop = 0
  THEN Times(FFT_Iter(v, (D.root[2] * D.root[2]) % D.p, D.p), Geometric(D.iphi, D.root[2], Len(v), D.p), D.p)
  ELSE Reduced(BFFT(Spread(v, D.R), D, 2), D.R, D.p)
change_rep(e, r) ==
  IF e.rep = r THEN e
  ELSE IF Data(e).twop < 0 THEN Thrown(e, "crash_requested")
  ELSE [e EXCEPT !.rep = r, !.element = IF r = "evaluation" THEN Evaluations(@, Data(e)) ELSE Coefficients(@, Data(e))]

equals(a, b) == IF Mismatch(a, b) # "none" THEN Mismatch(a, b) ELSE a.element = b.element
(* Numbers are taken as coefficients, into the representation there was. *)
from_vec(e, v) ==
  change_rep([e EXCEPT !.rep = "polynomial", !.element = Listed([i \in 1..phi_m(e) |-> v[i] % Prime(e)])], e.rep)
to_vec_bigint(e) == change_rep(e, "polynomial").element
get_constant(e) == change_rep(e, "polynomial").element[1]
=============================================================================
