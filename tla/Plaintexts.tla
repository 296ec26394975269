----------------------------- MODULE Plaintexts ------------------------------
(***************************************************************************)
(* Plaintexts of src/FHE modulo a prime: one number per slot (a), or the   *)
(* coefficients of the polynomial that has these values (b), or both.  A   *)
(* conversion changes the object it is called for.  An exception takes the *)
(* place of the type.                                                      *)
(***************************************************************************)
EXTENDS Lists

CONSTANT FFTD       \* the data of each ring and prime in use

R == INSTANCE RingElements

p(x) == FFTD[x.FD].p
n_slots(x) == FFTD[x.FD].R.phi_m
Zeros(FD) == Listed([i \in 1..FFTD[FD].R.phi_m |-> 0])
Allocated(FD, type) == [FD |-> FD, type |-> type, a |-> Zeros(FD), b |-> Zeros(FD)]
set_poly(FD, v) == [Allocated(FD, "Polynomial") EXCEPT !.b = v]
set_slots(FD, v) == [Allocated(FD, "Evaluation") EXCEPT !.a = v]
assign_zero(FD, t) == Allocated(FD, t)
assign_one(FD, t) ==
  [Allocated(FD, t) EXCEPT !.a = IF t = "Polynomial" THEN @ ELSE Listed([i \in 1..Len(@) |-> 1]),
                           !.b = IF t = "Evaluation" THEN @ ELSE [@ EXCEPT ![1] = 1]]

Converted(x, v, from, to) == R!change_rep([D |-> x.FD, rep |-> from, element |-> v], to).element
from_poly(x) ==
  IF x.type # "Polynomial" THEN x ELSE [x EXCEPT !.type = "Both", !.a = Converted(x, x.b, "polynomial", "evaluation")]
to_poly(x) ==
  IF x.type # "Evaluation" THEN x ELSE [x EXCEPT !.type = "Both", !.b = Converted(x, x.a, "evaluation", "polynomial")]
element(x, i) == IF x.type = "Polynomial" THEN from_poly(x).a[i] ELSE x.a[i]
set_element(x, i, e) ==
  IF x.type = "Polynomial" THEN [x EXCEPT !.type = "not_implemented"] ELSE [x EXCEPT !.type = "Evaluation", !.a[i] = e]
coeff(x, i) == to_poly(x).b[i]
set_coeff(x, i, e) == [to_poly(x) EXCEPT !.type = "Polynomial", !.b[i] = e]

-----------------------------------------------------------------------------
(* Sums and differences in the representations both have; a sum of         *)
(* coefficients is brought below the prime only when it is above it.       *)
CommonType(x, y) ==
  IF x.type = "Both" /\ y.type # "Both" THEN y.type
  ELSE IF y.type = "Both" /\ x.type # "Both" THEN x.type
  ELSE IF x.type # y.type THEN "rep_mismatch" ELSE x.type
SumOf(b, c, q) == IF b + c > q THEN b + c - q ELSE b + c
DifferenceOf(b, c, q) == IF b < c THEN b - c + q ELSE b - c
Slotwise(x, y, type, a, b) ==
  [FD |-> x.FD, type |-> type, a |-> IF type # "Polynomial" THEN a ELSE Zeros(x.FD), b |-> IF type # "Evaluation" THEN b ELSE Zeros(x.FD)]
add(x, y) ==
  Slotwise(x, y, CommonType(x, y), Listed([i \in 1..n_slots(x) |-> (x.a[i] + y.a[i]) % p(x)]),
           Listed([i \in 1..n_slots(x) |-> SumOf(x.b[i], y.b[i], p(x))]))
sub(x, y) ==
  Slotwise(x, y, CommonType(x, y), Listed([i \in 1..n_slots(x) |-> (x.a[i] - y.a[i]) % p(x)]),
           Listed([i \in 1..n_slots(x) |-> DifferenceOf(x.b[i], y.b[i], p(x))]))
mul_slots(x, y) ==
  IF "Polynomial" \in {x.type, y.type} THEN [x EXCEPT !.type = "not_implemented"]
  ELSE set_slots(x.FD, Listed([i \in 1..n_slots(x) |-> (x.a[i] * y.a[i]) % p(x)]))
sqr(x) == mul_slots(x, x)
mul(x, y) == mul_slots(from_poly(x), from_poly(y))
(* The coefficients of a sum in place are not brought below the prime. *)
AddedTo(x, y) == [x EXCEPT !.type = "Polynomial", !.b = Listed([i \in 1..n_slots(x) |-> x.b[i] + y.b[i]])]
plus_assign(x, y) == AddedTo(to_poly(x), to_poly(y))
minus_assign(x, y) == sub(to_poly(x), to_poly(y))
negate(x) ==
  [x EXCEPT !.a = IF x.type = "Polynomial" THEN @ ELSE Listed([i \in 1..Len(@) |-> (-@[i]) % p(x)]),
            !.b = IF x.type = "Evaluation" THEN @ ELSE Listed([i \in 1..Len(@) |-> IF @[i] # 0 THEN p(x) - @[i] ELSE 0])]

(* Of different types, the one that is a polynomial gets its values too    *)
(* if the other has nothing else; then both are compared by what they have. *)
Compared(x, y) == IF x.type # "Polynomial" /\ y.type # "Polynomial" THEN x.a = y.a ELSE x.b = y.b
equals(x, y) ==
  IF x.FD # y.FD THEN FALSE
  ELSE IF x.type = y.type THEN Compared(x, y)
  ELSE IF x.type = "Evaluation" THEN Compared(x, from_poly(y)) ELSE Compared(from_poly(x), y)
=============================================================================
