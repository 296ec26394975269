-------------------------------- MODULE Lists --------------------------------
(* Sequences and functions whose values are worked out once, and folds over *)
(* sequences of any length. *)
EXTENDS Integers, Sequences, TLC

Listed(f) == f \o <<>>
(* The numbers up to n. *)
Upto(n) == [i \in 1..(IF n > 0 THEN n ELSE 0) |-> i]
Tabled(f) == f @@ <<>>
Fold(op(_, _), base, s) ==
  LET upto[k \in 0..Len(s)] == IF k = 0 THEN base ELSE op(upto[k - 1], s[k])
  IN  upto[Len(s)]
Total(s) == Fold(LAMBDA t, x : t + x, 0, s)
=============================================================================
