---------------------------- MODULE MCDataFiles ----------------------------
(* Instances of DataFiles for TLC.  The buffer has 4 places: like the 101  *)
(* of the code, a number that is not a multiple of the sizes of tuples.    *)
EXTENDS DataFiles, TLC

CONSTANTS t1, t2, triple, mask

MCTwoThreads == {t1, t2}
MCTriple == {triple}
MCMask == {mask}

(* A tape uses one or two triples, or two masks.                           *)
MCNeeds == {n \in [Streams -> 0 .. 2] :
    \E s \in Streams : n[s] \in {1, 2} /\ \A r \in Streams \ {s} : n[r] = 0}
    \ {[s \in Streams |-> IF s = mask THEN 1 ELSE 0]}

MCSizes == [s \in Streams |-> IF s = triple THEN {3} ELSE {1, 2}]
MCItems == [s \in Streams |-> IF s = triple THEN 21 ELSE 10]
MCSymmetry == Permutations({t1, t2})
=============================================================================
