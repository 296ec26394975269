------------------------------ MODULE ForkJoin ------------------------------
(***************************************************************************)
(* What Machine::run promises the program: the lines of the schedule are   *)
(* executed one after the other, every entry of a line exactly once, the   *)
(* entries of one line in any order.                                       *)
(***************************************************************************)
EXTENDS Naturals, Sequences

CONSTANT Schedule

VARIABLES
    line,   \* the line being executed
    done    \* <<line, thread>> of the entries that were executed

fjvars == <<line, done>>

Entries(l) == {<<l, t>> : t \in 0 .. Len(Schedule[l]) - 1}

Start == line = 1 /\ done = {}

Execute ==
    /\ line <= Len(Schedule)
    /\ \E e \in Entries(line) \ done : done' = done \cup {e}
    /\ UNCHANGED line

NextLine ==
    /\ line <= Len(Schedule)
    /\ Entries(line) \subseteq done
    /\ line' = line + 1
    /\ UNCHANGED done

FJSteps == Start /\ [][Execute \/ NextLine]_fjvars
FJSpec == FJSteps /\ WF_fjvars(Execute \/ NextLine)
=============================================================================
