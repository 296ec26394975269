-------------------------------- MODULE Calls --------------------------------
(***************************************************************************)
(* Calls of the program's functions with every input of small sets.  A     *)
(* behaviour is one call: the variable call holds the group of the         *)
(* function, its inputs, and got, what the code's steps make of them.  The *)
(* properties compare got with what the function stands for.  The parts    *)
(* only spread the calls over the initial states.                          *)
(***************************************************************************)
EXTENDS Integers

VARIABLE call

Init == call \in [fn : {"none"}, part : 1..4]

Chosen(i) == call.fn = "none" /\ call.part = i

Called(fn, in, got) == call' = [fn |-> fn, in |-> in, got |-> got]
=============================================================================
