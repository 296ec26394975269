----------------------------- MODULE MCOpening -----------------------------
(* Instances of Opening for TLC: tapes.                                    *)
EXTENDS Opening

(* Inputs of two parties; openings one after the other, with an input of   *)
(* the base player between them and a check that their number causes;      *)
(* openings begun before the ones before have ended; checks that the tape  *)
(* asks for, the first with nothing left to check; an input after the last. *)
MCTape == <<StartInput(1), StartInput(2), StopInput(2), StopInput(1),
            Begin(4), End, StartInput(0), StopInput(0), Begin(2), End, CheckNow,
            Begin(1), Begin(2), End, Begin(1), End, End, CheckNow,
            StartInput(3), StopInput(3)>>

(* The tape is one of those that the theorems are about.                   *)
ASSUME TapeAssumption == CallsInOrder /\ ChecksApart

=============================================================================
