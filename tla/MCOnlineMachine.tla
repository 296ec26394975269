-------------------------- MODULE MCOnlineMachine --------------------------
(* Schedules and tapes on which TLC runs OnlineMachine.                     *)
EXTENDS OnlineMachine

Plain(n) == [tape |-> n, arg |-> 0]

(* Lines of one and of two threads; tape 3 does not declare its usage.      *)
StaticTapes == 0 .. 3
StaticCode == 0 :> <<Use(1), Use(2)>> @@ 1 :> <<Use(1)>> @@ 2 :> <<>>
           @@ 3 :> <<Use(2), Use(1)>>
StaticSchedule ==
    << <<Plain(0), [tape |-> 1, arg |-> 1]>>, <<Plain(3)>>, <<Plain(1), Plain(2)>> >>

(* A tape that starts two others, joins them and starts one again: what the *)
(* compiler makes of for_range_multithread.                                 *)
StartsAndJoins == <<Use(1), RunOn(1, 1, 0), RunOn(2, 1, 1), Use(1), Join(1),
                    Join(2), RunOn(2, 1, 2), Join(2), Use(1)>>
(* In it the started tapes use no preprocessed data.  Then comes a line     *)
(* that the compiler would not write, of tapes that throw: CRASH, a tape of *)
(* unknown usage started by RUN_TAPE or in a line of several threads, a     *)
(* thread number beyond the pool.                                           *)
FailTapes == 0 .. 5
FailCode == 0 :> StartsAndJoins @@ 1 :> <<>> @@ 2 :> <<Use(1), Crash>>
         @@ 3 :> <<Use(1)>> @@ 4 :> <<RunOn(2, 3, 0)>> @@ 5 :> <<RunOn(7, 0, 0)>>
FailSchedule == << <<Plain(0)>>, <<Plain(2), Plain(5), Plain(4), Plain(3)>> >>
=============================================================================
