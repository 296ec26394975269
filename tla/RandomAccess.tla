---------------------------- MODULE RandomAccess ----------------------------
(***************************************************************************)
(* What a memory of oram.py promises: every index has a value or none, and *)
(* an access finds what the last one of its index left there, however the  *)
(* memory moves the values about.  A memory that has run out of room has   *)
(* lost a value, and promises nothing from then on.                        *)
(***************************************************************************)
CONSTANTS Indices, Values
VARIABLES contents,             \* a value, or Nothing, of every index
          answer,               \* what the last access has returned
          lost                  \* a value did not fit

Nothing == <<>>

Init == contents = [i \in Indices |-> Nothing] /\ answer = Nothing /\ lost = FALSE

Read(i) == answer' = contents[i] /\ UNCHANGED <<contents, lost>>
Put(i, v) == contents' = [contents EXCEPT ![i] = v] /\ UNCHANGED lost
Write(i, v) == Put(i, v) /\ answer' = Nothing
Exchange(i, v) == Put(i, v) /\ answer' = contents[i]
Delete(i) == Put(i, Nothing) /\ answer' = Nothing
Lose == lost' = TRUE

Next == \/ \E i \in Indices : Read(i) \/ Delete(i) \/ (\E v \in Values : Write(i, v) \/ Exchange(i, v))
        \/ Lose

Spec == Init /\ [][Next]_<<contents, answer, lost>>
=============================================================================
