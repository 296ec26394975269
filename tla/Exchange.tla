------------------------------ MODULE Exchange ------------------------------
(***************************************************************************)
(* octetStream::exchange (Tools/octetStream.cpp) as Player::pass_around    *)
(* and Player::exchange (Networking/Player.cpp) call it: every player      *)
(* sends its data to the player Offset above and receives, into the very   *)
(* same buffer, the data of the player Offset below.  Both are cut into    *)
(* chunks, one sent and one received in turn.  With two players this is    *)
(* exchange; Rounds calls after each other pass the data on.               *)
(*                                                                         *)
(* A unit is a part of the data that is never cut.  Send gives a chunk to  *)
(* the kernel and returns once at most Capacity units are unread; recv     *)
(* returns what there is.  The length that goes first is a unit, too.      *)
(***************************************************************************)
EXTENDS Integers, Sequences, SequencesExt

CONSTANTS
    NPlayers,
    Offset,
    Rounds,      \* calls of pass_around
    Lengths,     \* the lengths the players' data may have
    Chunk,       \* buffer_size
    Capacity     \* units a stream holds without blocking the sender

Players == 0 .. NPlayers - 1

ASSUME PlayersAssumption == NPlayers \in Nat \ {0} /\ Offset \in 1 .. NPlayers - 1
ASSUME LengthsAssumption == Lengths \subseteq Nat
(* The code relies on it: a chunk is sent before anything is received.     *)
ASSUME ChunkAssumption == Chunk \in Nat \ {0} /\ Capacity \in Nat /\ Rounds \in Nat

Target(p) == (p + Offset) % NPlayers
Source(p) == (p + NPlayers - Offset) % NPlayers

VARIABLES
    pc,         \* [Players -> control point]
    round,      \* [Players -> 0 .. Rounds] calls that have returned
    data,       \* [Players -> Seq(unit)] the buffer, mxlen units
    len,        \* [Players -> Nat]
    newLen,     \* [Players -> Nat]
    sent, received, \* [Players -> Nat]
    stream,     \* [Players -> Seq(unit)] unread units on the way to Target(p)
    length0     \* ghost: [Players -> Nat] the lengths at the beginning

counters == <<sent, received>>
vars == <<pc, round, data, len, newLen, counters, stream, length0>>

MinOf(a, b) == IF a < b THEN a ELSE b
MaxOf(a, b) == IF a < b THEN b ELSE a

Unit(p, k) == <<"unit", p, k>>
Length(n) == <<"length", 0, n>>
Garbage == <<"garbage", 0, 0>>

Init ==
    /\ pc = [p \in Players |-> "send length"]
    /\ round = [p \in Players |-> 0]
    /\ length0 \in [Players -> Lengths]
    /\ len = length0
    /\ data = [p \in Players |-> [k \in 1 .. len[p] |-> Unit(p, k)]]
    /\ newLen = [p \in Players |-> 0]
    /\ sent = [p \in Players |-> 0] /\ received = [p \in Players |-> 0]
    /\ stream = [p \in Players |-> <<>>]

(* send() has returned.                                                    *)
Taken(p) == Len(stream[p]) <= Capacity

Goto(p, label) == pc' = [pc EXCEPT ![p] = label]

SendLength(p) ==
    /\ pc[p] = "send length" /\ round[p] < Rounds
    /\ stream' = [stream EXCEPT ![p] = Append(@, Length(len[p]))]
    /\ Goto(p, "receive length")
    /\ UNCHANGED <<round, data, len, newLen, counters, length0>>

ResizedToNew(p, n) == [k \in 1 .. n |-> Garbage]        \* slip: nothing is kept
Resized(p, n) ==
    LET mxlen == MaxOf(n, len[p])
        kept == MinOf(len[p], mxlen)
    IN  [k \in 1 .. mxlen |-> IF k <= kept THEN data[p][k] ELSE Garbage]

ReceiveLength(p) ==
    /\ pc[p] = "receive length" /\ Taken(p)
    /\ LET s == stream[Source(p)] IN
       /\ s # <<>>
       /\ newLen' = [newLen EXCEPT ![p] = Head(s)[3]]
       /\ stream' = [stream EXCEPT ![Source(p)] = Tail(s)]
       /\ data' = IF Head(s)[3] > Len(data[p])
                  THEN [data EXCEPT ![p] = Resized(p, Head(s)[3])] ELSE data
    /\ sent' = [sent EXCEPT ![p] = 0] /\ received' = [received EXCEPT ![p] = 0]
    /\ Goto(p, "send")
    /\ UNCHANGED <<round, len, length0>>

SendChunk(p) ==
    /\ pc[p] = "send" /\ sent[p] < len[p]
    /\ LET toSend == MinOf(Chunk, len[p] - sent[p]) IN
       /\ stream' = [stream EXCEPT ![p] = @ \o SubSeq(data[p], sent[p] + 1, sent[p] + toSend)]
       /\ sent' = [sent EXCEPT ![p] = @ + toSend]
    /\ Goto(p, "receive")
    /\ UNCHANGED <<round, data, len, newLen, received, length0>>

NothingToSend(p) ==
    /\ pc[p] = "send" /\ sent[p] = len[p] /\ received[p] < newLen[p]
    /\ Goto(p, "receive")
    /\ UNCHANGED <<round, data, len, newLen, counters, stream, length0>>

(* The chunk that is being received ends where the loop will look again.   *)
ChunkEndLate(p) == newLen[p]                 \* slip: all is read in one go
ChunkEnd(p) == MinOf(newLen[p], ((received[p] \div Chunk) + 1) * Chunk)

(* recv: whatever has arrived of the chunk.                                *)
Receive(p) ==
    /\ pc[p] = "receive" /\ Taken(p) /\ received[p] < newLen[p]
    /\ LET s == stream[Source(p)]
           n == MinOf(Len(s), ChunkEnd(p) - received[p])
           at == received[p]
       IN  /\ n > 0
           /\ data' = [data EXCEPT ![p] =
                 [k \in DOMAIN @ |-> IF k \in at + 1 .. at + n THEN s[k - at] ELSE @[k]]]
           /\ stream' = [stream EXCEPT ![Source(p)] = SubSeq(s, n + 1, Len(s))]
           /\ received' = [received EXCEPT ![p] = at + n]
           /\ Goto(p, IF at + n = ChunkEnd(p) THEN "send" ELSE "receive")
    /\ UNCHANGED <<round, len, newLen, sent, length0>>

NothingToReceive(p) ==
    /\ pc[p] = "receive" /\ Taken(p) /\ received[p] = newLen[p]
    /\ Goto(p, "send")
    /\ UNCHANGED <<round, data, len, newLen, counters, stream, length0>>

Return(p) ==
    /\ pc[p] = "send" /\ sent[p] = len[p] /\ received[p] = newLen[p]
    /\ len' = [len EXCEPT ![p] = newLen[p]]
    /\ round' = [round EXCEPT ![p] = @ + 1]
    /\ Goto(p, "send length")
    /\ UNCHANGED <<data, newLen, counters, stream, length0>>

Step(p) == \/ SendLength(p) \/ ReceiveLength(p) \/ SendChunk(p) \/ NothingToSend(p)
           \/ Receive(p) \/ NothingToReceive(p) \/ Return(p)

AllDone == \A p \in Players : round[p] = Rounds
Done == AllDone /\ UNCHANGED vars

Next == (\E p \in Players : Step(p)) \/ Done

(* A player's thread is never blocked forever by its scheduler.            *)
Spec == Init /\ [][Next]_vars /\ \A p \in Players : WF_vars(Step(p))

-----------------------------------------------------------------------------
(* Whose data p holds after r calls.                                       *)
Owner(p, r) == (p + NPlayers * Rounds - Offset * r) % NPlayers

(* What has not been sent has not been overwritten by what was received.   *)
UnsentIsKept ==
    \A p \in Players : pc[p] \in {"send", "receive"} =>
        \A k \in sent[p] + 1 .. len[p] : data[p][k] = Unit(Owner(p, round[p]), k)

(* pass_around: between two calls a player holds the data of the player    *)
(* as many places below as calls have returned, whatever the lengths and   *)
(* however far the others are.                                             *)
DataPassedOn ==
    /\ UnsentIsKept
    /\ \A p \in Players : pc[p] = "send length" =>
        LET q == Owner(p, round[p]) IN
        /\ len[p] = length0[q]
        /\ \A k \in 1 .. len[p] : data[p][k] = Unit(q, k)

(* Every call returns: no order of calls makes the players wait for each   *)
(* other, if the streams take a chunk.                                     *)
CallsReturn == <>AllDone
=============================================================================
