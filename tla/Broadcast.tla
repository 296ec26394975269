----------------------------- MODULE Broadcast -----------------------------
(***************************************************************************)
(* Player::Broadcast_Receive and Player::Check_Broadcast                   *)
(* (Networking/Player.cpp), executed by all players over one FIFO stream   *)
(* per ordered pair.  Every player makes the same sequence of calls.       *)
(*                                                                         *)
(* Send returns when the kernel has taken the whole message.  How much it  *)
(* takes ahead of the receiver is not under the program's control: Send    *)
(* may return at any time, and nobody may count on its return before the   *)
(* message has been read.                                                  *)
(* SHA-1 is a hash without collisions: the state is what was hashed.       *)
(***************************************************************************)
EXTENDS Integers, Sequences

CONSTANTS
    NPlayers,
    Calls,        \* what every player calls, in order: Seq({"broadcast", "check"})
    Inconsistent  \* players that may show different values to different players

Players == 0 .. NPlayers - 1

ASSUME PlayersAssumption == NPlayers \in Nat \ {0}
ASSUME CallsAssumption == Calls \in Seq({"broadcast", "check"})
ASSUME InconsistentAssumption == Inconsistent \subseteq Players

VARIABLES
    call,      \* [Players -> 1 .. Len(Calls) + 1] the call a player is in
    half,      \* [Players -> 1 .. 2] which of the two loops
    i,         \* [Players -> 0 .. NPlayers] its index
    sending,   \* [Players -> BOOLEAN] inside Send
    chan,      \* [Players -> [Players -> Seq(message)]], sender first
    o,         \* [Players -> [Players -> message]] the vector of streams
    ctx,       \* [Players -> Seq(vector)] the running hash of Check_Broadcast
    failed,    \* [Players -> BOOLEAN] threw broadcast_invalid
    delivered  \* ghost: [Players -> [call -> vector that it returned]]

control == <<call, half, i, sending>>
vars == <<control, chan, o, ctx, failed, delivered>>

(* A message is <<sender, call, value, hash state>>.                        *)
Data(p, c, v) == <<p, c, v, <<>>>>
Hash(h) == <<-1, 0, 0, h>>
NoMessage == <<-1, 0, 0, <<>>>>

Running(p) == ~failed[p] /\ call[p] <= Len(Calls)
Checking(p) == Calls[call[p]] = "check"

(* o[player_no]: filled by the caller, or with the digest.                  *)
Own(p) == IF Checking(p) THEN Hash(ctx[p]) ELSE Data(p, call[p], 0)

(* What p may show to anybody.                                             *)
Shows(p) ==
    {Own(p)} \cup
    IF p \in Inconsistent /\ ~Checking(p) THEN {Data(p, call[p], 1)} ELSE {}

Init ==
    /\ call = [p \in Players |-> 1]
    /\ half = [p \in Players |-> 1]
    /\ i = [p \in Players |-> 0]
    /\ sending = [p \in Players |-> FALSE]
    /\ chan = [p \in Players |-> [q \in Players |-> <<>>]]
    /\ o = [p \in Players |-> [q \in Players |-> NoMessage]]
    /\ ctx = [p \in Players |-> <<>>]
    /\ failed = [p \in Players |-> FALSE]
    /\ delivered = [p \in Players |-> [c \in DOMAIN Calls |-> <<>>]]

-----------------------------------------------------------------------------
(* The first loop receives from the players below and sends to those       *)
(* above, the second sends to those below and receives from those above.   *)

TurnSendFirst(p) == IF half[p] = 1 THEN "send" ELSE "receive"   \* slip

Turn(p) == IF half[p] = 1 <=> i[p] > p THEN "send" ELSE "receive"
SendTurn(p) == Running(p) /\ i[p] \in Players \ {p} /\ Turn(p) = "send"
ReceiveTurn(p) == Running(p) /\ i[p] \in Players \ {p} /\ Turn(p) = "receive"

Send(p) ==
    /\ SendTurn(p) /\ ~sending[p]
    /\ \E m \in Shows(p) : chan' = [chan EXCEPT ![p][i[p]] = Append(@, m)]
    /\ sending' = [sending EXCEPT ![p] = TRUE]
    /\ UNCHANGED <<call, half, i, o, ctx, failed, delivered>>

Sent(p) ==
    /\ sending[p]
    /\ sending' = [sending EXCEPT ![p] = FALSE]
    /\ i' = [i EXCEPT ![p] = @ + 1]
    /\ UNCHANGED <<call, half, chan, o, ctx, failed, delivered>>

Receive(p) ==
    /\ ReceiveTurn(p) /\ chan[i[p]][p] # <<>>
    /\ o' = [o EXCEPT ![p][i[p]] = Head(chan[i[p]][p])]
    /\ chan' = [chan EXCEPT ![i[p]][p] = Tail(@)]
    /\ i' = [i EXCEPT ![p] = @ + 1]
    /\ UNCHANGED <<call, half, sending, ctx, failed, delivered>>

(* Neither branch for player_no itself.                                    *)
Skip(p) ==
    /\ Running(p) /\ i[p] = p
    /\ o' = [o EXCEPT ![p][p] = Own(p)]
    /\ i' = [i EXCEPT ![p] = @ + 1]
    /\ UNCHANGED <<call, half, sending, chan, ctx, failed, delivered>>

SecondLoop(p) ==
    /\ Running(p) /\ half[p] = 1 /\ i[p] = NPlayers
    /\ half' = [half EXCEPT ![p] = 2]
    /\ i' = [i EXCEPT ![p] = 0]
    /\ UNCHANGED <<call, sending, chan, o, ctx, failed, delivered>>

(* The next call begins.                                                   *)
NextCall(p) ==
    /\ call' = [call EXCEPT ![p] = @ + 1]
    /\ half' = [half EXCEPT ![p] = 1]
    /\ i' = [i EXCEPT ![p] = 0]

AtEndOfLoop(p) == Running(p) /\ i[p] = NPlayers     \* slip: one loop is enough
AtEnd(p) == Running(p) /\ half[p] = 2 /\ i[p] = NPlayers

HashedFirst(p) == [q \in Players |-> o[p][0]]        \* slip: only one stream is hashed
Hashed(p) == o[p]

(* Broadcast_Receive hashes all streams in the order of the players.        *)
BroadcastReturns(p) ==
    /\ AtEnd(p) /\ ~Checking(p)
    /\ ctx' = [ctx EXCEPT ![p] = Append(@, Hashed(p))]
    /\ delivered' = [delivered EXCEPT ![p][call[p]] = o[p]]
    /\ NextCall(p)
    /\ UNCHANGED <<sending, chan, o, failed>>

SameHash(p) == \A q \in Players : o[p][q] = o[p][p]

CheckPasses(p) ==
    /\ AtEnd(p) /\ Checking(p) /\ SameHash(p)
    /\ ctx' = [ctx EXCEPT ![p] = <<>>]
    /\ NextCall(p)
    /\ UNCHANGED <<sending, chan, o, failed, delivered>>

(* broadcast_invalid is thrown, the process ends.                           *)
CheckFails(p) ==
    /\ AtEnd(p) /\ Checking(p) /\ ~SameHash(p)
    /\ failed' = [failed EXCEPT ![p] = TRUE]
    /\ UNCHANGED <<control, chan, o, ctx, delivered>>

Step(p) ==
    \/ Send(p) \/ Sent(p) \/ Receive(p) \/ Skip(p) \/ SecondLoop(p)
    \/ BroadcastReturns(p) \/ CheckPasses(p) \/ CheckFails(p)

Finished(p) == failed[p] \/ call[p] > Len(Calls)
AllFinished == \A p \in Players : Finished(p)

Next ==
    \/ \E p \in Players : Step(p)
    \/ AllFinished /\ UNCHANGED vars

Spec == Init /\ [][Next]_vars

(* A message that is longer than all buffers: only its receiver ends Send. *)
Taken(p) == sending[p] => chan[p][i[p]] = <<>>
FairSpec == Spec /\ \A p \in Players : WF_vars(Taken(p) /\ Step(p))

-----------------------------------------------------------------------------
(* "Assumes o[player_no] contains the thing broadcast by me" (Player.h): a  *)
(* broadcast returns, to everybody, what each player gave to the same call, *)
(* whatever the messages still in flight.                                   *)
BroadcastCalls == {c \in DOMAIN Calls : Calls[c] = "broadcast"}
BroadcastsAgree ==
    \A p \in Players, q \in Players \ Inconsistent : \A c \in BroadcastCalls :
        c < call[p] => delivered[p][c][q] = Data(q, c, 0)

(* "Run Protocol To Verify Broadcast Is Correct": two players that passed   *)
(* the same check got the same vectors in all broadcasts before it, even if *)
(* a player sends different values; and it fails only for a player that got *)
(* another vector than somebody else.                                       *)
CheckedVectorsAgree ==
    /\ \A p, q \in Players : \A c \in DOMAIN Calls :
        Calls[c] = "check" /\ c < call[p] /\ c < call[q] =>
            \A k \in BroadcastCalls : k < c => delivered[p][k] = delivered[q][k]
    /\ \A p \in Players : failed[p] =>
        \E q \in Players, c \in BroadcastCalls :
            c < call[p] /\ c < call[q] /\ delivered[p][c] # delivered[q][c]

(* No stream ever holds two unread messages: no player is so far ahead.     *)
AtMostOneUnread == \A p, q \in Players : Len(chan[p][q]) <= 1

(* Every sequence of calls ends, even if no buffer takes a message: "to     *)
(* avoid problems with OS max buffer size getting in the way".              *)
CallsFinish == <>AllFinished
=============================================================================
