------------------------------ MODULE Opening ------------------------------
(***************************************************************************)
(* Opening shared values and checking their MACs (Auth/MAC_Check.h and     *)
(* .cpp), by all parties over one FIFO stream per ordered pair.  All       *)
(* parties make the same calls, as they run the same tape: openings that   *)
(* are begun and ended (a later one may be begun before an earlier one is  *)
(* ended), checks, and inputs (Processor/Input.cpp), whose messages go     *)
(* through the same streams.                                               *)
(*                                                                         *)
(* MAC_Check adds the shares up a tree and sends the result down another;  *)
(* Direct_MAC_Check sends every share to everybody.  What a message says   *)
(* is a bag of the shares that were added up; a receiver takes a message   *)
(* for whatever it expects.  Streams take what is sent: "Implicit assume   *)
(* that the amount of data being sent does not overload the OS".           *)
(***************************************************************************)
EXTENDS Integers, Sequences, FiniteSets, Bags, SequencesExt

CONSTANTS
    NPlayers,
    BasePlayer,   \* base_player
    OpeningSum,   \* opening_sum, shares added by one party at once
    MaxBroadcast, \* max_broadcast, parties the result is sent to by one party
    PopenMax,     \* POPEN_MAX
    Ops           \* the calls of the tape

Players == 0 .. NPlayers - 1
Call(op, n) == [op |-> op, n |-> n]
Begin(size) == Call("begin", size)      \* POpen_Begin of size values
End == Call("end", 0)                   \* POpen_End of the oldest opening
CheckNow == Call("check", 0)
StartInput(player) == Call("startinput", player)
StopInput(player) == Call("stopinput", player)

Count(call, n) == Cardinality({c \in 1 .. n : Ops[c] = call})
Begins(n) == Cardinality({c \in 1 .. n : Ops[c].op = "begin"})
Ends(n) == Cardinality({c \in 1 .. n : Ops[c].op = "end"})

ASSUME PlayersAssumption == NPlayers \in Nat \ {0} /\ BasePlayer \in Players
ASSUME FanAssumption == {OpeningSum, MaxBroadcast} \subseteq Nat \ {0, 1}
ASSUME PopenAssumption == PopenMax \in Nat \ {0}
ASSUME OpsAssumption ==
    /\ Ops \in Seq([op : {"begin", "end", "check", "startinput", "stopinput"}, n : Nat])
    /\ \A c \in DOMAIN Ops : Ends(c) <= Begins(c)
    /\ Begins(Len(Ops)) = Ends(Len(Ops))

(* The call that began the k-th opening, and its size.                     *)
BeginOf(k) == CHOOSE c \in DOMAIN Ops : Ops[c].op = "begin" /\ Begins(c) = k
SizeOf(k) == Ops[BeginOf(k)].n

VARIABLES
    direct,   \* Direct_MAC_Check, chosen for all parties when they start
    pc,       \* [Players -> 1 .. Len(Ops) + 1] the call
    stage,    \* [Players -> where in the call]
    sums,     \* [Players -> Nat] sum_players
    values,   \* [Players -> bag of shares] the sum so far
    stream,   \* [{"main", "check"} -> [Players -> [Players -> Seq(message)]]]
    macs,     \* [Players -> Seq(<<opening, index>>)]
    vals,     \* [Players -> Seq(<<content, index>>)]
    popenCnt, \* [Players -> Nat]
    failed,   \* [Players -> BOOLEAN] an exception was thrown
    opened,   \* ghost: [Players -> Seq(content)] what POpen_End returned
    input,    \* ghost: [Players -> Seq(<<player, content>>)] inputs received
    checks    \* ghost: [Players -> Seq(call)] the calls that made a check

control == <<pc, stage, sums>>
store == <<macs, vals, popenCnt>>
ghosts == <<opened, input, checks>>
vars == <<direct, control, values, stream, store, failed, ghosts>>

Share(k, p) == SetToBag({<<"share", k, p>>})
Complete(k) == SetToBag({<<"share", k, p>> : p \in Players})
Masked(c) == SetToBag({<<"input", c, Ops[c].n>>})
Seed(n, p) == SetToBag({<<"seed", n, p>>})
Tau(n, p, ok) == SetToBag({<<"tau", n, p, ok>>})

Init ==
    /\ direct \in BOOLEAN
    /\ pc = [p \in Players |-> 1]
    /\ stage = [p \in Players |-> "call"]
    /\ sums = [p \in Players |-> NPlayers]
    /\ values = [p \in Players |-> EmptyBag]
    /\ stream = [c \in {"main", "check"} |-> [p \in Players |-> [q \in Players |-> <<>>]]]
    /\ macs = [p \in Players |-> <<>>] /\ vals = [p \in Players |-> <<>>]
    /\ popenCnt = [p \in Players |-> 0]
    /\ failed = [p \in Players |-> FALSE]
    /\ opened = [p \in Players |-> <<>>] /\ input = [p \in Players |-> <<>>]
    /\ checks = [p \in Players |-> <<>>]

-----------------------------------------------------------------------------
(* Streams.  Direct_MAC_Check has streams of its own for checks.           *)

CheckChannel == IF direct THEN "check" ELSE "main"

Sends(s, c, p, to, m) ==
    [s EXCEPT ![c][p] = [q \in Players |-> IF q \in to THEN Append(@[q], m) ELSE @[q]]]
Available(c, p, from) == \A q \in from : stream[c][q][p] # <<>>
Heads(c, p, from) == [q \in from |-> Head(stream[c][q][p])]
Takes(s, c, p, from) ==
    [s EXCEPT ![c] = [q \in Players |->
        IF q \in from THEN [s[c][q] EXCEPT ![p] = Tail(s[c][q][p])] ELSE s[c][q]]]

AddUp(b, heads) ==
    LET players == SetToSeq(DOMAIN heads)
        total[n \in 0 .. Len(players)] ==
            IF n = 0 THEN b ELSE total[n - 1] (+) heads[players[n]]
    IN  total[Len(players)]

At(p, s, op) == /\ ~failed[p] /\ stage[p] = s /\ pc[p] <= Len(Ops)
                /\ (op = "any" \/ Ops[pc[p]].op = op)
Return(p) == /\ pc' = [pc EXCEPT ![p] = @ + 1]
             /\ stage' = [stage EXCEPT ![p] = "call"]
Stage(p, s) == stage' = [stage EXCEPT ![p] = s] /\ pc' = pc

-----------------------------------------------------------------------------
(* The trees.  Parties count from the base player.                         *)

Relative(p) == (p - BasePlayer + NPlayers) % NPlayers
Absolute(r) == (BasePlayer + r) % NPlayers

SumPlayers(n) == (n - 2 + OpeningSum) \div OpeningSum

(* Whom p sends its sum to at a level of s parties, and                    *)
Receiver(p, s, last) ==
    IF s > 0 /\ Relative(p) \in s .. last - 1 THEN {Absolute(Relative(p) % s)} ELSE {}

(* whom p adds up at a level of s parties, the level before having last.   *)
Summands(p, s, last) ==
    IF s = 0 \/ Relative(p) >= s THEN {}
    ELSE {Absolute(r) : r \in {x \in s .. last - 1 : (x - Relative(p)) % s = 0}}

IsForwarder(p) == Relative(p) # 0 /\ Relative(p) * MaxBroadcast < NPlayers
IsLeaf(p) == Relative(p) * MaxBroadcast >= NPlayers
Parent(p) == Absolute(Relative(p) \div MaxBroadcast)
ChildrenFewer(p) ==                          \* slip: the last is forgotten
    {Absolute(r) : r \in {x \in 1 .. NPlayers - 2 : x \div MaxBroadcast = Relative(p)}} \ {p}
Children(p) ==
    {Absolute(r) : r \in {x \in 1 .. NPlayers - 1 : x \div MaxBroadcast = Relative(p)}} \ {p}

-----------------------------------------------------------------------------
(* POpen_Begin.                                                            *)

Opening(p) == Begins(pc[p])
AddToMacsFront(p, k, size) ==                \* slip: at the front
    macs' = [macs EXCEPT ![p] = [j \in 1 .. size |-> <<k, j>>] \o @]
AddToMacs(p, k, size) ==
    macs' = [macs EXCEPT ![p] = @ \o [j \in 1 .. size |-> <<k, j>>]]
AddToValues(p, k, content) ==
    vals' = [vals EXCEPT ![p] = @ \o [j \in 1 .. SizeOf(k) |-> <<content, j>>]]

BeginTree(p) ==
    /\ ~direct /\ At(p, "call", "begin")
    /\ AddToMacs(p, Opening(p), Ops[pc[p]].n)
    /\ values' = [values EXCEPT ![p] = Share(Opening(p), p)]
    /\ sums' = [sums EXCEPT ![p] = NPlayers]
    /\ Stage(p, "sum")
    /\ UNCHANGED <<stream, vals, popenCnt, failed, ghosts>>

(* One turn of the loop of TreeSum::start: a party sends or adds up.       *)
SumUp(p) ==
    /\ At(p, "sum", "any")
    /\ LET last == sums[p]
           s == SumPlayers(last)
           from == Summands(p, s, last)
           to == Receiver(p, s, last)
       IN  /\ Available("main", p, from)
           /\ stream' = Takes(Sends(stream, "main", p, to, values[p]), "main", p, from)
           /\ values' = [values EXCEPT ![p] = AddUp(@, Heads("main", p, from))]
           /\ sums' = [sums EXCEPT ![p] = s]
           /\ Stage(p, IF s = 0 THEN "spread" ELSE "sum")
    /\ UNCHANGED <<store, failed, ghosts>>

(* The base player, and the parties it needs to reach all, send the result *)
(* on; the others leave it in the stream until POpen_End.                  *)
SpreadBase(p) ==
    /\ At(p, "spread", "any") /\ p = BasePlayer
    /\ stream' = Sends(stream, "main", p, Children(p), values[p])
    /\ AddToValues(p, Opening(p), values[p])
    /\ Return(p)
    /\ UNCHANGED <<sums, values, macs, popenCnt, failed, ghosts>>

SpreadForward(p) ==
    /\ At(p, "spread", "any") /\ IsForwarder(p)
    /\ Available("main", p, {Parent(p)})
    /\ LET m == Head(stream["main"][Parent(p)][p]) IN
       /\ stream' = Sends(Takes(stream, "main", p, {Parent(p)}), "main", p, Children(p), m)
       /\ values' = [values EXCEPT ![p] = m]
       /\ AddToValues(p, Opening(p), m)
    /\ Return(p)
    /\ UNCHANGED <<sums, macs, popenCnt, failed, ghosts>>

SpreadLeaf(p) ==
    /\ At(p, "spread", "any") /\ p # BasePlayer /\ IsLeaf(p)
    /\ Return(p)
    /\ UNCHANGED <<sums, values, stream, store, failed, ghosts>>

(* Direct_MAC_Check::POpen_Begin.                                          *)
BeginDirect(p) ==
    /\ direct /\ At(p, "call", "begin")
    /\ LET m == Share(Opening(p), p) IN
       /\ stream' = Sends(stream, "main", p, Players \ {p}, m)
       /\ AddToValues(p, Opening(p), m)
    /\ AddToMacs(p, Opening(p), Ops[pc[p]].n)
    /\ Return(p)
    /\ UNCHANGED <<sums, values, popenCnt, failed, ghosts>>

-----------------------------------------------------------------------------
(* POpen_End.                                                              *)

Ended(p) == Ends(pc[p])

CheckStored(p, m, v) == Len(vals[p]) >= PopenMax      \* slip: tested too early
CheckIfNeeded(p, m, v) == Len(m) >= PopenMax \/ Len(v) >= PopenMax

ReturnOrCheck(p) ==
    IF CheckIfNeeded(p, macs[p], vals'[p]) THEN Stage(p, "seed") ELSE Return(p)

Returned(p, content) ==
    /\ opened' = [opened EXCEPT ![p] = Append(@, content)]
    /\ popenCnt' = [popenCnt EXCEPT ![p] = @ + SizeOf(Ended(p))]
    /\ UNCHANGED <<input, checks>>

(* A leaf receives the result now ...                                      *)
EndLeaf(p) ==
    /\ ~direct /\ At(p, "call", "end") /\ IsLeaf(p)
    /\ Available("main", p, {Parent(p)})
    /\ LET m == Head(stream["main"][Parent(p)][p]) IN
       /\ AddToValues(p, Ended(p), m)
       /\ values' = [values EXCEPT ![p] = m]
       /\ Returned(p, m)
    /\ stream' = Takes(stream, "main", p, {Parent(p)})
    /\ ReturnOrCheck(p)
    /\ UNCHANGED <<sums, macs, failed>>

GetNewest(p, size) ==                        \* slip: the newest values
    SubSeq(vals[p], Len(vals[p]) - size + 1, Len(vals[p]))

(* ... the others have it in vals, behind what is waiting for a check.     *)
GetValues(p, size) == SubSeq(vals[p], popenCnt[p] + 1, popenCnt[p] + size)

EndInner(p) ==
    /\ ~direct /\ At(p, "call", "end") /\ ~IsLeaf(p)
    /\ LET size == SizeOf(Ended(p)) IN
       IF popenCnt[p] + size > Len(vals[p])
       THEN /\ failed' = [failed EXCEPT ![p] = TRUE]
            /\ UNCHANGED <<control, store, ghosts>>
       ELSE /\ vals' = vals /\ macs' = macs
            /\ Returned(p, GetValues(p, size)[1][1])
            /\ ReturnOrCheck(p)
            /\ UNCHANGED <<sums, failed>>
    /\ UNCHANGED <<values, stream>>

(* Direct_MAC_Check::POpen_End: the others' shares are added to one's own. *)
SetValues(p, size, content) ==
    vals' = [vals EXCEPT ![p] = [i \in DOMAIN @ |->
                IF i \in popenCnt[p] + 1 .. popenCnt[p] + size
                THEN <<content, i - popenCnt[p]>> ELSE @[i]]]

EndDirect(p) ==
    /\ direct /\ At(p, "call", "end")
    /\ LET others == Players \ {p}
           size == SizeOf(Ended(p))
           own == GetValues(p, size)[1][1]
           content == AddUp(own, Heads("main", p, others))
       IN  /\ Available("main", p, others)
           /\ stream' = Takes(stream, "main", p, others)
           /\ SetValues(p, size, content)
           /\ Returned(p, content)
           /\ ReturnOrCheck(p)
    /\ UNCHANGED <<sums, values, macs, failed>>

-----------------------------------------------------------------------------
(* Check: a common random seed, then a commitment to the own difference,   *)
(* each a broadcast.                                                       *)

CheckNothing(p) ==
    /\ At(p, "call", "check") /\ macs[p] = <<>> /\ vals[p] = <<>>
    /\ Return(p)
    /\ UNCHANGED <<sums, values, stream, store, failed, ghosts>>

CheckBegins(p) ==
    /\ At(p, "call", "check") /\ ~(macs[p] = <<>> /\ vals[p] = <<>>)
    /\ Stage(p, "seed")
    /\ UNCHANGED <<sums, values, stream, store, failed, ghosts>>

Nth(p) == Len(checks[p])

SendSeed(p) ==
    /\ At(p, "seed", "any")
    /\ stream' = Sends(stream, CheckChannel, p, Players \ {p}, Seed(Nth(p), p))
    /\ Stage(p, "seeds")
    /\ UNCHANGED <<sums, values, store, failed, ghosts>>

(* Value and MAC at the same place belong together.                        *)
Aligned(p, i) ==
    /\ i \in DOMAIN macs[p] /\ i \in DOMAIN vals[p]
    /\ vals[p][i] = <<Complete(macs[p][i][1]), macs[p][i][2]>>

(* invalid_commitment is thrown for anything but what is expected.         *)
ReceiveSeeds(p) ==
    /\ At(p, "seeds", "any") /\ Available(CheckChannel, p, Players \ {p})
    /\ LET others == Players \ {p}
           heads == Heads(CheckChannel, p, others)
           tau == Tau(Nth(p), p, \A i \in 1 .. popenCnt[p] : Aligned(p, i))
           taken == Takes(stream, CheckChannel, p, others)
       IN  IF \A q \in others : heads[q] = Seed(Nth(p), q)
           THEN /\ stream' = Sends(taken, CheckChannel, p, others, tau)
                /\ vals' = [vals EXCEPT ![p] = SubSeq(@, popenCnt[p] + 1, Len(@))]
                /\ macs' = [macs EXCEPT ![p] = SubSeq(@, popenCnt[p] + 1, Len(@))]
                /\ values' = [values EXCEPT ![p] = tau]
                /\ Stage(p, "taus")
                /\ UNCHANGED failed
           ELSE /\ failed' = [failed EXCEPT ![p] = TRUE]
                /\ UNCHANGED <<pc, stage, values, stream, macs, vals>>
    /\ UNCHANGED <<sums, popenCnt, ghosts>>

ReceiveTaus(p) ==
    /\ At(p, "taus", "any") /\ Available(CheckChannel, p, Players \ {p})
    /\ LET others == Players \ {p}
           heads == Heads(CheckChannel, p, others)
       IN  IF \A q \in others : heads[q] = Tau(Nth(p), q, TRUE)
              /\ values[p] = Tau(Nth(p), p, TRUE)
           THEN /\ popenCnt' = [popenCnt EXCEPT ![p] = 0]
                /\ checks' = [checks EXCEPT ![p] = Append(@, pc[p])]
                /\ Return(p)
                /\ UNCHANGED failed
           ELSE /\ failed' = [failed EXCEPT ![p] = TRUE]
                /\ UNCHANGED <<pc, stage, popenCnt, checks>>
    /\ stream' = Takes(stream, CheckChannel, p, Players \ {p})
    /\ UNCHANGED <<sums, values, macs, vals, opened, input>>

-----------------------------------------------------------------------------
(* Input::start and Input::stop.                                           *)

InputStartsAll(p) ==                         \* slip: everybody sends
    /\ At(p, "call", "startinput")
    /\ stream' = Sends(stream, "main", p, Players \ {p}, Masked(pc[p]))
    /\ Return(p)
    /\ UNCHANGED <<sums, values, store, failed, ghosts>>

InputStarts(p) ==
    /\ At(p, "call", "startinput")
    /\ stream' = IF Ops[pc[p]].n = p
                 THEN Sends(stream, "main", p, Players \ {p}, Masked(pc[p])) ELSE stream
    /\ Return(p)
    /\ UNCHANGED <<sums, values, store, failed, ghosts>>

InputStops(p) ==
    /\ At(p, "call", "stopinput")
    /\ LET from == {Ops[pc[p]].n} \ {p} IN
       /\ Available("main", p, from)
       /\ stream' = Takes(stream, "main", p, from)
       /\ input' = [input EXCEPT ![p] =
             Append(@, AddUp(EmptyBag, Heads("main", p, from)))]
    /\ Return(p)
    /\ UNCHANGED <<sums, values, store, failed, opened, checks>>

-----------------------------------------------------------------------------
Step(p) ==
    \/ BeginTree(p) \/ SumUp(p) \/ SpreadBase(p) \/ SpreadForward(p) \/ SpreadLeaf(p)
    \/ BeginDirect(p) \/ EndLeaf(p) \/ EndInner(p) \/ EndDirect(p)
    \/ CheckNothing(p) \/ CheckBegins(p) \/ SendSeed(p) \/ ReceiveSeeds(p) \/ ReceiveTaus(p)
    \/ InputStarts(p) \/ InputStops(p)

AllDone == \A p \in Players : pc[p] = Len(Ops) + 1
Done == AllDone /\ UNCHANGED vars

Next == (\E p \in Players : Step(p) /\ UNCHANGED direct) \/ Done

(* The operating system schedules every party.                             *)
Spec ==
    Init /\ [][Next]_vars /\ \A p \in Players : WF_vars(Step(p) /\ UNCHANGED direct)

-----------------------------------------------------------------------------
(* Tapes.  What a tape says of when checks are due, by what it has opened;  *)
(* parties decide it by what they have stored.                             *)

(* The values of the first k openings.                                     *)
Openings == Begins(Len(Ops))
Total ==
    LET t[k \in 0 .. Openings] == IF k = 0 THEN 0 ELSE t[k - 1] + SizeOf(k)
    IN  t
Begun(c) == Total[Begins(c)]
Returns(c) == Total[Ends(c)]

(* The calls that have checked, and how many values they have covered.     *)
Waiting(l, c) == Begun(c) - l.upTo
ChecksAt(l, c) ==
    \/ Ops[c].op = "end" /\ Waiting(l, c) >= PopenMax
    \/ Ops[c].op = "check" /\ Waiting(l, c) > 0
After(l, c) ==
    IF ChecksAt(l, c) THEN [checks |-> Append(l.checks, c), upTo |-> Returns(c)] ELSE l
Ledger ==
    LET l[c \in 0 .. Len(Ops)] ==
            IF c = 0 THEN [checks |-> <<>>, upTo |-> 0] ELSE After(l[c - 1], c)
    IN  l

(* Openings have values; an input is stopped after it was started, and      *)
(* while one is on its way no opening is.                                  *)
Started(x, c) == Count(StartInput(x), c)
StoppedBy(x, c) == Count(StopInput(x), c)
CallsInOrder ==
    /\ \A c \in DOMAIN Ops : Ops[c].op = "begin" => Ops[c].n > 0
    /\ \A c \in DOMAIN Ops : Ops[c].op \in {"startinput", "stopinput"} => Ops[c].n \in Players
    /\ \A c \in DOMAIN Ops : \A x \in Players :
          /\ StoppedBy(x, c) <= Started(x, c)
          /\ StoppedBy(x, c) # Started(x, c) => Begins(c) = Ends(c)

(* A check is made only when no opening and no input is on its way.         *)
ChecksApart ==
    \A c \in DOMAIN Ops : ChecksAt(Ledger[c - 1], c) =>
        /\ Begins(c) = Ends(c)
        /\ \A x \in Players : StoppedBy(x, c) = Started(x, c)

-----------------------------------------------------------------------------
(* What POpen_End returns is the sum of every party's share of the same    *)
(* opening, each once, with any nesting of begin and end.                  *)
OpenedIsTheSum ==
    \A p \in Players : \A k \in DOMAIN opened[p] : opened[p][k] = Complete(k)

(* Honest parties never see a check fail, nor run out of stored values.    *)
NobodyFails == \A p \in Players : ~failed[p]

(* Whether POpen_End makes a check is decided by every party for itself,   *)
(* and all decide alike: they check after the same calls.                  *)
ChecksAgree ==
    \A p, q \in Players : \A n \in DOMAIN checks[p] \cap DOMAIN checks[q] :
        checks[p][n] = checks[q][n]

(* An input arrives as what was input by the matching call: the j-th of a   *)
(* player by its j-th start, however the inputs of players are ordered.     *)
Stopped(c) == Cardinality({d \in 1 .. c : Ops[d].op = "stopinput"})
Matching(s, c) ==
    LET player == Ops[c].n
    IN  /\ Ops[s] = StartInput(player)
        /\ Count(StartInput(player), s) = Count(StopInput(player), c)
InputsArrive ==
    \A p \in Players : \A c \in DOMAIN Ops :
        /\ Ops[c].op = "stopinput" /\ Ops[c].n # p
        /\ Stopped(c) \in DOMAIN input[p]
        => \E s \in DOMAIN Ops : Matching(s, c) /\ input[p][Stopped(c)] = Masked(s)

(* The calls return: no party waits for a message that nobody sends.       *)
CallsReturn == <>AllDone
=============================================================================
