-------------------------- MODULE Broadcast_proofs --------------------------
(***************************************************************************)
(* Broadcasts agree, and a check that passes finds every difference, for   *)
(* every number of players, of whom any may be inconsistent, and every     *)
(* sequence of calls, whatever the streams take at once.                   *)
(*                                                                         *)
(* The invariant relates each stream to the control state of its two ends: *)
(* SentTo(p, q) and GotFrom(q, p) are the last calls whose message p has   *)
(* sent and q has received, and they differ by the one message in the      *)
(* stream, if any.  A player may send only into an empty stream because    *)
(* what it has received from the other end, in the order of the two loops, *)
(* shows that the other end is past the previous receive.  A digest is     *)
(* that of the vectors its sender has delivered since the last check.      *)
(***************************************************************************)
EXTENDS Broadcast, Recursion_proofs

Consistent == Inconsistent = {}

(* The last check before call c, and the vectors that p hashed from there.  *)
IsLast(l, c) ==
    /\ l \in 0 .. c - 1
    /\ l = 0 \/ Calls[l] = "check"
    /\ \A k \in l + 1 .. c - 1 : Calls[k] # "check"
LastCheck(c) == CHOOSE l \in 0 .. c - 1 : IsLast(l, c)
HashOf(p, c) == [k \in 1 .. c - 1 - LastCheck(c) |-> delivered[p][LastCheck(c) + k]]

(* What p may have given in call c.                                        *)
Given(p, c, m) ==
    \E v \in {0, 1} : m = Data(p, c, v) /\ (p \in Inconsistent \/ v = 0)
Fits(p, c, m) ==
    IF Calls[c] = "check" THEN m = Hash(HashOf(p, c)) ELSE Given(p, c, m)

DataMsg == {Data(p, c, v) : p \in Players, c \in DOMAIN Calls, v \in {0, 1}}
Vectors == [Players -> DataMsg]
AnyMsg == DataMsg \cup {Hash(h) : h \in Seq(Vectors)} \cup {NoMessage}

(* p has sent to q, and got from q, the message of its current call.       *)
Past(p, q) == i[p] > q \/ (i[p] = q /\ sending[p])
SentNow(p, q) == IF q > p THEN half[p] = 2 \/ Past(p, q) ELSE half[p] = 2 /\ Past(p, q)
GotNow(p, q) == IF q < p THEN half[p] = 2 \/ i[p] > q ELSE half[p] = 2 /\ i[p] > q
SentTo(p, q) == IF SentNow(p, q) THEN call[p] ELSE call[p] - 1
GotFrom(p, q) == IF GotNow(p, q) THEN call[p] ELSE call[p] - 1

Control ==
    /\ call \in [Players -> 1 .. Len(Calls) + 1]
    /\ half \in [Players -> 1 .. 2]
    /\ i \in [Players -> 0 .. NPlayers]
    /\ sending \in [Players -> BOOLEAN]
    /\ failed \in [Players -> BOOLEAN]
    /\ \A p \in Players :
          sending[p] => call[p] <= Len(Calls) /\ i[p] \in Players \ {p}
                        /\ (half[p] = 1 <=> i[p] > p)

Contents ==
    /\ chan \in [Players -> [Players -> Seq(AnyMsg)]]
    /\ \A p \in Players : chan[p][p] = <<>>
    /\ o \in [Players -> [Players -> AnyMsg]]
    /\ ctx \in [Players -> Seq(Vectors)]
    /\ delivered \in [Players -> [DOMAIN Calls -> Vectors \cup {<<>>}]]

Stream(p, q) ==
    \/ chan[p][q] = <<>> /\ SentTo(p, q) = GotFrom(q, p)
    \/ \E c \in DOMAIN Calls, m \in AnyMsg :
          /\ chan[p][q] = <<m>> /\ Fits(p, c, m)
          /\ SentTo(p, q) = c /\ GotFrom(q, p) = c - 1
Streams == \A p, q \in Players : p # q => Stream(p, q)

HasGot(p, q) == IF p = q THEN half[p] = 2 \/ i[p] > p ELSE GotNow(p, q)
Received ==
    \A p, q \in Players : \A c \in DOMAIN Calls : \A m \in {o[p][q]} :
        call[p] = c /\ HasGot(p, q) => Fits(q, c, m)

Digests ==
    \A p \in Players : \A c \in {call[p]} : ctx[p] = HashOf(p, c)

Returned ==
    \A p \in Players, c \in BroadcastCalls :
        c < call[p] =>
            /\ delivered[p][c] \in Vectors
            /\ \A q \in Players : \A m \in {delivered[p][c][q]} : Given(q, c, m)

(* Who has passed a check agrees with everybody on what came before it.     *)
Agreed ==
    \A p, q \in Players : \A c \in DOMAIN Calls :
        Calls[c] = "check" /\ c < call[p] =>
            /\ c <= call[q]
            /\ \A k \in BroadcastCalls : k < c => delivered[p][k] = delivered[q][k]

FailsRightly ==
    \A p \in Players : failed[p] =>
        \E q \in Players, c \in BroadcastCalls :
            c < call[p] /\ c < call[q] /\ delivered[p][c] # delivered[q][c]

Inv == Control /\ Contents /\ Streams /\ Received /\ Digests /\ Returned
       /\ Agreed /\ FailsRightly

-----------------------------------------------------------------------------
(* The last check before a call, and digests.                              *)

LEMMA LastUnique ==
    ASSUME NEW c \in Nat \ {0}, NEW l, NEW m, IsLast(l, c), IsLast(m, c)
    PROVE  l = m
BY DEF IsLast

LEMMA LastIs ==
    ASSUME NEW c \in Nat \ {0}, NEW l, IsLast(l, c)
    PROVE  LastCheck(c) = l
<1>1. l \in 0 .. c - 1 /\ IsLast(l, c)
  BY DEF IsLast
<1>2. IsLast(LastCheck(c), c)
  BY <1>1 DEF LastCheck
<1> QED BY <1>1, <1>2, LastUnique

LEMMA LastExists == \A c \in Nat \ {0} : \E l : IsLast(l, c)
<1> DEFINE S == {n \in Nat : \E l : IsLast(l, n + 1)}
<1>1. 0 \in S
  <2>1. IsLast(0, 1)
    BY DEF IsLast
  <2> QED BY <2>1
<1>2. ASSUME NEW n \in Nat, n \in S PROVE n + 1 \in S
  <2>1. PICK l : IsLast(l, n + 1)
    BY <1>2
  <2>2. CASE Calls[n + 1] = "check"
    <3>1. IsLast(n + 1, (n + 1) + 1)
      BY <2>2 DEF IsLast
    <3> QED BY <3>1
  <2>3. CASE Calls[n + 1] # "check"
    <3>1. IsLast(l, (n + 1) + 1)
      BY <2>1, <2>3 DEF IsLast
    <3> QED BY <3>1
  <2> QED BY <2>2, <2>3
<1> HIDE DEF S
<1>3. Nat \subseteq S
  BY <1>1, <1>2, Induction
<1> SUFFICES ASSUME NEW c \in Nat \ {0} PROVE \E l : IsLast(l, c)
  OBVIOUS
<1>4. PICK n \in Nat : n + 1 = c
  <2>1. c - 1 \in Nat /\ (c - 1) + 1 = c
    OBVIOUS
  <2> QED BY <2>1
<1>5. n \in S
  BY <1>3
<1> QED BY <1>4, <1>5 DEF S

LEMMA LastFirst == IsLast(0, 1) /\ LastCheck(1) = 0
<1>1. IsLast(0, 1)
  BY DEF IsLast
<1> QED BY <1>1, LastIs

LEMMA LastAfterCheck ==
    ASSUME NEW c \in DOMAIN Calls, Calls[c] = "check"
    PROVE  c \in 0 .. c /\ IsLast(c, c + 1) /\ LastCheck(c + 1) = c
<1>0. c \in Nat \ {0}
  BY CallsAssumption
<1>1. IsLast(c, c + 1)
  BY <1>0 DEF IsLast
<1> QED BY <1>0, <1>1, LastIs

LEMMA LastAfterBroadcast ==
    ASSUME NEW c \in DOMAIN Calls, Calls[c] # "check", NEW l, IsLast(l, c)
    PROVE  l \in 0 .. c /\ IsLast(l, c + 1) /\ LastCheck(c + 1) = l /\ LastCheck(c) = l
<1>0. c \in Nat \ {0} /\ l \in 0 .. c - 1
  BY CallsAssumption DEF IsLast
<1>1. IsLast(l, c + 1)
  BY <1>0 DEF IsLast
<1> QED BY <1>0, <1>1, LastIs

LEMMA AppendNext ==
    ASSUME NEW S, NEW d, NEW n \in Nat, NEW l \in Nat, \A k \in 1 .. n + 1 : d[l + k] \in S
    PROVE  Append([k \in 1 .. n |-> d[l + k]], d[l + n + 1]) =
             [k \in 1 .. n + 1 |-> d[l + k]]
<1> DEFINE e == [k \in 1 .. n |-> d[l + k]]
<1>1. e \in Seq(S) /\ Len(e) = n
  OBVIOUS
<1>2. d[l + n + 1] \in S
  <2>1. n + 1 \in 1 .. n + 1 /\ l + (n + 1) = l + n + 1
    OBVIOUS
  <2> QED BY <2>1
<1>3. Append(e, d[l + n + 1]) \in Seq(S) /\ Len(Append(e, d[l + n + 1])) = n + 1
  BY <1>1, <1>2
<1>4. \A k \in 1 .. n + 1 : Append(e, d[l + n + 1])[k] = d[l + k]
  BY <1>1
<1> QED BY <1>3, <1>4

(* The calls between the last check and call c are broadcasts.              *)
LEMMA HashedCalls ==
    ASSUME NEW c \in 1 .. Len(Calls) + 1, NEW l, IsLast(l, c), NEW k \in Nat, l < k, k < c
    PROVE  k \in BroadcastCalls /\ k \in DOMAIN Calls
<1>1. k \in l + 1 .. c - 1 /\ k \in 1 .. Len(Calls)
  BY CallsAssumption DEF IsLast
<1>2. k \in DOMAIN Calls /\ Calls[k] # "check"
  BY <1>1, CallsAssumption DEF IsLast
<1> QED BY <1>2, CallsAssumption DEF BroadcastCalls

-----------------------------------------------------------------------------
(* What each action does to the positions.                                 *)

LEMMA PlayerNumbers == \A x \in Players : x \in Nat /\ x < NPlayers /\ NPlayers \in Nat
BY PlayersAssumption DEF Players

LEMMA ControlTypes ==
    ASSUME Control, NEW x \in Players
    PROVE  /\ call[x] \in Nat \ {0} /\ half[x] \in {1, 2} /\ i[x] \in Nat
           /\ sending[x] \in BOOLEAN /\ x \in Nat /\ x < NPlayers /\ NPlayers \in Nat
           /\ sending[x] => i[x] \in Players \ {x} /\ (half[x] = 1 <=> i[x] > x)
BY PlayersAssumption, CallsAssumption DEF Control, Players

(* The positions of x depend on the control state of x only.               *)
LEMMA SamePositions ==
    ASSUME NEW x \in Players, NEW y \in Players,
           call'[x] = call[x], half'[x] = half[x], i'[x] = i[x], sending'[x] = sending[x]
    PROVE  SentTo(x, y)' = SentTo(x, y) /\ GotFrom(x, y)' = GotFrom(x, y)
BY DEF SentTo, GotFrom, SentNow, GotNow, Past

LEMMA SendPositions ==
    ASSUME Control, NEW p \in Players, Send(p)
    PROVE  \A x, y \in Players : x # y =>
             /\ SentTo(x, y)' = IF x = p /\ y = i[p] THEN SentTo(x, y) + 1
                                                    ELSE SentTo(x, y)
             /\ GotFrom(x, y)' = GotFrom(x, y)
<1>1. \A x \in Players : /\ call'[x] = call[x] /\ half'[x] = half[x] /\ i'[x] = i[x]
                         /\ IF x = p THEN sending'[x] ELSE sending'[x] = sending[x]
  BY DEF Control, Send
<1>2. ~sending[p] /\ i[p] \in Players \ {p} /\ (half[p] = 1 <=> i[p] > p)
  BY DEF Send, SendTurn, Turn
<1> SUFFICES ASSUME NEW x \in Players, NEW y \in Players, x # y
             PROVE  /\ SentTo(x, y)' = IF x = p /\ y = i[p] THEN SentTo(x, y) + 1
                                                           ELSE SentTo(x, y)
                    /\ GotFrom(x, y)' = GotFrom(x, y)
  OBVIOUS
<1>3. CASE x # p
  BY <1>1, <1>3, SamePositions
<1>4. CASE x = p
  <2>0. /\ call[p] \in Nat \ {0} /\ half[p] \in {1, 2} /\ i[p] \in Nat
        /\ p \in Nat /\ y \in Nat /\ p # y /\ i[p] # p
    BY <1>2, <1>4, ControlTypes, PlayerNumbers
  <2>1. GotNow(x, y)' = GotNow(x, y)
    BY <1>1, <1>4 DEF GotNow
  <2>2. y = i[p] => ~SentNow(x, y) /\ SentNow(x, y)'
    BY <1>1, <1>2, <1>4, <2>0 DEF SentNow, Past
  <2>3. y # i[p] => SentNow(x, y)' = SentNow(x, y)
    BY <1>1, <1>4 DEF SentNow, Past
  <2>4. GotFrom(x, y)' = GotFrom(x, y)
    BY <1>1, <1>4, <2>1 DEF GotFrom
  <2>5. y = i[p] => SentTo(x, y)' = SentTo(x, y) + 1
    BY <1>1, <1>4, <2>0, <2>2 DEF SentTo
  <2>6. y # i[p] => SentTo(x, y)' = SentTo(x, y)
    BY <1>1, <1>4, <2>3 DEF SentTo
  <2> QED BY <1>4, <2>4, <2>5, <2>6
<1> QED BY <1>3, <1>4

LEMMA SentPositions ==
    ASSUME Control, NEW p \in Players, Sent(p)
    PROVE  \A x, y \in Players : x # y =>
             /\ SentTo(x, y)' = SentTo(x, y)
             /\ GotFrom(x, y)' = GotFrom(x, y)
<1>1. \A x \in Players : /\ call'[x] = call[x] /\ half'[x] = half[x]
                         /\ i'[x] = IF x = p THEN i[p] + 1 ELSE i[x]
                         /\ IF x = p THEN ~sending'[x] ELSE sending'[x] = sending[x]
  BY DEF Control, Sent
<1>2. sending[p] /\ i[p] \in Players \ {p} /\ (half[p] = 1 <=> i[p] > p)
  BY DEF Sent, Control
<1> SUFFICES ASSUME NEW x \in Players, NEW y \in Players, x # y
             PROVE  SentTo(x, y)' = SentTo(x, y) /\ GotFrom(x, y)' = GotFrom(x, y)
  OBVIOUS
<1>3. CASE x # p
  BY <1>1, <1>3, SamePositions
<1>4. CASE x = p
  <2>0. /\ call[p] \in Nat \ {0} /\ half[p] \in {1, 2} /\ i[p] \in Nat
        /\ p \in Nat /\ y \in Nat /\ p # y /\ i[p] # p
    BY <1>2, <1>4, ControlTypes, PlayerNumbers
  <2>1. GotNow(x, y)' = GotNow(x, y)
    BY <1>1, <1>2, <1>4, <2>0 DEF GotNow
  <2>2. SentNow(x, y)' = SentNow(x, y)
    BY <1>1, <1>2, <1>4, <2>0 DEF SentNow, Past
  <2> QED BY <1>1, <1>4, <2>1, <2>2 DEF SentTo, GotFrom
<1> QED BY <1>3, <1>4

LEMMA ReceivePositions ==
    ASSUME Control, NEW p \in Players, Receive(p)
    PROVE  /\ i[p] \in Players \ {p} /\ ~GotNow(p, i[p])
           /\ \A x, y \in Players : x # y =>
                /\ SentTo(x, y)' = SentTo(x, y)
                /\ GotFrom(x, y)' = IF x = p /\ y = i[p] THEN GotFrom(x, y) + 1
                                                        ELSE GotFrom(x, y)
<1>1. \A x \in Players : /\ call'[x] = call[x] /\ half'[x] = half[x]
                         /\ i'[x] = IF x = p THEN i[p] + 1 ELSE i[x]
                         /\ sending'[x] = sending[x]
  BY DEF Control, Receive
<1>2. i[p] \in Players \ {p} /\ (half[p] = 1 <=> ~(i[p] > p))
  BY DEF Receive, ReceiveTurn, Turn
<1>3. ~sending[p] /\ ~GotNow(p, i[p])
  BY <1>2, ControlTypes, PlayerNumbers DEF GotNow
<1> SUFFICES ASSUME NEW x \in Players, NEW y \in Players, x # y
             PROVE  /\ SentTo(x, y)' = SentTo(x, y)
                    /\ GotFrom(x, y)' = IF x = p /\ y = i[p] THEN GotFrom(x, y) + 1
                                                            ELSE GotFrom(x, y)
  BY <1>2, <1>3
<1>4. CASE x # p
  BY <1>1, <1>4, SamePositions
<1>5. CASE x = p
  BY <1>1, <1>2, <1>3, <1>5, ControlTypes, PlayerNumbers
     DEF SentTo, GotFrom, SentNow, GotNow, Past
<1> QED BY <1>4, <1>5

LEMMA SkipPositions ==
    ASSUME Control, NEW p \in Players, Skip(p)
    PROVE  \A x, y \in Players : x # y =>
             /\ SentTo(x, y)' = SentTo(x, y)
             /\ GotFrom(x, y)' = GotFrom(x, y)
<1>1. \A x \in Players : /\ call'[x] = call[x] /\ half'[x] = half[x]
                         /\ i'[x] = IF x = p THEN i[p] + 1 ELSE i[x]
                         /\ sending'[x] = sending[x]
  BY DEF Control, Skip
<1>2. i[p] = p /\ ~sending[p]
  BY ControlTypes DEF Skip
<1> SUFFICES ASSUME NEW x \in Players, NEW y \in Players, x # y
             PROVE  SentTo(x, y)' = SentTo(x, y) /\ GotFrom(x, y)' = GotFrom(x, y)
  OBVIOUS
<1>3. CASE x # p
  BY <1>1, <1>3, SamePositions
<1>4. CASE x = p
  BY <1>1, <1>2, <1>4, ControlTypes, PlayerNumbers
     DEF SentTo, GotFrom, SentNow, GotNow, Past
<1> QED BY <1>3, <1>4

LEMMA SecondLoopPositions ==
    ASSUME Control, NEW p \in Players, SecondLoop(p)
    PROVE  \A x, y \in Players : x # y =>
             /\ SentTo(x, y)' = SentTo(x, y)
             /\ GotFrom(x, y)' = GotFrom(x, y)
<1>1. \A x \in Players : /\ call'[x] = call[x]
                         /\ half'[x] = IF x = p THEN 2 ELSE half[x]
                         /\ i'[x] = IF x = p THEN 0 ELSE i[x]
                         /\ sending'[x] = sending[x]
  BY DEF Control, SecondLoop
<1>2. i[p] = NPlayers /\ half[p] = 1
  BY DEF SecondLoop
<1>3. ~sending[p]
  BY <1>2, ControlTypes, PlayerNumbers
<1> SUFFICES ASSUME NEW x \in Players, NEW y \in Players, x # y
             PROVE  SentTo(x, y)' = SentTo(x, y) /\ GotFrom(x, y)' = GotFrom(x, y)
  OBVIOUS
<1>4. CASE x # p
  BY <1>1, <1>4, SamePositions
<1>5. CASE x = p
  BY <1>1, <1>2, <1>3, <1>5, ControlTypes, PlayerNumbers
     DEF SentTo, GotFrom, SentNow, GotNow, Past
<1> QED BY <1>4, <1>5

LEMMA NextCallPositions ==
    ASSUME Control, NEW p \in Players, AtEnd(p), NextCall(p), UNCHANGED sending
    PROVE  \A x, y \in Players : x # y =>
             /\ SentTo(x, y)' = SentTo(x, y)
             /\ GotFrom(x, y)' = GotFrom(x, y)
<1>1. \A x \in Players : /\ call'[x] = IF x = p THEN call[p] + 1 ELSE call[x]
                         /\ half'[x] = IF x = p THEN 1 ELSE half[x]
                         /\ i'[x] = IF x = p THEN 0 ELSE i[x]
                         /\ sending'[x] = sending[x]
  BY DEF Control, NextCall
<1>2. i[p] = NPlayers /\ half[p] = 2
  BY DEF AtEnd
<1>3. ~sending[p]
  BY <1>2, ControlTypes, PlayerNumbers
<1> SUFFICES ASSUME NEW x \in Players, NEW y \in Players, x # y
             PROVE  SentTo(x, y)' = SentTo(x, y) /\ GotFrom(x, y)' = GotFrom(x, y)
  OBVIOUS
<1>4. CASE x # p
  BY <1>1, <1>4, SamePositions
<1>5. CASE x = p
  BY <1>1, <1>2, <1>3, <1>5, ControlTypes, PlayerNumbers
     DEF SentTo, GotFrom, SentNow, GotNow, Past
<1> QED BY <1>4, <1>5

-----------------------------------------------------------------------------
(* A player that may send finds the stream empty.                          *)

LEMMA EmptyBeforeSend ==
    ASSUME Control, Streams, NEW p \in Players, Send(p),
           NEW q \in Players, q = i[p], q # p
    PROVE  /\ chan[p][q] = <<>> /\ SentTo(p, q) = GotFrom(q, p)
           /\ SentTo(p, q)' = call[p]
<1>1. q = i[p] /\ q # p
  OBVIOUS
<1>2. ~sending[p] /\ (half[p] = 1 <=> q > p)
  BY <1>1 DEF Send, SendTurn, Turn
<1>3. /\ call[p] \in Nat \ {0} /\ call[q] \in Nat \ {0}
      /\ half[p] \in {1, 2} /\ half[q] \in {1, 2}
      /\ i[p] \in Nat /\ i[q] \in Nat /\ p \in Nat /\ q \in Nat
  BY ControlTypes
<1>4. ~SentNow(p, q) /\ SentTo(p, q) = call[p] - 1
  BY <1>1, <1>2, <1>3 DEF SentTo, SentNow, Past
<1>5. Stream(p, q) /\ Stream(q, p)
  BY <1>1 DEF Streams
<1>6. GotFrom(p, q) <= SentTo(q, p) /\ GotFrom(q, p) <= SentTo(p, q)
  BY <1>3, <1>5, CallsAssumption DEF Stream, SentTo, GotFrom
<1>7. GotFrom(q, p) >= call[p] - 1
  <2>1. CASE q > p
    <3>1. GotFrom(p, q) = call[p] - 1
      BY <1>1, <1>2, <1>3, <2>1 DEF GotFrom, GotNow
    <3>2. call[q] >= call[p] \/ (call[q] = call[p] - 1 /\ SentNow(q, p))
      BY <1>3, <1>6, <3>1 DEF SentTo
    <3>3. SentNow(q, p) => GotNow(q, p)
      BY <1>3, <2>1 DEF SentNow, GotNow
    <3> QED BY <1>3, <3>2, <3>3 DEF GotFrom
  <2>2. CASE ~(q > p)
    <3>1. GotFrom(p, q) = call[p]
      BY <1>1, <1>2, <1>3, <2>2 DEF GotFrom, GotNow
    <3>2. call[q] >= call[p]
      BY <1>3, <1>6, <3>1 DEF SentTo
    <3> QED BY <1>3, <3>2 DEF GotFrom
  <2> QED BY <2>1, <2>2
<1>8. GotFrom(q, p) \in Int /\ SentTo(p, q) = GotFrom(q, p)
  BY <1>3, <1>4, <1>6, <1>7 DEF GotFrom
<1>9. chan[p][q] = <<>>
  BY <1>5, <1>8, CallsAssumption DEF Stream
<1>10. SentTo(p, q)' = SentTo(p, q) + 1
  BY <1>1, SendPositions
<1> QED BY <1>3, <1>4, <1>8, <1>9, <1>10

-----------------------------------------------------------------------------
(* Messages, and what a step may change about those that were sent.        *)

LEMMA MessageTypes ==
    /\ NoMessage \in AnyMsg
    /\ \A p \in Players, c \in DOMAIN Calls : \A m : Given(p, c, m) => m \in DataMsg
    /\ \A m \in DataMsg : m \in AnyMsg
    /\ \A h \in Seq(Vectors) : Hash(h) \in AnyMsg
BY DEF AnyMsg, DataMsg, Given

(* Vectors that have been returned stay as they are.                       *)
DeliveredKept ==
    \A x \in Players, c \in DOMAIN Calls :
        c < call[x] => delivered'[x][c] = delivered[x][c]

LEMMA HashKept ==
    ASSUME Control, DeliveredKept, NEW x \in Players,
           NEW c \in 1 .. Len(Calls) + 1, c <= call[x]
    PROVE  HashOf(x, c)' = HashOf(x, c)
<1>1. c \in 1 .. Len(Calls) + 1 /\ c \in Nat \ {0}
  BY CallsAssumption
<1>0. PICK l : IsLast(l, c)
  BY <1>1, LastExists
<1>2. LastCheck(c) = l /\ l \in Nat
  BY <1>0, <1>1, LastIs DEF IsLast
<1>3. HashOf(x, c) = [k \in 1 .. c - 1 - l |-> delivered[x][l + k]]
  BY <1>2 DEF HashOf
<1>4. HashOf(x, c)' = [k \in 1 .. c - 1 - l |-> delivered'[x][l + k]]
  BY <1>2 DEF HashOf
<1>5. \A k \in 1 .. c - 1 - l : delivered'[x][l + k] = delivered[x][l + k]
  <2> SUFFICES ASSUME NEW k \in 1 .. c - 1 - l
               PROVE  delivered'[x][l + k] = delivered[x][l + k]
    OBVIOUS
  <2>1. PICK n \in Nat : n = l + k /\ l < n /\ n < c
    BY <1>1, <1>2
  <2>2. n \in DOMAIN Calls
    BY <1>0, <1>1, <2>1, HashedCalls
  <2>3. call[x] \in Int
    BY CallsAssumption DEF Control
  <2>4. n < call[x]
    BY <1>1, <2>1, <2>3
  <2> QED BY <2>1, <2>2, <2>4 DEF DeliveredKept
<1> QED BY <1>3, <1>4, <1>5
LEMMA MessagesKept ==
    ASSUME Control, DeliveredKept, NEW x \in Players, NEW c \in DOMAIN Calls,
           NEW m, c <= call[x], Fits(x, c, m)
    PROVE  Fits(x, c, m)'
<1>1. CASE Calls[c] # "check"
  BY <1>1 DEF Fits, Given
<1>2. CASE Calls[c] = "check"
  <2>2. HashOf(x, c)' = HashOf(x, c)
    BY HashKept, CallsAssumption
  <2> QED BY <1>2, <2>2 DEF Fits
<1> QED BY <1>1, <1>2

(* Calls whose message was sent, or received, have begun.                  *)
LEMMA SentIsBegun ==
    ASSUME Control, Streams, NEW p \in Players, NEW q \in Players
    PROVE  /\ SentTo(p, q) <= call[p] /\ SentTo(p, q) \in Int
           /\ GotFrom(p, q) <= call[p] /\ GotFrom(p, q) \in Int
           /\ HasGot(p, q) => call[p] <= call[q]
<1>1. call[p] \in Int /\ call[q] \in Int
  BY ControlTypes
<1>2. /\ SentTo(p, q) <= call[p] /\ SentTo(p, q) \in Int
      /\ GotFrom(p, q) <= call[p] /\ GotFrom(p, q) \in Int
      /\ SentTo(q, p) <= call[q] /\ SentTo(q, p) \in Int
  BY <1>1 DEF SentTo, GotFrom
<1>3. ASSUME HasGot(p, q) PROVE call[p] <= call[q]
  <2>1. CASE p = q
    BY <1>1, <2>1
  <2>2. CASE p # q
    <3>1. GotFrom(p, q) = call[p]
      BY <1>3, <2>2 DEF HasGot, GotFrom
    <3>2. Stream(q, p)
      BY <2>2 DEF Streams
    <3>3. GotFrom(p, q) <= SentTo(q, p)
      BY <1>2, <3>2, CallsAssumption DEF Stream
    <3> QED BY <1>1, <1>2, <3>1, <3>3
  <2> QED BY <2>1, <2>2
<1> QED BY <1>2, <1>3

(* What a player shows is a message of its call.                           *)
LEMMA ShownMessage ==
    ASSUME Control, Contents, Digests, NEW p \in Players, NEW c \in DOMAIN Calls,
           c = call[p], NEW m \in Shows(p)
    PROVE  Fits(p, c, m) /\ m \in AnyMsg
<1>1. CASE Calls[c] = "check"
  <2>1. m = Hash(ctx[p])
    BY <1>1 DEF Shows, Own, Checking
  <2>2. ctx[p] = HashOf(p, c) /\ ctx[p] \in Seq(Vectors)
    BY DEF Digests, Contents
  <2> QED BY <1>1, <2>1, <2>2, MessageTypes DEF Fits
<1>2. CASE Calls[c] # "check"
  <2>1. m = Data(p, c, 0) \/ (p \in Inconsistent /\ m = Data(p, c, 1))
    BY <1>2 DEF Shows, Own, Checking
  <2>2. Given(p, c, m)
    BY <2>1 DEF Given
  <2> QED BY <1>2, <2>2, MessageTypes DEF Fits
<1> QED BY <1>1, <1>2

-----------------------------------------------------------------------------
(* The invariant.                                                          *)

LEMMA InitInv == ASSUME Init PROVE Inv
<1>1. Control
  BY PlayersAssumption, CallsAssumption DEF Init, Control, Players
<1>2. Contents
  BY MessageTypes DEF Init, Contents
<1>3. Streams
  BY PlayerNumbers DEF Init, Streams, Stream, SentTo, GotFrom, SentNow, GotNow, Past
<1>4. Received
  BY PlayerNumbers DEF Init, Received, HasGot, GotNow
<1>5. Digests
  <2> SUFFICES ASSUME NEW p \in Players PROVE <<>> = HashOf(p, 1)
    BY DEF Init, Digests
  <2>1. HashOf(p, 1) = [k \in 1 .. 0 |-> delivered[p][0 + k]]
    BY LastFirst DEF HashOf
  <2> QED BY <2>1
<1>6. Returned /\ Agreed /\ FailsRightly
  BY CallsAssumption DEF Init, Returned, Agreed, FailsRightly, BroadcastCalls
<1> QED BY <1>1, <1>2, <1>3, <1>4, <1>5, <1>6 DEF Inv

(* Steps inside a call keep what depends on the calls only.                *)
LEMMA SameCalls ==
    ASSUME Digests, Returned, Agreed, FailsRightly,
           UNCHANGED <<call, ctx, delivered, failed>>
    PROVE  Digests' /\ Returned' /\ Agreed' /\ FailsRightly' /\ DeliveredKept
<1>1. Digests'
  BY DEF Digests, HashOf
<1>2. Returned'
  BY DEF Returned
<1>3. Agreed'
  BY DEF Agreed
<1>4. FailsRightly'
  BY DEF FailsRightly
<1> QED BY <1>1, <1>2, <1>3, <1>4 DEF DeliveredKept

(* Steps that neither send nor receive keep the streams ...                *)
LEMMA StreamKept ==
    ASSUME Control, Streams, DeliveredKept, NEW x \in Players, NEW y \in Players, x # y,
           chan'[x][y] = chan[x][y], SentTo(x, y)' = SentTo(x, y), GotFrom(y, x)' = GotFrom(y, x)
    PROVE  Stream(x, y)'
<1>1. CASE chan[x][y] = <<>> /\ SentTo(x, y) = GotFrom(y, x)
  BY <1>1 DEF Stream
<1>2. ASSUME NEW c \in DOMAIN Calls, NEW m \in AnyMsg, chan[x][y] = <<m>>, Fits(x, c, m),
             SentTo(x, y) = c, GotFrom(y, x) = c - 1
      PROVE  Stream(x, y)'
  <2>1. c <= call[x]
    BY <1>2, SentIsBegun
  <2>2. Fits(x, c, m)'
    BY <1>2, <2>1, MessagesKept
  <2> QED BY <1>2, <2>2 DEF Stream
<1>3. Stream(x, y)
  BY DEF Streams
<1> QED BY <1>1, <1>2, <1>3 DEF Stream

LEMMA StreamsKept ==
    ASSUME Control, Streams, DeliveredKept, UNCHANGED chan,
           \A x, y \in Players : x # y => /\ SentTo(x, y)' = SentTo(x, y)
                                          /\ GotFrom(x, y)' = GotFrom(x, y)
    PROVE  Streams'
<1> SUFFICES ASSUME NEW x \in Players, NEW y \in Players, x # y
             PROVE  Stream(x, y)'
  BY DEF Streams
<1>1. chan'[x][y] = chan[x][y]
  OBVIOUS
<1> QED BY <1>1, StreamKept

(* ... and what was received in this call.                                 *)
LEMMA GotKept ==
    ASSUME Control, Streams, Received, DeliveredKept, NEW x \in Players, NEW y \in Players,
           NEW c \in DOMAIN Calls, call[x] = c, HasGot(x, y), o'[x][y] = o[x][y]
    PROVE  \A m \in {o'[x][y]} : Fits(y, c, m)'
<1>1. PICK m : m = o[x][y]
  OBVIOUS
<1>2. Fits(y, c, m)
  BY <1>1 DEF Received
<1>3. c <= call[y]
  BY SentIsBegun
<1>4. Fits(y, c, m)'
  BY <1>2, <1>3, MessagesKept
<1> QED BY <1>1, <1>4

LEMMA ReceivedKept ==
    ASSUME Control, Streams, Received, DeliveredKept, UNCHANGED <<call, o>>, NEW p \in Players,
           \A x \in Players \ {p} : half'[x] = half[x] /\ i'[x] = i[x],
           half'[p] = 2 \/ i'[p] > p => half[p] = 2 \/ i[p] > p,
           \A x, y \in Players : x # y => GotFrom(x, y)' = GotFrom(x, y)
    PROVE  Received'
<1> SUFFICES ASSUME NEW x \in Players, NEW y \in Players, NEW c \in DOMAIN Calls,
                    call[x] = c, HasGot(x, y)'
             PROVE  \A m \in {o'[x][y]} : Fits(y, c, m)'
  BY DEF Received
<1>1. HasGot(x, y)
  <2>1. CASE x = y
    BY <2>1 DEF HasGot
  <2>2. CASE x # y
    <3>1. GotFrom(x, y)' = call[x]
      BY <2>2 DEF GotFrom, HasGot
    <3>2. GotNow(x, y)
      BY <2>2, <3>1, ControlTypes DEF GotFrom
    <3> QED BY <2>2, <3>2 DEF HasGot
  <2> QED BY <2>1, <2>2
<1>2. o'[x][y] = o[x][y]
  OBVIOUS
<1> QED BY <1>1, <1>2, GotKept

LEMMA SendInv ==
    ASSUME Inv, NEW p \in Players, Send(p)
    PROVE  Inv'
<1> USE DEF Inv
<1>1. PICK q \in Players : q = i[p] /\ q # p
  BY DEF Send, SendTurn
<1>2. call[p] <= Len(Calls) /\ (half[p] = 1 <=> i[p] > p)
  BY <1>1 DEF Send, SendTurn, Turn, Running
<1>3. PICK c \in DOMAIN Calls : c = call[p]
  BY <1>2, ControlTypes, CallsAssumption
<1>4. PICK m \in Shows(p) : chan' = [chan EXCEPT ![p][q] = Append(@, m)]
  BY <1>1 DEF Send
<1>5. Fits(p, c, m) /\ m \in AnyMsg
  BY <1>3, ShownMessage
<1>6. chan[p][q] = <<>> /\ SentTo(p, q) = GotFrom(q, p) /\ SentTo(p, q)' = call[p]
  BY <1>1, EmptyBeforeSend
<1>7. chan' = [chan EXCEPT ![p][q] = <<m>>]
  BY <1>4, <1>6
<1>8. UNCHANGED <<call, half, i, o, ctx, delivered, failed>>
  BY DEF Send
<1>9. Digests' /\ Returned' /\ Agreed' /\ FailsRightly' /\ DeliveredKept
  BY <1>8, SameCalls
<1>10. Control'
  BY <1>1, <1>2 DEF Control, Send
<1>11. Contents'
  <2>1. <<m>> \in Seq(AnyMsg)
    BY <1>5
  <2>2. chan' \in [Players -> [Players -> Seq(AnyMsg)]]
    BY <1>7, <2>1 DEF Contents
  <2>3. \A x \in Players : chan'[x][x] = <<>>
    BY <1>1, <1>7 DEF Contents
  <2> QED BY <1>8, <2>2, <2>3 DEF Contents
<1>12. Streams'
  <2> SUFFICES ASSUME NEW x \in Players, NEW y \in Players, x # y
               PROVE  Stream(x, y)'
    BY DEF Streams
  <2>1. GotFrom(y, x)' = GotFrom(y, x)
    BY SendPositions
  <2>2. CASE x = p /\ y = q
    <3>1. SentTo(x, y)' = SentTo(x, y) + 1
      BY <1>1, <2>2, SendPositions
    <3>2. SentTo(x, y) = GotFrom(y, x)
      BY <1>6, <2>2
    <3>3. chan'[x][y] = <<m>>
      BY <1>7, <2>2 DEF Contents
    <3>4. Fits(x, c, m)'
      BY <1>3, <1>5, <1>9, <2>2, MessagesKept, ControlTypes
    <3>5. SentTo(x, y)' = c
      BY <1>3, <1>6, <2>2
    <3>6. SentTo(x, y) \in Int /\ c \in Int
      BY SentIsBegun, CallsAssumption
    <3>7. GotFrom(y, x)' = c - 1
      BY <2>1, <3>1, <3>2, <3>5, <3>6
    <3> QED BY <1>5, <3>3, <3>4, <3>5, <3>7 DEF Stream
  <2>3. CASE ~(x = p /\ y = q)
    <3>1. SentTo(x, y)' = SentTo(x, y)
      BY <1>1, <2>3, SendPositions
    <3>2. chan'[x][y] = chan[x][y]
      BY <1>7, <2>3 DEF Contents
    <3> QED BY <1>9, <2>1, <3>1, <3>2, StreamKept
  <2> QED BY <2>2, <2>3
<1>13. Received'
  <2>1. \A x, y \in Players : x # y => GotFrom(x, y)' = GotFrom(x, y)
    BY SendPositions
  <2> QED BY <1>8, <1>9, <2>1, ReceivedKept
<1> QED BY <1>9, <1>10, <1>11, <1>12, <1>13

LEMMA SentInv ==
    ASSUME Inv, NEW p \in Players, Sent(p)
    PROVE  Inv'
<1> USE DEF Inv
<1>1. i[p] \in Players \ {p} /\ (half[p] = 1 <=> i[p] > p) /\ half[p] \in {1, 2}
  BY ControlTypes DEF Sent
<1>2. i'[p] = i[p] + 1 /\ half' = half /\ call' = call
  BY DEF Sent, Control
<1>3. Control'
  <2>1. i' \in [Players -> 0 .. NPlayers] /\ sending' \in [Players -> BOOLEAN]
    BY <1>1, PlayerNumbers DEF Control, Sent
  <2>2. ~sending'[p]
    BY DEF Control, Sent
  <2>3. \A x \in Players \ {p} : sending'[x] = sending[x] /\ i'[x] = i[x]
    BY DEF Control, Sent
  <2> QED BY <1>2, <2>1, <2>2, <2>3 DEF Control, Sent
<1>4. Contents'
  BY DEF Contents, Sent
<1>5. Digests' /\ Returned' /\ Agreed' /\ FailsRightly' /\ DeliveredKept
  BY SameCalls DEF Sent
<1>6. Streams'
  BY <1>5, SentPositions, StreamsKept DEF Sent
<1>7. Received'
  <2>1. \A x \in Players \ {p} : half'[x] = half[x] /\ i'[x] = i[x]
    BY DEF Sent, Control
  <2>2. half'[p] = 2 \/ i'[p] > p => half[p] = 2 \/ i[p] > p
    BY <1>1, <1>2, PlayerNumbers
  <2>3. \A x, y \in Players : x # y => GotFrom(x, y)' = GotFrom(x, y)
    BY SentPositions
  <2>4. UNCHANGED <<call, o>>
    BY DEF Sent
  <2> QED BY <1>5, <2>1, <2>2, <2>3, <2>4, ReceivedKept
<1> QED BY <1>3, <1>4, <1>5, <1>6, <1>7

LEMMA ReceiveInv ==
    ASSUME Inv, NEW p \in Players, Receive(p)
    PROVE  Inv'
<1> USE DEF Inv
<1>1. PICK q \in Players : q = i[p] /\ q # p /\ ~GotNow(p, q)
  BY ReceivePositions
<1>2. PICK c \in DOMAIN Calls, m \in AnyMsg :
         chan[q][p] = <<m>> /\ Fits(q, c, m) /\ SentTo(q, p) = c /\ GotFrom(p, q) = c - 1
  <2>1. Stream(q, p) /\ chan[q][p] # <<>>
    BY <1>1 DEF Streams, Receive
  <2>2. SentTo(q, p) # GotFrom(p, q) \/ chan[q][p] # <<>>
    BY <2>1
  <2> QED BY <2>1 DEF Stream
<1>3. c = call[p] /\ c \in Int
  <2>1. GotFrom(p, q) = call[p] - 1
    BY <1>1 DEF GotFrom
  <2> QED BY <1>2, <2>1, ControlTypes, CallsAssumption
<1>4. o' = [o EXCEPT ![p][q] = m] /\ chan' = [chan EXCEPT ![q][p] = <<>>]
  BY <1>1, <1>2 DEF Receive
<1>5. UNCHANGED <<call, half, sending, ctx, failed, delivered>>
  BY DEF Receive
<1>6. Digests' /\ Returned' /\ Agreed' /\ FailsRightly' /\ DeliveredKept
  BY <1>5, SameCalls
<1>7. ~sending[p] /\ i[p] \in Players /\ i' = [i EXCEPT ![p] = @ + 1]
  <2>1. (half[p] = 1 <=> ~(i[p] > p)) /\ i[p] \in Players
    BY DEF Receive, ReceiveTurn, Turn
  <2> QED BY <2>1, ControlTypes DEF Receive
<1>8. Control'
  <2>1. i' \in [Players -> 0 .. NPlayers]
    BY <1>7, PlayerNumbers DEF Control
  <2>2. \A x \in Players \ {p} : i'[x] = i[x]
    BY <1>7 DEF Control
  <2> QED BY <1>5, <1>7, <2>1, <2>2 DEF Control
<1>9. Contents'
  <2>1. o' \in [Players -> [Players -> AnyMsg]]
    BY <1>4 DEF Contents
  <2>2. chan' \in [Players -> [Players -> Seq(AnyMsg)]]
    BY <1>4 DEF Contents
  <2>3. \A x \in Players : chan'[x][x] = <<>>
    BY <1>1, <1>4 DEF Contents
  <2> QED BY <1>5, <2>1, <2>2, <2>3 DEF Contents
<1>10. Streams'
  <2> SUFFICES ASSUME NEW x \in Players, NEW y \in Players, x # y
               PROVE  Stream(x, y)'
    BY DEF Streams
  <2>1. SentTo(x, y)' = SentTo(x, y)
    BY ReceivePositions
  <2>2. CASE x = q /\ y = p
    <3>1. GotFrom(y, x)' = GotFrom(y, x) + 1
      BY <1>1, <2>2, ReceivePositions
    <3>2. chan'[x][y] = <<>>
      BY <1>4, <2>2 DEF Contents
    <3>3. GotFrom(y, x)' = c /\ SentTo(x, y)' = c
      BY <1>2, <1>3, <2>1, <2>2, <3>1
    <3> QED BY <3>2, <3>3 DEF Stream
  <2>3. CASE ~(x = q /\ y = p)
    <3>1. GotFrom(y, x)' = GotFrom(y, x)
      BY <1>1, <2>3, ReceivePositions
    <3>2. chan'[x][y] = chan[x][y]
      BY <1>4, <2>3 DEF Contents
    <3> QED BY <1>6, <2>1, <3>1, <3>2, StreamKept
  <2> QED BY <2>2, <2>3
<1>11. Received'
  <2> SUFFICES ASSUME NEW x \in Players, NEW y \in Players, NEW d \in DOMAIN Calls,
                      call[x] = d, HasGot(x, y)'
               PROVE  \A n \in {o'[x][y]} : Fits(y, d, n)'
    BY <1>5 DEF Received
  <2>1. CASE x = p /\ y = q
    <3>1. o'[x][y] = m /\ d = c
      BY <1>3, <1>4, <2>1 DEF Contents
    <3>2. c <= call[q]
      BY <1>2, SentIsBegun
    <3>3. Fits(y, d, m)'
      BY <1>2, <1>6, <2>1, <3>1, <3>2, MessagesKept
    <3> QED BY <3>1, <3>3
  <2>2. CASE ~(x = p /\ y = q)
    <3>1. o'[x][y] = o[x][y]
      BY <1>4, <2>2 DEF Contents
    <3>2. CASE x = y
      <4>1. half[x] = 2 \/ i[x] > x
        <5>1. CASE x = p
          BY <1>1, <1>5, <1>7, <3>2, <5>1, ControlTypes, PlayerNumbers DEF Control, HasGot
        <5>2. CASE x # p
          BY <1>5, <1>7, <3>2, <5>2 DEF Control, HasGot
        <5> QED BY <5>1, <5>2
      <4>2. HasGot(x, y)
        BY <3>2, <4>1 DEF HasGot
      <4> QED BY <1>6, <3>1, <4>2, GotKept
    <3>3. CASE x # y
      <4>1. GotFrom(x, y)' = GotFrom(x, y)
        BY <1>1, <2>2, <3>3, ReceivePositions
      <4>2. GotFrom(x, y)' = call[x]
        BY <1>5, <3>3 DEF GotFrom, HasGot
      <4>3. HasGot(x, y)
        BY <3>3, <4>1, <4>2, ControlTypes DEF GotFrom, HasGot
      <4> QED BY <1>6, <3>1, <4>3, GotKept
    <3> QED BY <3>2, <3>3
  <2> QED BY <2>1, <2>2
<1> QED BY <1>6, <1>8, <1>9, <1>10, <1>11

LEMMA SkipInv ==
    ASSUME Inv, NEW p \in Players, Skip(p)
    PROVE  Inv'
<1> USE DEF Inv
<1>1. call[p] <= Len(Calls) /\ i[p] = p /\ ~sending[p]
  BY ControlTypes DEF Skip, Running
<1>2. PICK c \in DOMAIN Calls : c = call[p]
  BY <1>1, ControlTypes, CallsAssumption
<1>3. PICK m \in Shows(p) : m = Own(p)
  BY DEF Shows
<1>4. Fits(p, c, m) /\ m \in AnyMsg
  BY <1>2, ShownMessage
<1>5. o' = [o EXCEPT ![p][p] = m] /\ i' = [i EXCEPT ![p] = @ + 1]
  BY <1>3 DEF Skip
<1>6. UNCHANGED <<call, half, sending, chan, ctx, failed, delivered>>
  BY DEF Skip
<1>7. Digests' /\ Returned' /\ Agreed' /\ FailsRightly' /\ DeliveredKept
  BY <1>6, SameCalls
<1>8. Control'
  <2>1. i' \in [Players -> 0 .. NPlayers]
    BY <1>1, <1>5, PlayerNumbers DEF Control
  <2>2. \A x \in Players \ {p} : i'[x] = i[x]
    BY <1>5 DEF Control
  <2> QED BY <1>1, <1>6, <2>1, <2>2 DEF Control
<1>9. Contents'
  <2>1. o' \in [Players -> [Players -> AnyMsg]]
    BY <1>4, <1>5 DEF Contents
  <2> QED BY <1>6, <2>1 DEF Contents
<1>10. Streams'
  BY <1>6, <1>7, SkipPositions, StreamsKept
<1>11. Received'
  <2> SUFFICES ASSUME NEW x \in Players, NEW y \in Players, NEW d \in DOMAIN Calls,
                      call[x] = d, HasGot(x, y)'
               PROVE  \A n \in {o'[x][y]} : Fits(y, d, n)'
    BY <1>6 DEF Received
  <2>1. CASE x = p /\ y = p
    <3>1. o'[x][y] = m /\ d = c
      BY <1>2, <1>5, <2>1 DEF Contents
    <3>2. Fits(y, d, m)'
      BY <1>2, <1>4, <1>7, <2>1, <3>1, MessagesKept, ControlTypes
    <3> QED BY <3>1, <3>2
  <2>2. CASE x = y /\ x # p
    <3>1. o'[x][y] = o[x][y] /\ i'[x] = i[x] /\ half'[x] = half[x]
      BY <1>5, <1>6, <2>2 DEF Contents, Control
    <3>2. HasGot(x, y)
      BY <2>2, <3>1 DEF HasGot
    <3> QED BY <1>7, <3>1, <3>2, GotKept
  <2>3. CASE x # y
    <3>1. o'[x][y] = o[x][y]
      BY <1>5, <2>3 DEF Contents
    <3>2. GotFrom(x, y)' = GotFrom(x, y)
      BY <2>3, SkipPositions
    <3>3. GotFrom(x, y)' = call[x]
      BY <1>6, <2>3 DEF GotFrom, HasGot
    <3>4. HasGot(x, y)
      BY <2>3, <3>2, <3>3, ControlTypes DEF GotFrom, HasGot
    <3> QED BY <1>7, <3>1, <3>4, GotKept
  <2> QED BY <2>1, <2>2, <2>3
<1> QED BY <1>7, <1>8, <1>9, <1>10, <1>11

LEMMA SecondLoopInv ==
    ASSUME Inv, NEW p \in Players, SecondLoop(p)
    PROVE  Inv'
<1> USE DEF Inv
<1>1. i[p] = NPlayers /\ half[p] = 1 /\ ~sending[p]
  <2>1. i[p] = NPlayers /\ half[p] = 1
    BY DEF SecondLoop
  <2> QED BY <2>1, ControlTypes, PlayerNumbers
<1>2. half' = [half EXCEPT ![p] = 2] /\ i' = [i EXCEPT ![p] = 0]
  BY DEF SecondLoop
<1>3. UNCHANGED <<call, sending, chan, o, ctx, failed, delivered>>
  BY DEF SecondLoop
<1>4. \A x \in Players \ {p} : half'[x] = half[x] /\ i'[x] = i[x]
  BY <1>2 DEF Control
<1>5. Control'
  <2>1. half' \in [Players -> 1 .. 2] /\ i' \in [Players -> 0 .. NPlayers]
    BY <1>2, PlayersAssumption DEF Control
  <2> QED BY <1>1, <1>3, <1>4, <2>1 DEF Control
<1>6. Contents'
  BY <1>3 DEF Contents
<1>7. Digests' /\ Returned' /\ Agreed' /\ FailsRightly' /\ DeliveredKept
  BY <1>3, SameCalls
<1>8. Streams'
  BY <1>3, <1>7, SecondLoopPositions, StreamsKept
<1>9. Received'
  <2>1. i[p] > p
    BY <1>1, PlayerNumbers
  <2>2. \A x, y \in Players : x # y => GotFrom(x, y)' = GotFrom(x, y)
    BY SecondLoopPositions
  <2> QED BY <1>3, <1>4, <1>7, <2>1, <2>2, ReceivedKept
<1> QED BY <1>5, <1>6, <1>7, <1>8, <1>9

-----------------------------------------------------------------------------
(* The end of a call.                                                      *)

(* Everything has been received.                                           *)
LEMMA AllReceived ==
    ASSUME Inv, NEW p \in Players, AtEnd(p)
    PROVE  /\ call[p] \in DOMAIN Calls /\ call[p] \in Nat \ {0} /\ ~sending[p]
           /\ \A q \in Players : HasGot(p, q) /\ call[p] <= call[q]
<1>1. half[p] = 2 /\ i[p] = NPlayers /\ call[p] <= Len(Calls)
  BY DEF AtEnd, Running
<1>2. \A q \in Players : HasGot(p, q)
  BY <1>1, PlayerNumbers DEF GotNow, HasGot
<1>3. call[p] \in DOMAIN Calls /\ ~sending[p] /\ call[p] \in Nat \ {0}
  BY <1>1, ControlTypes, PlayerNumbers, CallsAssumption DEF Inv
<1> QED BY <1>2, <1>3, SentIsBegun DEF Inv

LEMMA NextCallInv ==
    ASSUME Control, Streams, Received, DeliveredKept, NEW p \in Players, AtEnd(p), NextCall(p),
           call[p] \in DOMAIN Calls, ~sending[p], UNCHANGED <<sending, chan, o, failed>>
    PROVE  Control' /\ Streams' /\ Received'
<1>1. /\ call' = [call EXCEPT ![p] = @ + 1]
      /\ half' = [half EXCEPT ![p] = 1]
      /\ i' = [i EXCEPT ![p] = 0]
  BY DEF NextCall
<1>2. \A x \in Players \ {p} : call'[x] = call[x] /\ half'[x] = half[x] /\ i'[x] = i[x]
  BY <1>1 DEF Control
<1>3. half'[p] = 1 /\ i'[p] = 0
  BY <1>1 DEF Control
<1>4. Control'
  <2>1. call' \in [Players -> 1 .. Len(Calls) + 1]
    BY <1>1, CallsAssumption DEF Control
  <2>2. half' \in [Players -> 1 .. 2] /\ i' \in [Players -> 0 .. NPlayers]
    BY <1>1, PlayersAssumption DEF Control
  <2> QED BY <1>2, <2>1, <2>2 DEF Control
<1>5. Streams'
  BY NextCallPositions, StreamsKept
<1>6. Received'
  <2> SUFFICES ASSUME NEW x \in Players, NEW y \in Players, NEW c \in DOMAIN Calls,
                      call'[x] = c, HasGot(x, y)'
               PROVE  \A m \in {o'[x][y]} : Fits(y, c, m)'
    BY DEF Received
  <2>1. x # p
    BY <1>3, PlayerNumbers DEF GotNow, HasGot
  <2>2. HasGot(x, y)
    BY <1>2, <2>1 DEF GotNow, HasGot
  <2> QED BY <1>2, <2>1, <2>2, GotKept
<1> QED BY <1>4, <1>5, <1>6

(* A player that has failed, or passed a check, did so on returned vectors. *)
LEMMA OutcomesKept ==
    ASSUME Inv, DeliveredKept, UNCHANGED failed,
           call' \in [Players -> 1 .. Len(Calls) + 1],
           \A x \in Players : call[x] <= call'[x]
    PROVE  /\ FailsRightly'
           /\ \A x, y \in Players : \A c \in DOMAIN Calls :
                 Calls[c] = "check" /\ c < call[x] =>
                     /\ c <= call'[y]
                     /\ \A k \in BroadcastCalls : k < c => delivered'[x][k] = delivered'[y][k]
<1> USE DEF Inv
<1>1. \A x \in Players : call[x] \in Int /\ call'[x] \in Int
  BY CallsAssumption DEF Control
<1>2. \A c \in DOMAIN Calls : c \in Int
  BY CallsAssumption
<1>3. \A k \in BroadcastCalls : k \in DOMAIN Calls
  BY DEF BroadcastCalls
<1>4. FailsRightly'
  <2> SUFFICES ASSUME NEW x \in Players, failed[x]
               PROVE  \E y \in Players, c \in BroadcastCalls :
                         c < call'[x] /\ c < call'[y] /\ delivered'[x][c] # delivered'[y][c]
    BY DEF FailsRightly
  <2>1. PICK y \in Players, c \in BroadcastCalls :
           c < call[x] /\ c < call[y] /\ delivered[x][c] # delivered[y][c]
    BY DEF FailsRightly
  <2>2. delivered'[x][c] = delivered[x][c] /\ delivered'[y][c] = delivered[y][c]
    BY <1>3, <2>1 DEF DeliveredKept
  <2>3. c < call'[x] /\ c < call'[y]
    BY <1>1, <1>2, <1>3, <2>1
  <2> QED BY <2>1, <2>2, <2>3
<1>5. ASSUME NEW x \in Players, NEW y \in Players, NEW c \in DOMAIN Calls,
             Calls[c] = "check", c < call[x]
      PROVE  /\ c <= call'[y]
             /\ \A k \in BroadcastCalls : k < c => delivered'[x][k] = delivered'[y][k]
  <2>1. c <= call[y] /\ \A k \in BroadcastCalls : k < c => delivered[x][k] = delivered[y][k]
    BY <1>5 DEF Agreed
  <2>2. c <= call'[y]
    BY <1>1, <1>2, <2>1
  <2>3. ASSUME NEW k \in BroadcastCalls, k < c
        PROVE  delivered'[x][k] = delivered'[y][k]
    <3>1. k < call[x] /\ k < call[y]
      BY <1>1, <1>2, <1>3, <1>5, <2>1, <2>3
    <3> QED BY <1>3, <2>1, <2>3, <3>1 DEF DeliveredKept
  <2> QED BY <2>2, <2>3
<1> QED BY <1>4, <1>5

LEMMA BroadcastReturnsInv ==
    ASSUME Inv, NEW p \in Players, BroadcastReturns(p)
    PROVE  Inv'
<1> USE DEF Inv
<1>1. AtEnd(p) /\ NextCall(p) /\ UNCHANGED <<sending, chan, o, failed>>
  BY DEF BroadcastReturns
<1>2. PICK c \in DOMAIN Calls : c = call[p] /\ c \in Nat \ {0}
  BY <1>1, AllReceived
<1>3. Calls[c] # "check" /\ ~sending[p] /\ c \in BroadcastCalls
  BY <1>1, <1>2, AllReceived, CallsAssumption DEF BroadcastReturns, Checking, BroadcastCalls
<1>4. PICK v : v = o[p]
  OBVIOUS
<1>5. \A q \in Players : Given(q, c, v[q])
  <2> SUFFICES ASSUME NEW q \in Players PROVE Given(q, c, v[q])
    OBVIOUS
  <2>1. HasGot(p, q)
    BY <1>1, AllReceived
  <2>2. Fits(q, c, v[q])
    BY <1>2, <1>4, <2>1 DEF Received
  <2> QED BY <1>3, <2>2 DEF Fits
<1>6. v \in Vectors
  <2>1. v \in [Players -> AnyMsg]
    BY <1>4 DEF Contents
  <2>2. \A q \in Players : v[q] \in DataMsg
    BY <1>5, MessageTypes
  <2> QED BY <2>1, <2>2 DEF Vectors
<1>7. /\ ctx' = [ctx EXCEPT ![p] = Append(@, v)]
      /\ delivered' = [delivered EXCEPT ![p][c] = v]
      /\ call' = [call EXCEPT ![p] = @ + 1]
  BY <1>2, <1>4 DEF BroadcastReturns, Hashed, NextCall
<1>8. DeliveredKept
  <2> SUFFICES ASSUME NEW x \in Players, NEW k \in DOMAIN Calls, k < call[x]
               PROVE  delivered'[x][k] = delivered[x][k]
    BY DEF DeliveredKept
  <2>1. x # p \/ k # c
    BY <1>2
  <2> QED BY <1>7, <2>1 DEF Contents
<1>9. Control' /\ Streams' /\ Received'
  BY <1>1, <1>2, <1>3, <1>8, NextCallInv
<1>10. call'[p] = c + 1 /\ \A x \in Players \ {p} : call'[x] = call[x]
  BY <1>2, <1>7 DEF Control
<1>11. Contents'
  <2>1. ctx' \in [Players -> Seq(Vectors)]
    <3>1. ctx[p] \in Seq(Vectors)
      BY DEF Contents
    <3>2. Append(ctx[p], v) \in Seq(Vectors)
      BY <1>6, <3>1
    <3> QED BY <1>7, <3>2 DEF Contents
  <2>2. delivered' \in [Players -> [DOMAIN Calls -> Vectors \cup {<<>>}]]
    BY <1>6, <1>7 DEF Contents
  <2> QED BY <1>1, <2>1, <2>2 DEF Contents
<1>12. delivered'[p][c] = v
  BY <1>7 DEF Contents
<1>13. Digests'
  <2> SUFFICES ASSUME NEW x \in Players, NEW n \in Nat, n = call'[x]
               PROVE  ctx'[x] = HashOf(x, n)'
    BY <1>9, CallsAssumption DEF Digests, Control
  <2>1. CASE x # p
    <3>1. n = call[x] /\ n \in 1 .. Len(Calls) + 1 /\ ctx'[x] = ctx[x]
      BY <1>7, <1>10, <2>1 DEF Control, Contents
    <3>2. HashOf(x, n)' = HashOf(x, n)
      BY <1>8, <3>1, HashKept
    <3> QED BY <3>1, <3>2 DEF Digests
  <2>2. CASE x = p
    <3>1. n = c + 1 /\ ctx'[p] = Append(ctx[p], v)
      BY <1>7, <1>10, <2>2 DEF Contents
    <3>2. PICK l : IsLast(l, c)
      BY <1>2, LastExists
    <3>3. l \in Nat /\ l \in 0 .. c - 1 /\ LastCheck(c) = l /\ LastCheck(n) = l
      BY <1>3, <3>1, <3>2, LastAfterBroadcast DEF IsLast
    <3>4. PICK d : d = delivered'[p]
      OBVIOUS
    <3>5. PICK k \in Nat : k = c - 1 - l
      BY <1>2, <3>3
    <3>6. l + k + 1 = c /\ c - l = k + 1 /\ n - 1 - l = k + 1
      BY <1>2, <3>1, <3>3, <3>5
    <3>7. HashOf(p, c)' = [j \in 1 .. k |-> d[l + j]]
      BY <3>3, <3>4, <3>5 DEF HashOf
    <3>8. HashOf(p, n)' = [j \in 1 .. k + 1 |-> d[l + j]]
      BY <3>3, <3>4, <3>6 DEF HashOf
    <3>9. \A j \in 1 .. k + 1 : d[l + j] \in Vectors
      <4> SUFFICES ASSUME NEW j \in 1 .. k + 1 PROVE d[l + j] \in Vectors
        OBVIOUS
      <4>1. CASE j = k + 1
        <5>1. l + j = c
          BY <3>3, <3>6, <4>1
        <5> QED BY <1>6, <1>12, <3>4, <5>1
      <4>2. CASE j # k + 1
        <5>1. PICK m \in Nat : m = l + j /\ l < m /\ m < c
          BY <3>3, <3>6, <4>2
        <5>2. m \in BroadcastCalls /\ m \in DOMAIN Calls
          BY <1>2, <3>2, <5>1, HashedCalls DEF Control
        <5>3. delivered[p][m] \in Vectors
          BY <1>2, <5>1, <5>2 DEF Returned
        <5>4. delivered'[p][m] = delivered[p][m]
          BY <1>2, <1>8, <5>1, <5>2 DEF DeliveredKept
        <5> QED BY <3>4, <5>1, <5>3, <5>4
      <4> QED BY <4>1, <4>2
    <3>10. Append([j \in 1 .. k |-> d[l + j]], d[l + k + 1]) = [j \in 1 .. k + 1 |-> d[l + j]]
      BY <3>3, <3>9, AppendNext
    <3>11. d[l + k + 1] = v
      BY <1>12, <3>4, <3>6
    <3>12. HashOf(p, c)' = ctx[p]
      <4>1. c \in 1 .. Len(Calls) + 1 /\ c <= call[p]
        BY <1>2 DEF Control
      <4>2. HashOf(p, c)' = HashOf(p, c)
        BY <1>8, <4>1, HashKept
      <4> QED BY <1>2, <4>2 DEF Digests
    <3> QED BY <2>2, <3>1, <3>7, <3>8, <3>10, <3>11, <3>12
  <2> QED BY <2>1, <2>2
<1>14. Returned'
  <2> SUFFICES ASSUME NEW x \in Players, NEW k \in BroadcastCalls, k < call'[x]
               PROVE  /\ delivered'[x][k] \in Vectors
                      /\ \A q \in Players : \A m \in {delivered'[x][k][q]} : Given(q, k, m)
    BY DEF Returned, Given
  <2>0. k \in DOMAIN Calls /\ k \in Int
    BY CallsAssumption DEF BroadcastCalls
  <2>1. CASE x = p /\ k = c
    BY <1>5, <1>6, <1>12, <2>1
  <2>2. CASE ~(x = p /\ k = c)
    <3>1. k < call[x]
      BY <1>2, <1>10, <2>0, <2>2
    <3>2. delivered'[x][k] = delivered[x][k]
      BY <1>8, <2>0, <3>1 DEF DeliveredKept
    <3> QED BY <3>1, <3>2 DEF Returned
  <2> QED BY <2>1, <2>2
<1>15. call' \in [Players -> 1 .. Len(Calls) + 1] /\ \A x \in Players : call[x] <= call'[x]
  <2>1. call' \in [Players -> 1 .. Len(Calls) + 1]
    BY <1>9 DEF Control
  <2>2. \A x \in Players : call[x] \in Int
    BY CallsAssumption DEF Control
  <2>3. \A x \in Players : call[x] <= call'[x]
    BY <1>2, <1>10, <2>2
  <2> QED BY <2>1, <2>3
<1>16. FailsRightly' /\ Agreed'
  <2>1. ASSUME NEW x \in Players, NEW k \in DOMAIN Calls, Calls[k] = "check", k < call'[x]
        PROVE  k < call[x]
    BY <1>2, <1>3, <1>10, <2>1, CallsAssumption
  <2> QED BY <1>1, <1>8, <1>15, <2>1, OutcomesKept DEF Agreed
<1> QED BY <1>9, <1>11, <1>13, <1>14, <1>16

LEMMA SameDigests ==
    ASSUME Inv, NEW p \in Players, NEW c \in DOMAIN Calls, c = call[p],
           Calls[c] = "check", AtEnd(p)
    PROVE  /\ \A q \in Players : \A m \in {o[p][q]} : m = Hash(HashOf(q, c))
           /\ SameHash(p) <=> \A q \in Players : HashOf(q, c) = HashOf(p, c)
<1>1. \A q \in Players : o[p][q] = Hash(HashOf(q, c))
  <2> SUFFICES ASSUME NEW q \in Players PROVE o[p][q] = Hash(HashOf(q, c))
    OBVIOUS
  <2>1. HasGot(p, q)
    BY AllReceived
  <2>2. PICK m : m = o[p][q]
    OBVIOUS
  <2>3. Fits(q, c, m)
    BY <2>1, <2>2 DEF Inv, Received
  <2> QED BY <2>2, <2>3 DEF Fits
<1>2. \A g, h : Hash(g) = Hash(h) <=> g = h
  BY DEF Hash
<1> QED BY <1>1, <1>2 DEF SameHash

(* Equal digests are digests of equal vectors.                             *)
LEMMA DigestIs ==
    ASSUME NEW c \in 1 .. Len(Calls) + 1, NEW l, IsLast(l, c)
    PROVE  /\ l \in Nat /\ c \in Nat \ {0}
           /\ \A p : HashOf(p, c) = [k \in 1 .. c - 1 - l |-> delivered[p][l + k]]
<1>1. Len(Calls) \in Nat
  BY CallsAssumption
<1>2. c \in Nat \ {0}
  BY <1>1
<1>3. l \in 0 .. c - 1
  BY DEF IsLast
<1>4. l \in Nat
  BY <1>2, <1>3
<1>5. LastCheck(c) = l
  BY <1>2, LastIs
<1> QED BY <1>2, <1>4, <1>5 DEF HashOf

LEMMA EqualDigests ==
    ASSUME NEW c \in 1 .. Len(Calls) + 1, NEW l, IsLast(l, c), NEW p, NEW q,
           HashOf(p, c) = HashOf(q, c), NEW k \in BroadcastCalls, l < k, k < c
    PROVE  delivered[p][k] = delivered[q][k]
<1>1. l \in Nat /\ c \in Nat \ {0} /\ k \in Int
  BY DigestIs, CallsAssumption DEF BroadcastCalls
<1>2. /\ HashOf(p, c) = [j \in 1 .. c - 1 - l |-> delivered[p][l + j]]
      /\ HashOf(q, c) = [j \in 1 .. c - 1 - l |-> delivered[q][l + j]]
  BY DigestIs
<1>3. PICK j \in 1 .. c - 1 - l : l + j = k
  <2>1. k - l \in 1 .. c - 1 - l /\ l + (k - l) = k
    BY <1>1
  <2> QED BY <2>1
<1>4. HashOf(p, c)[j] = HashOf(q, c)[j]
  OBVIOUS
<1> QED BY <1>2, <1>3, <1>4

LEMMA DifferentDigests ==
    ASSUME NEW c \in 1 .. Len(Calls) + 1, NEW l, IsLast(l, c), NEW p, NEW q,
           HashOf(p, c) # HashOf(q, c)
    PROVE  \E k \in BroadcastCalls : l < k /\ k < c /\ delivered[p][k] # delivered[q][k]
<1>1. l \in Nat /\ c \in Nat \ {0}
  BY DigestIs
<1>2. /\ HashOf(p, c) = [k \in 1 .. c - 1 - l |-> delivered[p][l + k]]
      /\ HashOf(q, c) = [k \in 1 .. c - 1 - l |-> delivered[q][l + k]]
  BY DigestIs
<1>3. PICK j \in 1 .. c - 1 - l : delivered[p][l + j] # delivered[q][l + j]
  BY <1>2
<1>4. PICK k \in Nat : k = l + j /\ l < k /\ k < c
  BY <1>1
<1>5. k \in BroadcastCalls
  BY <1>4, HashedCalls
<1> QED BY <1>3, <1>4, <1>5

LEMMA CheckPassesInv ==
    ASSUME Inv, NEW p \in Players, CheckPasses(p)
    PROVE  Inv'
<1> USE DEF Inv
<1>1. AtEnd(p) /\ NextCall(p) /\ SameHash(p) /\ UNCHANGED <<sending, chan, o, failed, delivered>>
  BY DEF CheckPasses
<1>2. PICK c \in DOMAIN Calls : c = call[p] /\ c \in Nat \ {0}
  BY <1>1, AllReceived
<1>3. Calls[c] = "check" /\ ~sending[p] /\ c \in 1 .. Len(Calls) + 1
  BY <1>1, <1>2, AllReceived, CallsAssumption DEF CheckPasses, Checking
<1>4. DeliveredKept
  BY <1>1 DEF DeliveredKept
<1>5. Control' /\ Streams' /\ Received'
  BY <1>1, <1>2, <1>3, <1>4, NextCallInv
<1>6. ctx' = [ctx EXCEPT ![p] = <<>>] /\ call' = [call EXCEPT ![p] = @ + 1]
  BY DEF CheckPasses, NextCall
<1>7. call'[p] = c + 1 /\ \A x \in Players \ {p} : call'[x] = call[x]
  BY <1>2, <1>6 DEF Control
<1>8. Contents'
  BY <1>1, <1>6 DEF Contents
<1>9. Digests'
  <2> SUFFICES ASSUME NEW x \in Players, NEW n \in Nat, n = call'[x]
               PROVE  ctx'[x] = HashOf(x, n)'
    BY <1>5, CallsAssumption DEF Digests, Control
  <2>1. CASE x # p
    <3>1. n = call[x] /\ n \in 1 .. Len(Calls) + 1 /\ ctx'[x] = ctx[x]
      BY <1>6, <1>7, <2>1 DEF Control, Contents
    <3>2. HashOf(x, n)' = HashOf(x, n)
      BY <1>4, <3>1, HashKept
    <3> QED BY <3>1, <3>2 DEF Digests
  <2>2. CASE x = p
    <3>1. n = c + 1 /\ ctx'[p] = <<>>
      BY <1>6, <1>7, <2>2 DEF Contents
    <3>2. LastCheck(n) = c
      BY <1>3, <3>1, LastAfterCheck
    <3>3. PICK d : d = delivered'[p]
      OBVIOUS
    <3>4. HashOf(p, n)' = [k \in 1 .. n - 1 - c |-> d[c + k]]
      BY <3>2, <3>3 DEF HashOf
    <3>5. 1 .. n - 1 - c = {}
      BY <1>2, <3>1
    <3> QED BY <2>2, <3>1, <3>4, <3>5
  <2> QED BY <2>1, <2>2
<1>10. Returned'
  <2> SUFFICES ASSUME NEW x \in Players, NEW k \in BroadcastCalls, k < call'[x]
               PROVE  /\ delivered[x][k] \in Vectors
                      /\ \A q \in Players : \A m \in {delivered[x][k][q]} : Given(q, k, m)
    BY <1>1 DEF Returned, Given
  <2>1. k # c /\ k \in Int
    BY <1>3, CallsAssumption DEF BroadcastCalls
  <2>2. k < call[x]
    BY <1>2, <1>7, <2>1
  <2> QED BY <2>2 DEF Returned
<1>11. call' \in [Players -> 1 .. Len(Calls) + 1] /\ \A x \in Players : call[x] <= call'[x]
  <2>1. call' \in [Players -> 1 .. Len(Calls) + 1]
    BY <1>5 DEF Control
  <2>2. \A x \in Players : call[x] \in Int
    BY CallsAssumption DEF Control
  <2>3. \A x \in Players : call[x] <= call'[x]
    BY <1>2, <1>7, <2>2
  <2> QED BY <2>1, <2>3
(* The digests of p and of everybody else for this check were the same.     *)
<1>12. \A q \in Players : c <= call[q]
                          /\ \A k \in BroadcastCalls : k < c => delivered[p][k] = delivered[q][k]
  <2> SUFFICES ASSUME NEW q \in Players
               PROVE  c <= call[q]
                      /\ \A k \in BroadcastCalls : k < c => delivered[p][k] = delivered[q][k]
    OBVIOUS
  <2>1. c <= call[q]
    BY <1>1, <1>2, AllReceived
  <2>2. PICK l : IsLast(l, c)
    BY <1>2, LastExists
  <2>3. HashOf(p, c) = HashOf(q, c)
    BY <1>1, <1>2, <1>3, SameDigests
  <2>4. \A k \in BroadcastCalls : l < k /\ k < c => delivered[p][k] = delivered[q][k]
    BY <1>3, <2>2, <2>3, EqualDigests
  <2>5. ASSUME NEW k \in BroadcastCalls, k < c, ~(l < k)
        PROVE  delivered[p][k] = delivered[q][k]
    <3>1. k \in DOMAIN Calls /\ k \in Nat \ {0} /\ Calls[k] = "broadcast"
      BY CallsAssumption DEF BroadcastCalls
    <3>2. l \in 0 .. c - 1 /\ (l = 0 \/ Calls[l] = "check")
      BY <2>2 DEF IsLast
    <3>3. l # 0 /\ k <= l
      BY <1>2, <2>5, <3>1, <3>2
    <3>4. k # l
      BY <3>1, <3>2, <3>3
    <3>5. l \in DOMAIN Calls /\ l < call[p] /\ k < l
      BY <1>2, <3>1, <3>2, <3>3, <3>4, CallsAssumption
    <3> QED BY <3>2, <3>3, <3>5 DEF Agreed
  <2> QED BY <2>1, <2>4, <2>5
<1>13. FailsRightly' /\ Agreed'
  <2>1. FailsRightly'
    BY <1>1, <1>4, <1>11, OutcomesKept
  <2>2. Agreed'
    <3> SUFFICES ASSUME NEW x \in Players, NEW y \in Players, NEW k \in DOMAIN Calls,
                        Calls[k] = "check", k < call'[x]
                 PROVE  /\ k <= call'[y]
                        /\ \A j \in BroadcastCalls : j < k => delivered[x][j] = delivered[y][j]
      BY <1>1 DEF Agreed
    <3>1. CASE k < call[x]
      BY <1>1, <1>4, <1>11, <3>1, OutcomesKept
    <3>2. CASE ~(k < call[x])
      <4>1. x = p /\ k = c
        BY <1>2, <1>7, <3>2, CallsAssumption
      <4>2. c <= call[y] /\ call[y] <= call'[y] /\ call[y] \in Int /\ call'[y] \in Int
        BY <1>5, <1>11, <1>12, CallsAssumption DEF Control
      <4>3. k <= call'[y]
        BY <1>2, <4>1, <4>2
      <4> QED BY <1>12, <4>1, <4>3
    <3> QED BY <3>1, <3>2
  <2> QED BY <2>1, <2>2
<1> QED BY <1>5, <1>8, <1>9, <1>10, <1>13

LEMMA CheckFailsInv ==
    ASSUME Inv, NEW p \in Players, CheckFails(p)
    PROVE  Inv'
<1> USE DEF Inv
<1>1. AtEnd(p) /\ ~SameHash(p) /\ UNCHANGED <<call, half, i, sending, chan, o, ctx, delivered>>
  BY DEF CheckFails, control
<1>2. PICK c \in DOMAIN Calls : c = call[p] /\ c \in Nat \ {0}
  BY <1>1, AllReceived
<1>3. Calls[c] = "check" /\ c \in 1 .. Len(Calls) + 1
  BY <1>1, <1>2, CallsAssumption DEF CheckFails, Checking
<1>4. PICK q \in Players : HashOf(p, c) # HashOf(q, c)
  BY <1>1, <1>2, <1>3, SameDigests
<1>5. PICK l : IsLast(l, c)
  BY <1>2, LastExists
<1>6. PICK k \in BroadcastCalls : l < k /\ k < c /\ delivered[p][k] # delivered[q][k]
  BY <1>3, <1>4, <1>5, DifferentDigests
<1>7. k < call[p] /\ k < call[q]
  <2>1. c <= call[q] /\ call[q] \in Int /\ k \in Int
    BY <1>1, <1>2, AllReceived, CallsAssumption DEF Control, BroadcastCalls
  <2> QED BY <1>2, <1>6, <2>1
<1>8. failed' = [failed EXCEPT ![p] = TRUE]
  BY DEF CheckFails
<1>9. Control'
  BY <1>1, <1>8 DEF Control
<1>10. Contents' /\ DeliveredKept
  BY <1>1 DEF Contents, DeliveredKept
<1>11. Digests' /\ Returned' /\ Agreed'
  <2>1. Digests'
    BY <1>1 DEF Digests, HashOf
  <2>2. Returned' /\ Agreed'
    BY <1>1 DEF Returned, Agreed
  <2> QED BY <2>1, <2>2
<1>12. FailsRightly'
  <2> SUFFICES ASSUME NEW x \in Players, failed'[x]
               PROVE  \E y \in Players, j \in BroadcastCalls :
                         j < call[x] /\ j < call[y] /\ delivered[x][j] # delivered[y][j]
    BY <1>1 DEF FailsRightly
  <2>1. CASE x = p
    BY <1>6, <1>7, <2>1
  <2>2. CASE x # p
    <3>1. failed[x]
      BY <1>8, <2>2 DEF Control
    <3> QED BY <3>1 DEF FailsRightly
  <2> QED BY <2>1, <2>2
<1>13. \A x, y \in Players : x # y => /\ SentTo(x, y)' = SentTo(x, y)
                                      /\ GotFrom(x, y)' = GotFrom(x, y)
  BY <1>1, SamePositions
<1>14. Streams'
  BY <1>1, <1>10, <1>13, StreamsKept
<1>15. Received'
  BY <1>1, <1>10, <1>13, ReceivedKept
<1> QED BY <1>9, <1>10, <1>11, <1>12, <1>14, <1>15

-----------------------------------------------------------------------------
LEMMA NextInv == ASSUME Inv, [Next]_vars PROVE Inv'
<1>1. ASSUME NEW p \in Players, Step(p) PROVE Inv'
  <2>1. CASE Send(p)
    BY <2>1, SendInv
  <2>2. CASE Sent(p)
    BY <2>2, SentInv
  <2>3. CASE Receive(p)
    BY <2>3, ReceiveInv
  <2>4. CASE Skip(p)
    BY <2>4, SkipInv
  <2>5. CASE SecondLoop(p)
    BY <2>5, SecondLoopInv
  <2>6. CASE BroadcastReturns(p)
    BY <2>6, BroadcastReturnsInv
  <2>7. CASE CheckPasses(p)
    BY <2>7, CheckPassesInv
  <2>8. CASE CheckFails(p)
    BY <2>8, CheckFailsInv
  <2> QED BY <1>1, <2>1, <2>2, <2>3, <2>4, <2>5, <2>6, <2>7, <2>8 DEF Step
<1>2. CASE UNCHANGED vars
  <2>1. UNCHANGED <<call, half, i, sending, chan, o, ctx, failed, delivered>>
    BY <1>2 DEF vars, control
  <2>2. Control' /\ Contents'
    BY <2>1 DEF Inv, Control, Contents
  <2>3. Digests' /\ Returned' /\ Agreed' /\ FailsRightly' /\ DeliveredKept
    BY <2>1, SameCalls DEF Inv
  <2>4. \A x, y \in Players : x # y => /\ SentTo(x, y)' = SentTo(x, y)
                                       /\ GotFrom(x, y)' = GotFrom(x, y)
    BY <2>1, SamePositions
  <2>5. Streams'
    BY <2>1, <2>3, <2>4, StreamsKept DEF Inv
  <2>6. Received'
    <3>1. CASE Players = {}
      BY <3>1 DEF Received
    <3>2. ASSUME NEW p \in Players PROVE Received'
      BY <2>1, <2>3, <2>4, ReceivedKept DEF Inv
    <3> QED BY <3>1, <3>2
  <2> QED BY <2>2, <2>3, <2>5, <2>6 DEF Inv
<1> QED BY <1>1, <1>2 DEF Next

(* What the theorems say besides the properties of Broadcast: no player has *)
(* thrown broadcast_invalid, and none is more than a call ahead of another.  *)
ChecksPass == \A p \in Players : ~failed[p]
CallsInStep == \A p, q \in Players : call[p] <= call[q] + 1

LEMMA Invariance == Spec => []Inv
<1>1. Init => Inv
  BY InitInv
<1>2. Inv /\ [Next]_vars => Inv'
  BY NextInv
<1> QED BY <1>1, <1>2, PTL DEF Spec

(* What consistent players have delivered is what each of them gave.        *)
LEMMA GivenOnce ==
    ASSUME Inv, NEW p \in Players, NEW q \in Players \ Inconsistent,
           NEW c \in BroadcastCalls, c < call[p]
    PROVE  delivered[p][c][q] = Data(q, c, 0)
<1>1. PICK m : m = delivered[p][c][q]
  OBVIOUS
<1>2. Given(q, c, m)
  BY <1>1 DEF Inv, Returned
<1> QED BY <1>1, <1>2 DEF Given

(* A broadcast returns, to every player, what each consistent player gave   *)
(* to the same call (Player::Broadcast_Receive).                            *)
THEOREM BroadcastAgreement == Spec => []BroadcastsAgree
<1>1. Inv => BroadcastsAgree
  BY GivenOnce DEF BroadcastsAgree
<1> QED BY <1>1, Invariance, PTL

(* Players that have passed the same check have the same vectors from all   *)
(* broadcasts before it, whatever inconsistent players sent, and a check    *)
(* throws only for a player whose vector differs from somebody's            *)
(* (Player::Check_Broadcast).                                               *)
THEOREM ChecksFindDifferences == Spec => []CheckedVectorsAgree
<1>1. ASSUME Inv PROVE CheckedVectorsAgree
  <2>1. \A p, q \in Players : \A c \in DOMAIN Calls :
          Calls[c] = "check" /\ c < call[p] /\ c < call[q] =>
              \A k \in BroadcastCalls : k < c => delivered[p][k] = delivered[q][k]
    BY <1>1 DEF Inv, Agreed
  <2>2. \A p \in Players : failed[p] =>
          \E q \in Players, c \in BroadcastCalls :
              c < call[p] /\ c < call[q] /\ delivered[p][c] # delivered[q][c]
    BY <1>1 DEF Inv, FailsRightly
  <2> QED BY <2>1, <2>2 DEF CheckedVectorsAgree
<1> QED BY <1>1, Invariance, PTL

(* Check_Broadcast never throws among consistent players.                   *)
THEOREM HonestChecksPass == ASSUME Consistent PROVE Spec => []ChecksPass
<1>1. ASSUME Inv PROVE ChecksPass
  <2> SUFFICES ASSUME NEW p \in Players, failed[p] PROVE FALSE
    BY DEF ChecksPass
  <2>1. PICK q \in Players, c \in BroadcastCalls :
           c < call[p] /\ c < call[q] /\ delivered[p][c] # delivered[q][c]
    BY <1>1 DEF Inv, FailsRightly
  <2>2. delivered[p][c] \in Vectors /\ delivered[q][c] \in Vectors
    BY <1>1, <2>1 DEF Inv, Returned
  <2>3. \A r \in Players : delivered[p][c][r] = delivered[q][c][r]
    BY <1>1, <2>1, GivenOnce DEF Consistent
  <2> QED BY <2>1, <2>2, <2>3 DEF Vectors
<1> QED BY <1>1, Invariance, PTL

(* A stream never holds more than one message, however much it could hold.  *)
THEOREM StreamsStayShort == Spec => []AtMostOneUnread
<1>1. ASSUME Inv PROVE AtMostOneUnread
  <2> SUFFICES ASSUME NEW p \in Players, NEW q \in Players PROVE Len(chan[p][q]) <= 1
    BY DEF AtMostOneUnread
  <2>1. CASE chan[p][q] = <<>>
    BY <2>1
  <2>2. ASSUME NEW m \in AnyMsg, chan[p][q] = <<m>> PROVE Len(chan[p][q]) <= 1
    BY <2>2
  <2>3. p = q \/ Stream(p, q)
    BY <1>1 DEF Inv, Streams
  <2> QED BY <1>1, <2>1, <2>2, <2>3 DEF Inv, Contents, Stream
<1> QED BY <1>1, Invariance, PTL

(* Players stay within one call of each other.                              *)
THEOREM PlayersInStep == Spec => []CallsInStep
<1>1. ASSUME Inv PROVE CallsInStep
  <2> SUFFICES ASSUME NEW p \in Players, NEW q \in Players PROVE call[p] <= call[q] + 1
    BY DEF CallsInStep
  <2>1. call[p] \in Nat /\ call[q] \in Nat
    BY <1>1, ControlTypes DEF Inv
  <2>2. CASE p # q
    <3>1. Stream(q, p)
      BY <1>1, <2>2 DEF Inv, Streams
    <3>2. call[p] - 1 <= GotFrom(p, q) /\ SentTo(q, p) <= call[q]
          /\ GotFrom(p, q) \in Int /\ SentTo(q, p) \in Int
      BY <2>1 DEF GotFrom, SentTo
    <3> QED BY <2>1, <3>1, <3>2, CallsAssumption DEF Stream
  <2> QED BY <2>1, <2>2
<1> QED BY <1>1, Invariance, PTL
=============================================================================
