--------------------------- MODULE Exchange_proofs ---------------------------
(***************************************************************************)
(* pass_around passes the data on, for every number of players, offset,    *)
(* number of calls, lengths, size of a chunk and capacity of the streams.  *)
(*                                                                         *)
(* The units that a player ever sends stand one after the other: a place   *)
(* is <<round, k>>, the length of that round for k = 0, and its kth unit   *)
(* otherwise.  What is unread on a stream are the units from the place     *)
(* where the receiver is to the one where the sender is.                   *)
(***************************************************************************)
EXTENDS Exchange, SequenceTheorems, TLAPS

Units == {"unit", "length", "garbage"} \X Nat \X Nat
Points == {"send length", "receive length", "send", "receive"}
Places == Nat \X Nat

(* The length of what p sends in round r, what is at a place, and the next.*)
LengthIn(l, p, r) == l[Owner(p, r)]
Value(l, p, at) == IF at[2] = 0 THEN Length(LengthIn(l, p, at[1])) ELSE Unit(Owner(p, at[1]), at[2])
After(l, p, at) == IF at[2] < LengthIn(l, p, at[1]) THEN <<at[1], at[2] + 1>> ELSE <<at[1] + 1, 0>>

SendPlace(p) ==
    IF pc[p] = "send length" THEN <<round[p], 0>>
    ELSE After(length0, p, <<round[p], IF pc[p] = "receive length" THEN 0 ELSE sent[p]>>)
ReceivePlace(p) ==
    IF pc[p] \in {"send length", "receive length"} THEN <<round[p], 0>>
    ELSE After(length0, Source(p), <<round[p], received[p]>>)

(* The sequence s holds what p sends from one place up to another.  The    *)
(* last conjunct says of several steps what the one before says of one.    *)
Along(l, p, s, at) ==
    /\ \A i \in 1 .. Len(s) : s[i] = Value(l, p, at[i]) /\ at[i + 1] = After(l, p, at[i])
    /\ \A i, j \in 1 .. Len(s) + 1 :
         i <= j /\ at[i][2] # 0 /\ at[i][2] + (j - i) <= LengthIn(l, p, at[i][1])
            => at[j] = <<at[i][1], at[i][2] + (j - i)>>
Between(l, p, s, from, to) == s \in Seq(Units) /\
    \E at \in [1 .. Len(s) + 1 -> Places] :
        at[1] = from /\ at[Len(s) + 1] = to /\ Along(l, p, s, at)

(* The units c are those of round r from the kth on.                       *)
PartOf(l, p, c, r, k) ==
    /\ c \in Seq(Units) /\ Len(c) # 0 /\ k + Len(c) - 1 <= LengthIn(l, p, r)
    /\ \A i \in 1 .. Len(c) : c[i] = Unit(Owner(p, r), k + i - 1)

TypeInv ==
    /\ pc \in [Players -> Points]
    /\ round \in [Players -> Nat]
    /\ data \in [Players -> Seq(Units)]
    /\ len \in [Players -> Nat]
    /\ newLen \in [Players -> Nat]
    /\ sent \in [Players -> Nat]
    /\ received \in [Players -> Nat]
    /\ stream \in [Players -> Seq(Units)]
    /\ length0 \in [Players -> Nat]

(* The buffer between calls holds the data of the round; during a call it  *)
(* holds the end of it, and the beginning of that of the next round.       *)
Whole(p) ==
    /\ len[p] = LengthIn(length0, p, round[p])
    /\ len[p] <= Len(data[p])
    /\ pc[p] \in {"send length", "receive length"} =>
         \A k \in 1 .. len[p] : data[p][k] = Unit(Owner(p, round[p]), k)
Parts(p) == pc[p] \in {"send", "receive"} =>
    /\ newLen[p] = LengthIn(length0, p, round[p] + 1)
    /\ newLen[p] <= Len(data[p])
    /\ sent[p] <= len[p] /\ received[p] <= newLen[p]
    /\ \A k \in sent[p] + 1 .. len[p] : data[p][k] = Unit(Owner(p, round[p]), k)
    /\ \A k \in 1 .. received[p] : data[p][k] = Unit(Owner(p, round[p] + 1), k)

(* Sending and receiving go on by whole chunks: what a player receives in  *)
(* a turn of the loop goes where it has sent from before.                  *)
Multiples == {i * Chunk : i \in Nat}
Turns(p) ==
    /\ pc[p] = "send" => \E m \in Multiples :
         sent[p] = MinOf(len[p], m) /\ received[p] = MinOf(newLen[p], m)
    /\ pc[p] = "receive" => \E m \in Multiples :
         /\ sent[p] = MinOf(len[p], m + Chunk)
         /\ MinOf(newLen[p], m) <= received[p] /\ received[p] < m + Chunk

Streams == \A p \in Players : Between(length0, Source(p), stream[Source(p)], ReceivePlace(p), SendPlace(Source(p)))

Inv == TypeInv /\ (\A p \in Players : Whole(p) /\ Parts(p) /\ Turns(p)) /\ Streams

-----------------------------------------------------------------------------
(* Arithmetic.                                                             *)
LEMMA ModuloOfSum ==
    ASSUME NEW n \in Nat \ {0}, NEW x \in 0 .. n - 1, NEW i \in Int
    PROVE  (x + n * i) % n = x
  OBVIOUS

LEMMA ModuloPlus ==
    ASSUME NEW n \in Nat \ {0}, NEW x \in Int
    PROVE  (x + n) % n = x % n
  <1> DEFINE q == x \div n
             m == x % n
  <1>1. q \in Int /\ m \in 0 .. n - 1 /\ x = n * q + m
    OBVIOUS
  <1>2. x + n = m + n * (q + 1)
    BY <1>1
  <1> HIDE DEF q, m
  <1>3. (m + n * (q + 1)) % n = m
    BY <1>1, ModuloOfSum
  <1> QED
    BY <1>2, <1>3 DEF m

(* The next multiple of Chunk.                                             *)
LEMMA NextMultiple ==
    ASSUME NEW m \in Multiples
    PROVE  /\ m \in Nat /\ m + Chunk \in Multiples
           /\ \A x \in Nat : m <= x /\ x < m + Chunk => ((x \div Chunk) + 1) * Chunk = m + Chunk
  <1>1. PICK i \in Nat : m = i * Chunk
    BY DEF Multiples
  <1>2. Chunk \in Nat \ {0}
    BY ChunkAssumption
  <1>3. m \in Nat /\ m + Chunk = (i + 1) * Chunk
    BY <1>1, <1>2
  <1>4. ASSUME NEW x \in Nat, m <= x, x < m + Chunk PROVE ((x \div Chunk) + 1) * Chunk = m + Chunk
    <2>1. x \div Chunk = i
      BY <1>1, <1>2, <1>3, <1>4
    <2> QED
      BY <2>1, <1>3
  <1> QED
    BY <1>3, <1>4 DEF Multiples

(* The ring of players.                                                    *)
LEMMA Ring ==
    /\ 0 \in Multiples
    /\ \A p \in Players : Source(p) \in Players /\ Source(p) # p
    /\ \A p, q \in Players : Source(p) = Source(q) => p = q
    /\ \A p \in Players, r \in Int : Owner(p, r) \in Players
    /\ \A p \in Players : Owner(p, 0) = p
    /\ \A p \in Players, r \in Nat : Owner(Source(p), r) = Owner(p, r + 1)
  <1>1. NPlayers \in Nat \ {0} /\ Offset \in 1 .. NPlayers - 1 /\ Chunk \in Nat \ {0} /\ Rounds \in Nat
    BY PlayersAssumption, ChunkAssumption
  <1>2. ASSUME NEW p \in Players
        PROVE  Source(p) = IF p >= Offset THEN p - Offset ELSE p + NPlayers - Offset
    <2>1. CASE p >= Offset
      <3>1. p - Offset \in 0 .. NPlayers - 1 /\ p - Offset \in Int
        BY <1>1, <2>1 DEF Players
      <3>2. (p - Offset + NPlayers) % NPlayers = (p - Offset) % NPlayers
        BY <1>1, <3>1, ModuloPlus
      <3>3. (p - Offset) % NPlayers = p - Offset
        BY <1>1, <3>1
      <3>4. p + NPlayers - Offset = p - Offset + NPlayers
        BY <1>1 DEF Players
      <3> QED
        BY <2>1, <3>2, <3>3, <3>4 DEF Source
    <2>2. CASE ~ p >= Offset
      <3>1. p + NPlayers - Offset \in 0 .. NPlayers - 1
        BY <1>1, <2>2 DEF Players
      <3>2. (p + NPlayers - Offset) % NPlayers = p + NPlayers - Offset
        BY <1>1, <3>1
      <3> QED
        BY <2>2, <3>2 DEF Source
    <2> QED
      BY <2>1, <2>2
  <1>3. \A p \in Players : Source(p) \in Players /\ Source(p) # p
    BY <1>1, <1>2 DEF Players
  <1>4. \A p, q \in Players : Source(p) = Source(q) => p = q
    BY <1>1, <1>2 DEF Players
  <1>5. ASSUME NEW p \in Players, NEW r \in Int PROVE Owner(p, r) \in Players
    <2>1. p + NPlayers * Rounds - Offset * r \in Int
      BY <1>1 DEF Players
    <2> QED
      BY <1>1, <2>1 DEF Owner, Players
  <1>6. ASSUME NEW p \in Players PROVE Owner(p, 0) = p
    <2>1. p + NPlayers * Rounds - Offset * 0 = p + NPlayers * Rounds
      BY <1>1 DEF Players
    <2>2. (p + NPlayers * Rounds) % NPlayers = p
      BY <1>1, ModuloOfSum DEF Players
    <2> QED
      BY <2>1, <2>2 DEF Owner
  <1>7. ASSUME NEW p \in Players, NEW r \in Nat PROVE Owner(Source(p), r) = Owner(p, r + 1)
    <2> DEFINE x == p + NPlayers * Rounds - Offset * (r + 1)
    <2>1. x \in Int /\ x = p - Offset + NPlayers * Rounds - Offset * r
      BY <1>1 DEF Players
    <2>2. (x + NPlayers) % NPlayers = x % NPlayers
      BY <1>1, <2>1, ModuloPlus
    <2>3. CASE p >= Offset
      <3>1. Source(p) + NPlayers * Rounds - Offset * r = x
        BY <1>2, <2>1, <2>3
      <3> QED
        BY <3>1 DEF Owner
    <2>4. CASE ~ p >= Offset
      <3>1. Source(p) + NPlayers * Rounds - Offset * r = x + NPlayers
        <4>1. Source(p) = p + NPlayers - Offset
          BY <1>2, <2>4
        <4>2. NPlayers * Rounds \in Int /\ Offset * r \in Int /\ p \in Int
          BY <1>1 DEF Players
        <4> HIDE DEF x
        <4> QED
          BY <1>1, <2>1, <4>1, <4>2
      <3> QED
        BY <2>2, <3>1 DEF Owner
    <2> QED
      BY <2>3, <2>4
  <1>8. 0 \in Multiples
    BY <1>1 DEF Multiples
  <1> QED
    BY <1>3, <1>4, <1>5, <1>6, <1>7, <1>8

-----------------------------------------------------------------------------
(* Streams.  What is assumed of p and the lengths.                         *)
LengthsOf(l, p) == \A r \in Nat : LengthIn(l, p, r) \in Nat

LEMMA AfterIsPlace ==
    ASSUME NEW l, NEW p, LengthsOf(l, p), NEW at \in Places
    PROVE  After(l, p, at) \in Places
  BY DEF LengthsOf, After, Places

LEMMA AfterTheEnd ==
    ASSUME NEW l, NEW p, NEW r \in Nat, NEW k \in Nat, k = LengthIn(l, p, r)
    PROVE  After(l, p, <<r, k>>) = <<r + 1, 0>>
  BY DEF After

LEMMA AfterInside ==
    ASSUME NEW l, NEW p, NEW r \in Nat, NEW k \in Nat, k < LengthIn(l, p, r)
    PROVE  After(l, p, <<r, k>>) = <<r, k + 1>>
  BY DEF After

LEMMA EmptyStream ==
    ASSUME NEW l, NEW p, NEW from \in Places
    PROVE  Between(l, p, <<>>, from, from)
  <1> DEFINE at == [i \in 1 .. 1 |-> from]
  <1>1. at \in [1 .. Len(<<>>) + 1 -> Places] /\ at[1] = from /\ at[Len(<<>>) + 1] = from
    OBVIOUS
  <1>2. Along(l, p, <<>>, at)
    <2> SUFFICES ASSUME NEW i \in 1 .. 1, NEW j \in 1 .. 1, at[i][2] # 0
                 PROVE  at[j] = <<at[i][1], at[i][2] + (j - i)>>
      BY DEF Along
    <2>1. i = 1 /\ j = 1 /\ at[1] = from /\ from[2] \in Nat /\ from = <<from[1], from[2]>>
      BY DEF Places
    <2> QED
      BY <2>1
  <1> QED
    BY <1>1, <1>2 DEF Between

(* The units of one message, from place to place.                          *)
LEMMA UnitsAdded ==
    ASSUME NEW l, NEW p, LengthsOf(l, p), NEW s, NEW from, NEW c, NEW r \in Nat, NEW k \in Nat \ {0},
           PartOf(l, p, c, r, k), Between(l, p, s, from, <<r, k>>)
    PROVE  Between(l, p, s \o c, from, After(l, p, <<r, k + Len(c) - 1>>))
  <1>1. PICK at \in [1 .. Len(s) + 1 -> Places] :
          at[1] = from /\ at[Len(s) + 1] = <<r, k>> /\ Along(l, p, s, at)
    BY DEF Between
  <1> DEFINE n == Len(s)
             m == Len(c)
             last == After(l, p, <<r, k + m - 1>>)
             new == [i \in 1 .. n + m + 1 |->
                       IF i <= n THEN at[i] ELSE IF i <= n + m THEN <<r, k + (i - n) - 1>> ELSE last]
  <1>0. LengthIn(l, p, r) \in Nat
    BY DEF LengthsOf
  <1>00. s \in Seq(Units) /\ c \in Seq(Units) /\ m # 0
    BY DEF Between, PartOf
  <1>01. n \in Nat /\ m \in Nat \ {0}
    BY <1>00
  <1>02. Len(s \o c) = n + m /\ s \o c \in Seq(Units)
    BY <1>00
  <1>03. /\ at \in [1 .. n + 1 -> Places] /\ at[n + 1] = <<r, k>> /\ at[1] = from
         /\ \A i \in 1 .. n : s[i] = Value(l, p, at[i]) /\ at[i + 1] = After(l, p, at[i])
         /\ \A i, j \in 1 .. n + 1 : i <= j /\ at[i][2] # 0 /\ at[i][2] + (j - i) <= LengthIn(l, p, at[i][1])
               => at[j] = <<at[i][1], at[i][2] + (j - i)>>
    BY <1>1 DEF Along
  <1>04. /\ \A i \in 1 .. m : c[i] = Unit(Owner(p, r), k + i - 1)
         /\ \A i \in 1 .. n + m : (s \o c)[i] = IF i <= n THEN s[i] ELSE c[i - n]
    BY <1>00, ConcatProperties DEF PartOf
  <1>05. k + m - 1 <= LengthIn(l, p, r)
    BY DEF PartOf
  <1> HIDE DEF n, m
  <1>2. n \in Nat /\ m \in Nat \ {0} /\ LengthIn(l, p, r) \in Nat /\ k + m - 1 <= LengthIn(l, p, r)
    BY <1>0, <1>01, <1>05
  <1>3. last \in Places
    <2>1. k + m - 1 \in Nat
      BY <1>2
    <2>2. <<r, k + m - 1>> \in Places
      BY <2>1 DEF Places
    <2> QED
      BY <2>2, AfterIsPlace
  <1>4. new \in [1 .. n + m + 1 -> Places]
    <2> SUFFICES ASSUME NEW i \in 1 .. n + m + 1 PROVE new[i] \in Places
      OBVIOUS
    <2>1. CASE i <= n
      <3>1. i \in 1 .. n + 1
        BY <1>2, <2>1
      <3>2. new[i] = at[i]
        BY <2>1
      <3> QED
        BY <1>03, <3>1, <3>2
    <2>2. CASE ~ i <= n /\ i <= n + m
      <3>1. k + (i - n) - 1 \in Nat
        BY <1>2, <2>2
      <3> QED
        BY <2>2, <3>1 DEF Places
    <2> QED
      BY <1>2, <1>3, <2>1, <2>2
  <1>5. \A i \in 1 .. n + 1 : new[i] = at[i]
    <2> SUFFICES ASSUME NEW i \in 1 .. n + 1 PROVE new[i] = at[i]
      OBVIOUS
    <2>1. CASE i = n + 1
      <3>1. k + (i - n) - 1 = k /\ i <= n + m /\ ~ i <= n /\ i \in 1 .. n + m + 1
        BY <1>2, <2>1
      <3>2. new[i] = <<r, k + (i - n) - 1>>
        BY <3>1
      <3>3. new[i] = <<r, k>>
        BY <3>1, <3>2
      <3> QED
        BY <1>03, <2>1, <3>3
    <2> QED
      BY <1>2, <2>1
  <1>6. \A i \in n + 1 .. n + m : new[i] = <<r, k + (i - n) - 1>>
    BY <1>2
  <1>7. new[n + m + 1] = last
    BY <1>2
  <1> HIDE DEF new, last
  <1>8. ASSUME NEW i \in 1 .. n + m
        PROVE  (s \o c)[i] = Value(l, p, new[i]) /\ new[i + 1] = After(l, p, new[i])
    <2>1. CASE i <= n
      <3>0. i \in 1 .. n /\ i \in 1 .. n + 1 /\ i + 1 \in 1 .. n + 1
        BY <1>2, <2>1
      <3>1. (s \o c)[i] = s[i] /\ i \in 1 .. n /\ i \in 1 .. n + 1 /\ i + 1 \in 1 .. n + 1
        BY <1>04, <2>1, <3>0
      <3>2. s[i] = Value(l, p, at[i]) /\ at[i + 1] = After(l, p, at[i])
        BY <1>03, <3>1
      <3> QED
        BY <1>5, <3>1, <3>2
    <2>2. CASE ~ i <= n
      <3>0. i \in n + 1 .. n + m /\ i - n \in 1 .. m
        BY <1>2, <2>2
      <3>1. i \in n + 1 .. n + m /\ i - n \in 1 .. m /\ (s \o c)[i] = c[i - n]
        BY <1>04, <2>2, <3>0
      <3>2. c[i - n] = Unit(Owner(p, r), k + (i - n) - 1)
        BY <1>04, <3>1
      <3>3. new[i] = <<r, k + (i - n) - 1>> /\ k + (i - n) - 1 # 0
        BY <1>2, <1>6, <3>1
      <3>4. new[i + 1] = After(l, p, new[i])
        <4>1. CASE i = n + m
          BY <1>2, <1>7, <3>3, <4>1 DEF last
        <4>2. CASE i # n + m
          <5>0. i + 1 \in n + 1 .. n + m
            BY <1>2, <3>0, <4>2
          <5>1. i + 1 \in n + 1 .. n + m /\ k + (i - n) - 1 < LengthIn(l, p, r)
            BY <1>2, <5>0
          <5>2. new[i + 1] = <<r, k + (i - n)>> /\ k + (i - n) = (k + (i - n) - 1) + 1
            BY <1>2, <1>6, <5>1
          <5> QED
            BY <3>3, <5>1, <5>2 DEF After
        <4> QED
          BY <4>1, <4>2
      <3> QED
        BY <3>1, <3>2, <3>3, <3>4 DEF Value
    <2> QED
      BY <2>1, <2>2
  <1>9. ASSUME NEW i \in 1 .. n + m + 1, NEW j \in 1 .. n + m + 1, i <= j, new[i][2] # 0,
               new[i][2] + (j - i) <= LengthIn(l, p, new[i][1])
        PROVE  new[j] = <<new[i][1], new[i][2] + (j - i)>>
    <2>0. new[i] \in Places
      BY <1>4
    <2>1. PICK a \in Nat, b \in Nat : new[i] = <<a, b>>
      BY <2>0 DEF Places
    <2>2. b # 0 /\ b + (j - i) <= LengthIn(l, p, a)
      BY <1>9, <2>1
    <2>3. LengthIn(l, p, a) \in Nat
      BY DEF LengthsOf
    <2> SUFFICES new[j] = <<a, b + (j - i)>>
      BY <2>1
    <2>4. CASE j <= n + 1
      <3>1. i \in 1 .. n + 1 /\ j \in 1 .. n + 1
        BY <1>2, <1>9, <2>4
      <3>2. at[i] = <<a, b>> /\ at[i][1] = a /\ at[i][2] = b
        BY <1>5, <2>1, <3>1
      <3>3. at[j] = <<a, b + (j - i)>>
        BY <1>03, <1>9, <2>2, <3>1, <3>2
      <3> QED
        BY <1>5, <3>1, <3>3
    <2>5. CASE i <= n /\ ~ j <= n + 1
      <3>1. i \in 1 .. n + 1 /\ n + 1 \in 1 .. n + 1 /\ i <= n + 1
        BY <1>2, <2>5
      <3>2. at[i] = <<a, b>> /\ at[i][1] = a /\ at[i][2] = b
        BY <1>5, <2>1, <3>1
      <3>3. b + (n + 1 - i) <= LengthIn(l, p, a)
        BY <1>2, <2>2, <2>3, <2>5
      <3>4. at[n + 1] = <<a, b + (n + 1 - i)>>
        <4>1. PICK e \in 1 .. n + 1 : e = n + 1
          BY <3>1
        <4>2. i <= e /\ at[i][2] # 0 /\ at[i][2] + (e - i) <= LengthIn(l, p, at[i][1])
          BY <1>2, <2>2, <3>1, <3>2, <3>3, <4>1
        <4>3. at[e] = <<at[i][1], at[i][2] + (e - i)>>
          BY <1>03, <3>1, <4>2
        <4> QED
          BY <1>2, <3>2, <4>1, <4>3
      <3>5. r = a /\ k = b + (n + 1 - i)
        BY <1>03, <3>4
      <3>6. CASE j <= n + m
        <4>1. j \in n + 1 .. n + m
          BY <1>2, <2>5, <3>6
        <4>2. k + (j - n) - 1 = b + (j - i)
          BY <1>2, <3>5
        <4> QED
          BY <1>6, <3>5, <4>1, <4>2
      <3>7. CASE j = n + m + 1
        <4>1. k + m - 1 + 1 = b + (j - i)
          BY <1>2, <3>5, <3>7
        <4>2. k + m - 1 < LengthIn(l, p, r)
          BY <1>2, <2>2, <3>5, <4>1
        <4> QED
          BY <1>7, <3>5, <3>7, <4>1, <4>2 DEF last, After
      <3>8. j <= n + m \/ j = n + m + 1
        BY <1>2
      <3> QED
        BY <3>6, <3>7, <3>8
    <2>6. CASE i = n + m + 1
      <3>1. j = i /\ b + (j - i) = b
        BY <1>2, <1>9, <2>6
      <3> QED
        BY <2>1, <3>1
    <2>7. CASE ~ i <= n /\ i # n + m + 1
      <3>1. i \in n + 1 .. n + m
        BY <1>2, <2>7
      <3>2. a = r /\ b = k + (i - n) - 1
        BY <1>6, <2>1, <3>1
      <3>3. CASE j <= n + m
        <4>1. j \in n + 1 .. n + m /\ k + (j - n) - 1 = b + (j - i)
          BY <1>2, <1>9, <3>1, <3>2, <3>3
        <4> QED
          BY <1>6, <3>2, <4>1
      <3>4. CASE j = n + m + 1
        <4>1. k + m - 1 + 1 = b + (j - i)
          BY <1>2, <3>2, <3>4
        <4>2. k + m - 1 < LengthIn(l, p, r)
          BY <1>2, <2>2, <3>2, <4>1
        <4> QED
          BY <1>7, <3>2, <3>4, <4>1, <4>2 DEF last, After
      <3>5. j <= n + m \/ j = n + m + 1
        BY <1>2
      <3> QED
        BY <3>3, <3>4, <3>5
    <2>8. \/ j <= n + 1
          \/ i <= n /\ ~ j <= n + 1
          \/ i = n + m + 1
          \/ ~ i <= n /\ i # n + m + 1
      BY <1>2
    <2> QED
      BY <2>4, <2>5, <2>6, <2>7, <2>8
  <1>10. new[1] = from
    BY <1>03, <1>2, <1>5
  <1>11. Along(l, p, s \o c, new)
    BY <1>02, <1>8, <1>9 DEF Along
  <1>12. new \in [1 .. Len(s \o c) + 1 -> Places] /\ new[Len(s \o c) + 1] = After(l, p, <<r, k + Len(c) - 1>>)
    BY <1>02, <1>4, <1>7 DEF last, m
  <1> QED
    BY <1>02, <1>10, <1>11, <1>12 DEF Between

(* The length of the next message.                                         *)
LEMMA LengthAdded ==
    ASSUME NEW l, NEW p, LengthsOf(l, p), NEW s, NEW from, NEW r \in Nat,
           Between(l, p, s, from, <<r, 0>>)
    PROVE  Between(l, p, Append(s, Length(LengthIn(l, p, r))), from, After(l, p, <<r, 0>>))
  <1>1. PICK at \in [1 .. Len(s) + 1 -> Places] :
          at[1] = from /\ at[Len(s) + 1] = <<r, 0>> /\ Along(l, p, s, at)
    BY DEF Between
  <1> DEFINE n == Len(s)
             v == Length(LengthIn(l, p, r))
             last == After(l, p, <<r, 0>>)
             new == [i \in 1 .. n + 2 |-> IF i <= n + 1 THEN at[i] ELSE last]
  <1>00. s \in Seq(Units) /\ v \in Units
    BY DEF Between, LengthsOf, Length, Units
  <1> HIDE DEF v
  <1>0. Len(Append(s, v)) = n + 1 /\ n \in Nat /\ Append(s, v) \in Seq(Units)
    BY <1>00
  <1>01. LengthIn(l, p, r) \in Nat
    BY DEF LengthsOf
  <1>02. /\ at \in [1 .. n + 1 -> Places] /\ at[n + 1] = <<r, 0>> /\ at[1] = from
         /\ \A i \in 1 .. n : s[i] = Value(l, p, at[i]) /\ at[i + 1] = After(l, p, at[i])
         /\ \A i, j \in 1 .. n + 1 : i <= j /\ at[i][2] # 0 /\ at[i][2] + (j - i) <= LengthIn(l, p, at[i][1])
               => at[j] = <<at[i][1], at[i][2] + (j - i)>>
    BY <1>1 DEF Along
  <1>03. Append(s, v)[n + 1] = v /\ \A i \in 1 .. n : Append(s, v)[i] = s[i]
    BY <1>00
  <1> HIDE DEF n
  <1>2. n \in Nat /\ LengthIn(l, p, r) \in Nat
    BY <1>0, <1>01
  <1>3. last \in Places
    BY AfterIsPlace DEF Places
  <1>4. new \in [1 .. n + 2 -> Places]
    BY <1>02, <1>2, <1>3
  <1>5. (\A i \in 1 .. n + 1 : new[i] = at[i]) /\ new[n + 2] = last /\ n + 1 \in 1 .. n + 1
    BY <1>2
  <1> HIDE DEF new
  <1>6. ASSUME NEW i \in 1 .. n + 1
        PROVE  Append(s, v)[i] = Value(l, p, new[i]) /\ new[i + 1] = After(l, p, new[i])
    <2>1. CASE i = n + 1
      <3>1. new[i] = <<r, 0>> /\ Append(s, v)[i] = v
        BY <1>02, <1>03, <1>2, <1>5, <2>1
      <3>2. i + 1 = n + 2
        BY <1>2, <2>1
      <3> QED
        BY <1>5, <3>1, <3>2 DEF Value, v
    <2>2. CASE i # n + 1
      <3>0. i \in 1 .. n /\ i + 1 \in 1 .. n + 1
        BY <1>2, <2>2
      <3>1. i \in 1 .. n /\ i + 1 \in 1 .. n + 1 /\ Append(s, v)[i] = s[i]
        BY <1>03, <3>0
      <3>2. s[i] = Value(l, p, at[i]) /\ at[i + 1] = After(l, p, at[i])
        BY <1>02, <3>1
      <3> QED
        BY <1>5, <3>1, <3>2
    <2> QED
      BY <2>1, <2>2
  <1>7. ASSUME NEW i \in 1 .. n + 2, NEW j \in 1 .. n + 2, i <= j, new[i][2] # 0,
               new[i][2] + (j - i) <= LengthIn(l, p, new[i][1])
        PROVE  new[j] = <<new[i][1], new[i][2] + (j - i)>>
    <2>0. new[i] \in Places
      BY <1>4
    <2>1. PICK a \in Nat, b \in Nat : new[i] = <<a, b>>
      BY <2>0 DEF Places
    <2>2. b # 0 /\ b + (j - i) <= LengthIn(l, p, a)
      BY <1>7, <2>1
    <2>3. LengthIn(l, p, a) \in Nat
      BY DEF LengthsOf
    <2> SUFFICES new[j] = <<a, b + (j - i)>>
      BY <2>1
    <2>4. CASE i = n + 2
      <3>1. j = i /\ b + (j - i) = b
        BY <1>2, <1>7, <2>4
      <3> QED
        BY <2>1, <3>1
    <2>5. CASE i # n + 2
      <3>1. i \in 1 .. n + 1
        BY <1>2, <2>5
      <3>2. at[i] = <<a, b>> /\ at[i][1] = a /\ at[i][2] = b
        BY <1>5, <2>1, <3>1
      <3>3. CASE j # n + 2
        <4>1. j \in 1 .. n + 1
          BY <1>2, <3>3
        <4>2. at[j] = <<a, b + (j - i)>>
          BY <1>02, <1>7, <2>2, <3>1, <3>2, <4>1
        <4> QED
          BY <1>5, <4>1, <4>2
      <3>4. CASE j = n + 2
        <4>1. b + (n + 1 - i) <= LengthIn(l, p, a) /\ i <= n + 1
          BY <1>2, <2>2, <2>3, <3>1, <3>4
        <4>2. at[n + 1] = <<a, b + (n + 1 - i)>>
          <5>1. PICK e \in 1 .. n + 1 : e = n + 1
            BY <1>5
          <5>2. i <= e /\ at[i][2] # 0 /\ at[i][2] + (e - i) <= LengthIn(l, p, at[i][1])
            BY <1>2, <2>2, <3>2, <4>1, <5>1
          <5>3. at[e] = <<at[i][1], at[i][2] + (e - i)>>
            BY <1>02, <3>1, <5>2
          <5> QED
            BY <1>2, <3>2, <5>1, <5>3
        <4>3. 0 = b + (n + 1 - i)
          BY <1>02, <4>2
        <4> QED
          BY SMTT(20), <1>2, <2>2, <4>1, <4>3
      <3> QED
        BY <3>3, <3>4
    <2> QED
      BY <2>4, <2>5
  <1>8. new[1] = from
    BY <1>02, <1>2, <1>5
  <1>9. Along(l, p, Append(s, v), new)
    <2>1. 1 .. Len(Append(s, v)) = 1 .. n + 1 /\ 1 .. Len(Append(s, v)) + 1 = 1 .. n + 2
      BY <1>0
    <2> QED
      BY <1>6, <1>7, <2>1 DEF Along
  <1>10. new \in [1 .. Len(Append(s, v)) + 1 -> Places] /\ new[Len(Append(s, v)) + 1] = last
    <2>1. Len(Append(s, v)) + 1 = n + 2
      BY <1>0
    <2> QED
      BY <1>4, <1>5, <2>1
  <1> QED
    BY <1>0, <1>8, <1>9, <1>10 DEF Between, v

(* What is read, and what is left: the first n units, by one for a length. *)
LEMMA UnitsTaken ==
    ASSUME NEW l, NEW p, LengthsOf(l, p), NEW s, NEW r \in Nat, NEW k \in Nat, NEW to, NEW n \in 1 .. Len(s), Between(l, p, s, <<r, k>>, to),
           \/ k = 0 /\ n = 1
           \/ k # 0 /\ k + n - 1 <= LengthIn(l, p, r)
    PROVE  /\ k = 0 => Head(s) = Length(LengthIn(l, p, r))
           /\ k # 0 => \A i \in 1 .. n : s[i] = Unit(Owner(p, r), k + i - 1)
           /\ Between(l, p, SubSeq(s, n + 1, Len(s)), After(l, p, <<r, k + n - 1>>), to)
  <1>1. PICK at \in [1 .. Len(s) + 1 -> Places] :
          at[1] = <<r, k>> /\ at[Len(s) + 1] = to /\ Along(l, p, s, at)
    BY DEF Between
  <1> DEFINE m == Len(s) - n
             rest == SubSeq(s, n + 1, Len(s))
             new == [i \in 1 .. m + 1 |-> at[i + n]]
  <1>0. LengthIn(l, p, r) \in Nat
    BY DEF LengthsOf
  <1>00. s \in Seq(Units)
    BY DEF Between
  <1>01. m \in Nat /\ Len(s) \in Nat /\ n \in Nat \ {0} /\ Len(s) = m + n
    BY <1>00
  <1>02. rest \in Seq(Units) /\ Len(rest) = m /\ \A i \in 1 .. m : rest[i] = s[i + n]
    <2>1. \A i \in n + 1 .. Len(s) : s[i] \in Units
      BY <1>00, <1>01
    <2>2. /\ rest \in Seq(Units)
          /\ Len(rest) = IF n + 1 <= Len(s) THEN Len(s) - (n + 1) + 1 ELSE 0
          /\ \A i \in 1 .. Len(s) - (n + 1) + 1 : rest[i] = s[n + 1 + i - 1]
      <3>1. n + 1 \in Int /\ Len(s) \in Int
        BY <1>01
      <3> QED
        BY <2>1, <3>1, SubSeqProperties
    <2> HIDE DEF rest
    <2>3. \A i \in 1 .. m : n + 1 + i - 1 = i + n /\ i \in 1 .. Len(s) - (n + 1) + 1
      BY <1>01
    <2>4. Len(rest) = m
      <3> HIDE DEF m
      <3>1. CASE m = 0
        BY <1>01, <2>2, <3>1
      <3>2. CASE m # 0
        <4>1. n + 1 <= Len(s) /\ Len(s) - (n + 1) + 1 = m
          BY <1>01, <3>2
        <4> QED
          BY <2>2, <4>1
      <3> QED
        BY <3>1, <3>2
    <2>5. ASSUME NEW i \in 1 .. m PROVE rest[i] = s[i + n]
      BY <2>2, <2>3
    <2> QED
      BY <2>2, <2>4, <2>5
  <1>2. /\ m \in Nat /\ Len(s) \in Nat /\ n \in Nat \ {0} /\ LengthIn(l, p, r) \in Nat /\ Len(rest) = m
        /\ Len(s) = m + n /\ \A i \in 1 .. m : rest[i] = s[i + n]
    BY <1>0, <1>01, <1>02
  <1> HIDE DEF rest, m
  <1>3. ASSUME NEW i \in 1 .. n PROVE at[i] = <<r, k + i - 1>>
    <2>1. CASE k = 0
      BY <1>1, <1>2, <2>1
    <2>2. CASE k # 0
      <3>1. /\ 1 \in 1 .. Len(s) + 1 /\ i \in 1 .. Len(s) + 1 /\ 1 <= i
            /\ k + (i - 1) <= LengthIn(l, p, r) /\ k + (i - 1) = k + i - 1
        BY <1>2, <2>2
      <3>2. at[1][1] = r /\ at[1][2] = k
        BY <1>1
      <3> QED
        BY <1>1, <2>2, <3>1, <3>2 DEF Along
    <2> QED
      BY <2>1, <2>2
  <1>4. ASSUME NEW i \in 1 .. n PROVE s[i] = Value(l, p, <<r, k + i - 1>>) /\ at[i + 1] = After(l, p, <<r, k + i - 1>>)
    <2>1. i \in 1 .. Len(s)
      BY <1>2
    <2> QED
      BY <1>1, <1>3, <2>1 DEF Along
  <1>5. ASSUME k = 0 PROVE Head(s) = Length(LengthIn(l, p, r))
    <2>1. 1 \in 1 .. n /\ k + 1 - 1 = 0 /\ Head(s) = s[1]
      BY <1>00, <1>2, <1>5
    <2>2. s[1] = Value(l, p, <<r, 0>>)
      BY <1>4, <2>1
    <2> QED
      BY <2>1, <2>2 DEF Value
  <1>6. ASSUME k # 0, NEW i \in 1 .. n PROVE s[i] = Unit(Owner(p, r), k + i - 1)
    <2>1. k + i - 1 # 0
      BY <1>2, <1>6
    <2> QED
      BY <1>4, <2>1 DEF Value
  <1>7. new \in [1 .. m + 1 -> Places] /\ new[m + 1] = to
    <2>1. \A i \in 1 .. m + 1 : i + n \in 1 .. Len(s) + 1
      BY <1>01
    <2>2. m + 1 + n = Len(s) + 1 /\ m + 1 \in 1 .. m + 1
      BY <1>01
    <2>3. new[m + 1] = at[Len(s) + 1]
      BY <2>2
    <2>4. new \in [1 .. m + 1 -> Places]
      BY <2>1
    <2> QED
      BY <1>1, <2>3, <2>4
  <1>8. new[1] = After(l, p, <<r, k + n - 1>>)
    <2>1. new[1] = at[n + 1] /\ n \in 1 .. n
      BY <1>2
    <2> QED
      BY <1>4, <2>1
  <1>9. ASSUME NEW i \in 1 .. m
        PROVE  rest[i] = Value(l, p, new[i]) /\ new[i + 1] = After(l, p, new[i])
    <2>1. rest[i] = s[i + n]
      BY <1>2
    <2>0. i + n \in 1 .. Len(s)
      BY <1>01
    <2>2. i \in 1 .. m + 1 /\ i + 1 \in 1 .. m + 1 /\ i + 1 + n = i + n + 1
      BY <1>2
    <2>3. new[i] = at[i + n] /\ new[i + 1] = at[i + n + 1]
      BY <2>2
    <2> HIDE DEF new
    <2> QED
      BY <1>1, <2>0, <2>1, <2>3 DEF Along
  <1>10. ASSUME NEW i \in 1 .. m + 1, NEW j \in 1 .. m + 1, i <= j, new[i][2] # 0,
                new[i][2] + (j - i) <= LengthIn(l, p, new[i][1])
         PROVE  new[j] = <<new[i][1], new[i][2] + (j - i)>>
    <2>1. new[i] = at[i + n] /\ new[j] = at[j + n]
      OBVIOUS
    <2>2. (j + n) - (i + n) = j - i
      BY <1>2
    <2>3. i + n \in 1 .. Len(s) + 1 /\ j + n \in 1 .. Len(s) + 1 /\ i + n <= j + n
      BY <1>01, <1>10
    <2>4. at[i + n][2] # 0 /\ at[i + n][2] + ((j + n) - (i + n)) <= LengthIn(l, p, at[i + n][1])
      BY <1>10, <2>1, <2>2
    <2> HIDE DEF new
    <2>5. at[j + n] = <<at[i + n][1], at[i + n][2] + ((j + n) - (i + n))>>
      BY <1>1, <2>3, <2>4 DEF Along
    <2> QED
      BY <2>1, <2>2, <2>5
  <1> HIDE DEF new
  <1>11. Along(l, p, rest, new)
    BY <1>2, <1>9, <1>10 DEF Along
  <1>12. Between(l, p, rest, After(l, p, <<r, k + n - 1>>), to)
    BY <1>02, <1>2, <1>7, <1>8, <1>11 DEF Between
  <1> QED
    BY <1>5, <1>6, <1>12 DEF rest

-----------------------------------------------------------------------------
(* A function on an interval is a sequence.                                *)
LEMMA MadeSequence ==
    ASSUME NEW n \in Nat, NEW f \in [1 .. n -> Units]
    PROVE  f \in Seq(Units) /\ Len(f) = n
  OBVIOUS

-----------------------------------------------------------------------------
(* What a step of p leaves alone, of the other players and their places.   *)
Others(p) ==
    /\ length0' = length0
    /\ \A q \in Players \ {p} :
         /\ pc'[q] = pc[q] /\ round'[q] = round[q] /\ data'[q] = data[q] /\ len'[q] = len[q]
         /\ newLen'[q] = newLen[q] /\ sent'[q] = sent[q] /\ received'[q] = received[q]

LEMMA LengthsKnown ==
    ASSUME TypeInv, NEW p \in Players
    PROVE  LengthsOf(length0, p) /\ \A r \in Int : LengthIn(length0, p, r) \in Nat
  <1>1. length0 \in [Players -> Nat]
    BY DEF TypeInv
  <1>2. \A r \in Int : Owner(p, r) \in Players
    BY Ring
  <1>3. \A r \in Int : length0[Owner(p, r)] \in Nat
    BY <1>1, <1>2
  <1> QED
    BY <1>3 DEF LengthsOf, LengthIn

LEMMA PlacesKept ==
    ASSUME NEW p \in Players, NEW q \in Players \ {p}, Others(p)
    PROVE  SendPlace(q)' = SendPlace(q) /\ ReceivePlace(q)' = ReceivePlace(q)
  BY DEF Others, SendPlace, ReceivePlace

LEMMA OthersKept ==
    ASSUME Inv, NEW p \in Players, Others(p), TypeInv', Whole(p)', Parts(p)', Turns(p)', Streams'
    PROVE  Inv'
  <1> SUFFICES ASSUME NEW q \in Players \ {p} PROVE Whole(q)' /\ Parts(q)' /\ Turns(q)'
    BY DEF Inv
  <1>1. /\ pc'[q] = pc[q] /\ round'[q] = round[q] /\ data'[q] = data[q] /\ len'[q] = len[q]
        /\ newLen'[q] = newLen[q] /\ sent'[q] = sent[q] /\ received'[q] = received[q]
        /\ length0' = length0
    BY DEF Others
  <1>2. Whole(q) /\ Parts(q) /\ Turns(q)
    BY DEF Inv
  <1>3. Whole(q)'
    BY <1>1, <1>2 DEF Whole
  <1>4. Parts(q)'
    BY <1>1, <1>2 DEF Parts
  <1>5. Turns(q)'
    BY <1>1, <1>2 DEF Turns
  <1> QED
    BY <1>3, <1>4, <1>5

(* A step that touches no stream and moves neither place of p.             *)
LEMMA NoTransfer ==
    ASSUME Inv, NEW p \in Players, Others(p), stream' = stream,
           SendPlace(p)' = SendPlace(p), ReceivePlace(p)' = ReceivePlace(p)
    PROVE  Streams'
  <1> SUFFICES ASSUME NEW q \in Players
               PROVE  Between(length0', Source(q), stream'[Source(q)], ReceivePlace(q)', SendPlace(Source(q))')
    BY DEF Streams
  <1>1. Source(q) \in Players
    BY Ring
  <1>2. ReceivePlace(q)' = ReceivePlace(q) /\ SendPlace(Source(q))' = SendPlace(Source(q))
    BY <1>1, PlacesKept
  <1> QED
    BY <1>2 DEF Inv, Streams, Others

(* A step in which p sends: the stream has what it had and the new units.  *)
LEMMA Sending ==
    ASSUME Inv, NEW p \in Players, Others(p), NEW t, stream' = [stream EXCEPT ![p] = t],
           ReceivePlace(p)' = ReceivePlace(p),
           \A from : Between(length0, p, stream[p], from, SendPlace(p)) => Between(length0, p, t, from, SendPlace(p)')
    PROVE  Streams'
  <1> SUFFICES ASSUME NEW q \in Players
               PROVE  Between(length0', Source(q), stream'[Source(q)], ReceivePlace(q)', SendPlace(Source(q))')
    BY DEF Streams
  <1>1. Source(q) \in Players
    BY Ring
  <1>2. ReceivePlace(q)' = ReceivePlace(q) /\ length0' = length0
    BY PlacesKept DEF Others
  <1>3. Between(length0, Source(q), stream[Source(q)], ReceivePlace(q), SendPlace(Source(q)))
    BY DEF Inv, Streams
  <1>4. CASE Source(q) = p
    <2>1. stream'[Source(q)] = t
      BY <1>4 DEF Inv, TypeInv
    <2> QED
      BY <1>2, <1>3, <1>4, <2>1
  <1>5. CASE Source(q) # p
    <2>1. stream'[Source(q)] = stream[Source(q)] /\ SendPlace(Source(q))' = SendPlace(Source(q))
      BY <1>1, <1>5, PlacesKept DEF Inv, TypeInv
    <2> QED
      BY <1>2, <1>3, <2>1
  <1> QED
    BY <1>4, <1>5

(* A step in which p receives.                                             *)
LEMMA Receiving ==
    ASSUME Inv, NEW p \in Players, Others(p), NEW t, stream' = [stream EXCEPT ![Source(p)] = t],
           SendPlace(p)' = SendPlace(p),
           Between(length0, Source(p), t, ReceivePlace(p)', SendPlace(Source(p)))
    PROVE  Streams'
  <1> SUFFICES ASSUME NEW q \in Players
               PROVE  Between(length0', Source(q), stream'[Source(q)], ReceivePlace(q)', SendPlace(Source(q))')
    BY DEF Streams
  <1>1. Source(q) \in Players /\ Source(p) \in Players /\ (Source(q) = Source(p) => q = p)
    BY Ring
  <1>2. SendPlace(Source(q))' = SendPlace(Source(q)) /\ length0' = length0
    BY <1>1, PlacesKept DEF Others
  <1>3. Between(length0, Source(q), stream[Source(q)], ReceivePlace(q), SendPlace(Source(q)))
    BY DEF Inv, Streams
  <1>4. CASE q = p
    <2>1. stream'[Source(q)] = t
      BY <1>1, <1>4 DEF Inv, TypeInv
    <2> QED
      BY <1>2, <1>4, <2>1
  <1>5. CASE q # p
    <2>1. stream'[Source(q)] = stream[Source(q)] /\ ReceivePlace(q)' = ReceivePlace(q)
      BY <1>1, <1>5, PlacesKept DEF Inv, TypeInv
    <2> QED
      BY <1>2, <1>3, <2>1
  <1> QED
    BY <1>4, <1>5

-----------------------------------------------------------------------------
LEMMA InitInv == Init => Inv
  <1> SUFFICES ASSUME Init PROVE Inv
    OBVIOUS
  <1>0. length0 \in [Players -> Nat]
    BY LengthsAssumption DEF Init
  <1>1. \A p \in Players : data[p] = [k \in 1 .. len[p] |-> Unit(p, k)] /\ len[p] = length0[p] /\ len[p] \in Nat
    BY <1>0 DEF Init
  <1>2. ASSUME NEW p \in Players PROVE data[p] \in Seq(Units) /\ Len(data[p]) = len[p]
    <2>1. p \in Nat /\ \A k \in 1 .. len[p] : Unit(p, k) \in Units
      BY PlayersAssumption DEF Players, Unit, Units
    <2>2. data[p] \in [1 .. len[p] -> Units]
      BY <1>1, <2>1
    <2> QED
      BY <1>1, <2>2, MadeSequence
  <1>3. TypeInv
    <2>1. data \in [Players -> Seq(Units)]
      <3>1. data = [p \in Players |-> data[p]]
        BY DEF Init
      <3> QED
        BY <1>2, <3>1
    <2>2. stream \in [Players -> Seq(Units)]
      <3>1. <<>> \in Seq(Units)
        BY EmptySeq
      <3> QED
        BY <3>1 DEF Init
    <2>3. pc \in [Players -> Points]
      BY DEF Init, Points
    <2> QED
      BY <1>0, <2>1, <2>2, <2>3 DEF Init, TypeInv
  <1>4. ASSUME NEW p \in Players PROVE Whole(p) /\ Parts(p) /\ Turns(p)
    <2>1. pc[p] = "send length" /\ round[p] = 0 /\ Owner(p, 0) = p
      BY Ring DEF Init
    <2>2. \A k \in 1 .. len[p] : data[p][k] = Unit(p, k)
      BY <1>1
    <2>3. Whole(p)
      <3>1. len[p] = LengthIn(length0, p, round[p])
        BY <1>1, <2>1 DEF LengthIn
      <3>2. len[p] <= Len(data[p])
        BY <1>1, <1>2
      <3>3. \A k \in 1 .. len[p] : data[p][k] = Unit(Owner(p, round[p]), k)
        BY <2>1, <2>2
      <3> QED
        BY <3>1, <3>2, <3>3 DEF Whole
    <2> QED
      BY <2>1, <2>3 DEF Parts, Turns
  <1>5. ASSUME NEW p \in Players
        PROVE  Between(length0, Source(p), stream[Source(p)], ReceivePlace(p), SendPlace(Source(p)))
    <2>1. Source(p) \in Players
      BY Ring
    <2>2. stream[Source(p)] = <<>> /\ ReceivePlace(p) = <<0, 0>> /\ SendPlace(Source(p)) = <<0, 0>>
      BY <2>1 DEF Init, ReceivePlace, SendPlace
    <2>3. <<0, 0>> \in Places
      BY DEF Places
    <2> QED
      BY <2>2, <2>3, EmptyStream
  <1> QED
    BY <1>3, <1>4, <1>5 DEF Inv, Streams

LEMMA SendLengthKeeps ==
    ASSUME Inv, NEW p \in Players, SendLength(p)
    PROVE  Inv'
  <1> DEFINE t == Append(stream[p], Length(len[p]))
  <1>1. /\ pc[p] = "send length" /\ pc' = [pc EXCEPT ![p] = "receive length"] /\ stream' = [stream EXCEPT ![p] = t]
        /\ UNCHANGED <<round, data, len, newLen, sent, received, length0>>
    BY DEF SendLength, Goto, counters
  <1>2. TypeInv /\ Whole(p) /\ Streams
    BY DEF Inv
  <1>3. Others(p) /\ pc'[p] = "receive length"
    BY <1>1, <1>2 DEF Others, TypeInv
  <1>4. TypeInv'
    <2>1. Length(len[p]) \in Units /\ stream[p] \in Seq(Units)
      BY <1>2 DEF TypeInv, Length, Units
    <2>2. t \in Seq(Units)
      BY <2>1
    <2>3. stream' \in [Players -> Seq(Units)]
      BY <1>1, <1>2, <2>2 DEF TypeInv
    <2>4. pc' \in [Players -> Points]
      BY <1>1, <1>2 DEF TypeInv, Points
    <2> QED
      BY <1>1, <1>2, <2>3, <2>4 DEF TypeInv
  <1>5. Whole(p)'
    BY <1>1, <1>2, <1>3 DEF Whole
  <1>6. Parts(p)' /\ Turns(p)'
    BY <1>3 DEF Parts, Turns
  <1>7. Streams'
    <2>1. ReceivePlace(p)' = ReceivePlace(p)
      BY <1>1, <1>3 DEF ReceivePlace
    <2>2. SendPlace(p) = <<round[p], 0>> /\ SendPlace(p)' = After(length0, p, <<round[p], 0>>)
      BY <1>1, <1>3 DEF SendPlace
    <2>3. round[p] \in Nat /\ LengthsOf(length0, p) /\ len[p] = LengthIn(length0, p, round[p])
      BY <1>2, LengthsKnown DEF TypeInv, Whole
    <2>4. ASSUME NEW from, Between(length0, p, stream[p], from, SendPlace(p))
          PROVE  Between(length0, p, t, from, SendPlace(p)')
      BY <2>2, <2>3, <2>4, LengthAdded
    <2> HIDE DEF t
    <2> QED
      BY <1>1, <1>3, <2>1, <2>4, Sending
  <1> QED
    BY <1>3, <1>4, <1>5, <1>6, <1>7, OthersKept

LEMMA ReturnKeeps ==
    ASSUME Inv, NEW p \in Players, Return(p)
    PROVE  Inv'
  <1>1. /\ pc[p] = "send" /\ sent[p] = len[p] /\ received[p] = newLen[p]
        /\ pc' = [pc EXCEPT ![p] = "send length"] /\ len' = [len EXCEPT ![p] = newLen[p]]
        /\ round' = [round EXCEPT ![p] = round[p] + 1]
        /\ UNCHANGED <<data, newLen, sent, received, stream, length0>>
    BY DEF Return, Goto, counters
  <1>2. TypeInv /\ Whole(p) /\ Parts(p)
    BY DEF Inv
  <1>0. round[p] \in Nat /\ newLen[p] \in Nat
    BY <1>2 DEF TypeInv
  <1>01. round[p] + 1 \in Nat
    BY <1>0
  <1>3. Others(p) /\ pc'[p] = "send length" /\ len'[p] = newLen[p] /\ round'[p] = round[p] + 1
    BY <1>1, <1>2 DEF Others, TypeInv
  <1>4. TypeInv'
    <2>1. pc' \in [Players -> Points]
      BY <1>1, <1>2 DEF TypeInv, Points
    <2>2. len' \in [Players -> Nat] /\ round' \in [Players -> Nat]
      <3>2. len \in [Players -> Nat] /\ round \in [Players -> Nat]
        BY <1>2 DEF TypeInv
      <3> QED
        BY <1>0, <1>01, <1>1, <3>2
    <2> QED
      BY <1>1, <1>2, <2>1, <2>2 DEF TypeInv
  <1>5. Whole(p)'
    BY <1>1, <1>2, <1>3 DEF Whole, Parts
  <1>6. Parts(p)' /\ Turns(p)'
    BY <1>3 DEF Parts, Turns
  <1>7. Streams'
    <2>1. len[p] = LengthIn(length0, p, round[p]) /\ newLen[p] = LengthIn(length0, p, round[p] + 1)
      BY <1>1, <1>2 DEF Whole, Parts
    <2>2. LengthIn(length0, p, round[p] + 1) = LengthIn(length0, Source(p), round[p])
      BY <1>0, Ring DEF LengthIn
    <2>3. SendPlace(p) = <<round[p] + 1, 0>>
      <3>1. SendPlace(p) = After(length0, p, <<round[p], sent[p]>>)
        BY <1>1 DEF SendPlace
      <3>2. sent[p] \in Nat /\ sent[p] = LengthIn(length0, p, round[p])
        BY <1>1, <1>2, <2>1 DEF TypeInv
      <3> QED
        BY <1>0, <3>1, <3>2, AfterTheEnd
    <2>4. ReceivePlace(p) = <<round[p] + 1, 0>>
      <3>1. ReceivePlace(p) = After(length0, Source(p), <<round[p], received[p]>>)
        BY <1>1 DEF ReceivePlace
      <3>2. received[p] \in Nat /\ received[p] = LengthIn(length0, Source(p), round[p])
        BY <1>1, <1>2, <2>1, <2>2 DEF TypeInv
      <3> QED
        BY <1>0, <3>1, <3>2, AfterTheEnd
    <2>5. SendPlace(p)' = <<round[p] + 1, 0>> /\ ReceivePlace(p)' = <<round[p] + 1, 0>>
      BY <1>3 DEF SendPlace, ReceivePlace
    <2> QED
      BY <1>1, <1>3, <2>3, <2>4, <2>5, NoTransfer
  <1> QED
    BY <1>3, <1>4, <1>5, <1>6, <1>7, OthersKept

LEMMA NothingToSendKeeps ==
    ASSUME Inv, NEW p \in Players, NothingToSend(p)
    PROVE  Inv'
  <1>1. /\ pc[p] = "send" /\ sent[p] = len[p] /\ received[p] < newLen[p]
        /\ pc' = [pc EXCEPT ![p] = "receive"]
        /\ UNCHANGED <<round, data, len, newLen, sent, received, stream, length0>>
    BY DEF NothingToSend, Goto, counters
  <1>2. TypeInv /\ Whole(p) /\ Parts(p) /\ Turns(p)
    BY DEF Inv
  <1>3. Others(p) /\ pc'[p] = "receive"
    BY <1>1, <1>2 DEF Others, TypeInv
  <1>4. TypeInv'
    <2>1. pc' \in [Players -> Points]
      BY <1>1, <1>2 DEF TypeInv, Points
    <2> QED
      BY <1>1, <1>2, <2>1 DEF TypeInv
  <1>5. Whole(p)'
    BY <1>1, <1>2, <1>3 DEF Whole
  <1>6. Parts(p)'
    BY <1>1, <1>2, <1>3 DEF Parts
  <1>7. Turns(p)'
    <2>1. PICK m \in Multiples : sent[p] = MinOf(len[p], m) /\ received[p] = MinOf(newLen[p], m)
      BY <1>1, <1>2 DEF Turns
    <2>2. m \in Nat /\ Chunk \in Nat \ {0}
      BY NextMultiple, ChunkAssumption
    <2>3. len[p] \in Nat /\ newLen[p] \in Nat
      BY <1>2 DEF TypeInv
    <2>4. sent[p] = MinOf(len[p], m + Chunk) /\ MinOf(newLen[p], m) <= received[p] /\ received[p] < m + Chunk
      BY <1>1, <2>1, <2>2, <2>3 DEF MinOf
    <2> QED
      BY <1>1, <1>3, <2>4 DEF Turns
  <1>8. Streams'
    <2>1. SendPlace(p)' = SendPlace(p) /\ ReceivePlace(p)' = ReceivePlace(p)
      BY <1>1, <1>3 DEF SendPlace, ReceivePlace
    <2> QED
      BY <1>1, <1>3, <2>1, NoTransfer
  <1> QED
    BY <1>3, <1>4, <1>5, <1>6, <1>7, <1>8, OthersKept

LEMMA NothingToReceiveKeeps ==
    ASSUME Inv, NEW p \in Players, NothingToReceive(p)
    PROVE  Inv'
  <1>1. /\ pc[p] = "receive" /\ received[p] = newLen[p]
        /\ pc' = [pc EXCEPT ![p] = "send"]
        /\ UNCHANGED <<round, data, len, newLen, sent, received, stream, length0>>
    BY DEF NothingToReceive, Goto, counters
  <1>2. TypeInv /\ Whole(p) /\ Parts(p) /\ Turns(p)
    BY DEF Inv
  <1>3. Others(p) /\ pc'[p] = "send"
    BY <1>1, <1>2 DEF Others, TypeInv
  <1>4. TypeInv'
    <2>1. pc' \in [Players -> Points]
      BY <1>1, <1>2 DEF TypeInv, Points
    <2> QED
      BY <1>1, <1>2, <2>1 DEF TypeInv
  <1>5. Whole(p)'
    BY <1>1, <1>2, <1>3 DEF Whole
  <1>6. Parts(p)'
    BY <1>1, <1>2, <1>3 DEF Parts
  <1>7. Turns(p)'
    <2>1. PICK m \in Multiples :
            sent[p] = MinOf(len[p], m + Chunk) /\ MinOf(newLen[p], m) <= received[p] /\ received[p] < m + Chunk
      BY <1>1, <1>2 DEF Turns
    <2>2. m \in Nat /\ Chunk \in Nat \ {0} /\ m + Chunk \in Multiples
      BY NextMultiple, ChunkAssumption
    <2>3. len[p] \in Nat /\ newLen[p] \in Nat
      BY <1>2 DEF TypeInv
    <2>4. received[p] = MinOf(newLen[p], m + Chunk)
      BY <1>1, <2>1, <2>2, <2>3 DEF MinOf
    <2> QED
      BY <1>1, <1>3, <2>1, <2>2, <2>4 DEF Turns
  <1>8. Streams'
    <2>1. SendPlace(p)' = SendPlace(p) /\ ReceivePlace(p)' = ReceivePlace(p)
      BY <1>1, <1>3 DEF SendPlace, ReceivePlace
    <2> QED
      BY <1>1, <1>3, <2>1, NoTransfer
  <1> QED
    BY <1>3, <1>4, <1>5, <1>6, <1>7, <1>8, OthersKept

LEMMA SendChunkKeeps ==
    ASSUME Inv, NEW p \in Players, SendChunk(p)
    PROVE  Inv'
  <1> DEFINE n == MinOf(Chunk, len[p] - sent[p])
             c == SubSeq(data[p], sent[p] + 1, sent[p] + n)
             t == stream[p] \o c
  <1>1. /\ pc[p] = "send" /\ sent[p] < len[p]
        /\ pc' = [pc EXCEPT ![p] = "receive"] /\ stream' = [stream EXCEPT ![p] = t]
        /\ sent' = [sent EXCEPT ![p] = sent[p] + n]
        /\ UNCHANGED <<round, data, len, newLen, received, length0>>
    BY DEF SendChunk, Goto
  <1>2. TypeInv /\ Whole(p) /\ Parts(p) /\ Turns(p)
    BY DEF Inv
  <1>0. /\ sent[p] \in Nat /\ len[p] \in Nat /\ newLen[p] \in Nat /\ received[p] \in Nat /\ round[p] \in Nat
    BY <1>2 DEF TypeInv
  <1>00. data[p] \in Seq(Units) /\ stream[p] \in Seq(Units) /\ Len(data[p]) \in Nat
    BY <1>2 DEF TypeInv
  <1>01. Chunk \in Nat \ {0}
    BY ChunkAssumption
  <1>02. n \in Nat \ {0} /\ sent[p] + n <= len[p] /\ sent[p] + n \in Nat
    BY <1>0, <1>01, <1>1 DEF MinOf
  <1>03. len[p] <= Len(data[p]) /\ len[p] = LengthIn(length0, p, round[p])
    BY <1>2 DEF Whole
  <1>04. \A k \in sent[p] + 1 .. len[p] : data[p][k] = Unit(Owner(p, round[p]), k)
    BY <1>1, <1>2 DEF Parts
  <1>05. c \in Seq(Units) /\ Len(c) = n /\ \A k \in 1 .. n : c[k] = data[p][sent[p] + k]
    <2> DEFINE a == sent[p] + 1
               b == sent[p] + n
    <2>0. PICK e \in Nat : e = Len(data[p])
      BY <1>00
    <2>1. a \in Int /\ b \in Int /\ a <= b /\ b - a + 1 = n /\ b <= e
      <3> HIDE DEF n
      <3> QED
        BY SMTT(20), <1>0, <1>02, <1>03, <2>0
    <2>2. \A i \in a .. b : data[p][i] \in Units
      <3>1. \A i \in a .. b : i \in 1 .. e
        BY <1>0, <2>1
      <3> QED
        BY <1>00, <2>0, <3>1, ElementOfSeq
    <2>3. /\ c \in Seq(Units) /\ Len(c) = n
          /\ \A i \in 1 .. b - a + 1 : c[i] = data[p][a + i - 1]
      <3> HIDE DEF n
      <3> QED
        BY <2>1, <2>2, SubSeqProperties
    <2>4. \A k \in 1 .. n : a + k - 1 = sent[p] + k
      BY <1>0
    <2> HIDE DEF c, n
    <2> QED
      BY <2>1, <2>3, <2>4
  <1> HIDE DEF n, c
  <1>3. Others(p) /\ pc'[p] = "receive" /\ sent'[p] = sent[p] + n
    BY <1>1, <1>2 DEF Others, TypeInv
  <1>4. TypeInv'
    <2>1. pc' \in [Players -> Points]
      BY <1>1, <1>2 DEF TypeInv, Points
    <2>2. t \in Seq(Units)
      BY <1>00, <1>05
    <2>3. stream' \in [Players -> Seq(Units)]
      BY <1>1, <1>2, <2>2 DEF TypeInv
    <2>4. sent' \in [Players -> Nat]
      BY <1>1, <1>2, <1>02 DEF TypeInv
    <2> QED
      BY <1>1, <1>2, <2>1, <2>3, <2>4 DEF TypeInv
  <1>5. Whole(p)'
    BY <1>1, <1>2, <1>3 DEF Whole
  <1>6. Parts(p)'
    <2>1. \A k \in sent[p] + n + 1 .. len[p] : k \in sent[p] + 1 .. len[p]
      BY <1>0, <1>02
    <2>2. \A k \in sent'[p] + 1 .. len[p] : data[p][k] = Unit(Owner(p, round[p]), k)
      BY <1>3, <1>04, <2>1
    <2> QED
      BY <1>1, <1>2, <1>3, <1>02, <2>2 DEF Parts
  <1>7. Turns(p)'
    <2>1. PICK m \in Multiples : sent[p] = MinOf(len[p], m) /\ received[p] = MinOf(newLen[p], m)
      BY <1>1, <1>2 DEF Turns
    <2>2. m \in Nat
      BY NextMultiple
    <2>3. sent[p] = m
      BY <1>0, <1>1, <2>1, <2>2 DEF MinOf
    <2>4. sent[p] + n = MinOf(len[p], m + Chunk)
      <3>1. n = IF Chunk < len[p] - m THEN Chunk ELSE len[p] - m
        BY <2>3 DEF MinOf, n
      <3>2. MinOf(len[p], m + Chunk) = IF len[p] < m + Chunk THEN len[p] ELSE m + Chunk
        BY DEF MinOf
      <3>3. CASE Chunk < len[p] - m
        BY <1>0, <1>01, <2>2, <2>3, <3>1, <3>2, <3>3
      <3>4. CASE ~ Chunk < len[p] - m
        BY <1>0, <1>01, <2>2, <2>3, <3>1, <3>2, <3>4
      <3> QED
        BY <3>3, <3>4
    <2>5. MinOf(newLen[p], m) <= received[p] /\ received[p] < m + Chunk
      BY <1>0, <1>01, <2>1, <2>2 DEF MinOf
    <2> QED
      BY <1>1, <1>3, <2>4, <2>5 DEF Turns
  <1>8. Streams'
    <2>1. ReceivePlace(p)' = ReceivePlace(p)
      BY <1>1, <1>3 DEF ReceivePlace
    <2>2. SendPlace(p) = <<round[p], sent[p] + 1>>
      <3>1. SendPlace(p) = After(length0, p, <<round[p], sent[p]>>)
        BY <1>1 DEF SendPlace
      <3> QED
        BY <1>0, <1>1, <1>03, <3>1, AfterInside
    <2>3. SendPlace(p)' = After(length0, p, <<round[p], sent[p] + 1 + Len(c) - 1>>)
      <3>1. SendPlace(p)' = After(length0, p, <<round[p], sent[p] + n>>)
        BY <1>1, <1>3 DEF SendPlace
      <3>2. sent[p] + 1 + Len(c) - 1 = sent[p] + n
        <4>1. Len(c) = n /\ sent[p] + 1 + n - 1 = sent[p] + n
          BY <1>0, <1>02, <1>05
        <4> QED
          BY <4>1
      <3> QED
        BY <3>1, <3>2
    <2>4. PartOf(length0, p, c, round[p], sent[p] + 1)
      <3>1. sent[p] + 1 + Len(c) - 1 <= LengthIn(length0, p, round[p]) /\ Len(c) # 0
        <4>1. Len(c) = n /\ sent[p] + 1 + n - 1 <= LengthIn(length0, p, round[p]) /\ n # 0
          BY <1>0, <1>02, <1>03, <1>05
        <4> QED
          BY <4>1
      <3>2. ASSUME NEW i \in 1 .. Len(c) PROVE c[i] = Unit(Owner(p, round[p]), sent[p] + 1 + i - 1)
        <4>0. i \in 1 .. n
          BY <1>05
        <4>1. sent[p] + i \in sent[p] + 1 .. len[p] /\ sent[p] + 1 + i - 1 = sent[p] + i
          BY <1>0, <1>02, <4>0
        <4> QED
          BY <1>04, <1>05, <4>0, <4>1
      <3> QED
        BY <1>05, <3>1, <3>2 DEF PartOf
    <2>5. LengthsOf(length0, p) /\ sent[p] + 1 \in Nat \ {0}
      BY <1>0, <1>2, LengthsKnown
    <2>6. ASSUME NEW from, Between(length0, p, stream[p], from, SendPlace(p))
          PROVE  Between(length0, p, t, from, SendPlace(p)')
      BY <1>0, <2>2, <2>3, <2>4, <2>5, <2>6, UnitsAdded
    <2> HIDE DEF t
    <2> QED
      BY <1>1, <1>3, <2>1, <2>6, Sending
  <1> QED
    BY <1>3, <1>4, <1>5, <1>6, <1>7, <1>8, OthersKept

LEMMA ReceiveLengthKeeps ==
    ASSUME Inv, NEW p \in Players, ReceiveLength(p)
    PROVE  Inv'
  <1> DEFINE q == Source(p)
             s == stream[Source(p)]
             n == LengthIn(length0, q, round[p])
             t == SubSeq(s, 2, Len(s))
  <1>1. /\ pc[p] = "receive length" /\ s # <<>>
        /\ pc' = [pc EXCEPT ![p] = "send"] /\ newLen' = [newLen EXCEPT ![p] = Head(s)[3]]
        /\ stream' = [stream EXCEPT ![Source(p)] = Tail(s)]
        /\ data' = IF Head(s)[3] > Len(data[p])
                   THEN [data EXCEPT ![p] = Resized(p, Head(s)[3])] ELSE data
        /\ sent' = [sent EXCEPT ![p] = 0] /\ received' = [received EXCEPT ![p] = 0]
        /\ UNCHANGED <<round, len, length0>>
    BY DEF ReceiveLength, Goto
  <1>2. TypeInv /\ Whole(p) /\ Streams /\ q \in Players
    BY Ring DEF Inv
  <1>0. round[p] \in Nat /\ len[p] \in Nat /\ n \in Nat
    <2>1. round[p] \in Nat /\ len[p] \in Nat
      BY <1>2 DEF TypeInv
    <2>2. \A r \in Int : LengthIn(length0, q, r) \in Nat
      BY <1>2, LengthsKnown
    <2> QED
      BY <2>1, <2>2
  <1>00. data[p] \in Seq(Units) /\ s \in Seq(Units) /\ Len(data[p]) \in Nat /\ Len(s) \in Nat \ {0}
    <2>1. data[p] \in Seq(Units) /\ s \in Seq(Units) /\ Len(data[p]) \in Nat
      BY <1>2 DEF TypeInv
    <2> HIDE DEF s
    <2> QED
      BY <1>1, <2>1, EmptySeq
  <1>01. Tail(s) = t /\ t \in Seq(Units)
    BY <1>00, <1>1, TailIsSubSeq, HeadTailProperties
  <1>02. Head(s) = Length(n) /\ Between(length0, q, t, After(length0, q, <<round[p], 0>>), SendPlace(q))
    <2>1. LengthsOf(length0, q) /\ ReceivePlace(p) = <<round[p], 0>>
      BY <1>1, <1>2, LengthsKnown DEF ReceivePlace
    <2>2. Between(length0, q, s, <<round[p], 0>>, SendPlace(q))
      BY <1>2, <2>1 DEF Streams
    <2>3. PICK k \in Nat : k = 0
      OBVIOUS
    <2> HIDE DEF q, s, n
    <2>4. PICK j \in 1 .. Len(s) : j = 1
      BY <1>00
    <2>5. round[p] \in Nat /\ k + j - 1 = 0 /\ j + 1 = 2
      BY <1>0, <2>3, <2>4
    <2>6. Between(length0, q, s, <<round[p], k>>, SendPlace(q))
      BY <2>2, <2>3
    <2>7. /\ Head(s) = Length(LengthIn(length0, q, round[p]))
          /\ Between(length0, q, SubSeq(s, j + 1, Len(s)), After(length0, q, <<round[p], k + j - 1>>), SendPlace(q))
      BY <2>1, <2>3, <2>4, <2>5, <2>6, UnitsTaken
    <2> QED
      BY <2>5, <2>7 DEF n
  <1>03. Head(s)[3] = n
    BY <1>02 DEF Length
  <1>04. n = LengthIn(length0, p, round[p] + 1)
    BY <1>0, Ring DEF LengthIn
  <1>05. /\ len[p] <= Len(data[p]) /\ len[p] = LengthIn(length0, p, round[p])
         /\ \A k \in 1 .. len[p] : data[p][k] = Unit(Owner(p, round[p]), k)
    BY <1>1, <1>2 DEF Whole
  <1> HIDE DEF q, n, t
  <1>06. /\ data' \in [Players -> Seq(Units)] /\ len[p] <= Len(data'[p]) /\ n <= Len(data'[p])
         /\ \A k \in 1 .. len[p] : data'[p][k] = data[p][k]
         /\ \A a \in Players \ {p} : data'[a] = data[a]
    <2>1. CASE n > Len(data[p])
      <3> DEFINE e == Resized(p, n)
      <3>1. len[p] < n
        BY <1>0, <1>00, <1>05, <2>1
      <3>2. MaxOf(n, len[p]) = n /\ MinOf(len[p], n) = len[p]
        BY <1>0, <3>1 DEF MaxOf, MinOf
      <3>3. e = [k \in 1 .. n |-> IF k <= len[p] THEN data[p][k] ELSE Garbage]
        BY <3>2 DEF Resized
      <3>4. ASSUME NEW k \in 1 .. n PROVE (IF k <= len[p] THEN data[p][k] ELSE Garbage) \in Units
        <4>1. Garbage \in Units
          BY DEF Garbage, Units
        <4>2. CASE k <= len[p]
          <5>1. PICK b \in Nat : b = Len(data[p])
            BY <1>00
          <5>2. k \in 1 .. b
            BY <1>0, <1>05, <4>2, <5>1
          <5> QED
            BY <1>00, <4>2, <5>1, <5>2, ElementOfSeq
        <4> QED
          BY <4>1, <4>2
      <3>5. e \in [1 .. n -> Units]
        BY <3>3, <3>4
      <3>6. e \in Seq(Units) /\ Len(e) = n
        BY <1>0, <3>5, MadeSequence
      <3>7. data' = [data EXCEPT ![p] = e] /\ data'[p] = e
        BY <1>03, <1>1, <1>2, <2>1 DEF TypeInv
      <3>8. \A k \in 1 .. len[p] : k \in 1 .. n /\ k <= len[p]
        BY <1>0, <3>1
      <3>9. \A k \in 1 .. len[p] : e[k] = data[p][k]
        BY <3>3, <3>8
      <3>10. data' \in [Players -> Seq(Units)] /\ \A a \in Players \ {p} : data'[a] = data[a]
        BY <1>2, <3>6, <3>7 DEF TypeInv
      <3> HIDE DEF e
      <3>11. len[p] <= Len(e) /\ n <= Len(e)
        BY <1>0, <3>1, <3>6
      <3> QED
        BY <3>7, <3>9, <3>10, <3>11
    <2>2. CASE ~ n > Len(data[p])
      <3>1. data' = data
        BY <1>03, <1>1, <2>2
      <3>2. n <= Len(data[p])
        BY <1>0, <1>00, <2>2
      <3> QED
        BY <1>2, <1>05, <3>1, <3>2 DEF TypeInv
    <2> QED
      BY <2>1, <2>2
  <1>3. /\ Others(p) /\ pc'[p] = "send" /\ newLen'[p] = n /\ sent'[p] = 0 /\ received'[p] = 0
        /\ round'[p] = round[p] /\ len'[p] = len[p] /\ length0' = length0
    BY <1>03, <1>06, <1>1, <1>2 DEF Others, TypeInv
  <1>4. TypeInv'
    <2>1. pc' \in [Players -> Points]
      BY <1>1, <1>2 DEF TypeInv, Points
    <2>2. stream' \in [Players -> Seq(Units)]
      BY <1>01, <1>1, <1>2 DEF TypeInv
    <2>3. newLen' \in [Players -> Nat]
      BY <1>0, <1>03, <1>1, <1>2 DEF TypeInv
    <2>4. sent' \in [Players -> Nat] /\ received' \in [Players -> Nat]
      BY <1>1, <1>2 DEF TypeInv
    <2> QED
      BY <1>06, <1>1, <1>2, <2>1, <2>2, <2>3, <2>4 DEF TypeInv
  <1>5. Whole(p)'
    BY <1>05, <1>06, <1>3 DEF Whole
  <1>6. Parts(p)'
    <2>1. \A k \in 0 + 1 .. len[p] : data'[p][k] = Unit(Owner(p, round[p]), k)
      BY <1>05, <1>06
    <2>2. \A k \in 1 .. 0 : data'[p][k] = Unit(Owner(p, round[p] + 1), k)
      OBVIOUS
    <2>3. 0 <= len[p] /\ 0 <= n
      BY <1>0
    <2> QED
      BY <1>04, <1>06, <1>3, <2>1, <2>2, <2>3 DEF Parts
  <1>7. Turns(p)'
    <2>1. 0 \in Multiples /\ MinOf(len[p], 0) = 0 /\ MinOf(n, 0) = 0
      BY <1>0, Ring DEF MinOf
    <2> QED
      BY <1>3, <2>1 DEF Turns
  <1>8. Streams'
    <2>1. SendPlace(p)' = SendPlace(p)
      <3>1. SendPlace(p) = After(length0, p, <<round[p], 0>>)
        BY <1>1 DEF SendPlace
      <3>2. SendPlace(p)' = After(length0', p, <<round'[p], sent'[p]>>)
        BY <1>3 DEF SendPlace
      <3> QED
        BY <1>3, <3>1, <3>2
    <2>2. ReceivePlace(p)' = After(length0, q, <<round[p], 0>>)
      BY <1>3 DEF ReceivePlace, q
    <2>3. stream' = [stream EXCEPT ![Source(p)] = t]
      BY <1>01, <1>1
    <2>4. Between(length0, Source(p), t, ReceivePlace(p)', SendPlace(Source(p)))
      BY <1>02, <2>2 DEF q
    <2> QED
      BY <1>3, <2>1, <2>3, <2>4, Receiving
  <1> QED
    BY <1>3, <1>4, <1>5, <1>6, <1>7, <1>8, OthersKept

LEMMA ReceiveKeeps ==
    ASSUME Inv, NEW p \in Players, Receive(p)
    PROVE  Inv'
  <1> DEFINE q == Source(p)
             s == stream[Source(p)]
             at == received[p]
             n == MinOf(Len(s), ChunkEnd(p) - received[p])
             t == SubSeq(s, n + 1, Len(s))
             e == [k \in DOMAIN data[p] |-> IF k \in at + 1 .. at + n THEN s[k - at] ELSE data[p][k]]
  <1>1. /\ pc[p] = "receive" /\ at < newLen[p] /\ n > 0
        /\ data' = [data EXCEPT ![p] = e] /\ stream' = [stream EXCEPT ![Source(p)] = t]
        /\ received' = [received EXCEPT ![p] = at + n]
        /\ pc' = [pc EXCEPT ![p] = IF at + n = ChunkEnd(p) THEN "send" ELSE "receive"]
        /\ UNCHANGED <<round, len, newLen, sent, length0>>
    BY DEF Receive, Goto
  <1>2. TypeInv /\ Whole(p) /\ Parts(p) /\ Turns(p) /\ Streams /\ q \in Players
    BY Ring DEF Inv
  <1>0. /\ round[p] \in Nat /\ len[p] \in Nat /\ newLen[p] \in Nat /\ sent[p] \in Nat /\ at \in Nat
        /\ Chunk \in Nat \ {0}
    BY <1>2, ChunkAssumption DEF TypeInv
  <1>00. data[p] \in Seq(Units) /\ s \in Seq(Units)
    BY <1>2 DEF TypeInv
  <1>01. PICK m \in Multiples :
           sent[p] = MinOf(len[p], m + Chunk) /\ MinOf(newLen[p], m) <= at /\ at < m + Chunk
    BY <1>1, <1>2 DEF Turns
  <1>02. m \in Nat /\ m + Chunk \in Multiples /\ m + Chunk \in Nat
    BY <1>0, NextMultiple
  <1>03. ChunkEnd(p) = MinOf(newLen[p], m + Chunk)
    <2>1. m <= at
      BY <1>0, <1>01, <1>02, <1>1 DEF MinOf
    <2>2. ((at \div Chunk) + 1) * Chunk = m + Chunk
      <3> HIDE DEF at
      <3> QED
        BY <1>0, <1>01, <2>1, NextMultiple
    <2> QED
      BY <2>2 DEF ChunkEnd
  <1>04. PICK h \in Nat : h = Len(s)
    BY <1>00
  <1>05. n = MinOf(h, MinOf(newLen[p], m + Chunk) - at)
    BY <1>03, <1>04
  <1>06. /\ n \in 1 .. h /\ at + n <= newLen[p] /\ at + n <= m + Chunk /\ at + n \in Nat /\ n \in Nat
         /\ at + n = ChunkEnd(p) => at + n = MinOf(newLen[p], m + Chunk)
         /\ at + n # ChunkEnd(p) => at + n < m + Chunk
    <2>1. MinOf(newLen[p], m + Chunk) = IF newLen[p] < m + Chunk THEN newLen[p] ELSE m + Chunk
      BY DEF MinOf
    <2>2. n = IF h < MinOf(newLen[p], m + Chunk) - at THEN h ELSE MinOf(newLen[p], m + Chunk) - at
      BY <1>05 DEF MinOf
    <2> HIDE DEF n, at
    <2> QED
      BY SMTT(20), <1>0, <1>02, <1>03, <1>1, <2>1, <2>2
  <1>07. /\ newLen[p] = LengthIn(length0, p, round[p] + 1) /\ newLen[p] <= Len(data[p])
         /\ sent[p] <= len[p] /\ len[p] <= Len(data[p]) /\ len[p] = LengthIn(length0, p, round[p])
         /\ \A k \in sent[p] + 1 .. len[p] : data[p][k] = Unit(Owner(p, round[p]), k)
         /\ \A k \in 1 .. at : data[p][k] = Unit(Owner(p, round[p] + 1), k)
    BY <1>1, <1>2 DEF Parts, Whole
  <1>08. newLen[p] = LengthIn(length0, q, round[p]) /\ Owner(q, round[p]) = Owner(p, round[p] + 1)
    BY <1>0, <1>07, Ring DEF LengthIn
  <1>09. /\ e \in Seq(Units) /\ Len(e) = Len(data[p])
         /\ \A k \in 1 .. Len(data[p]) : e[k] = IF k \in at + 1 .. at + n THEN s[k - at] ELSE data[p][k]
    <2>1. PICK d \in Nat : d = Len(data[p])
      BY <1>00
    <2>2. DOMAIN data[p] = 1 .. d
      BY <1>00, <2>1
    <2>3. ASSUME NEW k \in 1 .. d
          PROVE  (IF k \in at + 1 .. at + n THEN s[k - at] ELSE data[p][k]) \in Units
      <3>1. CASE k \in at + 1 .. at + n
        <4> HIDE DEF n, at
        <4>1. k - at \in 1 .. h
          BY <1>0, <1>06, <3>1
        <4>2. s[k - at] \in Units
          BY <1>00, <1>04, <4>1, ElementOfSeq
        <4> QED
          BY <3>1, <4>2
      <3>2. CASE k \notin at + 1 .. at + n
        <4>1. data[p][k] \in Units
          BY <1>00, <2>1, ElementOfSeq
        <4> QED
          BY <3>2, <4>1
      <3> QED
        BY <3>1, <3>2
    <2> HIDE DEF n, at, s
    <2>4. e = [k \in 1 .. d |-> IF k \in at + 1 .. at + n THEN s[k - at] ELSE data[p][k]]
      BY <2>2
    <2> HIDE DEF e
    <2>5. e \in [1 .. d -> Units]
      BY <2>3, <2>4
    <2>6. e \in Seq(Units) /\ Len(e) = d
      BY <2>5, MadeSequence
    <2> QED
      BY <2>1, <2>4, <2>6
  <1> HIDE DEF n, e, q
  <1>10. /\ \A i \in 1 .. n : s[i] = Unit(Owner(q, round[p]), at + i)
         /\ Between(length0, q, t, After(length0, q, <<round[p], at + n>>), SendPlace(q))
    <2>1. ReceivePlace(p) = <<round[p], at + 1>>
      <3>1. ReceivePlace(p) = After(length0, q, <<round[p], at>>)
        BY <1>1 DEF ReceivePlace, q
      <3>2. at < LengthIn(length0, q, round[p])
        BY <1>08, <1>1
      <3> QED
        BY <1>0, <3>1, <3>2, AfterInside
    <2>2. Between(length0, q, s, <<round[p], at + 1>>, SendPlace(q)) /\ LengthsOf(length0, q)
      BY <1>2, <2>1, LengthsKnown DEF Streams, q
    <2> HIDE DEF at, s
    <2>3. PICK k \in Nat : k = at + 1
      BY <1>0
    <2>4. k # 0 /\ k + n - 1 = at + n /\ k + n - 1 <= LengthIn(length0, q, round[p])
      BY <1>0, <1>06, <1>08, <2>3
    <2>5. n \in 1 .. Len(s)
      BY <1>04, <1>06
    <2>51. Between(length0, q, s, <<round[p], k>>, SendPlace(q)) /\ round[p] \in Nat
      BY <1>0, <2>2, <2>3
    <2>6. /\ \A i \in 1 .. n : s[i] = Unit(Owner(q, round[p]), k + i - 1)
          /\ Between(length0, q, SubSeq(s, n + 1, Len(s)), After(length0, q, <<round[p], k + n - 1>>), SendPlace(q))
      BY <2>2, <2>4, <2>5, <2>51, UnitsTaken
    <2>7. \A i \in 1 .. n : k + i - 1 = at + i
      BY <1>0, <1>06, <2>3
    <2> QED
      BY <2>4, <2>6, <2>7
  <1>11. t \in Seq(Units)
    BY <1>10 DEF Between
  <1> HIDE DEF t
  <1>3. /\ Others(p) /\ data'[p] = e /\ received'[p] = at + n /\ sent'[p] = sent[p] /\ len'[p] = len[p]
        /\ newLen'[p] = newLen[p] /\ round'[p] = round[p] /\ length0' = length0
        /\ pc'[p] = IF at + n = ChunkEnd(p) THEN "send" ELSE "receive"
    BY <1>1, <1>2 DEF Others, TypeInv
  <1>4. TypeInv'
    <2>1. pc' \in [Players -> Points]
      BY <1>1, <1>2 DEF TypeInv, Points
    <2>2. stream' \in [Players -> Seq(Units)]
      BY <1>11, <1>1, <1>2 DEF TypeInv
    <2>3. data' \in [Players -> Seq(Units)]
      BY <1>09, <1>1, <1>2 DEF TypeInv
    <2>4. received' \in [Players -> Nat]
      BY <1>06, <1>1, <1>2 DEF TypeInv
    <2> QED
      BY <1>1, <1>2, <2>1, <2>2, <2>3, <2>4 DEF TypeInv
  <1>5. Whole(p)'
    <2>1. pc'[p] \notin {"send length", "receive length"}
      BY <1>3
    <2> QED
      BY <1>07, <1>09, <1>3, <2>1 DEF Whole
  <1>6. Parts(p)'
    <2>0. PICK d \in Nat : d = Len(data[p])
      BY <1>00
    <2>1. ASSUME NEW k \in sent[p] + 1 .. len[p] PROVE e[k] = Unit(Owner(p, round[p]), k)
      <3>1. sent[p] = IF len[p] < m + Chunk THEN len[p] ELSE m + Chunk
        BY <1>01 DEF MinOf
      <3> HIDE DEF at
      <3>2. k \in 1 .. d
        BY <1>0, <1>07, <2>0
      <3>3. k \notin at + 1 .. at + n
        BY <1>0, <1>02, <1>06, <3>1
      <3> QED
        BY <1>07, <1>09, <2>0, <3>2, <3>3
    <2>2. ASSUME NEW k \in 1 .. at + n PROVE e[k] = Unit(Owner(p, round[p] + 1), k)
      <3> HIDE DEF at
      <3>1. k \in 1 .. d
        BY <1>0, <1>06, <1>07, <2>0
      <3>2. CASE k <= at
        <4>1. k \in 1 .. at /\ k \notin at + 1 .. at + n
          BY <1>0, <1>06, <3>2
        <4> QED
          BY <1>07, <1>09, <2>0, <3>1, <4>1
      <3>3. CASE ~ k <= at
        <4>1. k \in at + 1 .. at + n /\ k - at \in 1 .. n /\ at + (k - at) = k
          BY <1>0, <1>06, <3>3
        <4>2. e[k] = s[k - at]
          BY <1>09, <2>0, <3>1, <4>1
        <4> QED
          BY <1>08, <1>10, <4>1, <4>2
      <3> QED
        BY <3>2, <3>3
    <2>3. newLen[p] <= Len(e)
      BY <1>07, <1>09
    <2> HIDE DEF at
    <2> QED
      BY <1>06, <1>07, <1>3, <2>1, <2>2, <2>3 DEF Parts
  <1>7. Turns(p)'
    <2>1. CASE at + n = ChunkEnd(p)
      <3>1. pc'[p] = "send" /\ received'[p] = MinOf(newLen[p], m + Chunk)
        BY <1>06, <1>3, <2>1
      <3> QED
        BY <1>01, <1>02, <1>3, <3>1 DEF Turns
    <2>2. CASE at + n # ChunkEnd(p)
      <3>1. pc'[p] = "receive" /\ received'[p] = at + n /\ at + n < m + Chunk
        BY <1>06, <1>3, <2>2
      <3>2. MinOf(newLen[p], m) \in Nat /\ MinOf(newLen[p], m) <= at
        BY <1>0, <1>01, <1>02 DEF MinOf
      <3>3. MinOf(newLen[p], m) <= at + n
        <4> HIDE DEF at
        <4> QED
          BY <1>0, <1>06, <3>2
      <3> HIDE DEF at
      <3> QED
        BY <1>01, <1>3, <3>1, <3>3 DEF Turns
    <2> QED
      BY <2>1, <2>2
  <1>8. Streams'
    <2>1. SendPlace(p)' = SendPlace(p)
      <3>1. SendPlace(p) = After(length0, p, <<round[p], sent[p]>>)
        BY <1>1 DEF SendPlace
      <3>2. pc'[p] \notin {"send length", "receive length"}
        BY <1>3
      <3>3. SendPlace(p)' = After(length0', p, <<round'[p], sent'[p]>>)
        BY <3>2 DEF SendPlace
      <3> QED
        BY <1>3, <3>1, <3>3
    <2>2. ReceivePlace(p)' = After(length0, q, <<round[p], at + n>>)
      <3>1. pc'[p] \notin {"send length", "receive length"}
        BY <1>3
      <3> QED
        BY <1>3, <3>1 DEF ReceivePlace, q
    <2>3. Between(length0, Source(p), t, ReceivePlace(p)', SendPlace(Source(p)))
      BY <1>10, <2>2 DEF q
    <2> QED
      BY <1>1, <1>3, <2>1, <2>3, Receiving
  <1> QED
    BY <1>3, <1>4, <1>5, <1>6, <1>7, <1>8, OthersKept

-----------------------------------------------------------------------------
LEMMA InvKept == Inv /\ [Next]_vars => Inv'
  <1> SUFFICES ASSUME Inv, [Next]_vars PROVE Inv'
    OBVIOUS
  <1>1. CASE UNCHANGED vars
    BY <1>1 DEF Inv, TypeInv, Whole, Parts, Turns, Streams, SendPlace, ReceivePlace, vars, counters
  <1>2. ASSUME NEW p \in Players, Step(p) PROVE Inv'
    BY <1>2, SendLengthKeeps, ReceiveLengthKeeps, SendChunkKeeps, NothingToSendKeeps, ReceiveKeeps,
       NothingToReceiveKeeps, ReturnKeeps DEF Step
  <1> QED
    BY <1>1, <1>2 DEF Next, Done

(* What pass_around returns is the data of the player as many places below *)
(* as calls have returned, and what has not been sent is still there when  *)
(* the other data is received into the same buffer.                        *)
THEOREM PassesOn == Spec => []DataPassedOn
  <1>1. Inv => DataPassedOn
    <2> SUFFICES ASSUME Inv PROVE DataPassedOn
      OBVIOUS
    <2>1. ASSUME NEW p \in Players PROVE Whole(p) /\ Parts(p)
      BY DEF Inv
    <2>2. UnsentIsKept
      BY <2>1 DEF UnsentIsKept, Parts
    <2> QED
      BY <2>1, <2>2 DEF DataPassedOn, Whole, LengthIn
  <1> QED
    BY <1>1, InitInv, InvKept, PTL DEF Spec
=============================================================================
