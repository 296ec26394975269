-------------------------- MODULE DataFiles_proofs --------------------------
(***************************************************************************)
(* Preprocessed data is used once, tuple by tuple, and what was used is    *)
(* cut off the files, for all threads, streams, tuple sizes, files and     *)
(* buffers, if positions fit into an int.                                  *)
(*                                                                         *)
(* The invariant counts in tuples: Place is how far a buffer has come in   *)
(* its file, and is the number of tuples its thread has used times their   *)
(* length; a running tape has the tuples usage .. usage + budget - 1       *)
(* before it, which no other running tape has and which nobody has read.   *)
(***************************************************************************)
EXTENDS DataFiles, Recursion_proofs, SequenceTheorems

(* No offset of seekg wraps around, whatever MaxTapes tapes use.           *)
PositionsFit ==
    \A need \in Needs, s \in Streams : \A n \in Sizes[s] :
        MaxTapes * need[s] * n < IntModulus \div 2

Buffers ==
    [up : BOOLEAN, length : Int, next : Int, tell : Int, block : Int, out : Seq(Int),
     failed : BOOLEAN]

TypeInv ==
    /\ present \in [Streams -> BOOLEAN] /\ \A s \in Tags : present[s]
    /\ start \in [Streams -> Nat]
    /\ lengths \in [Tags -> Nat] /\ \A s \in Tags : lengths[s] \in Sizes[s] \cup {0}
    /\ locked \in BOOLEAN
    /\ buf \in [Threads -> [Streams -> Buffers]]
    /\ usage \in [Threads -> [Streams -> Nat]]
    /\ mode \in [Threads -> {"idle", "known", "unknown"}]
    /\ threw \in [Threads -> BOOLEAN]
    /\ budget \in [Threads -> [Streams -> Nat]]
    /\ pos \in [Streams -> Nat]
    /\ process \in {"running", "over"}
    /\ tapes \in 0 .. MaxTapes
    /\ taken \in [Streams -> SUBSET Int]
    /\ again \in [Streams -> SUBSET Int]
    /\ given \in [Streams -> Nat]
    /\ got \in [Threads -> Seq(Int)]

(* The tuple length of a stream, 0 for a tag nobody has used yet.           *)
Length(s) == IF s \in Kinds THEN TupleSize(s) ELSE lengths[s]

(* How many items of the file, as it is now, are before the next one read.  *)
Place(b) == b.tell + b.next - BufferSize

(* A buffer that has come to the j-th tuple of its stream, of the given     *)
(* length; here says whether the file exists, from how much was cut off.    *)
BufferIn(s, b, j, length, here, from) ==
    /\ ~b.failed /\ b.out = <<>>
    /\ b.next \in 0 .. BufferSize /\ b.tell \in Nat
    /\ b.next < BufferSize =>
          /\ here /\ b.tell >= BufferSize
          /\ b.block = from + b.tell - BufferSize /\ from + b.tell <= Items[s]
    /\ IF b.up THEN b.length \in {0, length}
               ELSE b.tell = 0 /\ b.next = BufferSize
    /\ s \in Kinds => b.up /\ b.length = length
    /\ Place(b) = j * length

(* Kinds are read by tapes only; what a tape skips of a tag nobody has used *)
(* is not skipped in the file.                                             *)
BuffersOK ==
    process = "running" =>
        \A t \in Threads : ~threw[t] =>
            \A s \in Streams : \E j \in 0 .. usage[t][s] :
                /\ s \in Kinds => j = usage[t][s]
                /\ BufferIn(s, buf[t][s], j, Length(s), present[s], start[s])

UnknownAlone ==
    \A t, u \in Threads : mode[t] = "unknown" /\ u # t => mode[u] = "idle"
ThrownStay == \A t \in Threads : threw[t] => mode[t] # "idle"
NeedsExist == (\E t \in Threads : mode[t] # "idle") => Needs # {}

(* The tuples before a tape.                                               *)
Windows ==
    \A t \in Threads : ~threw[t] =>
        /\ mode[t] = "idle" => \A s \in Streams : usage[t][s] <= pos[s]
        /\ mode[t] = "known" => \A s \in Streams : usage[t][s] + budget[t][s] <= pos[s]
        /\ mode[t] = "unknown" =>
              /\ \A s \in Streams : pos[s] <= usage[t][s]
              /\ \E need \in Needs : \A s \in Streams :
                    usage[t][s] + budget[t][s] <= pos[s] + need[s]

Active(t) == mode[t] # "idle" /\ ~threw[t]
Apart ==
    \A t, u \in Threads : t # u /\ Active(t) /\ Active(u) =>
        \A s \in Kinds : \/ usage[t][s] + budget[t][s] <= usage[u][s]
                         \/ usage[u][s] + budget[u][s] <= usage[t][s]

(* Where the items are that have been read.                                *)
At(s, from, j) == from + j * TupleSize(s)
TakenBefore(s, x) ==
    IF process = "over" THEN x < start[s]
    ELSE \/ x < At(s, start[s], pos[s])
         \/ \E t \in Threads :
               mode[t] = "unknown" /\ (threw[t] \/ x < At(s, start[s], usage[t][s]))
TakenOK ==
    \A s \in Kinds : present[s] => \A x \in taken[s] :
        /\ x < Items[s] /\ TakenBefore(s, x)
        /\ process = "running" => \A t \in Threads : Active(t) =>
              \/ x < At(s, start[s], usage[t][s])
              \/ x >= At(s, start[s], usage[t][s] + budget[t][s])
NeverAgain == \A s \in Kinds : again[s] = {}

(* What was cut off the files is no more than what was given.              *)
Cut(s, from, tuples) == from = 0 \/ \E n \in Sizes[s] : from <= tuples * n
CutOK ==
    \A s \in Streams :
        /\ pos[s] <= given[s]
        /\ IF process = "over" THEN Cut(s, start[s], given[s])
           ELSE Cut(s, start[s], given[s] - pos[s])

(* No position is beyond what the tapes of a run may use together.         *)
Reach(s, need) ==
    /\ pos[s] <= tapes * need[s]
    /\ \A t \in Threads : usage[t][s] + budget[t][s] <= tapes * need[s]
Nothing(s) == pos[s] = 0 /\ \A t \in Threads : usage[t][s] + budget[t][s] = 0
ReachOK == \A s \in Streams : Nothing(s) \/ \E need \in Needs : Reach(s, need)

DataInv ==
    /\ TypeInv /\ BuffersOK /\ UnknownAlone /\ ThrownStay /\ NeedsExist
    /\ Windows /\ Apart /\ TakenOK /\ NeverAgain /\ CutOK /\ ReachOK
    /\ TuplesAreWhole /\ FailsOnlyWhenShort /\ UsedItemsDiscarded

-----------------------------------------------------------------------------
(* Arithmetic.                                                             *)

LEMMA TimesMonotonic ==
    ASSUME NEW a \in Int, NEW b \in Int, a <= b, NEW n \in Nat
    PROVE  a * n <= b * n /\ a * n \in Int /\ b * n \in Int
<1>1. (b - a) * n >= 0
  OBVIOUS
<1>2. (b - a) * n = b * n - a * n
  OBVIOUS
<1>3. a * n \in Int /\ b * n \in Int
  OBVIOUS
<1> QED
  BY <1>1, <1>2, <1>3

LEMMA TimesBothMonotonic ==
    ASSUME NEW a \in Nat, NEW b \in Nat, a <= b, NEW m \in Nat, NEW n \in Nat, m <= n
    PROVE  a * m <= b * n
<1>1. a * m <= b * m
  BY TimesMonotonic
<1>2. m * b <= n * b
  BY TimesMonotonic
<1>3. m * b = b * m /\ n * b = b * n /\ a * m \in Int /\ b * m \in Int /\ b * n \in Int
  OBVIOUS
<1> QED
  BY <1>1, <1>2, <1>3

LEMMA Successor ==
    ASSUME NEW a \in Int, NEW b \in Int, NEW n \in Int
    PROVE  (a + b) * n = a * n + b * n /\ a * n \in Int /\ b * n \in Int
  OBVIOUS

LEMMA ZeroSum ==
    ASSUME NEW x \in Nat, NEW y \in Nat, x + y <= 0
    PROVE  x + y = 0
  OBVIOUS

LEMMA ModuloKeeps ==
    ASSUME NEW n \in Nat \ {0}, NEW x \in 0 .. n - 1
    PROVE  x % n = x
  OBVIOUS

LEMMA MultipleModulo ==
    ASSUME NEW n \in Nat \ {0}, NEW j \in Int
    PROVE  (j * n) % n = 0
  OBVIOUS

LEMMA AsIntKeeps ==
    ASSUME NEW x \in Nat, x < IntModulus \div 2
    PROVE  AsInt(x) = x
<1>1. IntModulus \in Nat \ {0} /\ IntModulus % 2 = 0
  BY BoundsAssumption
<1>2. IntModulus \div 2 \in Nat /\ IntModulus = 2 * (IntModulus \div 2)
  BY <1>1
<1>3. x + IntModulus \div 2 \in 0 .. IntModulus - 1
  BY <1>2
<1>4. (x + IntModulus \div 2) % IntModulus = x + IntModulus \div 2
  BY <1>1, <1>3, ModuloKeeps
<1> QED
  BY <1>2, <1>4 DEF AsInt

LEMMA TupleSizes ==
    ASSUME NEW s \in Kinds
    PROVE  TupleSize(s) \in Sizes[s] /\ Sizes[s] = {TupleSize(s)} /\ TupleSize(s) \in Nat \ {0}
<1>1. s \in Streams /\ Sizes[s] \in SUBSET (Nat \ {0}) /\ \E n \in Sizes[s] : Sizes[s] = {n}
  BY SizesAssumption DEF Streams
<1> QED
  BY <1>1 DEF TupleSize

-----------------------------------------------------------------------------
(* Buffers: seekg.                                                         *)

LEMMA LengthTypes ==
    ASSUME TypeInv, NEW s \in Streams
    PROVE  Length(s) \in Nat /\ Length(s) \in Sizes[s] \cup {0} /\ Sizes[s] \subseteq Nat \ {0}
<1>1. Sizes[s] \in SUBSET (Nat \ {0})
  BY SizesAssumption
<1>2. CASE s \in Kinds
  BY <1>1, <1>2, TupleSizes DEF Length
<1>3. CASE s \notin Kinds
  <2>1. s \in Tags
    BY <1>3 DEF Streams
  <2> QED
    BY <1>1, <1>3, <2>1 DEF Length, TypeInv
<1> QED
  BY <1>2, <1>3

LEMMA SetUpIn ==
    ASSUME NEW s \in Streams, NEW n \in Nat, NEW here \in BOOLEAN, NEW from \in Nat
    PROVE  SetUp(n) \in Buffers /\ SetUp(n).up /\ BufferIn(s, SetUp(n), 0, n, here, from)
<1>0. PICK b : b = NoBuffer
  OBVIOUS
<1>1. SetUp(n) = [b EXCEPT !.up = TRUE, !.length = n]
  BY <1>0 DEF SetUp
<1>2. BufferSize \in Nat \ {0} /\ <<>> \in Seq(Int)
  BY BoundsAssumption
<1>3. b \in Buffers
  BY <1>0, <1>2 DEF Buffers, NoBuffer
<1>4. PICK c : c = SetUp(n)
  OBVIOUS
<1>5. c \in Buffers /\ c.up = TRUE /\ c.length = n
  <2>1. c = [b EXCEPT !.up = TRUE, !.length = n]
    BY <1>1, <1>4
  <2>2. c \in Buffers
    <3>1. n \in Int /\ TRUE \in BOOLEAN
      OBVIOUS
    <3>2. PICK u \in BOOLEAN : u = TRUE
      OBVIOUS
    <3>3. c = [b EXCEPT !.up = u, !.length = n]
      BY <2>1, <3>2, Zenon
    <3> QED
      BY <1>3, <3>1, <3>3 DEF Buffers
  <2>3. c.length = n
    BY <1>3, <2>1 DEF Buffers
  <2>4. c.up = TRUE
    BY <1>3, <2>1, Zenon DEF Buffers
  <2> QED
    BY <2>2, <2>3, <2>4
<1>6. c.next = b.next /\ c.tell = b.tell /\ c.failed = b.failed /\ c.out = b.out
  BY <1>1, <1>3, <1>4 DEF Buffers
<1>7. b.next = BufferSize /\ b.tell = 0 /\ b.failed = FALSE /\ b.out = <<>>
  BY <1>0 DEF NoBuffer
<1>8. Place(c) = 0 /\ 0 * n = 0
  BY <1>2, <1>6, <1>7 DEF Place
<1>9. BufferIn(s, c, 0, n, here, from)
  BY <1>2, <1>5, <1>6, <1>7, <1>8 DEF BufferIn
<1> QED
  BY <1>4, <1>5, <1>9

LEMMA NoBufferIn ==
    ASSUME NEW s \in Tags, NEW n \in Nat, NEW here \in BOOLEAN, NEW from \in Nat
    PROVE  NoBuffer \in Buffers /\ BufferIn(s, NoBuffer, 0, n, here, from)
<1>2. BufferSize \in Nat \ {0} /\ <<>> \in Seq(Int) /\ s \notin Kinds
  BY BoundsAssumption, StreamsAssumption
<1>3. NoBuffer \in Buffers
  BY <1>2 DEF Buffers, NoBuffer
<1>4. Place(NoBuffer) = 0
  BY <1>2 DEF Place, NoBuffer
<1> QED
  BY <1>2, <1>3, <1>4 DEF BufferIn, NoBuffer

LEMMA NewBuffersIn ==
    ASSUME NEW s \in Streams, NEW n \in Nat, NEW here \in BOOLEAN, NEW from \in Nat,
           s \in Kinds => n = TupleSize(s)
    PROVE  NewBuffers[s] \in Buffers /\ BufferIn(s, NewBuffers[s], 0, n, here, from)
<1>1. CASE s \in Kinds
  BY <1>1, SetUpIn DEF NewBuffers
<1>2. CASE s \notin Kinds
  BY <1>2, NoBufferIn DEF NewBuffers, Streams
<1> QED
  BY <1>1, <1>2

(* A buffer that is set up is moved to the p-th tuple, or to the beginning *)
(* if it has the length 0.                                                 *)
LEMMA SeekIn ==
    ASSUME TypeInv, NEW s \in Streams, NEW b \in Buffers, NEW i \in Nat, b.up,
           BufferIn(s, b, i, Length(s), present[s], start[s]),
           NEW p \in Nat, p * Length(s) < IntModulus \div 2
    PROVE  /\ Seek(s, p, b) \in Buffers
           /\ Seek(s, p, b).failed => p # 0 /\ ~present[s]
           /\ ~Seek(s, p, b).failed => \E j \in 0 .. p :
                 /\ s \in Kinds => j = p
                 /\ BufferIn(s, Seek(s, p, b), j, Length(s), present[s], start[s])
<1>1. PICK n : n = Length(s)
  OBVIOUS
<1>2. n \in Nat /\ b.length \in {0, n} /\ (s \in Kinds => b.length = n) /\ ~b.failed
  BY <1>1, LengthTypes DEF BufferIn
<1>3. PICK offset : offset = p * b.length
  OBVIOUS
<1>4. p * 0 = 0 /\ p * n \in Nat
  BY <1>2
<1>5. offset \in Nat /\ offset < IntModulus \div 2
  <2>1. 0 < IntModulus \div 2
    BY BoundsAssumption
  <2> QED
    BY <1>1, <1>2, <1>3, <1>4, <2>1
<1>6. AsInt(p * b.length) = offset /\ ~(offset < 0)
  BY <1>3, <1>5, AsIntKeeps
<1>7. BufferSize \in Nat \ {0}
  BY BoundsAssumption
<1>8. CASE ~present[s] /\ p # 0
  <2>1. Seek(s, p, b) = [b EXCEPT !.failed = TRUE]
    BY <1>6, <1>8 DEF Seek
  <2> QED
    BY <1>8, <2>1 DEF Buffers
<1>9. CASE ~(~present[s] /\ p # 0)
  <2>1. Seek(s, p, b) = [b EXCEPT !.tell = offset, !.next = BufferSize]
    BY <1>6, <1>9 DEF Seek
  <2>2. PICK c : c = Seek(s, p, b)
    OBVIOUS
  <2>3. /\ c \in Buffers /\ c.up = b.up /\ c.length = b.length /\ c.failed = b.failed
        /\ c.out = b.out /\ c.tell = offset /\ c.next = BufferSize
    <3>1. c = [b EXCEPT !.tell = offset, !.next = BufferSize]
      BY <2>1, <2>2
    <3>2. offset \in Int /\ BufferSize \in Int
      BY <1>5, <1>7
    <3>3. c \in Buffers
      BY <3>1, <3>2 DEF Buffers
    <3>4. c.tell = offset /\ c.next = BufferSize
      BY <3>1 DEF Buffers
    <3> QED
      BY <3>1, <3>3, <3>4 DEF Buffers
  <2>4. Place(c) = offset
    BY <1>5, <1>7, <2>3 DEF Place
  <2>5. \E j \in 0 .. p : (s \in Kinds => j = p) /\ offset = j * n
    <3>1. CASE b.length = n
      BY <1>3, <3>1
    <3>2. CASE b.length = 0 /\ s \notin Kinds
      <4>1. 0 * n = 0 /\ offset = 0
        BY <1>2, <1>3, <1>4, <3>2
      <4> QED
        BY <3>2, <4>1
    <3> QED
      BY <1>2, <3>1, <3>2
  <2>6. \A j : offset = j * n => BufferIn(s, c, j, n, present[s], start[s])
    BY <1>1, <1>2, <1>5, <1>7, <2>3, <2>4 DEF BufferIn
  <2> QED
    BY <1>1, <1>2, <2>2, <2>3, <2>5, <2>6
<1> QED
  BY <1>8, <1>9

(* All streams: seekg of Data_Files.                                       *)
AllIn(bs, p) ==
    \A s \in Streams : \E j \in 0 .. p[s] :
        /\ s \in Kinds => j = p[s]
        /\ BufferIn(s, bs[s], j, Length(s), present[s], start[s])

AllFit(p) == \A s \in Streams : \A n \in Sizes[s] : p[s] * n < IntModulus \div 2

LEMMA StreamFits ==
    ASSUME TypeInv, NEW p \in [Streams -> Nat], AllFit(p), NEW s \in Streams
    PROVE  p[s] * Length(s) < IntModulus \div 2
<1>1. PICK n : n = Length(s)
  OBVIOUS
<1>2. n \in Nat /\ n \in Sizes[s] \cup {0} /\ p[s] \in Nat
  BY <1>1, LengthTypes
<1>3. CASE n = 0
  <2>1. p[s] * 0 = 0 /\ 0 < IntModulus \div 2
    BY <1>2, BoundsAssumption
  <2> QED
    BY <1>1, <1>3, <2>1
<1>4. CASE n \in Sizes[s]
  BY <1>1, <1>4 DEF AllFit
<1> QED
  BY <1>2, <1>3, <1>4

LEMMA SeekStreamIn ==
    ASSUME TypeInv, NEW bs \in [Streams -> Buffers], NEW p \in [Streams -> Nat],
           AllFit(p), NEW s \in Streams, NEW i \in 0 .. p[s],
           BufferIn(s, bs[s], i, Length(s), present[s], start[s])
    PROVE  /\ SeekAll(bs, p)[s] \in Buffers
           /\ SeekAll(bs, p)[s].failed => s \in Kinds /\ ~present[s]
           /\ ~SeekAll(bs, p)[s].failed => \E j \in 0 .. p[s] :
                 /\ s \in Kinds => j = p[s]
                 /\ BufferIn(s, SeekAll(bs, p)[s], j, Length(s), present[s], start[s])
<1>0. i \in Nat /\ bs[s] \in Buffers /\ p[s] \in Nat
  OBVIOUS
<1>1. p[s] * Length(s) < IntModulus \div 2
  BY StreamFits
<1>2. CASE s \in Kinds
  <2>1. SeekAll(bs, p)[s] = Seek(s, p[s], bs[s])
    BY <1>2 DEF SeekAll
  <2>2. bs[s].up
    BY <1>2 DEF BufferIn
  <2> QED
    BY <1>0, <1>1, <1>2, <2>1, <2>2, SeekIn
<1>3. CASE s \in Tags /\ p[s] > 0
  <2>1. s \notin Kinds /\ present[s]
    BY <1>3, StreamsAssumption DEF TypeInv
  <2>2. PICK c : c = SetupExtended(s, bs[s])
    OBVIOUS
  <2>3. SeekAll(bs, p)[s] = Seek(s, p[s], c)
    BY <1>3, <2>1, <2>2 DEF SeekAll
  <2>4. \E k \in Nat : /\ c \in Buffers /\ c.up
                       /\ BufferIn(s, c, k, Length(s), present[s], start[s])
    <3>1. CASE bs[s].up
      BY <1>0, <2>2, <3>1 DEF SetupExtended
    <3>2. CASE ~bs[s].up
      <4>1. c = SetUp(Length(s))
        BY <2>1, <2>2, <3>2 DEF SetupExtended, Length
      <4>2. Length(s) \in Nat /\ present[s] \in BOOLEAN /\ start[s] \in Nat
        BY LengthTypes DEF TypeInv
      <4>3. c \in Buffers /\ c.up /\ BufferIn(s, c, 0, Length(s), present[s], start[s])
        BY <4>1, <4>2, SetUpIn
      <4> QED
        BY <4>3
    <3> QED
      BY <3>1, <3>2
  <2>5. PICK k \in Nat : BufferIn(s, c, k, Length(s), present[s], start[s])
    BY <2>4
  <2>6. c \in Buffers /\ c.up
    BY <2>4
  <2>7. /\ Seek(s, p[s], c) \in Buffers
        /\ Seek(s, p[s], c).failed => ~present[s]
        /\ ~Seek(s, p[s], c).failed => \E j \in 0 .. p[s] :
              BufferIn(s, Seek(s, p[s], c), j, Length(s), present[s], start[s])
    BY <1>0, <1>1, <2>5, <2>6, SeekIn
  <2> QED
    BY <2>1, <2>3, <2>7
<1>4. CASE s \in Tags /\ ~(p[s] > 0)
  <2>1. s \notin Kinds
    BY <1>4, StreamsAssumption
  <2>2. SeekAll(bs, p)[s] = bs[s]
    BY <1>4, <2>1 DEF SeekAll
  <2>3. ~bs[s].failed
    BY DEF BufferIn
  <2> QED
    BY <1>0, <2>1, <2>2, <2>3
<1> QED
  BY <1>0, <1>2, <1>3, <1>4 DEF Streams

LEMMA SeekAllIn ==
    ASSUME TypeInv, NEW bs \in [Streams -> Buffers], NEW p \in [Streams -> Nat],
           AllFit(p),
           \A s \in Streams : \E i \in 0 .. p[s] :
               BufferIn(s, bs[s], i, Length(s), present[s], start[s])
    PROVE  /\ SeekAll(bs, p) \in [Streams -> Buffers]
           /\ Fails(SeekAll(bs, p)) => \E s \in Kinds : ~present[s]
           /\ ~Fails(SeekAll(bs, p)) => AllIn(SeekAll(bs, p), p)
<1>1. SeekAll(bs, p) = [s \in Streams |-> SeekAll(bs, p)[s]]
  BY DEF SeekAll
<1>2. \A s \in Streams : SeekAll(bs, p)[s] \in Buffers
  BY SeekStreamIn
<1>3. SeekAll(bs, p) \in [Streams -> Buffers]
  BY <1>1, <1>2
<1>4. Fails(SeekAll(bs, p)) => \E s \in Kinds : ~present[s]
  BY SeekStreamIn DEF Fails
<1>5. ~Fails(SeekAll(bs, p)) => AllIn(SeekAll(bs, p), p)
  BY SeekStreamIn DEF Fails, AllIn
<1> QED
  BY <1>3, <1>4, <1>5

-----------------------------------------------------------------------------
(* Buffers: input.                                                         *)

(* A buffer that was in the given place and has delivered k items.         *)
Delivered(s, b, place, length, k) ==
    /\ ~b.failed /\ b.up /\ b.length = length
    /\ b.next \in 0 .. BufferSize /\ b.tell \in Nat
    /\ b.next < BufferSize =>
          /\ present[s] /\ b.tell >= BufferSize
          /\ b.block = start[s] + b.tell - BufferSize /\ start[s] + b.tell <= Items[s]
    /\ Place(b) = place + k
    /\ b.out = [i \in 1 .. k |-> start[s] + place + i - 1]
    /\ k > 0 => present[s] /\ start[s] + place + k <= Items[s]

(* A buffer that found the file too short for k items.                      *)
Starved(s, b, place, k) ==
    b.failed /\ (~present[s] \/ Items[s] < start[s] + place + k + BufferSize)

LEMMA FileTypes ==
    ASSUME TypeInv, NEW s \in Streams
    PROVE  /\ start[s] \in Nat /\ Items[s] \in Nat /\ BufferSize \in Nat \ {0}
           /\ present[s] \in BOOLEAN
  BY ItemsAssumption, BoundsAssumption DEF TypeInv

LEMMA AppendNext ==
    ASSUME NEW k \in Nat, NEW x \in Int, NEW y \in Int, y = x + k
    PROVE  /\ [i \in 1 .. k |-> x + i - 1] \in Seq(Int)
           /\ Append([i \in 1 .. k |-> x + i - 1], y) = [i \in 1 .. k + 1 |-> x + i - 1]
<1> DEFINE f == [i \in 1 .. k |-> x + i - 1]
           g == [i \in 1 .. k + 1 |-> x + i - 1]
<1>1. f \in Seq(Int) /\ Len(f) = k
  OBVIOUS
<1>2. g \in Seq(Int) /\ Len(g) = k + 1
  OBVIOUS
<1>3. Append(f, y) \in Seq(Int) /\ Len(Append(f, y)) = k + 1
  BY <1>1
<1>4. \A i \in 1 .. k + 1 : Append(f, y)[i] = g[i]
  <2>1. ASSUME NEW i \in 1 .. k PROVE Append(f, y)[i] = g[i]
    <3>1. Append(f, y)[i] = f[i]
      BY <1>1
    <3> QED
      BY <3>1
  <2>2. Append(f, y)[k + 1] = y /\ g[k + 1] = x + k
    BY <1>1
  <2>3. \A i \in 1 .. k + 1 : i \in 1 .. k \/ i = k + 1
    OBVIOUS
  <2> QED
    BY <2>1, <2>2, <2>3
<1> HIDE DEF f, g
<1>5. Append(f, y) = g
  BY <1>2, <1>3, <1>4, SeqEqual
<1> QED
  BY <1>1, <1>5 DEF f, g

LEMMA DeliverIn ==
    ASSUME TypeInv, NEW s \in Streams, NEW b \in Buffers, NEW place \in Nat,
           NEW length \in Int, NEW k \in Nat,
           Delivered(s, b, place, length, k), b.next < BufferSize
    PROVE  Deliver(b) \in Buffers /\ Delivered(s, Deliver(b), place, length, k + 1)
<1>1. PICK c : c = Deliver(b)
  OBVIOUS
<1>2. PICK x : x = b.block + b.next
  OBVIOUS
<1>3. start[s] \in Nat /\ Items[s] \in Nat /\ BufferSize \in Nat \ {0}
  BY FileTypes
<1>4. b.next \in Int /\ b.tell \in Nat /\ b.block \in Int
  BY DEF Buffers, Delivered
<1>21. b.out \in Seq(Int)
  BY DEF Buffers
<1>5. /\ b.block = start[s] + b.tell - BufferSize /\ start[s] + b.tell <= Items[s]
      /\ b.tell + b.next - BufferSize = place + k /\ b.next >= 0
      /\ b.next < BufferSize /\ b.tell >= BufferSize
  BY DEF Delivered, Place
<1>22. present[s]
  BY DEF Delivered
<1>6. x = (start[s] + place) + k /\ x \in Int /\ b.next + 1 \in 0 .. BufferSize
  BY <1>2, <1>3, <1>4, <1>5
<1>7. b.out = [i \in 1 .. k |-> (start[s] + place) + i - 1]
  BY DEF Delivered
<1>8. PICK o : o = Append(b.out, x)
  OBVIOUS
<1>9. o \in Seq(Int) /\ o = [i \in 1 .. k + 1 |-> (start[s] + place) + i - 1]
  <2>1. start[s] + place \in Int
    BY <1>3
  <2>2. o = [i \in 1 .. k + 1 |-> (start[s] + place) + i - 1]
    BY <1>6, <1>7, <1>8, <2>1, AppendNext
  <2>3. o \in Seq(Int)
    BY <1>21, <1>6, <1>8
  <2> QED
    BY <2>2, <2>3
<1>10. c = [b EXCEPT !.out = o, !.next = b.next + 1]
  BY <1>1, <1>2, <1>8 DEF Deliver
<1>11. c \in Buffers
  <2>1. b.next + 1 \in Int
    BY <1>6
  <2> QED
    BY <1>9, <1>10, <2>1 DEF Buffers
<1>12. c.out = o /\ c.next = b.next + 1
  BY <1>10 DEF Buffers
<1>13. /\ c.failed = b.failed /\ c.up = b.up /\ c.length = b.length /\ c.tell = b.tell
       /\ c.block = b.block
  BY <1>10 DEF Buffers
<1>14. Place(c) = place + (k + 1)
  <2>1. Place(c) = b.tell + (b.next + 1) - BufferSize
    BY <1>12, <1>13 DEF Place
  <2> QED
    BY <1>3, <1>4, <1>5, <2>1
<1>15. start[s] + place + (k + 1) <= Items[s]
  BY <1>3, <1>4, <1>5
<1>16. ~b.failed /\ b.up /\ b.length = length
  BY DEF Delivered
<1>17. c.tell >= BufferSize
  BY <1>5, <1>13
<1>18. c.out = [i \in 1 .. k + 1 |-> start[s] + place + i - 1]
  BY <1>9, <1>12
<1>19. ~c.failed /\ c.up /\ c.length = length /\ c.next \in 0 .. BufferSize /\ c.tell \in Nat
  BY <1>4, <1>6, <1>12, <1>13, <1>16
<1>20. /\ present[s] /\ c.block = start[s] + c.tell - BufferSize
       /\ start[s] + c.tell <= Items[s]
  BY <1>5, <1>13, <1>22
<1> QED
  BY <1>1, <1>11, <1>14, <1>15, <1>17, <1>18, <1>19, <1>20 DEF Delivered

LEMMA FillDeliverTyped ==
    ASSUME TypeInv, NEW s \in Streams, NEW b \in Buffers
    PROVE  Fill(s, b) \in Buffers /\ Deliver(b) \in Buffers
<1>1. b.tell \in Int /\ b.next \in Int /\ b.block \in Int
  BY DEF Buffers
<1>2. b.out \in Seq(Int)
  BY DEF Buffers
<1>3. start[s] \in Nat /\ BufferSize \in Nat \ {0}
  BY FileTypes
<1>4. Fill(s, b) \in Buffers
  <2>1. PICK x : x = start[s] + b.tell
    OBVIOUS
  <2>2. PICK y : y = b.tell + BufferSize
    OBVIOUS
  <2>3. x \in Int /\ y \in Int
    BY <1>1, <1>3, <2>1, <2>2
  <2>4. CASE Short(s, b)
    BY <2>4 DEF Fill, Buffers
  <2>5. CASE ~Short(s, b)
    <3>1. PICK z \in Int : z = 0
      OBVIOUS
    <3>2. Fill(s, b) = [b EXCEPT !.block = x, !.tell = y, !.next = z]
      BY <2>1, <2>2, <2>5, <3>1 DEF Fill
    <3> QED
      BY <2>3, <3>2 DEF Buffers
  <2> QED
    BY <2>4, <2>5
<1>5. Deliver(b) \in Buffers
  <2>1. PICK x : x = b.block + b.next
    OBVIOUS
  <2>2. PICK y : y = b.next + 1
    OBVIOUS
  <2>3. PICK o : o = Append(b.out, x)
    OBVIOUS
  <2>4. x \in Int /\ y \in Int
    BY <1>1, <2>1, <2>2
  <2>5. o \in Seq(Int)
    BY <1>2, <2>3, <2>4
  <2>6. Deliver(b) = [b EXCEPT !.out = o, !.next = y]
    BY <2>1, <2>2, <2>3 DEF Deliver
  <2> QED
    BY <2>4, <2>5, <2>6 DEF Buffers
<1> QED
  BY <1>4, <1>5

LEMMA InputTyped ==
    ASSUME TypeInv, NEW s \in Streams, NEW b \in Buffers
    PROVE  Input(s, b) \in Buffers
<1>1. Fill(s, b) \in Buffers
  BY FillDeliverTyped
<1>2. Deliver(b) \in Buffers /\ Deliver(Fill(s, b)) \in Buffers
  BY <1>1, FillDeliverTyped
<1> QED
  BY <1>1, <1>2 DEF Input

LEMMA FillIn ==
    ASSUME TypeInv, NEW s \in Streams, NEW b \in Buffers, NEW place \in Nat,
           NEW length \in Int, NEW k \in Nat,
           Delivered(s, b, place, length, k), b.next = BufferSize
    PROVE  /\ Short(s, b) => Starved(s, Fill(s, b), place, k)
           /\ ~Short(s, b) =>
                 Delivered(s, Fill(s, b), place, length, k) /\ Fill(s, b).next < BufferSize
<1>1. start[s] \in Nat /\ Items[s] \in Nat /\ BufferSize \in Nat \ {0}
  BY FileTypes
<1>2. b.tell \in Nat /\ b.tell = place + k
  <2>1. b.tell \in Nat /\ b.tell + b.next - BufferSize = place + k
    BY DEF Delivered, Place
  <2> QED
    BY <1>1, <2>1
<1>3. CASE Short(s, b)
  <2>1. Fill(s, b) = [b EXCEPT !.failed = TRUE]
    BY <1>3 DEF Fill
  <2>2. Fill(s, b).failed
    BY <2>1 DEF Buffers
  <2>3. ~present[s] \/ b.tell + BufferSize > Items[s] - start[s]
    BY <1>3 DEF Short
  <2>4. b.tell + BufferSize > Items[s] - start[s] =>
            Items[s] < start[s] + place + k + BufferSize
    BY <1>1, <1>2
  <2> QED
    BY <1>3, <2>2, <2>3, <2>4 DEF Starved
<1>4. CASE ~Short(s, b)
  <2>1. PICK x : x = start[s] + b.tell
    OBVIOUS
  <2>2. PICK y : y = b.tell + BufferSize
    OBVIOUS
  <2>3. PICK c : c = Fill(s, b)
    OBVIOUS
  <2>4. c = [b EXCEPT !.block = x, !.tell = y, !.next = 0]
    BY <1>4, <2>1, <2>2, <2>3 DEF Fill
  <2>5. c.block = x /\ c.tell = y /\ c.next = 0
    BY <2>4 DEF Buffers
  <2>6. c.failed = b.failed /\ c.up = b.up /\ c.length = b.length /\ c.out = b.out
    BY <2>4 DEF Buffers
  <2>7. present[s] /\ b.tell + BufferSize <= Items[s] - start[s]
    BY <1>1, <1>2, <1>4 DEF Short
  <2>8. /\ 0 \in 0 .. BufferSize /\ 0 < BufferSize /\ y \in Nat /\ y >= BufferSize
        /\ x = start[s] + y - BufferSize /\ start[s] + y <= Items[s]
    BY <1>1, <1>2, <2>1, <2>2, <2>7
  <2>9. Place(c) = place + k
    <3>1. y + 0 - BufferSize = place + k
      BY <1>1, <1>2, <2>2
    <3> QED
      BY <2>5, <3>1 DEF Place
  <2>10. /\ ~b.failed /\ b.up /\ b.length = length
         /\ b.out = [i \in 1 .. k |-> start[s] + place + i - 1]
         /\ k > 0 => present[s] /\ start[s] + place + k <= Items[s]
    BY DEF Delivered
  <2> QED
    BY <1>4, <2>3, <2>5, <2>6, <2>7, <2>8, <2>9, <2>10 DEF Delivered
<1> QED
  BY <1>3, <1>4

LEMMA InputIn ==
    ASSUME TypeInv, NEW s \in Streams, NEW b \in Buffers, NEW place \in Nat,
           NEW length \in Int, NEW k \in Nat,
           Delivered(s, b, place, length, k) \/ Starved(s, b, place, k)
    PROVE  Delivered(s, Input(s, b), place, length, k + 1) \/ Starved(s, Input(s, b), place, k + 1)
<1>1. start[s] \in Nat /\ Items[s] \in Nat /\ BufferSize \in Nat \ {0}
  BY FileTypes
<1>2. \A c : Starved(s, c, place, k) => Starved(s, c, place, k + 1)
  <2>1. Items[s] < start[s] + place + k + BufferSize =>
            Items[s] < start[s] + place + (k + 1) + BufferSize
    BY <1>1
  <2> QED
    BY <2>1 DEF Starved
<1>3. CASE b.failed
  <2>1. Input(s, b) = b
    BY <1>3 DEF Input
  <2>2. Starved(s, b, place, k)
    BY <1>3 DEF Delivered
  <2> QED
    BY <1>2, <2>1, <2>2
<1>4. CASE ~b.failed /\ b.next # BufferSize
  <2>1. Input(s, b) = Deliver(b)
    BY <1>4 DEF Input
  <2>2. Delivered(s, b, place, length, k)
    BY <1>4 DEF Starved
  <2>3. b.next < BufferSize
    BY <1>1, <1>4, <2>2 DEF Delivered
  <2> QED
    BY <2>1, <2>2, <2>3, DeliverIn
<1>5. CASE ~b.failed /\ b.next = BufferSize
  <2>1. Delivered(s, b, place, length, k)
    BY <1>5 DEF Starved
  <2>2. CASE Short(s, b)
    <3>1. Input(s, b) = Fill(s, b)
      BY <1>5, <2>2 DEF Input
    <3> QED
      BY <1>2, <1>5, <2>1, <2>2, <3>1, FillIn
  <2>3. CASE ~Short(s, b)
    <3>1. Input(s, b) = Deliver(Fill(s, b))
      BY <1>5, <2>3 DEF Input
    <3>2. Delivered(s, Fill(s, b), place, length, k) /\ Fill(s, b).next < BufferSize
      BY <1>5, <2>1, <2>3, FillIn
    <3>3. Fill(s, b) \in Buffers
      BY FillDeliverTyped
    <3> QED
      BY <3>1, <3>2, <3>3, DeliverIn
  <2> QED
    BY <2>2, <2>3
<1> QED
  BY <1>3, <1>4, <1>5

LEMMA InputsIn ==
    ASSUME TypeInv, NEW s \in Streams, NEW b \in Buffers, NEW place \in Nat,
           NEW length \in Int, NEW n \in Nat, b.out = <<>>,
           Delivered(s, b, place, length, 0)
    PROVE  /\ Inputs(s, b, n) \in Buffers
           /\ \/ Delivered(s, Inputs(s, b, n), place, length, n)
              \/ Starved(s, Inputs(s, b, n), place, n)
<1> DEFINE first == [b EXCEPT !.out = <<>>]
           step == [k \in 1 .. n |-> [x \in Buffers |-> Input(s, x)]]
           IsRun(f) == f = [k \in 0 .. n |-> IF k = 0 THEN first ELSE Input(s, f[k - 1])]
<1>1. first = b
  BY DEF Buffers
<1>2. step \in [1 .. n -> [Buffers -> Buffers]]
  BY InputTyped
<1>3. ASSUME NEW f \in [0 .. n -> Buffers], Follows(f, n, first, step) PROVE IsRun(f)
  <2>1. \A k \in 0 .. n : f[k] = IF k = 0 THEN first ELSE step[k][f[k - 1]]
    BY <1>3 DEF Follows
  <2>2. \A k \in 1 .. n : k - 1 \in 0 .. n
    OBVIOUS
  <2>3. \A k \in 1 .. n : step[k][f[k - 1]] = Input(s, f[k - 1])
    BY <2>2
  <2>4. \A k \in 0 .. n : f[k] = IF k = 0 THEN first ELSE Input(s, f[k - 1])
    <3>1. \A k \in 0 .. n : k = 0 \/ k \in 1 .. n
      OBVIOUS
    <3> QED
      BY <2>1, <2>3, <3>1
  <2>5. f = [k \in 0 .. n |-> f[k]]
    OBVIOUS
  <2> QED
    BY <2>4, <2>5
<1> HIDE DEF step
<1>4. PICK f \in [0 .. n -> Buffers] : Follows(f, n, first, step)
  BY <1>1, <1>2, RecursionExists
<1>5. IsRun(f)
  BY <1>3, <1>4
<1> DEFINE g == CHOOSE h : IsRun(h)
<1>6. IsRun(g)
  BY <1>5
<1>7. Inputs(s, b, n) = g[n]
  BY DEF Inputs
<1> HIDE DEF g
<1>8. \A k \in 0 .. n : g[k] = IF k = 0 THEN b ELSE Input(s, g[k - 1])
  BY <1>1, <1>6
<1> DEFINE N == {k \in Nat : k <= n =>
                    /\ g[k] \in Buffers
                    /\ Delivered(s, g[k], place, length, k) \/ Starved(s, g[k], place, k)}
<1>9. 0 \in N
  BY <1>8
<1>10. ASSUME NEW k \in Nat, k \in N PROVE k + 1 \in N
  <2>1. CASE k + 1 > n
    BY <2>1
  <2>2. CASE k + 1 <= n
    <3>1. g[k + 1] = Input(s, g[k])
      <4>1. k + 1 \in 0 .. n /\ k + 1 # 0 /\ (k + 1) - 1 = k
        BY <2>2
      <4> QED
        BY <1>8, <4>1
    <3>2. /\ g[k] \in Buffers
          /\ Delivered(s, g[k], place, length, k) \/ Starved(s, g[k], place, k)
      BY <1>10, <2>2
    <3> QED
      BY <3>1, <3>2, InputIn, InputTyped
  <2> QED
    BY <2>1, <2>2
<1> HIDE DEF N
<1>11. n \in N
  BY <1>9, <1>10, Induction
<1> QED
  BY <1>7, <1>11 DEF N

(* What a call reads: v tuples of n items from the j-th on.                 *)
LEMMA ReadIn ==
    ASSUME TypeInv, NEW s \in Streams, NEW b \in Buffers, NEW j \in Nat, NEW n \in Nat,
           b.up, BufferIn(s, b, j, n, present[s], start[s]), NEW v \in Nat,
           NEW c, c = Inputs(s, b, n * v), NEW d, d = [c EXCEPT !.out = <<>>]
    PROVE  /\ d \in Buffers /\ c \in Buffers
           /\ c.failed => ~present[s] \/ Items[s] < start[s] + (j + v) * n + BufferSize
           /\ ~c.failed =>
                /\ DOMAIN c.out = 1 .. n * v
                /\ \A i \in 1 .. n * v : c.out[i] = start[s] + j * n + i - 1
                /\ n * v > 0 => present[s] /\ start[s] + (j + v) * n <= Items[s]
                /\ BufferIn(s, d, j + v, n, present[s], start[s])
<1>1. PICK place : place = j * n
  OBVIOUS
<1>2. PICK m : m = n * v
  OBVIOUS
<1>3. c = Inputs(s, b, m)
  BY <1>2
<1>4. place \in Nat /\ m \in Nat /\ (j + v) * n = place + m
  <2>1. (j + v) * n = j * n + v * n
    BY Successor
  <2>2. j * n \in Nat /\ n * v \in Nat /\ v * n = n * v
    OBVIOUS
  <2> QED
    BY <1>1, <1>2, <2>1, <2>2
<1>5. start[s] \in Nat /\ Items[s] \in Nat /\ BufferSize \in Nat \ {0}
  BY FileTypes
<1>6. b.length \in {0, n} /\ b.length \in Int /\ (s \in Kinds => b.length = n)
  BY DEF BufferIn
<1>7. b.out = <<>> /\ Delivered(s, b, place, b.length, 0)
  <2>1. b.out = [i \in 1 .. 0 |-> start[s] + place + i - 1]
    BY DEF BufferIn
  <2>2. Place(b) = place + 0
    BY <1>1, <1>4 DEF BufferIn
  <2> QED
    BY <2>1, <2>2 DEF BufferIn, Delivered
<1>8. /\ c \in Buffers
      /\ Delivered(s, c, place, b.length, m) \/ Starved(s, c, place, m)
  BY <1>3, <1>4, <1>6, <1>7, InputsIn
<1>9. d = [c EXCEPT !.out = <<>>]
  OBVIOUS
<1>10. d \in Buffers /\ d.out = <<>>
  <2>1. <<>> \in Seq(Int)
    OBVIOUS
  <2> QED
    BY <1>8, <1>9, <2>1 DEF Buffers
<1>11. /\ d.failed = c.failed /\ d.up = c.up /\ d.length = c.length /\ d.next = c.next
       /\ d.tell = c.tell /\ d.block = c.block
  BY <1>8, <1>9 DEF Buffers
<1>12. c.failed => ~present[s] \/ Items[s] < start[s] + (j + v) * n + BufferSize
  <2>1. c.failed => ~present[s] \/ Items[s] < start[s] + place + m + BufferSize
    BY <1>8 DEF Delivered, Starved
  <2>2. Items[s] < start[s] + place + m + BufferSize =>
           Items[s] < start[s] + (place + m) + BufferSize
    BY <1>4, <1>5
  <2> QED
    BY <1>4, <2>1, <2>2
<1>13. ASSUME ~c.failed
       PROVE  /\ DOMAIN c.out = 1 .. m
              /\ \A i \in 1 .. m : c.out[i] = start[s] + place + i - 1
              /\ m > 0 => present[s] /\ start[s] + (j + v) * n <= Items[s]
              /\ BufferIn(s, d, j + v, n, present[s], start[s])
  <2>1. Delivered(s, c, place, b.length, m)
    BY <1>8, <1>13 DEF Starved
  <2>2. m > 0 => present[s] /\ start[s] + (j + v) * n <= Items[s]
    <3>1. m > 0 => present[s] /\ start[s] + place + m <= Items[s]
      BY <2>1 DEF Delivered
    <3>2. start[s] + place + m <= Items[s] => start[s] + (place + m) <= Items[s]
      BY <1>4, <1>5
    <3> QED
      BY <1>4, <3>1, <3>2
  <2>3. Place(d) = (j + v) * n
    <3>1. Place(d) = Place(c) /\ Place(c) = place + m
      BY <1>11, <2>1 DEF Place, Delivered
    <3> QED
      BY <1>4, <3>1
  <2>4. BufferIn(s, d, j + v, n, present[s], start[s])
    BY <1>6, <1>10, <1>11, <2>1, <2>3 DEF Delivered, BufferIn
  <2>5. /\ DOMAIN c.out = 1 .. m
        /\ \A i \in 1 .. m : c.out[i] = start[s] + place + i - 1
    <3>1. c.out = [i \in 1 .. m |-> start[s] + place + i - 1]
      BY <2>1 DEF Delivered
    <3> QED
      BY <3>1
  <2> QED
    BY <2>2, <2>4, <2>5
<1> QED
  BY <1>1, <1>2, <1>3, <1>8, <1>9, <1>10, <1>12, <1>13

(* The buffer of a tag that gets its length.                               *)
LEMMA NewLengthIn ==
    ASSUME NEW s \in Tags, NEW b, NEW j \in Nat, NEW n \in Nat, NEW here, NEW from,
           BufferIn(s, b, j, 0, here, from)
    PROVE  BufferIn(s, b, 0, n, here, from)
<1>1. j * 0 = 0 /\ 0 * n = 0
  OBVIOUS
<1>2. s \notin Kinds
  BY StreamsAssumption
<1> QED
  BY <1>1, <1>2 DEF BufferIn

-----------------------------------------------------------------------------
(* Positions.                                                              *)

LEMMA PositionFits ==
    ASSUME PositionsFit, TypeInv, ReachOK, NEW s \in Streams, NEW x \in Nat,
           x <= pos[s] \/ \E t \in Threads : x <= usage[t][s] + budget[t][s],
           NEW n \in Sizes[s]
    PROVE  x * n < IntModulus \div 2
<1>1. n \in Nat
  BY SizesAssumption
<1>2. pos[s] \in Nat /\ tapes \in Nat /\ tapes <= MaxTapes /\ MaxTapes \in Nat
  BY BoundsAssumption DEF TypeInv
<1>3. \A t \in Threads : usage[t][s] \in Nat /\ budget[t][s] \in Nat
  BY DEF TypeInv
<1>4. CASE Nothing(s)
  <2>1. x = 0
    BY <1>2, <1>3, <1>4 DEF Nothing
  <2>2. 0 * n = 0 /\ 0 < IntModulus \div 2
    BY <1>1, BoundsAssumption
  <2> QED
    BY <2>1, <2>2
<1>5. CASE \E need \in Needs : Reach(s, need)
  <2>1. PICK need \in Needs : Reach(s, need)
    BY <1>5
  <2>2. PICK m : m = need[s]
    OBVIOUS
  <2>3. m \in Nat
    BY <2>2, BoundsAssumption
  <2>4. PICK y : y = tapes * m
    OBVIOUS
  <2>5. PICK z : z = MaxTapes * m
    OBVIOUS
  <2>6. y \in Nat /\ z \in Nat /\ y <= z
    BY <1>2, <2>3, <2>4, <2>5, TimesMonotonic
  <2>7. x <= y
    BY <1>2, <1>3, <2>1, <2>2, <2>4, <2>6 DEF Reach
  <2>8. x * n <= z * n /\ x * n \in Int /\ z * n \in Int
    BY <1>1, <2>6, <2>7, TimesMonotonic
  <2>9. z * n < IntModulus \div 2
    BY <2>2, <2>5 DEF PositionsFit
  <2>10. IntModulus \div 2 \in Int
    BY BoundsAssumption
  <2> QED
    BY <2>8, <2>9, <2>10
<1> QED
  BY <1>4, <1>5 DEF ReachOK

-----------------------------------------------------------------------------
(* What steps have in common.                                              *)

LEMMA SeekToIn ==
    ASSUME TypeInv, BuffersOK, NEW t \in Threads, process = "running", ~threw[t],
           NEW p \in [Streams -> Nat], AllFit(p), \A s \in Streams : usage[t][s] <= p[s],
           SeekTo(t, p)
    PROVE  /\ buf' \in [Threads -> [Streams -> Buffers]]
           /\ usage' \in [Threads -> [Streams -> Nat]]
           /\ threw' \in [Threads -> BOOLEAN]
           /\ \A u \in Threads \ {t} :
                 buf'[u] = buf[u] /\ usage'[u] = usage[u] /\ threw'[u] = threw[u]
           /\ threw'[t] => usage' = usage /\ \E s \in Kinds : ~present[s]
           /\ ~threw'[t] => usage'[t] = p /\ \A bs \in {buf'[t]} : AllIn(bs, p)
<1>1. PICK bs : bs = SeekAll(buf[t], p)
  OBVIOUS
<1>2. buf[t] \in [Streams -> Buffers] /\ usage[t] \in [Streams -> Nat]
  BY DEF TypeInv
<1>3. \A s \in Streams : \E i \in 0 .. p[s] :
          BufferIn(s, buf[t][s], i, Length(s), present[s], start[s])
  <2>1. ASSUME NEW s \in Streams
        PROVE  \E i \in 0 .. p[s] : BufferIn(s, buf[t][s], i, Length(s), present[s], start[s])
    <3>1. PICK i \in 0 .. usage[t][s] :
              BufferIn(s, buf[t][s], i, Length(s), present[s], start[s])
      BY DEF BuffersOK
    <3>2. i \in 0 .. p[s]
      <4>1. usage[t][s] \in Nat /\ p[s] \in Nat /\ usage[t][s] <= p[s]
        BY <1>2
      <4> QED
        BY <4>1
    <3> QED
      BY <3>1, <3>2
  <2> QED
    BY <2>1
<1>4. /\ bs \in [Streams -> Buffers]
      /\ Fails(bs) => \E s \in Kinds : ~present[s]
      /\ ~Fails(bs) => AllIn(bs, p)
  BY <1>1, <1>2, <1>3, SeekAllIn
<1>5. /\ buf' = [buf EXCEPT ![t] = bs]
      /\ threw' = [threw EXCEPT ![t] = Fails(bs)]
      /\ usage' = IF Fails(bs) THEN usage ELSE [usage EXCEPT ![t] = p]
  BY <1>1 DEF SeekTo
<1>6. Fails(bs) \in BOOLEAN
  BY DEF Fails
<1>7. buf' \in [Threads -> [Streams -> Buffers]] /\ buf'[t] = bs
  BY <1>4, <1>5 DEF TypeInv
<1>8. threw' \in [Threads -> BOOLEAN] /\ (threw'[t] <=> Fails(bs))
  BY <1>5, <1>6 DEF TypeInv
<1>9. usage' \in [Threads -> [Streams -> Nat]] /\ (~Fails(bs) => usage'[t] = p)
  BY <1>5 DEF TypeInv
<1>10. \A u \in Threads \ {t} :
          buf'[u] = buf[u] /\ usage'[u] = usage[u] /\ threw'[u] = threw[u]
  BY <1>5 DEF TypeInv
<1> QED
  BY <1>4, <1>5, <1>7, <1>8, <1>9, <1>10

LEMMA BuffersSought ==
    ASSUME TypeInv, BuffersOK, NEW t \in Threads, NEW p \in [Streams -> Nat],
           process = "running", UNCHANGED <<files, lengths>>,
           \A u \in Threads \ {t} :
               buf'[u] = buf[u] /\ usage'[u] = usage[u] /\ threw'[u] = threw[u],
           ~threw'[t] => usage'[t] = p /\ \A bs \in {buf'[t]} : AllIn(bs, p)
    PROVE  BuffersOK'
<1>1. present' = present /\ start' = start /\ lengths' = lengths
  BY DEF files
<1>2. ASSUME NEW u \in Threads, ~threw'[u], NEW s \in Streams
      PROVE  \E j \in 0 .. usage'[u][s] :
                /\ s \in Kinds => j = usage'[u][s]
                /\ BufferIn(s, buf'[u][s], j, Length(s)', present'[s], start'[s])
  <2>1. Length(s)' = Length(s)
    BY <1>1 DEF Length
  <2>2. CASE u = t
    <3>1. PICK bs : bs = buf'[t]
      OBVIOUS
    <3>2. usage'[t] = p /\ AllIn(bs, p)
      BY <1>2, <2>2, <3>1
    <3> QED
      BY <1>1, <2>1, <2>2, <3>1, <3>2 DEF AllIn
  <2>3. CASE u # t
    <3>1. u \in Threads \ {t}
      BY <2>3
    <3>2. buf'[u] = buf[u] /\ usage'[u] = usage[u] /\ ~threw[u]
      BY <1>2, <3>1
    <3> QED
      BY <1>1, <2>1, <3>2 DEF BuffersOK
  <2> QED
    BY <2>2, <2>3
<1> QED
  BY <1>2 DEF BuffersOK

(* A thread uses, or skips, some of its tuples.                            *)
LEMMA TapeAdvances ==
    ASSUME TypeInv, UnknownAlone, ThrownStay, NeedsExist, Windows, Apart, ReachOK,
           NEW t \in Threads, Running(t),
           UNCHANGED <<mode, pos, tapes>>,
           usage' \in [Threads -> [Streams -> Nat]],
           budget' \in [Threads -> [Streams -> Nat]],
           \A u \in Threads \ {t} :
               usage'[u] = usage[u] /\ budget'[u] = budget[u] /\ threw'[u] = threw[u],
           \A s \in Streams :
               /\ usage[t][s] <= usage'[t][s]
               /\ usage'[t][s] + budget'[t][s] <= usage[t][s] + budget[t][s]
    PROVE  UnknownAlone' /\ ThrownStay' /\ NeedsExist' /\ Windows' /\ Apart' /\ ReachOK'
<1>1. mode[t] # "idle" /\ ~threw[t]
  BY DEF Running
<1>2. UnknownAlone' /\ NeedsExist'
  BY DEF UnknownAlone, NeedsExist
<1>3. ThrownStay'
  BY <1>1 DEF ThrownStay
<1>4. \A u \in Threads, s \in Streams :
          /\ usage[u][s] \in Nat /\ budget[u][s] \in Nat /\ pos[s] \in Nat
          /\ usage'[u][s] \in Nat /\ budget'[u][s] \in Nat
  BY DEF TypeInv
<1>5. \A u \in Threads, s \in Streams :
          /\ usage[u][s] <= usage'[u][s]
          /\ usage'[u][s] + budget'[u][s] <= usage[u][s] + budget[u][s]
  <2>1. ASSUME NEW u \in Threads, NEW s \in Streams
        PROVE  /\ usage[u][s] <= usage'[u][s]
               /\ usage'[u][s] + budget'[u][s] <= usage[u][s] + budget[u][s]
    <3>1. CASE u = t
      BY <3>1
    <3>2. CASE u # t
      <4>1. usage'[u] = usage[u] /\ budget'[u] = budget[u]
        BY <3>2
      <4>2. usage[u][s] + budget[u][s] \in Nat
        BY <1>4
      <4> QED
        BY <1>4, <4>1, <4>2
    <3> QED
      BY <3>1, <3>2
  <2> QED
    BY <2>1
<1>6. \A u \in Threads : threw[u] => threw'[u]
  <2>1. \A u \in Threads \ {t} : threw'[u] = threw[u]
    OBVIOUS
  <2> QED
    BY <1>1, <2>1
<1>7. Windows'
  <2>1. ASSUME NEW u \in Threads, ~threw'[u]
        PROVE  /\ mode'[u] = "idle" => \A s \in Streams : usage'[u][s] <= pos'[s]
               /\ mode'[u] = "known" => \A s \in Streams : usage'[u][s] + budget'[u][s] <= pos'[s]
               /\ mode'[u] = "unknown" =>
                    /\ \A s \in Streams : pos'[s] <= usage'[u][s]
                    /\ \E need \in Needs : \A s \in Streams :
                          usage'[u][s] + budget'[u][s] <= pos'[s] + need[s]
    <3>1. ~threw[u] /\ mode'[u] = mode[u] /\ pos' = pos
      BY <1>6, <2>1
    <3>2. mode'[u] = "idle" => \A s \in Streams : usage'[u][s] <= pos'[s]
      <4>1. mode'[u] = "idle" => u \in Threads \ {t} /\ \A s \in Streams : usage[u][s] <= pos[s]
        BY <1>1, <3>1 DEF Windows
      <4> QED
        BY <3>1, <4>1
    <3>3. mode'[u] = "known" => \A s \in Streams : usage'[u][s] + budget'[u][s] <= pos'[s]
      <4>1. mode'[u] = "known" => \A s \in Streams : usage[u][s] + budget[u][s] <= pos[s]
        BY <3>1 DEF Windows
      <4> QED
        BY <1>4, <1>5, <3>1, <4>1
    <3>4. mode'[u] = "unknown" => \A s \in Streams : pos'[s] <= usage'[u][s]
      <4>1. mode'[u] = "unknown" => \A s \in Streams : pos[s] <= usage[u][s]
        BY <3>1 DEF Windows
      <4> QED
        BY <1>4, <1>5, <3>1, <4>1
    <3>5. mode'[u] = "unknown" => \E need \in Needs : \A s \in Streams :
                usage'[u][s] + budget'[u][s] <= pos'[s] + need[s]
      <4> SUFFICES ASSUME mode'[u] = "unknown"
                   PROVE  \E need \in Needs : \A s \in Streams :
                              usage'[u][s] + budget'[u][s] <= pos'[s] + need[s]
        OBVIOUS
      <4>1. PICK need \in Needs :
                \A s \in Streams : usage[u][s] + budget[u][s] <= pos[s] + need[s]
        BY <3>1 DEF Windows
      <4>2. \A s \in Streams : need[s] \in Nat
        BY BoundsAssumption
      <4> QED
        BY <1>4, <1>5, <3>1, <4>1, <4>2
    <3> QED
      BY <3>2, <3>3, <3>4, <3>5
  <2> QED
    BY <2>1 DEF Windows
<1>8. Apart'
  <2>1. ASSUME NEW u \in Threads, NEW w \in Threads, u # w, Active(u)', Active(w)',
               NEW s \in Kinds
        PROVE  \/ usage'[u][s] + budget'[u][s] <= usage'[w][s]
               \/ usage'[w][s] + budget'[w][s] <= usage'[u][s]
    <3>1. Active(u) /\ Active(w) /\ s \in Streams
      BY <1>6, <2>1 DEF Active, Streams
    <3>2. \/ usage[u][s] + budget[u][s] <= usage[w][s]
          \/ usage[w][s] + budget[w][s] <= usage[u][s]
      BY <2>1, <3>1 DEF Apart
    <3> QED
      BY <1>4, <1>5, <3>1, <3>2
  <2> QED
    BY <2>1 DEF Apart
<1>9. ReachOK'
  <2>1. ASSUME NEW s \in Streams
        PROVE  Nothing(s)' \/ \E need \in Needs : Reach(s, need)'
    <3>1. CASE Nothing(s)
      <4>1. \A u \in Threads : usage[u][s] + budget[u][s] = 0
        BY <3>1 DEF Nothing
      <4>2. ASSUME NEW u \in Threads PROVE usage'[u][s] + budget'[u][s] = 0
        <5>1. usage'[u][s] + budget'[u][s] <= 0
          BY <1>5, <4>1
        <5>2. usage'[u][s] \in Nat /\ budget'[u][s] \in Nat
          BY <1>4
        <5> QED
          BY <5>1, <5>2, ZeroSum
      <4> QED
        BY <3>1, <4>2 DEF Nothing
    <3>2. CASE \E need \in Needs : Reach(s, need)
      <4>1. PICK need \in Needs : Reach(s, need)
        BY <3>2
      <4>2. PICK y : y = tapes * need[s]
        OBVIOUS
      <4>3. need[s] \in Nat /\ tapes \in Nat
        BY BoundsAssumption DEF TypeInv
      <4>4. y \in Int
        BY <4>2, <4>3
      <4>5. pos[s] <= y /\ \A u \in Threads : usage[u][s] + budget[u][s] <= y
        BY <4>1, <4>2 DEF Reach
      <4>6. \A u \in Threads : usage'[u][s] + budget'[u][s] <= y
        BY <1>4, <1>5, <4>4, <4>5
      <4> QED
        BY <4>2, <4>5, <4>6 DEF Reach
    <3> QED
      BY <3>1, <3>2 DEF ReachOK
  <2> QED
    BY <2>1 DEF ReachOK
<1> QED
  BY <1>2, <1>3, <1>7, <1>8, <1>9

(* A file that is missing, or has less than a buffer beyond what was given. *)
DataShort ==
    \E s \in Streams : \E n \in Sizes[s], need \in Needs :
        ~present[s] \/ Items[s] < (given[s] + need[s]) * n + BufferSize

LEMMA MissingIsShort ==
    ASSUME Needs # {}, NEW s \in Kinds, ~present[s]
    PROVE  DataShort
<1>1. PICK need \in Needs : TRUE
  OBVIOUS
<1>2. TupleSize(s) \in Sizes[s] /\ s \in Streams
  BY TupleSizes DEF Streams
<1> QED
  BY <1>1, <1>2 DEF DataShort

LEMMA ShortStays ==
    ASSUME TypeInv, DataShort, given' \in [Streams -> Nat],
           \A s \in Streams : given[s] <= given'[s] /\ (present'[s] => present[s])
    PROVE  DataShort'
<1>0. PICK s \in Streams : \E n \in Sizes[s], need \in Needs :
          ~present[s] \/ Items[s] < (given[s] + need[s]) * n + BufferSize
  BY DEF DataShort
<1>1. PICK n \in Sizes[s], need \in Needs :
          ~present[s] \/ Items[s] < (given[s] + need[s]) * n + BufferSize
  BY <1>0
<1>2. n \in Nat /\ need[s] \in Nat /\ given[s] \in Nat /\ given'[s] \in Nat
  BY SizesAssumption, BoundsAssumption DEF TypeInv
<1>3. PICK a : a = given[s] + need[s]
  OBVIOUS
<1>4. PICK b : b = given'[s] + need[s]
  OBVIOUS
<1>5. a \in Nat /\ b \in Nat /\ a <= b
  BY <1>2, <1>3, <1>4
<1>6. PICK x : x = a * n
  OBVIOUS
<1>7. PICK y : y = b * n
  OBVIOUS
<1>8. x <= y /\ x \in Int /\ y \in Int
  BY <1>2, <1>5, <1>6, <1>7, TimesMonotonic
<1>9. Items[s] < x + BufferSize => Items[s] < y + BufferSize
  BY <1>8, ItemsAssumption, BoundsAssumption
<1>10. ~present'[s] \/ Items[s] < (given'[s] + need[s]) * n + BufferSize
  BY <1>1, <1>3, <1>4, <1>6, <1>7, <1>9
<1> QED
  BY <1>10 DEF DataShort

(* More is used than what is cut off and what is still to be used.          *)
LEMMA BeyondIsShort ==
    ASSUME TypeInv, CutOK, process = "running", NEW s \in Streams, NEW n \in Sizes[s],
           NEW need \in Needs, NEW x \in Nat, x <= pos[s] + need[s],
           Items[s] < start[s] + x * n + BufferSize
    PROVE  DataShort
<1>1. n \in Nat /\ need[s] \in Nat /\ \A m \in Sizes[s] : m \in Nat
  BY SizesAssumption, BoundsAssumption
<1>2. given[s] \in Nat /\ pos[s] \in Nat /\ pos[s] <= given[s]
  BY DEF TypeInv, CutOK
<1>3. start[s] \in Nat /\ Items[s] \in Nat /\ BufferSize \in Nat
  BY FileTypes
<1>4. PICK g : g = given[s] - pos[s]
  OBVIOUS
<1>5. PICK p : p = pos[s] + need[s]
  OBVIOUS
<1>6. g \in Nat /\ p \in Nat /\ g + p = given[s] + need[s] /\ x <= p
  BY <1>1, <1>2, <1>4, <1>5
<1>7. Cut(s, start[s], g)
  BY <1>4 DEF CutOK
<1>8. \E m \in Sizes[s] : n <= m /\ start[s] <= g * m
  <2>1. CASE start[s] = 0
    <3>1. g * n \in Nat
      BY <1>1, <1>6
    <3> QED
      BY <1>1, <2>1, <3>1
  <2>2. CASE \E m \in Sizes[s] : start[s] <= g * m
    <3>1. PICK m \in Sizes[s] : start[s] <= g * m
      BY <2>2
    <3>2. CASE n <= m
      BY <3>1, <3>2
    <3>3. CASE m <= n
      <4>1. g * m <= g * n /\ g * m \in Int /\ g * n \in Int
        BY <1>1, <1>6, <3>3, TimesBothMonotonic
      <4> QED
        BY <1>1, <1>3, <3>1, <4>1
    <3> QED
      BY <1>1, <3>2, <3>3
  <2> QED
    BY <1>7, <2>1, <2>2 DEF Cut
<1>9. PICK m \in Sizes[s] : n <= m /\ start[s] <= g * m
  BY <1>8
<1>10. x * n <= p * m
  BY <1>1, <1>6, <1>9, TimesBothMonotonic
<1>11. (g + p) * m = g * m + p * m /\ g * m \in Int /\ p * m \in Int /\ x * n \in Int
  <2>1. m \in Int /\ n \in Int /\ g \in Int /\ p \in Int /\ x \in Int
    BY <1>1, <1>6
  <2> QED
    BY <2>1, Successor
<1>12. Items[s] < (g + p) * m + BufferSize
  BY <1>3, <1>9, <1>10, <1>11
<1> QED
  BY <1>6, <1>12 DEF DataShort

LEMMA WholeTuple ==
    ASSUME NEW n \in Nat \ {0}, NEW x \in Nat, NEW y \in Nat, x = y * n,
           NEW g \in [1 .. n -> Int], \A k \in 1 .. n : g[k] = x + k - 1
    PROVE  g \in Seq(Int) /\ g[1] % Len(g) = 0 /\ \A k \in DOMAIN g : g[k] = g[1] + k - 1
<1>1. g \in Seq(Int) /\ Len(g) = n /\ DOMAIN g = 1 .. n
  OBVIOUS
<1>2. 1 \in 1 .. n /\ x + 1 - 1 = x
  OBVIOUS
<1>3. g[1] = x
  BY <1>2
<1>4. g[1] % Len(g) = 0
  <2>1. (y * n) % n = 0
    BY MultipleModulo
  <2>2. x % n = 0
    BY <2>1
  <2> QED
    BY <1>1, <1>3, <2>2
<1>5. \A k \in DOMAIN g : g[k] = g[1] + k - 1
  BY <1>1, <1>3
<1> QED
  BY <1>1, <1>4, <1>5

LEMMA AtMonotonic ==
    ASSUME NEW s \in Kinds, NEW from \in Int
    PROVE  /\ \A a \in Int : At(s, from, a) \in Int
           /\ \A a, b \in Int : a <= b => At(s, from, a) <= At(s, from, b)
<1>1. PICK n : n = TupleSize(s)
  OBVIOUS
<1>2. n \in Nat
  BY <1>1, TupleSizes
<1>3. ASSUME NEW a \in Int PROVE At(s, from, a) \in Int
  <2>1. a * n \in Int
    BY <1>2
  <2> QED
    BY <1>1, <2>1 DEF At
<1>4. ASSUME NEW a \in Int, NEW b \in Int, a <= b PROVE At(s, from, a) <= At(s, from, b)
  <2>1. a * n <= b * n /\ a * n \in Int /\ b * n \in Int
    BY <1>2, <1>4, TimesMonotonic
  <2>2. from + a * n <= from + b * n
    BY <2>1
  <2> QED
    BY <1>1, <2>2 DEF At
<1> QED
  BY <1>3, <1>4

-----------------------------------------------------------------------------
(* What was read stays behind the tapes: positions only grow, and a tape    *)
(* that starts is behind them.                                             *)
LEMMA TakenStays ==
    ASSUME TypeInv, TakenOK, process = "running",
           UNCHANGED <<files, process>>,
           usage' \in [Threads -> [Streams -> Nat]],
           budget' \in [Threads -> [Streams -> Nat]],
           pos' \in [Streams -> Nat],
           \A r \in Streams : pos[r] <= pos'[r],
           \A u \in Threads : mode[u] = "unknown" =>
               \/ /\ mode'[u] = "unknown" /\ (threw[u] => threw'[u])
                  /\ \A r \in Streams : usage[u][r] <= usage'[u][r]
               \/ ~threw[u] /\ \A r \in Streams : usage[u][r] <= pos'[r],
           \A u \in Threads : Active(u)' =>
               \/ /\ Active(u)
                  /\ \A r \in Streams :
                        /\ usage[u][r] <= usage'[u][r]
                        /\ usage'[u][r] + budget'[u][r] <= usage[u][r] + budget[u][r]
               \/ /\ \A w \in Threads : mode[w] # "unknown"
                  /\ \A r \in Streams : pos[r] <= usage'[u][r],
           NEW r \in Kinds, present'[r], NEW x \in taken[r]
    PROVE  /\ x < Items[r] /\ TakenBefore(r, x)'
           /\ \A u \in Threads : Active(u)' =>
                 \/ x < At(r, start'[r], usage'[u][r])
                 \/ x >= At(r, start'[r], usage'[u][r] + budget'[u][r])
<1>1. present' = present /\ start' = start /\ process' = process
  BY DEF files
<1>2. r \in Streams
  BY DEF Streams
<1>3. PICK from : from = start[r]
  OBVIOUS
<1>4. from \in Int /\ start'[r] = from
  BY <1>1, <1>2, <1>3 DEF TypeInv
<1>5. /\ \A a \in Int : At(r, from, a) \in Int
      /\ \A a, b \in Int : a <= b => At(r, from, a) <= At(r, from, b)
  BY <1>4, AtMonotonic
<1>6. /\ x < Items[r] /\ TakenBefore(r, x)
      /\ \A u \in Threads : Active(u) =>
            x < At(r, from, usage[u][r]) \/ x >= At(r, from, usage[u][r] + budget[u][r])
  BY <1>1, <1>3 DEF TakenOK
<1>7. x \in Int /\ pos[r] \in Int /\ pos'[r] \in Int /\ pos[r] <= pos'[r]
  BY <1>2 DEF TypeInv
<1>8. \A u \in Threads : /\ usage[u][r] \in Nat /\ budget[u][r] \in Nat
                         /\ usage'[u][r] \in Nat /\ budget'[u][r] \in Nat
  BY <1>2 DEF TypeInv
<1>9. /\ At(r, from, pos[r]) <= At(r, from, pos'[r])
      /\ At(r, from, pos[r]) \in Int /\ At(r, from, pos'[r]) \in Int
  BY <1>5, <1>7
<1>10. TakenBefore(r, x)'
  <2>1. CASE x < At(r, from, pos[r])
    <3>1. x < At(r, from, pos'[r])
      BY <1>7, <1>9, <2>1
    <3> QED
      BY <1>1, <1>4, <3>1 DEF TakenBefore
  <2>2. CASE \E u \in Threads :
                mode[u] = "unknown" /\ (threw[u] \/ x < At(r, from, usage[u][r]))
    <3>1. PICK u \in Threads :
              mode[u] = "unknown" /\ (threw[u] \/ x < At(r, from, usage[u][r]))
      BY <2>2
    <3>2. usage[u][r] \in Int /\ usage'[u][r] \in Int
      BY <1>8
    <3>3. At(r, from, usage[u][r]) \in Int /\ At(r, from, usage'[u][r]) \in Int
      BY <1>5, <3>2
    <3>4. CASE /\ mode'[u] = "unknown" /\ (threw[u] => threw'[u])
               /\ usage[u][r] <= usage'[u][r]
      <4>1. At(r, from, usage[u][r]) <= At(r, from, usage'[u][r])
        BY <1>5, <3>2, <3>4
      <4>2. threw'[u] \/ x < At(r, from, usage'[u][r])
        BY <1>7, <3>1, <3>3, <3>4, <4>1
      <4> QED
        BY <1>1, <1>4, <3>4, <4>2 DEF TakenBefore
    <3>5. CASE ~threw[u] /\ usage[u][r] <= pos'[r]
      <4>1. At(r, from, usage[u][r]) <= At(r, from, pos'[r])
        BY <1>5, <1>7, <3>2, <3>5
      <4>2. x < At(r, from, pos'[r])
        BY <1>7, <1>9, <3>1, <3>3, <3>5, <4>1
      <4> QED
        BY <1>1, <1>4, <4>2 DEF TakenBefore
    <3> QED
      BY <1>2, <3>1, <3>4, <3>5
  <2> QED
    BY <1>3, <1>6, <2>1, <2>2 DEF TakenBefore
<1>11. ASSUME NEW u \in Threads, Active(u)'
       PROVE  \/ x < At(r, from, usage'[u][r])
              \/ x >= At(r, from, usage'[u][r] + budget'[u][r])
  <2>1. PICK i : i = usage[u][r]
    OBVIOUS
  <2>2. PICK i2 : i2 = usage'[u][r]
    OBVIOUS
  <2>3. PICK l : l = usage[u][r] + budget[u][r]
    OBVIOUS
  <2>4. PICK l2 : l2 = usage'[u][r] + budget'[u][r]
    OBVIOUS
  <2>5. i \in Int /\ i2 \in Int /\ l \in Int /\ l2 \in Int
    BY <1>8, <2>1, <2>2, <2>3, <2>4
  <2>6. /\ At(r, from, i) \in Int /\ At(r, from, i2) \in Int
        /\ At(r, from, l) \in Int /\ At(r, from, l2) \in Int
    BY <1>5, <2>5
  <2>7. CASE Active(u) /\ i <= i2 /\ l2 <= l
    <3>1. At(r, from, i) <= At(r, from, i2) /\ At(r, from, l2) <= At(r, from, l)
      BY <1>5, <2>5, <2>7
    <3>2. x < At(r, from, i) \/ x >= At(r, from, l)
      BY <1>6, <2>1, <2>3, <2>7
    <3>3. x < At(r, from, i2) \/ x >= At(r, from, l2)
      BY <1>7, <2>6, <3>1, <3>2
    <3> QED
      BY <2>2, <2>4, <3>3
  <2>8. CASE (\A w \in Threads : mode[w] # "unknown") /\ pos[r] <= i2
    <3>1. x < At(r, from, pos[r])
      BY <1>3, <1>6, <2>8 DEF TakenBefore
    <3>2. At(r, from, pos[r]) <= At(r, from, i2)
      BY <1>5, <1>7, <2>5, <2>8
    <3>3. x < At(r, from, i2)
      BY <1>7, <1>9, <2>6, <3>1, <3>2
    <3> QED
      BY <2>2, <3>3
  <2> QED
    BY <1>2, <1>11, <2>1, <2>2, <2>3, <2>4, <2>7, <2>8
<1> QED
  BY <1>4, <1>6, <1>10, <1>11

-----------------------------------------------------------------------------
(* A thread reads v tuples of n items.                                     *)

LEMMA ReadTaken ==
    ASSUME TypeInv, Windows, Apart, TakenOK, NeverAgain,
           NEW t \in Threads, Running(t), NEW s \in Streams, NEW v \in Nat, v <= budget[t][s],
           usage' = [usage EXCEPT ![t][s] = @ + v],
           budget' = [budget EXCEPT ![t][s] = @ - v],
           UNCHANGED <<files, mode, pos, process>>,
           \A u \in Threads \ {t} : threw'[u] = threw[u],
           NEW new \in SUBSET Int,
           taken' = [taken EXCEPT ![s] = @ \cup new],
           again' = [again EXCEPT ![s] = @ \cup (taken[s] \cap new)],
           s \in Kinds => \A x \in new :
               /\ present[s] /\ x < Items[s]
               /\ At(s, start[s], usage[t][s]) <= x
               /\ x < At(s, start[s], usage[t][s] + v)
    PROVE  TakenOK' /\ NeverAgain'
<1>1. process = "running" /\ mode[t] # "idle" /\ ~threw[t]
  BY DEF Running
<1>2. present' = present /\ start' = start /\ mode' = mode /\ pos' = pos /\ process' = process
  BY DEF files
<1>3. \A u \in Threads, r \in Streams :
          usage[u][r] \in Nat /\ budget[u][r] \in Nat /\ pos[r] \in Nat
  BY DEF TypeInv
<1>4. /\ \A u \in Threads, r \in Streams : u # t \/ r # s =>
             usage'[u][r] = usage[u][r] /\ budget'[u][r] = budget[u][r]
      /\ usage'[t][s] = usage[t][s] + v /\ budget'[t][s] = budget[t][s] - v
  BY DEF TypeInv
<1>5. /\ \A r \in Streams \ {s} : taken'[r] = taken[r] /\ again'[r] = again[r]
      /\ taken'[s] = taken[s] \cup new
      /\ again'[s] = again[s] \cup (taken[s] \cap new)
  BY DEF TypeInv
<1>6. \A u \in Threads : threw[u] => threw'[u]
  BY <1>1
<1>7. \A r \in Kinds : r \in Streams
  BY DEF Streams
<1>8. ASSUME NEW r \in Kinds, present'[r], NEW x \in taken'[r]
      PROVE  /\ x < Items[r] /\ TakenBefore(r, x)'
             /\ \A u \in Threads : Active(u)' =>
                   \/ x < At(r, start'[r], usage'[u][r])
                   \/ x >= At(r, start'[r], usage'[u][r] + budget'[u][r])
  <2>1. PICK from : from = start[r]
    OBVIOUS
  <2>2. from \in Int /\ start'[r] = from
    BY <1>2, <1>7, <2>1 DEF TypeInv
  <2>3. /\ \A a \in Int : At(r, from, a) \in Int
        /\ \A a, b \in Int : a <= b => At(r, from, a) <= At(r, from, b)
    BY <2>2, AtMonotonic
  <2>4. usage' \in [Threads -> [Streams -> Nat]] /\ budget' \in [Threads -> [Streams -> Nat]]
    <3>1. usage[t][s] + v \in Nat /\ budget[t][s] - v \in Nat
      BY <1>3
    <3> QED
      BY <3>1 DEF TypeInv
  <2>5. CASE x \in taken[r]
    <3>1. \A u \in Threads, q \in Streams :
             /\ usage[u][q] <= usage'[u][q] /\ pos[q] <= pos'[q]
             /\ usage'[u][q] + budget'[u][q] <= usage[u][q] + budget[u][q]
      <4>1. ASSUME NEW u \in Threads, NEW q \in Streams
            PROVE  /\ usage[u][q] <= usage'[u][q] /\ pos[q] <= pos'[q]
                   /\ usage'[u][q] + budget'[u][q] <= usage[u][q] + budget[u][q]
        <5>1. usage[u][q] \in Nat /\ budget[u][q] \in Nat /\ pos[q] \in Nat /\ pos'[q] = pos[q]
          BY <1>2, <1>3
        <5>2. \/ usage'[u][q] = usage[u][q] /\ budget'[u][q] = budget[u][q]
              \/ usage'[u][q] = usage[u][q] + v /\ budget'[u][q] = budget[u][q] - v
          BY <1>4
        <5> QED
          BY <5>1, <5>2
      <4> QED
        BY <4>1
    <3>2. pos' \in [Streams -> Nat] /\ UNCHANGED <<files, process>>
      BY <1>2 DEF TypeInv
    <3>3. \A u \in Threads : Active(u)' => Active(u)
      BY <1>2, <1>6 DEF Active
    <3>4. \A q \in Streams : pos[q] <= pos'[q]
      BY <3>1
    <3>5. \A u \in Threads : mode'[u] = mode[u]
      BY <1>2
    <3> QED
      BY <1>1, <1>6, <1>8, <2>4, <2>5, <3>1, <3>2, <3>3, <3>4, <3>5, TakenStays
  <2>6. CASE x \notin taken[r]
    <3>1. r = s /\ x \in new /\ x \in Int
      BY <1>5, <1>7, <1>8, <2>6
    <3>2. PICK j : j = usage[t][r]
      OBVIOUS
    <3>3. PICK h : h = budget[t][r]
      OBVIOUS
    <3>4. /\ j \in Nat /\ h \in Nat /\ v <= h /\ j + v \in Int /\ j + h \in Int /\ j + v <= j + h
          /\ usage'[t][r] = j + v /\ (j + v) + budget'[t][r] = j + h
      BY <1>3, <1>4, <3>1, <3>2, <3>3
    <3>5. x < Items[r] /\ At(r, from, j) <= x /\ x < At(r, from, j + v)
      BY <2>1, <3>1, <3>2
    <3>6. TakenBefore(r, x)'
      <4>1. CASE mode[t] = "unknown"
        BY <1>1, <1>2, <2>2, <3>4, <3>5, <4>1 DEF TakenBefore
      <4>2. CASE mode[t] = "known"
        <5>1. j + h <= pos[r] /\ pos[r] \in Int
          BY <1>1, <1>3, <1>7, <3>2, <3>3, <4>2 DEF Windows
        <5>2. At(r, from, j + v) <= At(r, from, pos[r])
          BY <2>3, <3>4, <5>1
        <5>3. x < At(r, from, pos[r])
          BY <2>3, <3>1, <3>4, <3>5, <5>1, <5>2
        <5> QED
          BY <1>1, <1>2, <2>2, <5>3 DEF TakenBefore
      <4> QED
        BY <1>1, <4>1, <4>2 DEF TypeInv
    <3>7. ASSUME NEW u \in Threads, Active(u)'
          PROVE  \/ x < At(r, from, usage'[u][r])
                 \/ x >= At(r, from, usage'[u][r] + budget'[u][r])
      <4>1. CASE u = t
        BY <3>4, <3>5, <4>1
      <4>2. CASE u # t
        <5>1. Active(u) /\ Active(t)
          BY <1>1, <1>2, <1>6, <3>7 DEF Active
        <5>2. PICK i : i = usage[u][r]
          OBVIOUS
        <5>3. PICK l : l = budget[u][r]
          OBVIOUS
        <5>4. i \in Nat /\ l \in Nat /\ usage'[u][r] = i /\ budget'[u][r] = l /\ i + l \in Int
          BY <1>3, <1>4, <1>7, <4>2, <5>2, <5>3
        <5>5. j + h <= i \/ i + l <= j
          BY <4>2, <5>1, <5>2, <5>3, <3>2, <3>3 DEF Apart
        <5>6. CASE j + h <= i
          <6>1. At(r, from, j + v) <= At(r, from, i)
            BY <2>3, <3>4, <5>4, <5>6
          <6>2. At(r, from, j + v) \in Int /\ At(r, from, i) \in Int
            BY <2>3, <3>4, <5>4
          <6> QED
            BY <3>1, <3>5, <5>4, <6>1, <6>2
        <5>7. CASE i + l <= j
          <6>1. At(r, from, i + l) <= At(r, from, j)
            BY <2>3, <3>4, <5>4, <5>7
          <6>2. At(r, from, i + l) \in Int /\ At(r, from, j) \in Int
            BY <2>3, <3>4, <5>4
          <6> QED
            BY <3>1, <3>5, <5>4, <6>1, <6>2
        <5> QED
          BY <5>5, <5>6, <5>7
      <4> QED
        BY <4>1, <4>2
    <3> QED
      BY <2>2, <3>5, <3>6, <3>7
  <2> QED
    BY <2>5, <2>6
<1>9. TakenOK'
  BY <1>1, <1>2, <1>8 DEF TakenOK
<1>10. NeverAgain'
  <2>1. ASSUME NEW r \in Kinds PROVE again'[r] = {}
    <3>1. again[r] = {} /\ r \in Streams
      BY <1>7 DEF NeverAgain
    <3>2. CASE r # s
      BY <1>5, <3>1, <3>2
    <3>3. CASE r = s
      <4>1. ASSUME NEW x \in taken[s], x \in new PROVE FALSE
        <5>1. PICK from : from = start[s]
          OBVIOUS
        <5>2. PICK j : j = usage[t][s]
          OBVIOUS
        <5>3. PICK h : h = budget[t][s]
          OBVIOUS
        <5>4. j \in Nat /\ h \in Nat /\ j + v \in Int /\ j + h \in Int /\ j + v <= j + h
          BY <1>3, <5>2, <5>3
        <5>5. from \in Int /\ x \in Int
          BY <4>1, <5>1 DEF TypeInv
        <5>6. At(s, from, j) <= x /\ x < At(s, from, j + v) /\ present[s]
          BY <3>3, <4>1, <5>1, <5>2
        <5>7. Active(t)
          BY <1>1 DEF Active
        <5>8. x < At(s, from, j) \/ x >= At(s, from, j + h)
          BY <1>1, <3>3, <5>1, <5>2, <5>3, <5>6, <5>7 DEF TakenOK
        <5>9. At(s, from, j + v) <= At(s, from, j + h)
          BY <3>3, <5>4, <5>5, AtMonotonic
        <5>10. At(s, from, j + v) \in Int /\ At(s, from, j + h) \in Int /\ At(s, from, j) \in Int
          BY <3>3, <5>4, <5>5, AtMonotonic
        <5> QED
          BY <5>5, <5>6, <5>8, <5>9, <5>10
      <4> QED
        BY <1>5, <3>1, <3>3, <4>1
    <3> QED
      BY <3>2, <3>3
  <2> QED
    BY <2>1 DEF NeverAgain
<1> QED
  BY <1>9, <1>10

ReadFrom(s, out, j, n, v) == \A i \in 1 .. n * v : out[i] = start[s] + j * n + i - 1
LastTuple(s, out, n, v) == [k \in 1 .. n |-> out[n * (v - 1) + k] - start[s]]

LEMMA ReadGot ==
    ASSUME TypeInv, TuplesAreWhole, NEW t \in Threads, NEW s \in Streams,
           NEW n \in Nat \ {0}, NEW v \in Nat \ {0}, NEW j \in Nat, NEW out,
           ReadFrom(s, out, j, n, v),
           got' = [got EXCEPT ![t] = LastTuple(s, out, n, v)]
    PROVE  got' \in [Threads -> Seq(Int)] /\ TuplesAreWhole'
<1>1. PICK w \in Nat : w = v - 1
  <2>1. v - 1 \in Nat
    OBVIOUS
  <2> QED
    BY <2>1
<1>2. PICK from \in Nat : from = start[s]
  BY DEF TypeInv
<1>3. PICK a \in Nat : a = j * n
  <2>1. j * n \in Nat
    OBVIOUS
  <2> QED
    BY <2>1
<1>4. PICK c \in Nat : c = n * w
  <2>1. n * w \in Nat
    OBVIOUS
  <2> QED
    BY <2>1
<1>5. n * v = c + n
  <2>1. (w + 1) * n = w * n + 1 * n /\ w * n = n * w /\ n * v = v * n
    BY Successor
  <2>2. 1 * n = n /\ w + 1 = v
    BY <1>1
  <2> QED
    BY <1>4, <2>1, <2>2
<1>7. \A k \in 1 .. n : out[n * (v - 1) + k] - start[s] = a + c + k - 1
  <2>1. ASSUME NEW k \in 1 .. n PROVE out[c + k] - from = a + c + k - 1
    <3>1. c + k \in 1 .. c + n
      OBVIOUS
    <3>2. out[c + k] = from + a + (c + k) - 1
      BY <1>2, <1>3, <1>5, <3>1 DEF ReadFrom
    <3> QED
      BY <3>2
  <2>2. n * (v - 1) = c
    BY <1>1, <1>4
  <2> QED
    BY <1>2, <2>1, <2>2
<1>8. PICK g : g = LastTuple(s, out, n, v)
  OBVIOUS
<1>9. /\ a + c = (j + w) * n /\ j + w \in Nat
      /\ g \in [1 .. n -> Int] /\ \A k \in 1 .. n : g[k] = (a + c) + k - 1
  <2>1. (j + w) * n = j * n + w * n
    BY Successor
  <2>2. w * n = n * w /\ j + w \in Nat
    OBVIOUS
  <2>3. a + c = (j + w) * n
    BY <1>3, <1>4, <2>1, <2>2
  <2>4. g = [k \in 1 .. n |-> a + c + k - 1]
    BY <1>7, <1>8 DEF LastTuple
  <2>5. g \in [1 .. n -> Int] /\ \A k \in 1 .. n : g[k] = (a + c) + k - 1
    BY <2>4
  <2> QED
    BY <2>2, <2>3, <2>5
<1>10. g \in Seq(Int) /\ g[1] % Len(g) = 0 /\ \A k \in DOMAIN g : g[k] = g[1] + k - 1
  <2>1. a + c \in Nat
    OBVIOUS
  <2> QED
    BY <1>9, <2>1, WholeTuple
<1>11. got' \in [Threads -> Seq(Int)] /\ got'[t] = g /\ \A u \in Threads \ {t} : got'[u] = got[u]
  BY <1>8, <1>10 DEF TypeInv
<1>12. TuplesAreWhole'
  <2>1. ASSUME NEW u \in Threads, NEW h, h = got'[u], h # <<>>
        PROVE  h[1] % Len(h) = 0 /\ \A k \in DOMAIN h : h[k] = h[1] + k - 1
    <3>1. CASE u = t
      <4>1. h = g
        BY <1>11, <2>1, <3>1
      <4> QED
        BY <1>10, <4>1
    <3>2. CASE u # t
      BY <1>11, <2>1, <3>2 DEF TuplesAreWhole
    <3> QED
      BY <3>1, <3>2
  <2> QED
    BY <2>1 DEF TuplesAreWhole
<1> QED
  BY <1>11, <1>12

LEMMA TupleRead ==
    ASSUME DataInv, NEW t \in Threads, Running(t), NEW s \in Streams, NEW n \in Sizes[s],
           NEW v \in Nat \ {0}, v <= budget[t][s],
           usage' = [usage EXCEPT ![t][s] = @ + v],
           budget' = [budget EXCEPT ![t][s] = @ - v],
           Length(s) \in {0, n}, s \in Kinds => Length(s) = n,
           lengths' = IF s \in Tags THEN [lengths EXCEPT ![s] = n] ELSE lengths,
           NEW b \in Buffers, b.up, NEW j \in 0 .. usage[t][s],
           s \in Kinds => j = usage[t][s],
           BufferIn(s, b, j, n, present[s], start[s]),
           Returned(t, s, Inputs(s, b, n * v), n, v),
           UNCHANGED <<files, locked, mode, pos, process, bounds, given>>
    PROVE  DataInv'
<1> USE DEF DataInv
<1>1. process = "running" /\ mode[t] # "idle" /\ ~threw[t]
  BY DEF Running
<1>2. /\ present' = present /\ start' = start /\ mode' = mode /\ pos' = pos
      /\ process' = process /\ tapes' = tapes /\ given' = given /\ locked' = locked
  BY DEF files, bounds
<1>3. n \in Nat \ {0} /\ j \in Nat
  BY SizesAssumption
<1>4. PICK c : c = Inputs(s, b, n * v)
  OBVIOUS
<1>5. PICK d : d = [c EXCEPT !.out = <<>>]
  OBVIOUS
<1>6. /\ d \in Buffers /\ c \in Buffers
      /\ c.failed => ~present[s] \/ Items[s] < start[s] + (j + v) * n + BufferSize
      /\ ~c.failed =>
            /\ DOMAIN c.out = 1 .. n * v
            /\ \A i \in 1 .. n * v : c.out[i] = start[s] + j * n + i - 1
            /\ n * v > 0 => present[s] /\ start[s] + (j + v) * n <= Items[s]
            /\ BufferIn(s, d, j + v, n, present[s], start[s])
  <2>1. n \in Nat /\ v \in Nat /\ j \in Nat /\ TypeInv
    BY <1>3
  <2> HIDE DEF DataInv
  <2> QED
    BY <1>4, <1>5, <2>1, ReadIn
<1>7. /\ buf' = [buf EXCEPT ![t][s] = d]
      /\ threw' = [threw EXCEPT ![t] = c.failed]
      /\ c.failed => UNCHANGED <<taken, again, got>>
      /\ ~c.failed =>
            /\ again' = [again EXCEPT ![s] = @ \cup (taken[s] \cap ToSet(c.out))]
            /\ taken' = [taken EXCEPT ![s] = @ \cup ToSet(c.out)]
            /\ got' = [got EXCEPT ![t] =
                          [k \in 1 .. n |-> c.out[n * (v - 1) + k] - start[s]]]
  BY <1>4, <1>5 DEF Returned
<1>8. c.failed \in BOOLEAN
  BY <1>6 DEF Buffers
<1>9. /\ threw' \in [Threads -> BOOLEAN] /\ threw'[t] = c.failed
      /\ \A u \in Threads \ {t} : threw'[u] = threw[u]
  BY <1>7, <1>8 DEF TypeInv
<1>10. /\ buf' \in [Threads -> [Streams -> Buffers]] /\ buf'[t][s] = d
       /\ \A u \in Threads, r \in Streams : u # t \/ r # s => buf'[u][r] = buf[u][r]
  BY <1>6, <1>7 DEF TypeInv
<1>11. /\ usage[t][s] \in Nat /\ budget[t][s] \in Nat
       /\ usage[t][s] + v \in Nat /\ budget[t][s] - v \in Nat
  BY DEF TypeInv
<1>12. /\ usage' \in [Threads -> [Streams -> Nat]]
       /\ budget' \in [Threads -> [Streams -> Nat]]
  BY <1>11 DEF TypeInv
<1>13. /\ \A u \in Threads, r \in Streams : u # t \/ r # s =>
             usage'[u][r] = usage[u][r] /\ budget'[u][r] = budget[u][r]
       /\ usage'[t][s] = usage[t][s] + v /\ budget'[t][s] = budget[t][s] - v
       /\ \A u \in Threads \ {t} : usage'[u] = usage[u] /\ budget'[u] = budget[u]
  BY DEF TypeInv
<1>14. /\ \A r \in Streams \ {s} : Length(r)' = Length(r)
       /\ Length(s)' = n
       /\ lengths' \in [Tags -> Nat] /\ \A r \in Tags : lengths'[r] \in Sizes[r] \cup {0}
  <2>1. CASE s \in Tags
    <3>1. lengths' = [lengths EXCEPT ![s] = n] /\ s \notin Kinds
      BY <2>1, StreamsAssumption
    <3>2. lengths' \in [Tags -> Nat] /\ lengths'[s] = n
      BY <1>3, <2>1, <3>1 DEF TypeInv
    <3>3. \A r \in Tags \ {s} : lengths'[r] = lengths[r]
      BY <3>1 DEF TypeInv
    <3>4. \A r \in Tags : lengths'[r] \in Sizes[r] \cup {0}
      BY <3>2, <3>3 DEF TypeInv
    <3>5. Length(s)' = n
      BY <3>1, <3>2 DEF Length
    <3>6. \A r \in Streams \ {s} : Length(r)' = Length(r)
      BY <3>3 DEF Length, Streams
    <3> QED
      BY <3>2, <3>4, <3>5, <3>6
  <2>2. CASE s \notin Tags
    <3>1. s \in Kinds /\ lengths' = lengths
      BY <2>2 DEF Streams
    <3> QED
      BY <3>1 DEF TypeInv, Length
  <2> QED
    BY <2>1, <2>2
<1>15. UnknownAlone' /\ ThrownStay' /\ NeedsExist' /\ Windows' /\ Apart' /\ ReachOK'
  <2>1. \A r \in Streams : /\ usage[t][r] <= usage'[t][r]
                           /\ usage'[t][r] + budget'[t][r] <= usage[t][r] + budget[t][r]
    <3>1. ASSUME NEW r \in Streams
          PROVE  /\ usage[t][r] <= usage'[t][r]
                 /\ usage'[t][r] + budget'[t][r] <= usage[t][r] + budget[t][r]
      <4>1. usage[t][r] \in Nat /\ budget[t][r] \in Nat
        BY DEF TypeInv
      <4>2. \/ usage'[t][r] = usage[t][r] /\ budget'[t][r] = budget[t][r]
            \/ usage'[t][r] = usage[t][r] + v /\ budget'[t][r] = budget[t][r] - v
        BY <1>13
      <4> QED
        BY <4>1, <4>2
    <3> QED
      BY <3>1
  <2> QED
    BY <1>2, <1>9, <1>12, <1>13, <2>1, TapeAdvances
<1>16. BuffersOK'
  <2>1. ASSUME NEW u \in Threads, ~threw'[u], NEW r \in Streams
        PROVE  \E i \in 0 .. usage'[u][r] :
                  /\ r \in Kinds => i = usage'[u][r]
                  /\ BufferIn(r, buf'[u][r], i, Length(r)', present'[r], start'[r])
    <3>1. CASE u = t /\ r = s
      <4>1. ~c.failed
        BY <1>9, <2>1, <3>1
      <4>2. j + v \in 0 .. usage'[t][s] /\ (s \in Kinds => j + v = usage'[t][s])
        <5>1. j <= usage[t][s]
          BY <1>11
        <5> QED
          BY <1>3, <1>11, <1>13, <5>1
      <4>3. BufferIn(s, d, j + v, n, present'[s], start'[s])
        BY <1>2, <1>6, <4>1
      <4> QED
        BY <1>10, <1>14, <3>1, <4>2, <4>3
    <3>2. CASE u # t \/ r # s
      <4>1. buf'[u][r] = buf[u][r] /\ usage'[u][r] = usage[u][r] /\ ~threw[u]
        BY <1>1, <1>9, <1>10, <1>13, <2>1, <3>2
      <4>2. PICK i \in 0 .. usage[u][r] :
                /\ r \in Kinds => i = usage[u][r]
                /\ BufferIn(r, buf[u][r], i, Length(r), present[r], start[r])
        BY <1>1, <4>1 DEF BuffersOK
      <4>3. CASE Length(r)' = Length(r)
        BY <1>2, <4>1, <4>2, <4>3
      <4>4. CASE Length(r)' # Length(r)
        <5>1. r = s /\ Length(r) = 0 /\ Length(r)' = n /\ r \in Tags /\ r \notin Kinds
          BY <1>14, <4>4, StreamsAssumption DEF Streams
        <5>2. BufferIn(r, buf[u][r], 0, n, present[r], start[r])
          BY <1>3, <4>2, <5>1, NewLengthIn
        <5>3. 0 \in 0 .. usage[u][r]
          BY DEF TypeInv
        <5> QED
          BY <1>2, <4>1, <5>1, <5>2, <5>3
      <4> QED
        BY <4>3, <4>4
    <3> QED
      BY <3>1, <3>2
  <2> QED
    BY <1>1, <1>2, <2>1 DEF BuffersOK
<1>17. CutOK'
  BY <1>2 DEF CutOK
<1>18. UsedItemsDiscarded'
  BY <1>1, <1>2 DEF UsedItemsDiscarded
<1>19. FailsOnlyWhenShort'
  <2>1. DataShort => DataShort'
    BY <1>2 DEF DataShort
  <2>2. c.failed => DataShort
    <3>1. ASSUME c.failed PROVE DataShort
      <4>1. \E need \in Needs : usage[t][s] + budget[t][s] <= pos[s] + need[s]
        <5>1. CASE mode[t] = "known"
          <6>1. usage[t][s] + budget[t][s] <= pos[s]
            BY <1>1, <5>1 DEF Windows
          <6>2. PICK need \in Needs : TRUE
            BY <1>1 DEF NeedsExist
          <6>3. need[s] \in Nat /\ pos[s] \in Nat
            BY BoundsAssumption DEF TypeInv
          <6> QED
            BY <1>11, <6>1, <6>3
        <5>2. CASE mode[t] = "unknown"
          BY <1>1, <5>2 DEF Windows
        <5> QED
          BY <1>1, <5>1, <5>2 DEF TypeInv
      <4>2. PICK need \in Needs : usage[t][s] + budget[t][s] <= pos[s] + need[s]
        BY <4>1
      <4>3. need[s] \in Nat /\ pos[s] \in Nat
        BY BoundsAssumption DEF TypeInv
      <4>4. PICK x : x = j + v
        OBVIOUS
      <4>5. x \in Nat /\ x <= pos[s] + need[s]
        <5>1. j <= usage[t][s]
          BY <1>11
        <5> QED
          BY <1>3, <1>11, <4>2, <4>3, <4>4, <5>1
      <4>6. CASE ~present[s]
        BY <4>6 DEF DataShort
      <4>7. CASE Items[s] < start[s] + x * n + BufferSize
        BY <1>1, <4>5, <4>7, BeyondIsShort
      <4> QED
        BY <1>6, <3>1, <4>4, <4>6, <4>7
    <3> QED
      BY <3>1
  <2>3. ASSUME NEW u \in Threads, threw'[u] PROVE locked' \/ DataShort'
    <3>1. CASE u = t
      BY <1>9, <2>1, <2>2, <2>3, <3>1
    <3>2. CASE u # t
      <4>1. threw[u]
        BY <1>9, <2>3, <3>2
      <4>2. locked \/ DataShort
        BY <4>1 DEF FailsOnlyWhenShort, DataShort
      <4> QED
        BY <1>2, <2>1, <4>2
    <3> QED
      BY <3>1, <3>2
  <2> QED
    BY <2>3 DEF FailsOnlyWhenShort, DataShort
<1>20. got' \in [Threads -> Seq(Int)] /\ TuplesAreWhole'
  <2>1. CASE c.failed
    <3>1. got' = got /\ got \in [Threads -> Seq(Int)]
      BY <1>7, <2>1 DEF TypeInv
    <3> QED
      BY <3>1 DEF TuplesAreWhole
  <2>2. CASE ~c.failed
    <3>1. PICK out : out = c.out
      OBVIOUS
    <3>2. ReadFrom(s, out, j, n, v)
      BY <1>6, <2>2, <3>1 DEF ReadFrom
    <3>3. got' = [got EXCEPT ![t] = LastTuple(s, out, n, v)]
      BY <1>7, <2>2, <3>1 DEF LastTuple
    <3> QED
      BY <1>3, <3>2, <3>3, ReadGot
  <2> QED
    BY <2>1, <2>2
<1>21. PICK new : new = IF c.failed THEN {} ELSE ToSet(c.out)
  OBVIOUS
<1>22. new \in SUBSET Int
  <2>1. c.out \in Seq(Int)
    BY <1>6 DEF Buffers
  <2> QED
    BY <1>21, <2>1 DEF ToSet
<1>23. /\ taken' = [taken EXCEPT ![s] = @ \cup new]
       /\ again' = [again EXCEPT ![s] = @ \cup (taken[s] \cap new)]
  BY <1>7, <1>21 DEF TypeInv
<1>24. taken' \in [Streams -> SUBSET Int] /\ again' \in [Streams -> SUBSET Int]
  BY <1>22, <1>23 DEF TypeInv
<1>25. s \in Kinds => \A x \in new :
          /\ present[s] /\ x < Items[s]
          /\ At(s, start[s], usage[t][s]) <= x /\ x < At(s, start[s], usage[t][s] + v)
  <2>1. ASSUME s \in Kinds, NEW x \in new
        PROVE  /\ present[s] /\ x < Items[s]
               /\ At(s, start[s], usage[t][s]) <= x /\ x < At(s, start[s], usage[t][s] + v)
    <3>1. ~c.failed /\ x \in ToSet(c.out) /\ j = usage[t][s]
      BY <1>21, <2>1
    <3>2. n = TupleSize(s)
      BY <2>1, TupleSizes
    <3>3. PICK i \in 1 .. n * v : x = start[s] + j * n + i - 1
      BY <1>6, <3>1 DEF ToSet
    <3>4. PICK m : m = n * v
      OBVIOUS
    <3>5. PICK a : a = j * n
      OBVIOUS
    <3>6. m \in Nat /\ a \in Nat /\ (j + v) * n = a + m
      <4>1. (j + v) * n = j * n + v * n /\ v * n = n * v
        BY <1>3, Successor
      <4>2. j * n \in Nat /\ n * v \in Nat
        BY <1>3
      <4> QED
        BY <3>4, <3>5, <4>1, <4>2
    <3>7. start[s] \in Nat /\ Items[s] \in Nat
      BY FileTypes
    <3>8. i \in 1 .. m /\ x = start[s] + a + i - 1
      BY <3>3, <3>4, <3>5
    <3>9. start[s] + a <= x /\ x < start[s] + (a + m) /\ n * v > 0
      BY <3>4, <3>6, <3>7, <3>8
    <3>10. present[s] /\ start[s] + (a + m) <= Items[s]
      BY <1>6, <3>1, <3>6, <3>9
    <3>11. x < Items[s]
      BY <3>6, <3>7, <3>8, <3>9, <3>10
    <3> QED
      BY <3>1, <3>2, <3>5, <3>6, <3>9, <3>10, <3>11 DEF At
  <2> QED
    BY <2>1
<1>26. TakenOK' /\ NeverAgain'
  BY <1>2, <1>9, <1>22, <1>23, <1>25, ReadTaken
<1>27. TypeInv'
  BY <1>2, <1>9, <1>10, <1>12, <1>14, <1>20, <1>24 DEF TypeInv
<1> QED
  BY <1>15, <1>16, <1>17, <1>18, <1>19, <1>20, <1>26, <1>27

-----------------------------------------------------------------------------
(* The steps.                                                              *)

LEMMA GetStep ==
    ASSUME DataInv, NEW t \in Threads, NEW s \in Kinds, Get(t, s)
    PROVE  DataInv'
<1>1. TypeInv /\ BuffersOK
  BY DEF DataInv
<1>2. s \in Streams /\ s \notin Tags
  BY StreamsAssumption DEF Streams
<1>3. PICK n : n = TupleSize(s)
  OBVIOUS
<1>4. n \in Sizes[s] /\ n \in Nat \ {0} /\ Length(s) = n
  BY <1>3, TupleSizes DEF Length
<1>5. n * 1 = n /\ 1 \in Nat \ {0}
  BY <1>4
<1>6. Running(t) /\ process = "running" /\ ~threw[t]
  BY DEF Get, Running
<1>7. budget[t][s] \in Nat /\ 1 <= budget[t][s]
  <2>1. budget[t][s] \in Nat /\ budget[t][s] > 0
    BY <1>1, <1>2 DEF Get, TypeInv
  <2> QED
    BY <2>1
<1>8. /\ usage' = [usage EXCEPT ![t][s] = @ + 1]
      /\ budget' = [budget EXCEPT ![t][s] = @ - 1]
      /\ Returned(t, s, Inputs(s, buf[t][s], n * 1), n, 1)
      /\ UNCHANGED <<files, lengths, locked, mode, pos, process, bounds, given>>
  BY <1>3, <1>5 DEF Get, shared
<1>9. PICK b : b = buf[t][s]
  OBVIOUS
<1>10. b \in Buffers /\ usage[t][s] \in Nat
  BY <1>1, <1>2, <1>9 DEF TypeInv
<1>11. BufferIn(s, b, usage[t][s], n, present[s], start[s])
  BY <1>1, <1>2, <1>4, <1>6, <1>9 DEF BuffersOK
<1>12. b.up
  BY <1>11 DEF BufferIn
<1>13. usage[t][s] \in 0 .. usage[t][s]
  BY <1>10
<1>14. lengths' = IF s \in Tags THEN [lengths EXCEPT ![s] = n] ELSE lengths
  BY <1>2, <1>8
<1> QED
  BY <1>2, <1>4, <1>5, <1>6, <1>7, <1>8, <1>9, <1>10, <1>11, <1>12, <1>13, <1>14, TupleRead

LEMMA SetupExtendedIn ==
    ASSUME TypeInv, BuffersOK, NEW t \in Threads, process = "running", ~threw[t],
           NEW s \in Tags, NEW n \in Nat \ {0}, Length(s) \in {0, n}
    PROVE  LET b == SetupExtended(s, buf[t][s])
           IN  /\ b \in Buffers /\ b.up
               /\ \E j \in 0 .. usage[t][s] : BufferIn(s, b, j, n, present[s], start[s])
<1>1. s \in Streams /\ s \notin Kinds
  BY StreamsAssumption DEF Streams
<1>2. PICK b : b = SetupExtended(s, buf[t][s])
  OBVIOUS
<1>3. PICK m : m = Length(s)
  OBVIOUS
<1>4. m = lengths[s] /\ m \in Nat /\ m \in {0, n}
  BY <1>1, <1>3 DEF Length, TypeInv
<1>5. usage[t][s] \in Nat /\ present[s] \in BOOLEAN /\ start[s] \in Nat
  BY <1>1 DEF TypeInv
<1>6. b \in Buffers /\ b.up /\ \E j \in 0 .. usage[t][s] : BufferIn(s, b, j, m, present[s], start[s])
  <2>1. CASE buf[t][s].up
    BY <1>1, <1>2, <1>3, <2>1 DEF SetupExtended, BuffersOK, TypeInv
  <2>2. CASE ~buf[t][s].up
    <3>1. b = SetUp(m)
      BY <1>2, <1>4, <2>2 DEF SetupExtended
    <3>2. b \in Buffers /\ b.up /\ BufferIn(s, b, 0, m, present[s], start[s])
      BY <1>1, <1>4, <1>5, <3>1, SetUpIn
    <3>3. 0 \in 0 .. usage[t][s]
      BY <1>5
    <3> QED
      BY <3>2, <3>3
  <2> QED
    BY <2>1, <2>2
<1>7. \E j \in 0 .. usage[t][s] : BufferIn(s, b, j, n, present[s], start[s])
  <2>1. CASE m = n
    BY <1>6, <2>1
  <2>2. CASE m = 0
    <3>1. PICK j \in 0 .. usage[t][s] : BufferIn(s, b, j, 0, present[s], start[s])
      BY <1>6, <2>2
    <3>2. j \in Nat /\ 0 \in 0 .. usage[t][s]
      BY <1>5
    <3>3. BufferIn(s, b, 0, n, present[s], start[s])
      BY <3>1, <3>2, NewLengthIn
    <3> QED
      BY <3>2, <3>3
  <2> QED
    BY <1>4, <2>1, <2>2
<1> QED
  BY <1>2, <1>6, <1>7

(* A thread throws, or skips: the items that were read are the same.       *)
LEMMA NothingRead ==
    ASSUME TypeInv, TakenOK, NeverAgain, TuplesAreWhole, CutOK, NEW t \in Threads,
           Running(t), usage' \in [Threads -> [Streams -> Nat]],
           budget' \in [Threads -> [Streams -> Nat]],
           UNCHANGED <<files, mode, pos, process, bounds, taken, again, got, given>>,
           \A u \in Threads \ {t} :
               usage'[u] = usage[u] /\ budget'[u] = budget[u] /\ threw'[u] = threw[u],
           \A r \in Streams :
               /\ usage[t][r] <= usage'[t][r]
               /\ usage'[t][r] + budget'[t][r] <= usage[t][r] + budget[t][r]
    PROVE  TakenOK' /\ NeverAgain' /\ TuplesAreWhole' /\ CutOK' /\ UsedItemsDiscarded'
<1>1. process = "running" /\ mode[t] # "idle" /\ ~threw[t]
  BY DEF Running
<1>2. /\ present' = present /\ start' = start /\ taken' = taken /\ again' = again
      /\ got' = got /\ pos' = pos /\ given' = given /\ process' = process /\ mode' = mode
  BY DEF files
<1>3. NeverAgain' /\ TuplesAreWhole' /\ CutOK' /\ UsedItemsDiscarded'
  BY <1>1, <1>2 DEF NeverAgain, TuplesAreWhole, CutOK, UsedItemsDiscarded
<1>4. \A u \in Threads, r \in Streams :
          /\ usage[u][r] <= usage'[u][r]
          /\ usage'[u][r] + budget'[u][r] <= usage[u][r] + budget[u][r]
  <2>1. ASSUME NEW u \in Threads, NEW r \in Streams
        PROVE  /\ usage[u][r] <= usage'[u][r]
               /\ usage'[u][r] + budget'[u][r] <= usage[u][r] + budget[u][r]
    <3>1. CASE u = t
      BY <3>1
    <3>2. CASE u # t
      <4>1. usage'[u] = usage[u] /\ budget'[u] = budget[u]
        BY <3>2
      <4>2. usage[u][r] \in Nat /\ usage[u][r] + budget[u][r] \in Nat
        BY SMTT(20) DEF TypeInv
      <4> QED
        BY <4>1, <4>2
    <3> QED
      BY <3>1, <3>2
  <2> QED
    BY <2>1
<1>5. \A u \in Threads : threw[u] => threw'[u]
  <2>1. \A u \in Threads \ {t} : threw'[u] = threw[u]
    OBVIOUS
  <2> QED
    BY <1>1, <2>1
<1>6. \A u \in Threads : Active(u)' => Active(u)
  BY <1>2, <1>5 DEF Active
<1>7. pos' \in [Streams -> Nat] /\ \A r \in Streams : pos[r] <= pos'[r]
  <2>1. \A r \in Streams : pos[r] \in Nat
    BY DEF TypeInv
  <2> QED
    BY <1>2, <2>1 DEF TypeInv
<1>8. \A u \in Threads : mode'[u] = mode[u]
  BY <1>2
<1>9. TakenOK'
  <2>1. ASSUME NEW r \in Kinds, present'[r], NEW x \in taken[r]
        PROVE  /\ x < Items[r] /\ TakenBefore(r, x)'
               /\ \A u \in Threads : Active(u)' =>
                     \/ x < At(r, start'[r], usage'[u][r])
                     \/ x >= At(r, start'[r], usage'[u][r] + budget'[u][r])
    BY <1>1, <1>4, <1>5, <1>6, <1>7, <1>8, <2>1, TakenStays
  <2> QED
    BY <1>2, <2>1 DEF TakenOK
<1> QED
  BY <1>3, <1>9

LEMMA GetExtendedStep ==
    ASSUME DataInv, NEW t \in Threads, NEW s \in Tags, NEW n \in Sizes[s],
           NEW v \in 1 .. budget[t][s], GetExtended(t, s, n, v)
    PROVE  DataInv'
<1>1. TypeInv /\ BuffersOK
  BY DEF DataInv
<1>2. s \in Streams /\ s \notin Kinds
  BY StreamsAssumption DEF Streams
<1>3. n \in Nat \ {0} /\ lengths[s] \in Nat /\ Length(s) = lengths[s]
  BY <1>1, <1>2, SizesAssumption DEF TypeInv, Length
<1>4. Running(t) /\ process = "running" /\ mode[t] # "idle" /\ ~threw[t]
  BY DEF GetExtended, Running
<1>5. usage[t][s] \in Nat /\ budget[t][s] \in Nat
  BY <1>1, <1>2 DEF TypeInv
<1>6. v \in Nat \ {0} /\ v <= budget[t][s]
  BY <1>5
<1>7. /\ usage' = [usage EXCEPT ![t][s] = @ + v]
      /\ budget' = [budget EXCEPT ![t][s] = @ - v]
      /\ UNCHANGED <<files, mode, pos, process, bounds, given>>
  BY DEF GetExtended
<1>8. CASE ~Inconsistent(s, n)
  <2>1. /\ lengths' = [lengths EXCEPT ![s] = LengthsAfter(s, n)]
        /\ Returned(t, s, Inputs(s, SetupExtended(s, buf[t][s]), n * v), n, v)
        /\ UNCHANGED locked
    BY <1>8 DEF GetExtended
  <2>2. Length(s) \in {0, n} /\ LengthsAfter(s, n) = n
    BY <1>3, <1>8 DEF Inconsistent, LengthsAfter
  <2>3. PICK b : b = SetupExtended(s, buf[t][s])
    OBVIOUS
  <2>4. /\ b \in Buffers /\ b.up
        /\ \E j \in 0 .. usage[t][s] : BufferIn(s, b, j, n, present[s], start[s])
    BY <1>1, <1>3, <1>4, <2>2, <2>3, SetupExtendedIn
  <2>5. PICK j \in 0 .. usage[t][s] : BufferIn(s, b, j, n, present[s], start[s])
    BY <2>4
  <2>6. Returned(t, s, Inputs(s, b, n * v), n, v)
    BY <2>1, <2>3
  <2>7. lengths' = IF s \in Tags THEN [lengths EXCEPT ![s] = n] ELSE lengths
    BY <2>1, <2>2
  <2> QED
    BY <1>2, <1>4, <1>6, <1>7, <2>1, <2>2, <2>4, <2>5, <2>6, <2>7, TupleRead
<1>9. CASE Inconsistent(s, n)
  <2>1. /\ locked' = TRUE /\ threw' = [threw EXCEPT ![t] = TRUE]
        /\ UNCHANGED <<lengths, buf, taken, again, got>>
    BY <1>9 DEF GetExtended
  <2>2. /\ present' = present /\ start' = start /\ mode' = mode /\ pos' = pos
        /\ process' = process /\ tapes' = tapes /\ given' = given
    BY <1>7 DEF files, bounds
  <2>3. /\ threw' \in [Threads -> BOOLEAN] /\ threw'[t] = TRUE
        /\ \A u \in Threads \ {t} : threw'[u] = threw[u]
    BY <1>1, <2>1 DEF TypeInv
  <2>4. usage[t][s] + v \in Nat /\ budget[t][s] - v \in Nat
    BY <1>5, <1>6
  <2>5. /\ usage' \in [Threads -> [Streams -> Nat]]
        /\ budget' \in [Threads -> [Streams -> Nat]]
    BY <1>1, <1>7, <2>4 DEF TypeInv
  <2>6. /\ \A r \in Streams \ {s} : usage'[t][r] = usage[t][r] /\ budget'[t][r] = budget[t][r]
        /\ usage'[t][s] = usage[t][s] + v /\ budget'[t][s] = budget[t][s] - v
        /\ \A u \in Threads \ {t} : usage'[u] = usage[u] /\ budget'[u] = budget[u]
    BY <1>1, <1>2, <1>7 DEF TypeInv
  <2>7. \A r \in Streams : /\ usage[t][r] <= usage'[t][r]
                           /\ usage'[t][r] + budget'[t][r] <= usage[t][r] + budget[t][r]
    <3>1. ASSUME NEW r \in Streams
          PROVE  /\ usage[t][r] <= usage'[t][r]
                 /\ usage'[t][r] + budget'[t][r] <= usage[t][r] + budget[t][r]
      <4>1. usage[t][r] \in Nat /\ budget[t][r] \in Nat
        BY <1>1 DEF TypeInv
      <4>2. \/ usage'[t][r] = usage[t][r] /\ budget'[t][r] = budget[t][r]
            \/ usage'[t][r] = usage[t][r] + v /\ budget'[t][r] = budget[t][r] - v
        BY <2>6
      <4> QED
        BY <1>6, <4>1, <4>2
    <3> QED
      BY <3>1
  <2>8. UnknownAlone' /\ ThrownStay' /\ NeedsExist' /\ Windows' /\ Apart' /\ ReachOK'
    BY <1>4, <2>2, <2>3, <2>5, <2>6, <2>7, TapeAdvances DEF DataInv
  <2>9. TakenOK' /\ NeverAgain' /\ TuplesAreWhole' /\ CutOK' /\ UsedItemsDiscarded'
    BY <1>4, <1>7, <2>1, <2>3, <2>5, <2>6, <2>7, NothingRead DEF DataInv
  <2>10. BuffersOK'
    <3>1. ASSUME NEW u \in Threads, ~threw'[u], NEW r \in Streams
          PROVE  \E i \in 0 .. usage'[u][r] :
                    /\ r \in Kinds => i = usage'[u][r]
                    /\ BufferIn(r, buf'[u][r], i, Length(r)', present'[r], start'[r])
      <4>1. u \in Threads \ {t}
        BY <2>3, <3>1
      <4>2. usage'[u] = usage[u] /\ ~threw[u] /\ buf' = buf /\ Length(r)' = Length(r)
        BY <2>1, <2>3, <2>6, <3>1, <4>1 DEF Length
      <4> QED
        BY <1>1, <1>4, <2>2, <4>2 DEF BuffersOK
    <3> QED
      BY <1>4, <2>2, <3>1 DEF BuffersOK
  <2>11. TypeInv'
    BY <1>1, <2>1, <2>2, <2>3, <2>5 DEF TypeInv
  <2>12. FailsOnlyWhenShort'
    BY <2>1 DEF FailsOnlyWhenShort
  <2> QED
    BY <2>8, <2>9, <2>10, <2>11, <2>12 DEF DataInv
<1> QED
  BY <1>8, <1>9

(* Positions that a tape may come to.                                       *)
LEMMA AllPositionsFit ==
    ASSUME PositionsFit, TypeInv, ReachOK, NEW p \in [Streams -> Nat],
           \/ \A s \in Streams : p[s] <= pos[s]
           \/ \E t \in Threads : \A s \in Streams : p[s] <= usage[t][s] + budget[t][s]
    PROVE  AllFit(p)
<1>1. ASSUME NEW s \in Streams, NEW n \in Sizes[s]
      PROVE  p[s] * n < IntModulus \div 2
  <2>1. p[s] \in Nat
    OBVIOUS
  <2>2. p[s] <= pos[s] \/ \E t \in Threads : p[s] <= usage[t][s] + budget[t][s]
    OBVIOUS
  <2> QED
    BY <2>1, <2>2, PositionFits
<1> QED
  BY <1>1 DEF AllFit

LEMMA SkipStep ==
    ASSUME PositionsFit, DataInv, NEW t \in Threads, NEW s \in Streams, Skip(t, s)
    PROVE  DataInv'
<1>1. TypeInv /\ BuffersOK /\ ReachOK /\ NeedsExist
  BY DEF DataInv
<1>2. Running(t) /\ process = "running" /\ mode[t] # "idle" /\ ~threw[t]
  BY DEF Skip, Running
<1>3. usage[t] \in [Streams -> Nat] /\ \A r \in Streams : budget[t][r] \in Nat
  BY <1>1 DEF TypeInv
<1>4. PICK p : p = [usage[t] EXCEPT ![s] = @ + 1]
  OBVIOUS
<1>5. /\ p \in [Streams -> Nat] /\ p[s] = usage[t][s] + 1
      /\ \A r \in Streams \ {s} : p[r] = usage[t][r]
  <2>1. usage[t][s] + 1 \in Nat
    BY <1>3
  <2> QED
    BY <1>3, <1>4, <2>1
<1>6. budget[t][s] > 0
  BY DEF Skip
<1>7. \A r \in Streams : usage[t][r] <= p[r] /\ p[r] <= usage[t][r] + budget[t][r]
  <2>1. ASSUME NEW r \in Streams
        PROVE  usage[t][r] <= p[r] /\ p[r] <= usage[t][r] + budget[t][r]
    <3>1. usage[t][r] \in Nat /\ budget[t][r] \in Nat
      BY <1>3
    <3>2. p[r] = usage[t][r] \/ (p[r] = usage[t][r] + 1 /\ budget[t][r] > 0)
      BY <1>5, <1>6
    <3> QED
      BY <3>1, <3>2
  <2> QED
    BY <2>1
<1>8. AllFit(p)
  BY <1>1, <1>5, <1>7, AllPositionsFit
<1>9. /\ SeekTo(t, p) /\ budget' = [budget EXCEPT ![t][s] = @ - 1]
      /\ UNCHANGED <<files, shared, mode, pos, process, bounds, ghosts>>
  BY <1>4 DEF Skip
<1>10. /\ buf' \in [Threads -> [Streams -> Buffers]]
       /\ usage' \in [Threads -> [Streams -> Nat]]
       /\ threw' \in [Threads -> BOOLEAN]
       /\ \A u \in Threads \ {t} :
             buf'[u] = buf[u] /\ usage'[u] = usage[u] /\ threw'[u] = threw[u]
       /\ threw'[t] => usage' = usage /\ \E r \in Kinds : ~present[r]
       /\ ~threw'[t] => usage'[t] = p /\ \A bs \in {buf'[t]} : AllIn(bs, p)
  BY <1>1, <1>2, <1>5, <1>7, <1>8, <1>9, SeekToIn
<1>11. /\ present' = present /\ start' = start /\ lengths' = lengths /\ locked' = locked
       /\ mode' = mode /\ pos' = pos /\ process' = process /\ tapes' = tapes
       /\ taken' = taken /\ again' = again /\ given' = given /\ got' = got
  BY <1>9 DEF files, shared, bounds, ghosts
<1>12. BuffersOK'
  BY <1>1, <1>2, <1>5, <1>9, <1>10, <1>11, BuffersSought
<1>13. /\ budget' \in [Threads -> [Streams -> Nat]]
       /\ \A u \in Threads \ {t} : budget'[u] = budget[u]
       /\ budget'[t][s] = budget[t][s] - 1
       /\ \A r \in Streams \ {s} : budget'[t][r] = budget[t][r]
  <2>1. budget[t][s] - 1 \in Nat
    BY <1>3, <1>6
  <2> QED
    BY <1>1, <1>9, <2>1 DEF TypeInv
<1>14. \A r \in Streams :
          /\ usage[t][r] <= usage'[t][r]
          /\ usage'[t][r] + budget'[t][r] <= usage[t][r] + budget[t][r]
  <2>1. ASSUME NEW r \in Streams
        PROVE  /\ usage[t][r] <= usage'[t][r]
               /\ usage'[t][r] + budget'[t][r] <= usage[t][r] + budget[t][r]
    <3>1. usage[t][r] \in Nat /\ budget[t][r] \in Nat
      BY <1>3
    <3>2. usage'[t][r] = usage[t][r] \/ usage'[t][r] = p[r]
      BY <1>10
    <3>3. \/ p[r] = usage[t][r] /\ budget'[t][r] = budget[t][r]
          \/ p[r] = usage[t][r] + 1 /\ budget'[t][r] = budget[t][r] - 1
      BY <1>5, <1>13
    <3> QED
      BY <3>1, <3>2, <3>3
  <2> QED
    BY <2>1
<1>15. UnknownAlone' /\ ThrownStay' /\ NeedsExist' /\ Windows' /\ Apart' /\ ReachOK'
  BY <1>2, <1>10, <1>11, <1>13, <1>14, TapeAdvances DEF DataInv
<1>16. TakenOK' /\ NeverAgain' /\ TuplesAreWhole' /\ CutOK' /\ UsedItemsDiscarded'
  BY <1>2, <1>9, <1>10, <1>11, <1>13, <1>14, NothingRead DEF DataInv
<1>17. TypeInv'
  BY <1>1, <1>10, <1>11, <1>13 DEF TypeInv
<1>18. FailsOnlyWhenShort'
  <2>1. DataShort => DataShort'
    BY <1>11 DEF DataShort
  <2>2. threw'[t] => DataShort
    BY <1>1, <1>2, <1>10, MissingIsShort DEF NeedsExist
  <2>3. ASSUME NEW u \in Threads, threw'[u] PROVE locked' \/ DataShort'
    <3>1. CASE u = t
      BY <2>1, <2>2, <2>3, <3>1
    <3>2. CASE u # t
      <4>1. threw[u]
        BY <1>10, <2>3, <3>2
      <4>2. locked \/ DataShort
        BY <4>1 DEF DataInv, FailsOnlyWhenShort, DataShort
      <4> QED
        BY <1>11, <2>1, <4>2
    <3> QED
      BY <3>1, <3>2
  <2> QED
    BY <2>3 DEF FailsOnlyWhenShort, DataShort
<1> QED
  BY <1>12, <1>15, <1>16, <1>17, <1>18 DEF DataInv

(* A tape starts, with (known) or without (unknown) declaring its use.     *)
LEMMA TapeStarts ==
    ASSUME PositionsFit, DataInv, NEW t \in Threads, NEW need \in Needs,
           NEW m \in {"known", "unknown"},
           Alive, mode[t] = "idle", \A u \in Threads : mode[u] # "unknown",
           m = "unknown" => \A u \in Threads : mode[u] = "idle",
           SeekTo(t, pos), mode' = [mode EXCEPT ![t] = m],
           budget' = [budget EXCEPT ![t] = need],
           pos' = IF m = "known" THEN Add(pos, need) ELSE pos,
           given' = IF m = "known" THEN Add(given, need) ELSE given,
           tapes' = tapes + 1,
           UNCHANGED <<files, shared, process, runs, taken, again, got>>
    PROVE  DataInv'
<1>1. TypeInv /\ BuffersOK /\ ReachOK /\ Windows /\ ThrownStay
  BY DEF DataInv
<1>2. process = "running" /\ tapes < MaxTapes
  BY DEF Alive
<1>3. ~threw[t]
  BY <1>1 DEF ThrownStay
<1>4. /\ need \in [Streams -> Nat] /\ pos \in [Streams -> Nat] /\ given \in [Streams -> Nat]
      /\ tapes \in Nat /\ MaxTapes \in Nat
  BY <1>1, BoundsAssumption DEF TypeInv
<1>5. \A r \in Streams : pos[r] \in Nat /\ need[r] \in Nat /\ given[r] \in Nat
  BY <1>4
<1>6. \A u \in Threads, r \in Streams : usage[u][r] \in Nat /\ budget[u][r] \in Nat
  BY <1>1 DEF TypeInv
<1>7. \A r \in Streams : usage[t][r] <= pos[r]
  BY <1>1, <1>3 DEF Windows
<1>8. AllFit(pos)
  <2>1. \A r \in Streams : pos[r] <= pos[r]
    BY <1>5
  <2> QED
    BY <1>1, <1>4, <2>1, AllPositionsFit
<1>9. /\ buf' \in [Threads -> [Streams -> Buffers]]
      /\ usage' \in [Threads -> [Streams -> Nat]]
      /\ threw' \in [Threads -> BOOLEAN]
      /\ \A u \in Threads \ {t} :
            buf'[u] = buf[u] /\ usage'[u] = usage[u] /\ threw'[u] = threw[u]
      /\ threw'[t] => usage' = usage /\ \E r \in Kinds : ~present[r]
      /\ ~threw'[t] => usage'[t] = pos /\ \A bs \in {buf'[t]} : AllIn(bs, pos)
  BY <1>1, <1>2, <1>3, <1>4, <1>7, <1>8, SeekToIn
<1>10. /\ present' = present /\ start' = start /\ lengths' = lengths /\ locked' = locked
       /\ process' = process /\ taken' = taken /\ again' = again /\ got' = got
  BY DEF files, shared
<1>11. BuffersOK'
  BY <1>1, <1>2, <1>4, <1>9, <1>10, BuffersSought DEF files
<1>12. /\ budget' \in [Threads -> [Streams -> Nat]] /\ budget'[t] = need
       /\ \A u \in Threads \ {t} : budget'[u] = budget[u]
       /\ mode' \in [Threads -> {"idle", "known", "unknown"}] /\ mode'[t] = m
       /\ \A u \in Threads \ {t} : mode'[u] = mode[u]
  BY <1>1, <1>4 DEF TypeInv
<1>13. \A r \in Streams :
          \/ m = "known" /\ pos'[r] = pos[r] + need[r] /\ given'[r] = given[r] + need[r]
          \/ m = "unknown" /\ pos'[r] = pos[r] /\ given'[r] = given[r]
  BY DEF Add
<1>14. /\ pos' \in [Streams -> Nat] /\ given' \in [Streams -> Nat]
       /\ \A r \in Streams : pos[r] <= pos'[r] /\ given[r] <= given'[r]
  <2>1. \A r \in Streams :
           /\ pos[r] + need[r] \in Nat /\ given[r] + need[r] \in Nat
           /\ pos[r] <= pos[r] + need[r] /\ given[r] <= given[r] + need[r]
    BY <1>5
  <2>2. pos' \in [Streams -> Nat]
    BY <1>4, <2>1 DEF Add
  <2>3. given' \in [Streams -> Nat]
    BY <1>4, <2>1 DEF Add
  <2>4. \A r \in Streams : pos[r] <= pos[r] /\ given[r] <= given[r]
    BY <1>5
  <2> QED
    BY <1>13, <2>1, <2>2, <2>3, <2>4
<1>15. TypeInv'
  <2>1. tapes' \in 0 .. MaxTapes
    BY <1>2, <1>4
  <2> QED
    BY <1>1, <1>9, <1>10, <1>12, <1>14, <2>1 DEF TypeInv
<1>16. UnknownAlone' /\ ThrownStay' /\ NeedsExist'
  <2>1. UnknownAlone'
    <3>1. ASSUME NEW u \in Threads, NEW w \in Threads, mode'[u] = "unknown", w # u
          PROVE  mode'[w] = "idle"
      <4>1. u = t /\ m = "unknown"
        BY <1>12, <3>1
      <4> QED
        BY <1>12, <3>1, <4>1
    <3> QED
      BY <3>1 DEF UnknownAlone
  <2>2. ThrownStay'
    BY <1>1, <1>9, <1>12 DEF ThrownStay
  <2>3. NeedsExist'
    BY DEF NeedsExist
  <2> QED
    BY <2>1, <2>2, <2>3
<1>17. Windows'
  <2>1. ASSUME NEW u \in Threads, ~threw'[u]
        PROVE  /\ mode'[u] = "idle" => \A r \in Streams : usage'[u][r] <= pos'[r]
               /\ mode'[u] = "known" => \A r \in Streams : usage'[u][r] + budget'[u][r] <= pos'[r]
               /\ mode'[u] = "unknown" =>
                    /\ \A r \in Streams : pos'[r] <= usage'[u][r]
                    /\ \E q \in Needs : \A r \in Streams :
                          usage'[u][r] + budget'[u][r] <= pos'[r] + q[r]
    <3>1. CASE u = t
      <4>1. usage'[t] = pos /\ budget'[t] = need /\ mode'[t] = m
        BY <1>9, <1>12, <2>1, <3>1
      <4>2. CASE m = "known"
        <5>1. \A r \in Streams : usage'[t][r] + budget'[t][r] <= pos'[r]
          BY <1>5, <1>13, <4>1, <4>2
        <5> QED
          BY <3>1, <4>1, <4>2, <5>1
      <4>3. CASE m = "unknown"
        <5>1. /\ \A r \in Streams : pos'[r] <= usage'[t][r]
              /\ \A r \in Streams : usage'[t][r] + budget'[t][r] <= pos'[r] + need[r]
          BY <1>5, <1>13, <4>1, <4>3
        <5> QED
          BY <3>1, <4>1, <4>3, <5>1
      <4> QED
        BY <4>2, <4>3
    <3>2. CASE u # t
      <4>1. /\ usage'[u] = usage[u] /\ budget'[u] = budget[u] /\ mode'[u] = mode[u]
            /\ ~threw[u] /\ mode[u] # "unknown"
        BY <1>9, <1>12, <2>1, <3>2
      <4>2. mode[u] = "idle" => \A r \in Streams : usage[u][r] <= pos[r]
        BY <1>1, <4>1 DEF Windows
      <4>3. mode[u] = "known" => \A r \in Streams : usage[u][r] + budget[u][r] <= pos[r]
        BY <1>1, <4>1 DEF Windows
      <4>4. \A r \in Streams : pos'[r] \in Nat
        BY <1>14
      <4>5. mode[u] = "idle" => \A r \in Streams : usage[u][r] <= pos'[r]
        BY <1>5, <1>6, <1>14, <4>2, <4>4
      <4>6. mode[u] = "known" => \A r \in Streams : usage[u][r] + budget[u][r] <= pos'[r]
        BY <1>5, <1>6, <1>14, <4>3, <4>4
      <4> QED
        BY <4>1, <4>5, <4>6
    <3> QED
      BY <3>1, <3>2
  <2> QED
    BY <2>1 DEF Windows
<1>18. Apart'
  <2>1. ASSUME NEW u \in Threads \ {t}, Active(u)', NEW r \in Kinds
        PROVE  Active(u) /\ usage'[u][r] + budget'[u][r] <= pos[r]
    <3>1. mode[u] # "idle" /\ ~threw[u] /\ r \in Streams
      BY <1>9, <1>12, <2>1 DEF Active, Streams
    <3>2. mode[u] = "known"
      BY <1>1, <3>1 DEF TypeInv
    <3> QED
      BY <1>1, <1>9, <1>12, <3>1, <3>2 DEF Active, Windows
  <2>2. ASSUME NEW u \in Threads, NEW w \in Threads, u # w, Active(u)', Active(w)',
               NEW r \in Kinds
        PROVE  \/ usage'[u][r] + budget'[u][r] <= usage'[w][r]
               \/ usage'[w][r] + budget'[w][r] <= usage'[u][r]
    <3>1. r \in Streams
      BY DEF Streams
    <3>2. CASE u # t /\ w # t
      BY <1>9, <1>12, <2>1, <2>2, <3>2 DEF DataInv, Apart
    <3>3. CASE u = t
      BY <1>9, <2>1, <2>2, <3>3 DEF Active
    <3>4. CASE w = t
      BY <1>9, <2>1, <2>2, <3>4 DEF Active
    <3> QED
      BY <3>2, <3>3, <3>4
  <2> QED
    BY <2>2 DEF Apart
<1>19. TakenOK' /\ NeverAgain'
  <2>1. ASSUME NEW u \in Threads, Active(u)'
        PROVE  \/ /\ Active(u)
                  /\ \A r \in Streams :
                        /\ usage[u][r] <= usage'[u][r]
                        /\ usage'[u][r] + budget'[u][r] <= usage[u][r] + budget[u][r]
               \/ /\ \A w \in Threads : mode[w] # "unknown"
                  /\ \A r \in Streams : pos[r] <= usage'[u][r]
    <3>1. CASE u = t
      BY <1>5, <1>9, <2>1, <3>1 DEF Active
    <3>2. CASE u # t
      <4>1. Active(u) /\ usage'[u] = usage[u] /\ budget'[u] = budget[u]
        BY <1>9, <1>12, <2>1, <3>2 DEF Active
      <4>2. \A r \in Streams :
               usage[u][r] <= usage[u][r] /\ usage[u][r] + budget[u][r] <= usage[u][r] + budget[u][r]
        BY <1>6
      <4> QED
        BY <4>1, <4>2
    <3> QED
      BY <3>1, <3>2
  <2>2. ASSUME NEW r \in Kinds, present'[r], NEW x \in taken[r]
        PROVE  /\ x < Items[r] /\ TakenBefore(r, x)'
               /\ \A u \in Threads : Active(u)' =>
                     \/ x < At(r, start'[r], usage'[u][r])
                     \/ x >= At(r, start'[r], usage'[u][r] + budget'[u][r])
    <3>1. UNCHANGED <<files, process>> /\ TakenOK
      BY DEF DataInv
    <3>2. \A r1 \in Streams : pos[r1] <= pos'[r1]
      BY <1>14
    <3> QED
      BY <1>1, <1>2, <1>9, <1>12, <1>14, <2>1, <2>2, <3>1, <3>2, TakenStays
  <2>3. TakenOK'
    BY <1>10, <2>2 DEF TakenOK
  <2>4. NeverAgain'
    BY <1>10 DEF DataInv, NeverAgain
  <2> QED
    BY <2>3, <2>4
<1>20. CutOK' /\ UsedItemsDiscarded' /\ TuplesAreWhole'
  <2>1. ASSUME NEW r \in Streams
        PROVE  pos'[r] <= given'[r] /\ Cut(r, start'[r], given'[r] - pos'[r])
    <3>1. pos[r] <= given[r] /\ Cut(r, start[r], given[r] - pos[r])
      BY <1>2 DEF DataInv, CutOK
    <3>2. pos'[r] <= given'[r] /\ given'[r] - pos'[r] = given[r] - pos[r]
      BY <1>5, <1>13, <3>1
    <3> QED
      BY <1>10, <3>1, <3>2
  <2>2. CutOK'
    BY <1>2, <1>10, <2>1 DEF CutOK
  <2>3. UsedItemsDiscarded' /\ TuplesAreWhole'
    BY <1>2, <1>10 DEF DataInv, UsedItemsDiscarded, TuplesAreWhole
  <2> QED
    BY <2>2, <2>3
<1>21. ReachOK'
  <2>1. ASSUME NEW r \in Streams
        PROVE  Nothing(r)' \/ \E q \in Needs : Reach(r, q)'
    <3>1. /\ pos'[r] <= pos[r] + need[r]
          /\ \A u \in Threads : \/ usage'[u][r] + budget'[u][r] <= pos[r] + need[r]
                                \/ usage'[u][r] + budget'[u][r] <= usage[u][r] + budget[u][r]
      <4>1. pos'[r] <= pos[r] + need[r]
        BY <1>5, <1>13
      <4>2. ASSUME NEW u \in Threads
            PROVE  \/ usage'[u][r] + budget'[u][r] <= pos[r] + need[r]
                   \/ usage'[u][r] + budget'[u][r] <= usage[u][r] + budget[u][r]
        <5>1. CASE u = t
          <6>1. usage'[t][r] <= pos[r] /\ budget'[t][r] = need[r]
            BY <1>5, <1>7, <1>9, <1>12
          <6>2. usage'[t][r] \in Nat
            BY <1>9
          <6> QED
            BY <1>5, <5>1, <6>1, <6>2
        <5>2. CASE u # t
          BY <1>6, <1>9, <1>12, <5>2
        <5> QED
          BY <5>1, <5>2
      <4> QED
        BY <4>1, <4>2
    <3>2. pos'[r] \in Nat /\ \A u \in Threads : usage'[u][r] + budget'[u][r] \in Nat
      BY <1>9, <1>12, <1>14
    <3>3. \A u \in Threads : usage[u][r] + budget[u][r] \in Nat
      BY <1>6
    <3>4. CASE Nothing(r) /\ need[r] = 0
      <4>1. pos[r] + need[r] = 0 /\ \A u \in Threads : usage[u][r] + budget[u][r] = 0
        BY <3>4 DEF Nothing
      <4>2. pos'[r] <= 0 /\ \A u \in Threads : usage'[u][r] + budget'[u][r] <= 0
        BY <3>1, <4>1
      <4>3. \A x \in Nat : x <= 0 => x = 0
        OBVIOUS
      <4> QED
        BY <3>2, <4>2, <4>3 DEF Nothing
    <3>5. CASE Nothing(r) /\ need[r] # 0
      <4>1. pos[r] = 0 /\ \A u \in Threads : usage[u][r] + budget[u][r] = 0
        BY <3>5 DEF Nothing
      <4>2. PICK y : y = (tapes + 1) * need[r]
        OBVIOUS
      <4>3. need[r] <= y /\ y \in Nat
        <5>1. 1 * need[r] <= (tapes + 1) * need[r] /\ 1 * need[r] = need[r]
          BY <1>4, <1>5, TimesMonotonic
        <5>2. (tapes + 1) * need[r] \in Nat
          BY <1>4, <1>5
        <5> QED
          BY <4>2, <5>1, <5>2
      <4>4. pos'[r] <= y
        BY <1>5, <3>1, <3>2, <4>1, <4>3
      <4>5. ASSUME NEW u \in Threads PROVE usage'[u][r] + budget'[u][r] <= y
        <5>1. usage'[u][r] + budget'[u][r] <= need[r]
          <6>1. usage[u][r] + budget[u][r] = 0 /\ pos[r] + need[r] = need[r]
            BY <1>5, <4>1
          <6>2. \/ usage'[u][r] + budget'[u][r] <= need[r]
                \/ usage'[u][r] + budget'[u][r] <= 0
            BY <3>1, <6>1
          <6> QED
            BY <1>5, <3>2, <6>2
        <5> QED
          BY <1>5, <3>2, <4>3, <5>1
      <4>6. Reach(r, need)'
        BY <4>2, <4>4, <4>5 DEF Reach
      <4> QED
        BY <4>6
    <3>6. CASE \E q \in Needs : Reach(r, q)
      <4>1. PICK q \in Needs : Reach(r, q)
        BY <3>6
      <4>2. PICK h \in Needs : q[r] <= h[r] /\ need[r] <= h[r]
        <5>1. q[r] \in Nat
          BY BoundsAssumption
        <5>2. q[r] <= need[r] \/ need[r] <= q[r]
          BY <1>5, <5>1
        <5>3. q[r] <= q[r] /\ need[r] <= need[r]
          BY <1>5, <5>1
        <5> QED
          BY <5>2, <5>3
      <4>3. q[r] \in Nat /\ h[r] \in Nat
        BY BoundsAssumption
      <4>4. PICK x : x = tapes * q[r]
        OBVIOUS
      <4>5. PICK y : y = (tapes + 1) * h[r]
        OBVIOUS
      <4>6. x \in Nat /\ y \in Nat /\ x + need[r] <= y
        <5>1. (tapes + 1) * h[r] = tapes * h[r] + 1 * h[r] /\ 1 * h[r] = h[r]
          BY <1>4, <4>3, Successor
        <5>2. q[r] * tapes <= h[r] * tapes
          BY <1>4, <4>2, <4>3, TimesMonotonic
        <5>3. /\ q[r] * tapes = tapes * q[r] /\ h[r] * tapes = tapes * h[r]
              /\ tapes * q[r] \in Nat /\ tapes * h[r] \in Nat
          BY <1>4, <4>3
        <5> QED
          BY <1>5, <4>2, <4>3, <4>4, <4>5, <5>1, <5>2, <5>3
      <4>7. pos[r] <= x /\ \A u \in Threads : usage[u][r] + budget[u][r] <= x
        BY <4>1, <4>4 DEF Reach
      <4>8. pos[r] + need[r] <= y
        BY <1>5, <4>6, <4>7
      <4>9. pos'[r] <= y
        BY <1>5, <3>1, <3>2, <4>6, <4>8
      <4>10. ASSUME NEW u \in Threads PROVE usage'[u][r] + budget'[u][r] <= y
        <5>1. CASE usage'[u][r] + budget'[u][r] <= pos[r] + need[r]
          BY <1>5, <3>2, <4>6, <4>8, <5>1
        <5>2. CASE usage'[u][r] + budget'[u][r] <= usage[u][r] + budget[u][r]
          <6>1. usage[u][r] + budget[u][r] <= x
            BY <4>7
          <6> QED
            BY <1>5, <3>2, <3>3, <4>6, <5>2, <6>1
        <5> QED
          BY <3>1, <5>1, <5>2
      <4>11. Reach(r, h)'
        BY <4>5, <4>9, <4>10 DEF Reach
      <4> QED
        BY <4>11
    <3> QED
      BY <1>1, <3>4, <3>5, <3>6 DEF ReachOK
  <2> QED
    BY <2>1 DEF ReachOK
<1>22. FailsOnlyWhenShort'
  <2>1. DataShort => DataShort'
    <3>1. \A r \in Streams : given[r] <= given'[r] /\ (present'[r] => present[r])
      BY <1>10, <1>14
    <3> QED
      BY <1>1, <1>14, <3>1, ShortStays
  <2>2. threw'[t] => DataShort
    BY <1>9, MissingIsShort
  <2>3. ASSUME NEW u \in Threads, threw'[u] PROVE locked' \/ DataShort'
    <3>1. CASE u = t
      BY <2>1, <2>2, <2>3, <3>1
    <3>2. CASE u # t
      <4>1. threw[u]
        BY <1>9, <2>3, <3>2
      <4>2. locked \/ DataShort
        BY <4>1 DEF DataInv, FailsOnlyWhenShort, DataShort
      <4> QED
        BY <1>10, <2>1, <4>2
    <3> QED
      BY <3>1, <3>2
  <2> QED
    BY <2>3 DEF FailsOnlyWhenShort, DataShort
<1> QED
  BY <1>11, <1>15, <1>16, <1>17, <1>18, <1>19, <1>20, <1>21, <1>22 DEF DataInv

LEMMA FinishStep ==
    ASSUME DataInv, NEW t \in Threads, Finish(t)
    PROVE  DataInv'
<1>1. TypeInv /\ Windows /\ ReachOK
  BY DEF DataInv
<1>2. process = "running" /\ mode[t] # "idle" /\ ~threw[t]
  BY DEF Finish, Running
<1>3. /\ mode' = [mode EXCEPT ![t] = "idle"]
      /\ UNCHANGED <<files, shared, buf, usage, threw, budget, process, bounds, taken, again, got>>
  BY DEF Finish
<1>4. /\ present' = present /\ start' = start /\ lengths' = lengths /\ locked' = locked
      /\ buf' = buf /\ usage' = usage /\ threw' = threw /\ budget' = budget
      /\ process' = process /\ tapes' = tapes /\ taken' = taken /\ again' = again /\ got' = got
  BY <1>3 DEF files, shared, bounds
<1>5. /\ mode' \in [Threads -> {"idle", "known", "unknown"}] /\ mode'[t] = "idle"
      /\ \A u \in Threads \ {t} : mode'[u] = mode[u]
  BY <1>1, <1>3 DEF TypeInv
<1>6. \A u \in Threads, r \in Streams :
          /\ usage[u][r] \in Nat /\ budget[u][r] \in Nat
          /\ usage'[u][r] = usage[u][r] /\ budget'[u][r] = budget[u][r]
  BY <1>1, <1>4 DEF TypeInv
<1>7. \A r \in Streams : pos[r] \in Nat /\ given[r] \in Nat
  BY <1>1 DEF TypeInv
<1>8. /\ pos' \in [Streams -> Nat] /\ given' \in [Streams -> Nat]
      /\ \A r \in Streams :
            /\ pos[r] <= pos'[r] /\ given[r] <= given'[r]
            /\ given'[r] - pos'[r] = given[r] - pos[r]
            /\ usage[t][r] <= pos'[r] /\ (pos'[r] = pos[r] \/ pos'[r] = usage[t][r])
  <2>1. CASE mode[t] = "unknown"
    <3>1. pos' = usage[t] /\ given' = Add(given, Sub(usage[t], pos))
      BY <2>1 DEF Finish
    <3>2. \A r \in Streams : pos[r] <= usage[t][r]
      BY <1>1, <1>2, <2>1 DEF Windows
    <3>3. \A r \in Streams : given[r] + (usage[t][r] - pos[r]) \in Nat
      BY <1>6, <1>7, <3>2
    <3>4. given' = [r \in Streams |-> given[r] + (usage[t][r] - pos[r])]
      BY <3>1 DEF Add, Sub
    <3>5. pos' \in [Streams -> Nat] /\ given' \in [Streams -> Nat]
      BY <1>1, <3>1, <3>3, <3>4 DEF TypeInv
    <3>6. ASSUME NEW r \in Streams
          PROVE  /\ pos[r] <= pos'[r] /\ given[r] <= given'[r]
                 /\ given'[r] - pos'[r] = given[r] - pos[r]
                 /\ usage[t][r] <= pos'[r] /\ (pos'[r] = pos[r] \/ pos'[r] = usage[t][r])
      <4>1. pos'[r] = usage[t][r] /\ given'[r] = given[r] + (usage[t][r] - pos[r])
        BY <3>1, <3>4
      <4>2. usage[t][r] \in Nat /\ pos[r] \in Nat /\ given[r] \in Nat /\ pos[r] <= usage[t][r]
        BY <1>6, <1>7, <3>2
      <4> QED
        BY <4>1, <4>2
    <3> QED
      BY <3>5, <3>6
  <2>2. CASE mode[t] = "known"
    <3>1. pos' = pos /\ given' = given
      BY <2>2 DEF Finish
    <3>2. \A r \in Streams : usage[t][r] + budget[t][r] <= pos[r]
      BY <1>1, <1>2, <2>2 DEF Windows
    <3>3. \A r \in Streams :
             /\ pos[r] <= pos[r] /\ given[r] <= given[r] /\ given[r] - pos[r] = given[r] - pos[r]
             /\ usage[t][r] <= pos[r]
      BY <1>6, <1>7, <3>2
    <3> QED
      BY <1>1, <3>1, <3>3 DEF TypeInv
  <2> QED
    BY <1>1, <1>2, <2>1, <2>2 DEF TypeInv
<1>9. \A u \in Threads \ {t} : mode[u] = "unknown" => mode[t] = "idle"
  BY DEF DataInv, UnknownAlone
<1>10. \A u \in Threads \ {t} : mode[u] # "unknown"
  BY <1>2, <1>9
<1>11. TypeInv'
  BY <1>1, <1>4, <1>5, <1>8 DEF TypeInv
<1>12. BuffersOK'
  BY <1>4 DEF DataInv, BuffersOK, Length
<1>13. UnknownAlone' /\ ThrownStay' /\ NeedsExist'
  <2>1. UnknownAlone'
    BY <1>5, <1>10 DEF UnknownAlone
  <2>2. ThrownStay'
    BY <1>2, <1>4, <1>5 DEF DataInv, ThrownStay
  <2>3. NeedsExist'
    BY <1>2 DEF DataInv, NeedsExist
  <2> QED
    BY <2>1, <2>2, <2>3
<1>14. Windows'
  <2>1. ASSUME NEW u \in Threads, ~threw'[u]
        PROVE  /\ mode'[u] = "idle" => \A r \in Streams : usage'[u][r] <= pos'[r]
               /\ mode'[u] = "known" => \A r \in Streams : usage'[u][r] + budget'[u][r] <= pos'[r]
               /\ mode'[u] # "unknown"
    <3>1. CASE u = t
      BY <1>5, <1>6, <1>8, <3>1
    <3>2. CASE u # t
      <4>1. mode'[u] = mode[u] /\ ~threw[u] /\ mode[u] # "unknown"
        BY <1>4, <1>5, <1>10, <2>1, <3>2
      <4>2. \A r \in Streams : pos'[r] \in Nat
        BY <1>8
      <4>3. mode[u] = "idle" => \A r \in Streams : usage'[u][r] <= pos'[r]
        <5>1. mode[u] = "idle" => \A r \in Streams : usage[u][r] <= pos[r]
          BY <1>1, <4>1 DEF Windows
        <5> QED
          BY <1>6, <1>7, <1>8, <4>2, <5>1
      <4>4. mode[u] = "known" => \A r \in Streams : usage'[u][r] + budget'[u][r] <= pos'[r]
        <5>1. mode[u] = "known" => \A r \in Streams : usage[u][r] + budget[u][r] <= pos[r]
          BY <1>1, <4>1 DEF Windows
        <5> QED
          BY <1>6, <1>7, <1>8, <4>2, <5>1
      <4> QED
        BY <4>1, <4>3, <4>4
    <3> QED
      BY <3>1, <3>2
  <2> QED
    BY <2>1 DEF Windows
<1>15. \A u \in Threads : Active(u)' => Active(u)
  BY <1>4, <1>5 DEF Active
<1>16. Apart'
  BY <1>4, <1>15 DEF DataInv, Apart
<1>17. TakenOK' /\ NeverAgain'
  <2>1. \A u \in Threads, r \in Streams :
           /\ usage[u][r] <= usage'[u][r]
           /\ usage'[u][r] + budget'[u][r] <= usage[u][r] + budget[u][r]
    BY <1>6
  <2>2. \A u \in Threads : mode[u] = "unknown" => u = t
    BY <1>10
  <2>3. /\ usage' \in [Threads -> [Streams -> Nat]] /\ budget' \in [Threads -> [Streams -> Nat]]
        /\ UNCHANGED <<files, process>> /\ TakenOK
    BY <1>1, <1>3, <1>4 DEF DataInv, TypeInv
  <2>4. \A r \in Streams : pos[r] <= pos'[r] /\ usage[t][r] <= pos'[r]
    BY <1>8
  <2>5. ASSUME NEW r \in Kinds, present'[r], NEW x \in taken[r]
        PROVE  /\ x < Items[r] /\ TakenBefore(r, x)'
               /\ \A u \in Threads : Active(u)' =>
                     \/ x < At(r, start'[r], usage'[u][r])
                     \/ x >= At(r, start'[r], usage'[u][r] + budget'[u][r])
    BY <1>1, <1>2, <1>8, <1>15, <2>1, <2>2, <2>3, <2>4, <2>5, TakenStays
  <2>6. TakenOK'
    BY <1>4, <2>5 DEF TakenOK
  <2>7. NeverAgain'
    BY <1>4 DEF DataInv, NeverAgain
  <2> QED
    BY <2>6, <2>7
<1>18. CutOK' /\ UsedItemsDiscarded' /\ TuplesAreWhole'
  <2>1. ASSUME NEW r \in Streams
        PROVE  pos'[r] <= given'[r] /\ Cut(r, start'[r], given'[r] - pos'[r])
    <3>1. pos[r] <= given[r] /\ Cut(r, start[r], given[r] - pos[r])
      BY <1>2 DEF DataInv, CutOK
    <3>2. pos'[r] \in Nat /\ given'[r] \in Nat /\ given'[r] - pos'[r] = given[r] - pos[r]
      BY <1>8
    <3>3. pos'[r] <= given'[r]
      BY <1>7, <3>1, <3>2
    <3> QED
      BY <1>4, <3>1, <3>2, <3>3
  <2>2. CutOK'
    BY <1>2, <1>4, <2>1 DEF CutOK
  <2>3. UsedItemsDiscarded' /\ TuplesAreWhole'
    BY <1>2, <1>4 DEF DataInv, UsedItemsDiscarded, TuplesAreWhole
  <2> QED
    BY <2>2, <2>3
<1>19. ReachOK'
  <2>1. ASSUME NEW r \in Streams
        PROVE  Nothing(r)' \/ \E q \in Needs : Reach(r, q)'
    <3>1. pos'[r] = pos[r] \/ pos'[r] = usage[t][r]
      BY <1>8
    <3>2. CASE Nothing(r)
      <4>1. usage[t][r] + budget[t][r] = 0 /\ pos[r] = 0
        BY <3>2 DEF Nothing
      <4>2. usage[t][r] = 0
        BY <1>6, <4>1
      <4> QED
        BY <1>4, <3>1, <3>2, <4>1, <4>2 DEF Nothing
    <3>3. CASE \E q \in Needs : Reach(r, q)
      <4>1. PICK q \in Needs : Reach(r, q)
        BY <3>3
      <4>2. PICK y \in Int : y = tapes * q[r]
        <5>1. tapes \in Nat /\ q[r] \in Nat
          BY <1>1, BoundsAssumption DEF TypeInv
        <5>2. tapes * q[r] \in Int
          BY <5>1
        <5> QED
          BY <5>2
      <4>3. pos[r] <= y /\ \A u \in Threads : usage[u][r] + budget[u][r] <= y
        BY <4>1, <4>2 DEF Reach
      <4>4. usage[t][r] <= y
        <5>1. usage[t][r] + budget[t][r] <= y
          BY <4>3
        <5>2. usage[t][r] \in Nat /\ budget[t][r] \in Nat
          BY <1>6
        <5> QED
          BY <5>1, <5>2
      <4>5. pos'[r] <= y
        BY <3>1, <4>3, <4>4
      <4>6. Reach(r, q)'
        BY <1>4, <4>2, <4>3, <4>5 DEF Reach
      <4> QED
        BY <4>6
    <3> QED
      BY <1>1, <3>2, <3>3 DEF ReachOK
  <2> QED
    BY <2>1 DEF ReachOK
<1>20. FailsOnlyWhenShort'
  <2>1. DataShort => DataShort'
    <3>1. \A r \in Streams : given[r] <= given'[r] /\ (present'[r] => present[r])
      BY <1>4, <1>8
    <3> QED
      BY <1>1, <1>8, <3>1, ShortStays
  <2>2. ASSUME NEW u \in Threads, threw'[u] PROVE locked' \/ DataShort'
    <3>1. threw[u]
      BY <1>4, <2>2
    <3>2. locked \/ DataShort
      BY <3>1 DEF DataInv, FailsOnlyWhenShort, DataShort
    <3> QED
      BY <1>4, <2>1, <3>2
  <2> QED
    BY <2>2 DEF FailsOnlyWhenShort, DataShort
<1> QED
  BY <1>11, <1>12, <1>13, <1>14, <1>16, <1>17, <1>18, <1>19, <1>20 DEF DataInv

LEMMA CutGrows ==
    ASSUME NEW s \in Streams, NEW from \in Nat, NEW a \in Nat, NEW b \in Nat, a <= b,
           Cut(s, from, a)
    PROVE  Cut(s, from, b)
<1>1. CASE from = 0
  BY <1>1 DEF Cut
<1>2. CASE \E n \in Sizes[s] : from <= a * n
  <2>1. PICK n \in Sizes[s] : from <= a * n
    BY <1>2
  <2>2. n \in Nat
    BY SizesAssumption
  <2>3. a * n <= b * n /\ a * n \in Int /\ b * n \in Int
    BY <2>2, TimesMonotonic
  <2>4. from <= b * n
    BY <2>1, <2>3
  <2> QED
    BY <2>4 DEF Cut
<1> QED
  BY <1>1, <1>2 DEF Cut

(* a tuples are cut off, then the p tuples of length m behind them.        *)
LEMMA CutMore ==
    ASSUME NEW s \in Streams, NEW from \in Nat, NEW a \in Nat, NEW p \in Nat,
           NEW m \in Sizes[s] \cup {0}, Cut(s, from, a), NEW to \in Nat, to <= from + p * m
    PROVE  Cut(s, to, a + p)
<1>1. \A n \in Sizes[s] : n \in Nat
  BY SizesAssumption
<1>2. m \in Nat
  BY <1>1
<1>3. PICK y : y = p * m
  OBVIOUS
<1>4. y \in Nat /\ to <= from + y
  BY <1>2, <1>3
<1>5. ASSUME NEW n \in Sizes[s], m <= n, from <= a * n
      PROVE  Cut(s, to, a + p)
  <2>1. n \in Nat
    BY <1>1
  <2>2. p * m <= p * n
    BY <1>2, <1>5, <2>1, TimesBothMonotonic
  <2>3. (a + p) * n = a * n + p * n /\ a * n \in Int /\ p * n \in Int
    BY <2>1, Successor
  <2>4. to <= (a + p) * n
    BY <1>3, <1>4, <1>5, <2>2, <2>3
  <2> QED
    BY <2>4 DEF Cut
<1>6. CASE from = 0 /\ m = 0
  <2>1. to = 0
    BY <1>2, <1>3, <1>4, <1>6
  <2> QED
    BY <2>1 DEF Cut
<1>7. CASE from = 0 /\ m # 0
  <2>1. m \in Sizes[s] /\ m <= m /\ a * m \in Nat
    BY <1>2, <1>7
  <2>2. from <= a * m
    BY <1>7, <2>1
  <2> QED
    BY <1>5, <2>1, <2>2
<1>8. CASE \E n \in Sizes[s] : from <= a * n
  <2>1. PICK n \in Sizes[s] : from <= a * n
    BY <1>8
  <2>2. n \in Nat
    BY <1>1
  <2>3. CASE m <= n
    BY <1>5, <2>1, <2>3
  <2>4. CASE n <= m /\ m # 0
    <3>1. m \in Sizes[s] /\ m <= m
      BY <1>2, <2>4
    <3>2. a * n <= a * m /\ a * n \in Int /\ a * m \in Int
      <4>1. a * n \in Int /\ a * m \in Int
        BY <1>2, <2>2
      <4> QED
        BY <1>2, <2>2, <2>4, <4>1, TimesBothMonotonic
    <3>3. from <= a * m
      BY <2>1, <3>2
    <3> QED
      BY <1>5, <3>1, <3>3
  <2> QED
    BY <1>2, <2>2, <2>3, <2>4
<1> QED
  BY <1>6, <1>7, <1>8 DEF Cut

LEMMA RunOver ==
    ASSUME DataInv, process' = "over",
           present' \in [Streams -> BOOLEAN], start' \in [Streams -> Nat],
           \A r \in Tags : present'[r],
           \A r \in Streams : present'[r] => present[r],
           \A r \in Kinds : present'[r] =>
               \A x \in taken[r] : x < Items[r] /\ x < start'[r],
           \A r \in Streams : Cut(r, start'[r], given[r]),
           UNCHANGED <<shared, buf, usage, mode, threw, budget, pos, bounds, ghosts>>
    PROVE  DataInv'
<1>1. /\ lengths' = lengths /\ locked' = locked /\ buf' = buf /\ usage' = usage
      /\ mode' = mode /\ threw' = threw /\ budget' = budget /\ pos' = pos /\ tapes' = tapes
      /\ taken' = taken /\ again' = again /\ given' = given /\ got' = got
  BY DEF shared, bounds, ghosts
<1>2. TypeInv'
  BY <1>1 DEF DataInv, TypeInv
<1>3. BuffersOK'
  BY DEF BuffersOK
<1>4. UnknownAlone' /\ ThrownStay' /\ NeedsExist' /\ NeverAgain' /\ TuplesAreWhole'
  BY <1>1 DEF DataInv, UnknownAlone, ThrownStay, NeedsExist, NeverAgain, TuplesAreWhole
<1>5. Windows'
  BY <1>1 DEF DataInv, Windows
<1>6. Apart'
  BY <1>1 DEF DataInv, Apart, Active
<1>7. TakenOK' /\ UsedItemsDiscarded'
  <2>1. TakenOK'
    BY <1>1 DEF TakenOK, TakenBefore
  <2>2. UsedItemsDiscarded'
    BY <1>1 DEF UsedItemsDiscarded
  <2> QED
    BY <2>1, <2>2
<1>8. CutOK'
  BY <1>1 DEF DataInv, CutOK
<1>9. ReachOK'
  BY <1>1 DEF DataInv, ReachOK, Reach, Nothing
<1>10. FailsOnlyWhenShort'
  <2>1. TypeInv /\ FailsOnlyWhenShort
    BY DEF DataInv
  <2>2. given' \in [Streams -> Nat] /\ \A r \in Streams : given[r] <= given'[r]
    <3>1. \A r \in Streams : given[r] \in Nat
      BY <2>1 DEF TypeInv
    <3> QED
      BY <1>1, <2>1, <3>1 DEF TypeInv
  <2>3. DataShort => DataShort'
    BY <2>1, <2>2, ShortStays
  <2>4. \A u \in Threads : threw[u] => locked \/ DataShort
    BY <2>1 DEF FailsOnlyWhenShort, DataShort
  <2> QED
    BY <1>1, <2>3, <2>4 DEF FailsOnlyWhenShort, DataShort
<1> QED
  BY <1>2, <1>3, <1>4, <1>5, <1>6, <1>7, <1>8, <1>9, <1>10 DEF DataInv

LEMMA RunPurged ==
    ASSUME DataInv, process = "running", process' = "over", Purge,
           UNCHANGED <<start, shared, buf, usage, mode, threw, budget, pos, bounds, ghosts>>
    PROVE  DataInv'
<1>1. TypeInv /\ CutOK
  BY DEF DataInv
<1>2. present' = [r \in Streams |-> present[r] /\ r \notin Kinds]
  BY DEF Purge
<1>3. /\ present' \in [Streams -> BOOLEAN] /\ start' \in [Streams -> Nat]
      /\ \A r \in Tags : present'[r]
      /\ \A r \in Streams : present'[r] => present[r]
      /\ \A r \in Kinds : ~present'[r]
  BY <1>1, <1>2, StreamsAssumption DEF TypeInv, Streams
<1>4. ASSUME NEW r \in Streams PROVE Cut(r, start'[r], given[r])
  <2>1. pos[r] <= given[r] /\ Cut(r, start[r], given[r] - pos[r])
    BY <1>1 DEF CutOK
  <2>2. pos[r] \in Nat /\ given[r] \in Nat /\ start[r] \in Nat
    BY <1>1 DEF TypeInv
  <2>3. PICK a : a = given[r] - pos[r]
    OBVIOUS
  <2>4. a \in Nat /\ a <= given[r]
    BY <2>1, <2>2, <2>3
  <2>5. Cut(r, start[r], given[r])
    BY <2>1, <2>2, <2>3, <2>4, CutGrows
  <2> QED
    BY <2>5
<1>5. UNCHANGED <<shared, buf, usage, mode, threw, budget, pos, bounds, ghosts>>
  OBVIOUS
<1> QED
  BY <1>3, <1>4, <1>5, RunOver

LEMMA ThreadDiesStep ==
    ASSUME DataInv, NEW t \in Threads, ThreadDies(t)
    PROVE  DataInv'
  BY RunPurged DEF ThreadDies

(* Where prune cuts a file.                                                *)
LEMMA PruneIn ==
    ASSUME TypeInv, AllFit(pos), NEW s \in Streams, ~SeekAll(NewBuffers, pos)[s].failed,
           NEW c, c = SeekAll(NewBuffers, pos)[s]
    PROVE  \E j \in 0 .. pos[s] :
              /\ s \in Kinds => c.up /\ j = pos[s]
              /\ c.up => c.tell = j * Length(s)
<1>1. pos \in [Streams -> Nat] /\ present[s] \in BOOLEAN /\ start[s] \in Nat /\ pos[s] \in Nat
  BY DEF TypeInv
<1>2. Length(s) \in Nat /\ (s \in Kinds => Length(s) = TupleSize(s))
  BY LengthTypes DEF Length
<1>3. /\ NewBuffers[s] \in Buffers
      /\ BufferIn(s, NewBuffers[s], 0, Length(s), present[s], start[s])
  BY <1>1, <1>2, NewBuffersIn
<1>4. BufferSize \in Nat
  BY BoundsAssumption
<1>5. \A b \in Buffers : ~Seek(s, pos[s], b).failed => Seek(s, pos[s], b).next = BufferSize
  <2>1. ASSUME NEW b \in Buffers, ~Seek(s, pos[s], b).failed
        PROVE  Seek(s, pos[s], b).next = BufferSize
    <3>1. PICK x : x = AsInt(pos[s] * b.length)
      OBVIOUS
    <3>2. CASE (x < 0 \/ ~present[s]) /\ pos[s] # 0
      <4>1. Seek(s, pos[s], b) = [b EXCEPT !.failed = TRUE]
        BY <3>1, <3>2 DEF Seek
      <4>2. Seek(s, pos[s], b).failed
        BY <4>1 DEF Buffers
      <4> QED
        BY <2>1, <4>2
    <3>3. CASE ~((x < 0 \/ ~present[s]) /\ pos[s] # 0)
      <4>1. Seek(s, pos[s], b) = [b EXCEPT !.tell = x, !.next = BufferSize]
        BY <3>1, <3>3 DEF Seek
      <4> QED
        BY <4>1 DEF Buffers
    <3> QED
      BY <3>2, <3>3
  <2> QED
    BY <2>1
<1>6. /\ c \in Buffers
      /\ \E j \in 0 .. pos[s] :
            /\ s \in Kinds => j = pos[s]
            /\ BufferIn(s, c, j, Length(s), present[s], start[s])
  <2>1. NewBuffers \in [Streams -> Buffers]
    <3>1. \A r \in Streams : NewBuffers[r] \in Buffers
      <4>1. ASSUME NEW r \in Streams PROVE NewBuffers[r] \in Buffers
        <5>1. Length(r) \in Nat /\ (r \in Kinds => Length(r) = TupleSize(r))
          BY LengthTypes DEF Length
        <5>2. present[r] \in BOOLEAN /\ start[r] \in Nat
          BY DEF TypeInv
        <5> QED
          BY <5>1, <5>2, NewBuffersIn
      <4> QED
        BY <4>1
    <3>2. NewBuffers = [r \in Streams |-> NewBuffers[r]]
      BY DEF NewBuffers
    <3> QED
      BY <3>1, <3>2
  <2>2. 0 \in 0 .. pos[s]
    BY <1>1
  <2> QED
    BY <1>1, <1>3, <2>1, <2>2, SeekStreamIn
<1>7. PICK j \in 0 .. pos[s] :
          /\ s \in Kinds => j = pos[s]
          /\ BufferIn(s, c, j, Length(s), present[s], start[s])
  BY <1>6
<1>8. s \in Kinds => c.up
  BY <1>7 DEF BufferIn
<1>9. c.tell \in Nat /\ c.tell + c.next - BufferSize = j * Length(s)
  BY <1>7 DEF BufferIn, Place
<1>10. c.up => c.next = BufferSize
  <2>1. CASE s \in Kinds
    BY <1>3, <1>5, <2>1 DEF SeekAll
  <2>2. CASE s \notin Kinds /\ pos[s] > 0
    <3>1. SetupExtended(s, NewBuffers[s]) \in Buffers
      <4>1. s \in Tags
        BY <2>2 DEF Streams
      <4>2. lengths[s] \in Nat
        BY <4>1 DEF TypeInv
      <4> QED
        BY <1>1, <1>3, <4>2, SetUpIn DEF SetupExtended
    <3>2. c = Seek(s, pos[s], SetupExtended(s, NewBuffers[s]))
      BY <2>2 DEF SeekAll
    <3> QED
      BY <1>5, <3>1, <3>2
  <2>3. CASE s \notin Kinds /\ ~(pos[s] > 0)
    <3>1. c = NoBuffer
      BY <2>3 DEF SeekAll, NewBuffers
    <3> QED
      BY <3>1 DEF NoBuffer
  <2> QED
    BY <2>1, <2>2, <2>3
<1>11. j * Length(s) \in Int
  BY <1>1, <1>2
<1>12. c.up => c.tell = j * Length(s)
  BY <1>4, <1>9, <1>10, <1>11
<1> QED
  BY <1>7, <1>8, <1>12

LEMMA EndOfRunStep ==
    ASSUME PositionsFit, DataInv, EndOfRun
    PROVE  DataInv'
<1>1. TypeInv /\ CutOK /\ ReachOK /\ TakenOK
  BY DEF DataInv
<1>2. process = "running" /\ process' = "over" /\ \A t \in Threads : mode[t] = "idle"
  BY DEF EndOfRun
<1>3. UNCHANGED <<shared, buf, usage, mode, threw, budget, pos, bounds, ghosts>>
  BY DEF EndOfRun
<1>4. PICK bs : bs = SeekAll(NewBuffers, pos)
  OBVIOUS
<1>5. CASE Fails(bs)
  <2>1. Purge /\ UNCHANGED start
    BY <1>4, <1>5 DEF EndOfRun
  <2>2. UNCHANGED <<start, shared, buf, usage, mode, threw, budget, pos, bounds, ghosts>>
    BY <1>3, <2>1
  <2> QED
    BY <1>2, <2>1, <2>2, RunPurged
<1>6. CASE ~Fails(bs)
  <2>1. start' = [s \in Streams |-> Pruned(s, bs[s])] /\ present' = present
    BY <1>4, <1>6 DEF EndOfRun
  <2>2. AllFit(pos)
    <3>1. pos \in [Streams -> Nat]
      BY <1>1 DEF TypeInv
    <3>2. \A r \in Streams : pos[r] <= pos[r]
      BY <3>1
    <3> QED
      BY <1>1, <3>1, <3>2, AllPositionsFit
  <2>3. ASSUME NEW s \in Streams
        PROVE  /\ start'[s] \in Nat /\ Cut(s, start'[s], given[s])
               /\ s \in Kinds /\ present[s] =>
                     \A x \in taken[s] : x < Items[s] /\ x < start'[s]
    <3>1. PICK c : c = bs[s]
      OBVIOUS
    <3>2. PICK j \in 0 .. pos[s] :
              /\ s \in Kinds => c.up /\ j = pos[s]
              /\ c.up => c.tell = j * Length(s)
      BY <1>1, <1>4, <1>6, <2>2, <3>1, PruneIn DEF Fails
    <3>3. PICK m : m = Length(s)
      OBVIOUS
    <3>4. m \in Nat /\ m \in Sizes[s] \cup {0} /\ (s \in Kinds => m = TupleSize(s))
      BY <1>1, <3>3, LengthTypes DEF Length
    <3>5. pos[s] \in Nat /\ given[s] \in Nat /\ pos[s] <= given[s]
      BY <1>1 DEF TypeInv, CutOK
    <3>6. start[s] \in Nat /\ Items[s] \in Nat /\ present[s] \in BOOLEAN
      BY <1>1, FileTypes
    <3>7. PICK y : y = pos[s] * m
      OBVIOUS
    <3>8. PICK z : z = j * m
      OBVIOUS
    <3>9. y \in Nat /\ z \in Nat /\ z <= y /\ (s \in Kinds => z = y)
      <4>1. j \in Nat /\ j <= pos[s]
        BY <3>5
      <4>2. j * m <= pos[s] * m
        BY <3>4, <3>5, <4>1, TimesMonotonic
      <4>3. j * m \in Nat /\ pos[s] * m \in Nat
        BY <3>4, <3>5, <4>1
      <4> QED
        BY <3>2, <3>7, <3>8, <4>2, <4>3
    <3>10. start'[s] = IF c.up /\ present[s] THEN MinOf(start[s] + z, Items[s]) ELSE start[s]
      BY <2>1, <3>1, <3>2, <3>3, <3>8 DEF Pruned
    <3>11. start'[s] \in Nat /\ start'[s] <= start[s] + y
      <4>1. MinOf(start[s] + z, Items[s]) \in Nat /\ MinOf(start[s] + z, Items[s]) <= start[s] + z
        BY <3>6, <3>9 DEF MinOf
      <4> QED
        BY <3>6, <3>9, <3>10, <4>1
    <3>12. Cut(s, start'[s], given[s])
      <4>1. PICK a : a = given[s] - pos[s]
        OBVIOUS
      <4>2. a \in Nat /\ a + pos[s] = given[s]
        BY <3>5, <4>1
      <4>3. Cut(s, start[s], a)
        BY <1>1, <1>2, <4>1 DEF CutOK
      <4>4. start'[s] <= start[s] + pos[s] * m
        BY <3>7, <3>11
      <4>5. Cut(s, start'[s], a + pos[s])
        BY <3>4, <3>5, <3>6, <3>11, <4>2, <4>3, <4>4, CutMore
      <4> QED
        BY <4>2, <4>5
    <3>13. ASSUME s \in Kinds, present[s], NEW x \in taken[s]
           PROVE  x < Items[s] /\ x < start'[s]
      <4>1. x < Items[s] /\ TakenBefore(s, x) /\ x \in Int
        BY <1>1, <3>13 DEF TakenOK, TypeInv
      <4>2. x < At(s, start[s], pos[s])
        BY <1>2, <4>1 DEF TakenBefore
      <4>3. x < start[s] + y
        BY <3>4, <3>7, <3>13, <4>2 DEF At
      <4>4. start'[s] = MinOf(start[s] + y, Items[s])
        BY <3>2, <3>9, <3>10, <3>13
      <4> QED
        BY <3>6, <3>9, <4>1, <4>3, <4>4 DEF MinOf
    <3> QED
      BY <3>11, <3>12, <3>13
  <2>4. start' \in [Streams -> Nat]
    BY <2>1, <2>3
  <2>5. /\ present' \in [Streams -> BOOLEAN] /\ \A r \in Tags : present'[r]
        /\ \A r \in Streams : present'[r] => present[r]
    BY <1>1, <2>1 DEF TypeInv
  <2>6. \A r \in Kinds : present'[r] => \A x \in taken[r] : x < Items[r] /\ x < start'[r]
    BY <2>1, <2>3 DEF Streams
  <2>7. \A r \in Streams : Cut(r, start'[r], given[r])
    BY <2>3
  <2> QED
    BY <1>2, <1>3, <2>4, <2>5, <2>6, <2>7, RunOver
<1> QED
  BY <1>5, <1>6

(* A process starts: nothing is given to its threads.                      *)
LEMMA ProcessStarts ==
    ASSUME process' = "running", tapes' = 0, lengths' = [s \in Tags |-> 0], locked' = FALSE,
           buf' = [t \in Threads |-> NewBuffers], usage' = [t \in Threads |-> Zero],
           mode' = [t \in Threads |-> "idle"], threw' = [t \in Threads |-> FALSE],
           budget' = [t \in Threads |-> Zero], pos' = Zero,
           got' = [t \in Threads |-> <<>>],
           present' \in [Streams -> BOOLEAN], \A s \in Tags : present'[s],
           start' \in [Streams -> Nat], given' \in [Streams -> Nat],
           taken' \in [Streams -> SUBSET Int], again' \in [Streams -> SUBSET Int],
           \A s \in Kinds : again'[s] = {},
           \A s \in Kinds : present'[s] => \A x \in taken'[s] : x < Items[s] /\ x < start'[s],
           \A s \in Streams : Cut(s, start'[s], given'[s])
    PROVE  DataInv'
<1>1. Zero \in [Streams -> Nat] /\ \A s \in Streams : Zero[s] = 0
  BY DEF Zero
<1>2. \A s \in Streams : Length(s)' \in Nat /\ (s \in Kinds => Length(s)' = TupleSize(s))
  BY TupleSizes DEF Length, Streams
<1>3. ASSUME NEW s \in Streams
      PROVE  /\ NewBuffers[s] \in Buffers
             /\ BufferIn(s, NewBuffers[s], 0, Length(s)', present'[s], start'[s])
  BY <1>2, NewBuffersIn
<1>4. NewBuffers \in [Streams -> Buffers]
  <2>1. NewBuffers = [s \in Streams |-> NewBuffers[s]]
    BY DEF NewBuffers
  <2> QED
    BY <1>3, <2>1
<1>5. TypeInv'
  <2>1. 0 \in 0 .. MaxTapes /\ <<>> \in Seq(Int)
    BY BoundsAssumption
  <2> QED
    BY <1>1, <1>4, <2>1 DEF TypeInv
<1>6. BuffersOK'
  <2>1. ASSUME NEW t \in Threads, NEW s \in Streams
        PROVE  \E j \in 0 .. usage'[t][s] :
                  /\ s \in Kinds => j = usage'[t][s]
                  /\ BufferIn(s, buf'[t][s], j, Length(s)', present'[s], start'[s])
    <3>1. usage'[t][s] = 0 /\ 0 \in 0 .. 0
      BY <1>1
    <3> QED
      BY <1>3, <3>1
  <2> QED
    BY <2>1 DEF BuffersOK
<1>7. UnknownAlone' /\ ThrownStay' /\ NeedsExist' /\ Apart' /\ NeverAgain' /\ TuplesAreWhole'
  BY DEF UnknownAlone, ThrownStay, NeedsExist, Apart, Active, NeverAgain, TuplesAreWhole
<1>8. Windows'
  BY <1>1 DEF Windows
<1>9. TakenOK'
  <2>1. ASSUME NEW s \in Kinds, present'[s], NEW x \in taken'[s]
        PROVE  x < Items[s] /\ TakenBefore(s, x)'
    <3>1. s \in Streams /\ pos'[s] = 0
      BY <1>1 DEF Streams
    <3>2. start'[s] \in Nat /\ TupleSize(s) \in Nat
      BY <3>1, TupleSizes
    <3>3. At(s, start'[s], 0) = start'[s]
      <4>1. 0 * TupleSize(s) = 0
        BY <3>2
      <4> QED
        BY <3>2, <4>1 DEF At
    <3> QED
      BY <2>1, <3>1, <3>3 DEF TakenBefore
  <2> QED
    BY <2>1 DEF TakenOK, Active
<1>10. CutOK'
  <2>1. ASSUME NEW s \in Streams
        PROVE  pos'[s] <= given'[s] /\ Cut(s, start'[s], given'[s] - pos'[s])
    <3>1. pos'[s] = 0 /\ given'[s] \in Nat
      BY <1>1
    <3>2. given'[s] - pos'[s] = given'[s] /\ pos'[s] <= given'[s]
      BY <3>1
    <3> QED
      BY <3>2
  <2> QED
    BY <2>1 DEF CutOK
<1>11. ReachOK'
  <2>1. ASSUME NEW s \in Streams, NEW t \in Threads PROVE usage'[t][s] + budget'[t][s] = 0
    BY <1>1
  <2> QED
    BY <1>1, <2>1 DEF ReachOK, Nothing
<1>12. FailsOnlyWhenShort' /\ UsedItemsDiscarded'
  BY DEF FailsOnlyWhenShort, UsedItemsDiscarded
<1> QED
  BY <1>5, <1>6, <1>7, <1>8, <1>9, <1>10, <1>11, <1>12 DEF DataInv

LEMMA NextRunStep ==
    ASSUME DataInv, NextRun
    PROVE  DataInv'
<1>1. TypeInv /\ TakenOK /\ NeverAgain /\ CutOK /\ process = "over"
  BY DEF DataInv, NextRun
<1>2. /\ present' = present /\ start' = start /\ taken' = taken /\ again' = again
      /\ given' = given
  BY DEF NextRun, files
<1>3. /\ present' \in [Streams -> BOOLEAN] /\ \A s \in Tags : present'[s]
      /\ start' \in [Streams -> Nat] /\ given' \in [Streams -> Nat]
      /\ taken' \in [Streams -> SUBSET Int] /\ again' \in [Streams -> SUBSET Int]
  BY <1>1, <1>2 DEF TypeInv
<1>4. \A s \in Kinds : again'[s] = {}
  BY <1>1, <1>2 DEF NeverAgain
<1>5. \A s \in Kinds : present'[s] => \A x \in taken'[s] : x < Items[s] /\ x < start'[s]
  BY <1>1, <1>2 DEF TakenOK, TakenBefore
<1>6. \A s \in Streams : Cut(s, start'[s], given'[s])
  BY <1>1, <1>2 DEF CutOK
<1> QED
  BY <1>3, <1>4, <1>5, <1>6, ProcessStarts DEF NextRun

LEMMA DataInit ==
    ASSUME Init
    PROVE  DataInv
<1>1. Zero \in [Streams -> Nat] /\ \A s \in Streams : Zero[s] = 0
  BY DEF Zero
<1>2. \A s \in Streams : Length(s) \in Nat /\ (s \in Kinds => Length(s) = TupleSize(s))
  BY TupleSizes DEF Init, Length, Streams
<1>3. \A s \in Streams : present[s] \in BOOLEAN /\ start[s] \in Nat
  BY <1>1 DEF Init
<1>4. ASSUME NEW s \in Streams
      PROVE  /\ NewBuffers[s] \in Buffers
             /\ BufferIn(s, NewBuffers[s], 0, Length(s), present[s], start[s])
  BY <1>2, <1>3, NewBuffersIn
<1>5. NewBuffers \in [Streams -> Buffers]
  <2>1. NewBuffers = [s \in Streams |-> NewBuffers[s]]
    BY DEF NewBuffers
  <2> QED
    BY <1>4, <2>1
<1>6. TypeInv
  <2>1. 0 \in 0 .. MaxTapes /\ <<>> \in Seq(Int)
    BY BoundsAssumption
  <2>2. \A s \in Tags : s \in Streams
    BY DEF Streams
  <2> QED
    BY <1>1, <1>5, <2>1, <2>2 DEF Init, TypeInv
<1>7. BuffersOK
  <2>1. ASSUME NEW t \in Threads, NEW s \in Streams
        PROVE  \E j \in 0 .. usage[t][s] :
                  /\ s \in Kinds => j = usage[t][s]
                  /\ BufferIn(s, buf[t][s], j, Length(s), present[s], start[s])
    <3>1. usage[t][s] = 0 /\ 0 \in 0 .. 0 /\ buf[t][s] = NewBuffers[s]
      BY <1>1 DEF Init
    <3> QED
      BY <1>4, <3>1
  <2> QED
    BY <2>1 DEF BuffersOK
<1>8. UnknownAlone /\ ThrownStay /\ NeedsExist /\ Apart /\ TuplesAreWhole
  BY DEF Init, UnknownAlone, ThrownStay, NeedsExist, Apart, Active, TuplesAreWhole
<1>9. Windows
  BY <1>1 DEF Init, Windows
<1>10. TakenOK /\ NeverAgain
  BY DEF Init, TakenOK, NeverAgain, Streams
<1>11. CutOK
  BY <1>1 DEF Init, CutOK, Cut
<1>12. ReachOK
  <2>1. ASSUME NEW s \in Streams, NEW t \in Threads PROVE usage[t][s] + budget[t][s] = 0
    BY <1>1 DEF Init
  <2>2. \A s \in Streams : pos[s] = 0
    BY <1>1 DEF Init
  <2> QED
    BY <2>1, <2>2 DEF ReachOK, Nothing
<1>13. FailsOnlyWhenShort /\ UsedItemsDiscarded
  BY DEF Init, FailsOnlyWhenShort, UsedItemsDiscarded
<1> QED
  BY <1>6, <1>7, <1>8, <1>9, <1>10, <1>11, <1>12, <1>13 DEF DataInv

LEMMA Stutter ==
    ASSUME DataInv, UNCHANGED vars
    PROVE  DataInv'
<1>1. /\ present' = present /\ start' = start /\ lengths' = lengths /\ locked' = locked
      /\ buf' = buf /\ usage' = usage /\ mode' = mode /\ threw' = threw /\ budget' = budget
      /\ pos' = pos /\ process' = process /\ tapes' = tapes /\ taken' = taken
      /\ again' = again /\ given' = given /\ got' = got
  BY DEF vars, files, shared, bounds, ghosts
<1>2. TypeInv' /\ BuffersOK' /\ UnknownAlone' /\ ThrownStay' /\ NeedsExist'
  BY <1>1 DEF DataInv, TypeInv, BuffersOK, Length, UnknownAlone, ThrownStay, NeedsExist
<1>3. Windows' /\ Apart' /\ NeverAgain' /\ CutOK' /\ TuplesAreWhole'
  BY <1>1 DEF DataInv, Windows, Apart, Active, NeverAgain, CutOK, TuplesAreWhole
<1>4. TakenOK'
  BY <1>1 DEF DataInv, TakenOK, TakenBefore, Active
<1>5. ReachOK' /\ FailsOnlyWhenShort' /\ UsedItemsDiscarded'
  BY <1>1 DEF DataInv, ReachOK, Reach, Nothing, FailsOnlyWhenShort, UsedItemsDiscarded
<1> QED
  BY <1>2, <1>3, <1>4, <1>5 DEF DataInv

LEMMA DataStep ==
    ASSUME PositionsFit, DataInv, [Next]_vars
    PROVE  DataInv'
<1>1. ASSUME NEW t \in Threads, NEW need \in Needs, RunTape(t, need)
      PROVE  DataInv'
  BY <1>1, TapeStarts DEF RunTape
<1>2. ASSUME NEW t \in Threads, NEW need \in Needs, RunUnknown(t, need)
      PROVE  DataInv'
  <2>1. /\ Alive /\ SeekTo(t, pos) /\ \A u \in Threads : mode[u] = "idle"
        /\ mode' = [mode EXCEPT ![t] = "unknown"]
        /\ budget' = [budget EXCEPT ![t] = need] /\ tapes' = tapes + 1
        /\ UNCHANGED <<files, shared, process, runs, taken, again, got>>
        /\ pos' = pos /\ given' = given
    BY <1>2 DEF RunUnknown, ghosts
  <2> QED
    BY <2>1, TapeStarts
<1>3. ASSUME NEW t \in Threads, NEW s \in Kinds, Get(t, s)
      PROVE  DataInv'
  BY <1>3, GetStep
<1>4. ASSUME NEW t \in Threads, NEW s \in Tags, NEW n \in Sizes[s],
             NEW v \in 1 .. budget[t][s], GetExtended(t, s, n, v)
      PROVE  DataInv'
  BY <1>4, GetExtendedStep
<1>5. ASSUME NEW t \in Threads, NEW s \in Streams, Skip(t, s)
      PROVE  DataInv'
  BY <1>5, SkipStep
<1>6. ASSUME NEW t \in Threads, Finish(t) \/ ThreadDies(t)
      PROVE  DataInv'
  BY <1>6, FinishStep, ThreadDiesStep
<1>7. CASE EndOfRun
  BY <1>7, EndOfRunStep
<1>8. CASE NextRun
  BY <1>8, NextRunStep
<1>9. CASE UNCHANGED vars
  BY <1>9, Stutter
<1> QED
  BY <1>1, <1>2, <1>3, <1>4, <1>5, <1>6, <1>7, <1>8, <1>9 DEF Next

LEMMA DataInvariant ==
    ASSUME PositionsFit
    PROVE  Spec => []DataInv
<1>1. Init => DataInv
  BY DataInit
<1>2. DataInv /\ [Next]_vars => DataInv'
  BY DataStep
<1> QED
  BY <1>1, <1>2, PTL DEF Spec

-----------------------------------------------------------------------------
(* What a thread reads next is what it has counted.                        *)
LEMMA CountsAgree ==
    ASSUME DataInv
    PROVE  BuffersFollowUsage
<1>1. ASSUME NEW t \in Threads, NEW s \in Kinds, Running(t)
      PROVE  Upcoming(s, buf[t][s]) = start[s] + usage[t][s] * TupleSize(s)
  <2>1. process = "running" /\ ~threw[t] /\ s \in Streams
    BY <1>1 DEF Running, Streams
  <2>2. PICK b : b = buf[t][s]
    OBVIOUS
  <2>3. Length(s) = TupleSize(s)
    BY DEF Length
  <2>4. BufferIn(s, b, usage[t][s], TupleSize(s), present[s], start[s])
    BY <2>1, <2>2, <2>3 DEF DataInv, BuffersOK
  <2>5. PICK x : x = usage[t][s] * TupleSize(s)
    OBVIOUS
  <2>6. /\ b.tell + b.next - BufferSize = x /\ b.tell \in Nat /\ b.next \in 0 .. BufferSize
        /\ b.next < BufferSize => b.block = start[s] + b.tell - BufferSize
    BY <2>4, <2>5 DEF BufferIn, Place
  <2>7. start[s] \in Nat /\ BufferSize \in Nat /\ x \in Int
    <3>1. usage[t][s] \in Nat
      BY <2>1 DEF DataInv, TypeInv
    <3>2. usage[t][s] * TupleSize(s) \in Int
      BY <3>1, TupleSizes
    <3> QED
      BY <2>1, <2>5, <3>2, FileTypes DEF DataInv
  <2>8. Upcoming(s, b) = start[s] + x
    <3>1. CASE b.next = BufferSize
      BY <2>6, <2>7, <3>1 DEF Upcoming
    <3>2. CASE b.next < BufferSize
      <4>1. b.next # BufferSize
        BY <2>7, <3>2
      <4>2. Upcoming(s, b) = b.block + b.next
        BY <4>1 DEF Upcoming
      <4>3. b.block = start[s] + b.tell - BufferSize
        BY <2>6, <3>2
      <4> QED
        BY <2>6, <2>7, <4>2, <4>3
    <3>3. b.next = BufferSize \/ b.next < BufferSize
      BY <2>6, <2>7
    <3> QED
      BY <3>1, <3>2, <3>3
  <2> QED
    BY <2>2, <2>5, <2>8
<1> QED
  BY <1>1 DEF BuffersFollowUsage

(* No item of the fixed kinds is read twice, by no two tapes, threads or   *)
(* runs, and every buffer is at the tuple that its thread has counted to.  *)
THEOREM ItemsReadOnce ==
    ASSUME PositionsFit
    PROVE  Spec => []ItemsUsedOnce
<1>1. DataInv => ItemsUsedOnce
  BY CountsAgree DEF DataInv, NeverAgain, ItemsUsedOnce
<1> QED
  BY <1>1, DataInvariant, PTL

(* A file that is there when a process has ended has no item left that was *)
(* read.                                                                   *)
THEOREM UsedIsCutOff ==
    ASSUME PositionsFit
    PROVE  Spec => []UsedItemsDiscarded
<1>1. DataInv => UsedItemsDiscarded
  BY DEF DataInv
<1> QED
  BY <1>1, DataInvariant, PTL

(* What a tape reads begins at a tuple of the file and is in its order.    *)
THEOREM OnlyWholeTuples ==
    ASSUME PositionsFit
    PROVE  Spec => []TuplesAreWhole
<1>1. DataInv => TuplesAreWhole
  BY DEF DataInv
<1> QED
  BY <1>1, DataInvariant, PTL

(* A thread throws only if a tag is read in two sizes or data is short.    *)
THEOREM EnoughDataSuffices ==
    ASSUME PositionsFit
    PROVE  Spec => []FailsOnlyWhenShort
<1>1. DataInv => FailsOnlyWhenShort
  BY DEF DataInv
<1> QED
  BY <1>1, DataInvariant, PTL
=============================================================================
