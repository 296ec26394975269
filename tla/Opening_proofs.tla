-------------------------- MODULE Opening_proofs --------------------------
(***************************************************************************)
(* Opening is right for every number of parties, fan of the trees,         *)
(* POPEN_MAX and tape, and in every interleaving of the parties.           *)
(*                                                                         *)
(* Every party decides for itself when to check, and all decide alike,     *)
(* however openings are nested and whatever the messages say.  The         *)
(* decision depends on how many values wait, and that is a function of the *)
(* call a party has come to: Ledger says for every call where checks were  *)
(* made before it and how many values they have covered.  A leaf has its   *)
(* values later than the others, which makes no difference: the MACs,      *)
(* which everybody has from POpen_Begin on, are never fewer.               *)
(*                                                                         *)
(* What the messages say is a function of the tape too: Script numbers     *)
(* what one party sends another over the whole of it.  A stream holds what *)
(* its sender has sent, Sent, and its receiver has not read, Read, both of *)
(* them functions of where these two are (StreamsFlow).  So the head of a  *)
(* stream is what the receiver expects, a sum on the way up the tree has   *)
(* the shares of the parties below it, each once, and what is stored is,   *)
(* opening by opening, what was opened (PartiesHold).                      *)
(***************************************************************************)
EXTENDS Opening, Recursion_proofs, FiniteSetTheorems, SequenceTheorems

Ledgers == [checks : Seq(Nat), upTo : Nat]

(* What a party has at a stage of call c: m MACs and v values waiting, n of *)
(* them returned, and the checks ch; late says that it has only the values *)
(* that were returned.                                                     *)
AtCall(c, m, v, n, late) ==
    /\ m = Begun(c - 1) - Ledger[c - 1].upTo
    /\ n = Returns(c - 1) - Ledger[c - 1].upTo
    /\ v = IF late THEN n ELSE m
InTree(c, m, v, n, late) ==
    /\ Ops[c].op = "begin"
    /\ m = Begun(c) - Ledger[c - 1].upTo
    /\ n = Returns(c - 1) - Ledger[c - 1].upTo
    /\ v = IF late THEN n ELSE Begun(c - 1) - Ledger[c - 1].upTo
InCheck(c, m, v, n, late) ==
    /\ m = Begun(c) - Ledger[c - 1].upTo
    /\ n = Returns(c) - Ledger[c - 1].upTo
    /\ v = IF late THEN n ELSE m
Checked(c, m, v, late) ==
    /\ m = Begun(c) - Returns(c)
    /\ v = IF late THEN 0 ELSE m

Stages == {"call", "sum", "spread", "seed", "seeds", "taus"}
PartyOK(c, s, m, v, n, ch, late, d) ==
    /\ c \in 1 .. Len(Ops) + 1 /\ s \in Stages
    /\ s # "call" => c <= Len(Ops)
    /\ ch = Ledger[c - 1].checks
    /\ s = "call" => AtCall(c, m, v, n, late)
    /\ s \in {"sum", "spread"} => ~d /\ InTree(c, m, v, n, late)
    /\ s \in {"seed", "seeds", "taus"} => ChecksAt(Ledger[c - 1], c)
    /\ s \in {"seed", "seeds"} => InCheck(c, m, v, n, late)
    /\ s = "taus" => Checked(c, m, v, late)

(* A leaf of the tree.                                                     *)
Late(d, p) == ~d /\ IsLeaf(p)

PartiesOK ==
    \A p \in Players :
        PartyOK(pc[p], stage[p], Len(macs[p]), Len(vals[p]), popenCnt[p], checks[p],
                Late(direct, p), direct)

SeqFun(f) == \E X : f \in [Players -> Seq(X)]
Types ==
    /\ direct \in BOOLEAN
    /\ pc \in [Players -> Nat] /\ stage \in [Players -> Stages]
    /\ SeqFun(macs) /\ SeqFun(vals)
    /\ popenCnt \in [Players -> Int]
    /\ checks \in [Players -> Seq(Nat)]

-----------------------------------------------------------------------------
(* Counting calls.                                                         *)

CallsTo(o, n) == {c \in 1 .. n : Ops[c].op = o}

LEMMA CountCalls ==
    ASSUME NEW o, NEW n \in Nat
    PROVE  /\ IsFiniteSet(CallsTo(o, n)) /\ Cardinality(CallsTo(o, n)) \in Nat
           /\ Cardinality(CallsTo(o, 0)) = 0
           /\ Cardinality(CallsTo(o, n + 1)) =
                 IF Ops[n + 1].op = o THEN Cardinality(CallsTo(o, n)) + 1
                 ELSE Cardinality(CallsTo(o, n))
<1>1. IsFiniteSet(CallsTo(o, n))
  <2>1. IsFiniteSet(1 .. n)
    BY FS_Interval
  <2>2. CallsTo(o, n) \in SUBSET (1 .. n)
    BY DEF CallsTo
  <2> QED BY <2>1, <2>2, FS_Subset
<1>2. Cardinality(CallsTo(o, n)) \in Nat
  BY <1>1, FS_CardinalityType
<1>3. Cardinality(CallsTo(o, 0)) = 0
  <2>1. CallsTo(o, 0) = {}
    BY DEF CallsTo
  <2> QED BY <2>1, FS_EmptySet
<1>4. CASE Ops[n + 1].op = o
  <2>1. CallsTo(o, n + 1) = CallsTo(o, n) \cup {n + 1} /\ ~(n + 1 \in CallsTo(o, n))
    BY <1>4 DEF CallsTo
  <2> QED BY <1>1, <1>2, <1>3, <1>4, <2>1, FS_AddElement
<1>5. CASE Ops[n + 1].op # o
  <2>1. CallsTo(o, n + 1) = CallsTo(o, n)
    BY <1>5 DEF CallsTo
  <2> QED BY <1>1, <1>2, <1>3, <1>5, <2>1
<1> QED BY <1>4, <1>5

LEMMA CountsGrow ==
    ASSUME NEW c \in Nat, NEW d \in Nat, c <= d
    PROVE  Begins(c) <= Begins(d) /\ Ends(c) <= Ends(d)
<1>1. ASSUME NEW o PROVE Cardinality(CallsTo(o, c)) <= Cardinality(CallsTo(o, d))
  <2>1. CallsTo(o, c) \in SUBSET CallsTo(o, d)
    BY DEF CallsTo
  <2>2. IsFiniteSet(CallsTo(o, d))
    BY CountCalls
  <2> QED BY <2>1, <2>2, FS_Subset
<1> QED BY <1>1 DEF Begins, Ends, CallsTo

LEMMA CallCounts ==
    ASSUME NEW c \in DOMAIN Ops
    PROVE  /\ c \in Nat \ {0} /\ c - 1 \in Nat /\ c <= Len(Ops) /\ Len(Ops) \in Nat
           /\ Begins(c - 1) \in Nat /\ Ends(c - 1) \in Nat
           /\ Begins(c) = IF Ops[c].op = "begin" THEN Begins(c - 1) + 1 ELSE Begins(c - 1)
           /\ Ends(c) = IF Ops[c].op = "end" THEN Ends(c - 1) + 1 ELSE Ends(c - 1)
           /\ Ops[c].n \in Nat
<1>1. /\ c \in Nat \ {0} /\ c - 1 \in Nat /\ c <= Len(Ops) /\ (c - 1) + 1 = c
      /\ Len(Ops) \in Nat
  BY OpsAssumption
<1>2. Ops[c].n \in Nat
  <2> DEFINE R == [op : {"begin", "end", "check", "startinput", "stopinput"}, n : Nat]
  <2>1. \A r \in R : r.n \in Nat
    OBVIOUS
  <2>2. Ops \in Seq(R)
    BY OpsAssumption
  <2> HIDE DEF R
  <2>3. Ops[c] \in R
    BY <2>2
  <2> QED BY <2>1, <2>3
<1>3. ASSUME NEW o
      PROVE  /\ Cardinality(CallsTo(o, c - 1)) \in Nat
             /\ Cardinality(CallsTo(o, c)) =
                   IF Ops[c].op = o THEN Cardinality(CallsTo(o, c - 1)) + 1
                   ELSE Cardinality(CallsTo(o, c - 1))
  <2>1. PICK n \in Nat : n = c - 1 /\ n + 1 = c
    BY <1>1
  <2> QED BY <2>1, CountCalls
<1>4. /\ \A n : Begins(n) = Cardinality(CallsTo("begin", n))
      /\ \A n : Ends(n) = Cardinality(CallsTo("end", n))
  BY DEF Begins, Ends, CallsTo
<1> QED BY <1>1, <1>2, <1>3, <1>4

LEMMA CountTypes ==
    /\ \A c \in Nat : Begins(c) \in Nat /\ Ends(c) \in Nat
    /\ Begins(0) = 0 /\ Ends(0) = 0
<1>1. ASSUME NEW n \in Nat, NEW o
      PROVE  Cardinality(CallsTo(o, n)) \in Nat /\ Cardinality(CallsTo(o, 0)) = 0
  BY CountCalls
<1>2. /\ \A n : Begins(n) = Cardinality(CallsTo("begin", n))
      /\ \A n : Ends(n) = Cardinality(CallsTo("end", n))
  BY DEF Begins, Ends, CallsTo
<1>3. 0 \in Nat
  OBVIOUS
<1>4. \A n \in Nat : Begins(n) \in Nat /\ Ends(n) \in Nat
  BY <1>1, <1>2
<1> QED BY <1>1, <1>2, <1>3, <1>4

(* No more is ended than was begun.                                        *)
LEMMA EndsAfterBegins ==
    ASSUME NEW c \in 0 .. Len(Ops)
    PROVE  Ends(c) <= Begins(c) /\ Begins(c) <= Openings /\ Ends(c) \in 0 .. Openings
           /\ Begins(c) \in 0 .. Openings /\ Openings \in Nat
<1>1. Len(Ops) \in Nat /\ DOMAIN Ops = 1 .. Len(Ops)
  BY OpsAssumption
<1>2. c \in Nat /\ c <= Len(Ops)
  BY <1>1
<1>3. /\ Begins(c) \in Nat /\ Ends(c) \in Nat /\ Openings \in Nat
      /\ Begins(0) = 0 /\ Ends(0) = 0
  BY <1>1, <1>2, CountTypes DEF Openings
<1>4. Begins(c) <= Openings
  BY <1>1, <1>2, CountsGrow DEF Openings
<1>5. Ends(c) <= Begins(c)
  <2>1. c = 0 \/ c \in DOMAIN Ops
    BY <1>1, <1>2
  <2>2. CASE c = 0
    BY <1>3, <2>2
  <2>3. CASE c \in DOMAIN Ops
    BY <2>3, OpsAssumption
  <2> QED BY <2>1, <2>2, <2>3
<1> QED BY <1>3, <1>4, <1>5

-----------------------------------------------------------------------------
(* The sizes of openings.                                                  *)

LEMMA SizeOfBegun ==
    ASSUME NEW c \in DOMAIN Ops, Ops[c].op = "begin"
    PROVE  SizeOf(Begins(c)) = Ops[c].n
<1>1. ASSUME NEW d \in DOMAIN Ops, NEW e \in DOMAIN Ops, d < e, Ops[e].op = "begin"
      PROVE  Begins(d) < Begins(e)
  <2>1. d \in Nat /\ e - 1 \in Nat /\ d <= e - 1
    BY SMTT(20), <1>1, CallCounts
  <2>2. Begins(d) <= Begins(e - 1) /\ Begins(e) = Begins(e - 1) + 1
        /\ Begins(d) \in Nat /\ Begins(e - 1) \in Nat
    BY <1>1, <2>1, CountsGrow, CallCounts, CountTypes
  <2> QED BY <2>2
<1>2. ASSUME NEW d \in DOMAIN Ops, Ops[d].op = "begin", Begins(d) = Begins(c) PROVE d = c
  <2>1. d \in Int /\ c \in Int /\ Begins(c) \in Int
    BY CallCounts, CountTypes
  <2>2. ~(d < c) /\ ~(c < d)
    BY <1>1, <1>2, <2>1
  <2> QED BY <2>1, <2>2
<1> DEFINE B == BeginOf(Begins(c))
<1>3. B \in DOMAIN Ops /\ Ops[B].op = "begin" /\ Begins(B) = Begins(c)
  BY DEF BeginOf
<1>4. B = c
  BY <1>2, <1>3
<1> QED BY <1>4 DEF SizeOf

LEMMA SizesAreKnown ==
    ASSUME NEW k \in 1 .. Openings
    PROVE  SizeOf(k) \in Nat
<1> DEFINE P(n) == \A j \in 1 .. Begins(n) :
                      \E c \in DOMAIN Ops : Ops[c].op = "begin" /\ Begins(c) = j
           N == {n \in Nat : n <= Len(Ops) => P(n)}
<1>1. Len(Ops) \in Nat /\ DOMAIN Ops = 1 .. Len(Ops)
  BY OpsAssumption
<1>2. 0 \in N
  BY CountTypes
<1>3. ASSUME NEW n \in Nat, n \in N PROVE n + 1 \in N
  <2> SUFFICES ASSUME n + 1 <= Len(Ops), NEW j \in 1 .. Begins(n + 1)
               PROVE  \E c \in DOMAIN Ops : Ops[c].op = "begin" /\ Begins(c) = j
    OBVIOUS
  <2>1. n + 1 \in DOMAIN Ops /\ (n + 1) - 1 = n /\ n <= Len(Ops)
    BY <1>1
  <2>2. /\ Begins(n) \in Nat
        /\ Begins(n + 1) = IF Ops[n + 1].op = "begin" THEN Begins(n) + 1 ELSE Begins(n)
    BY <2>1, CallCounts
  <2>3. CASE j \in 1 .. Begins(n)
    BY <1>3, <2>1, <2>3
  <2>4. CASE j \notin 1 .. Begins(n)
    <3>1. Ops[n + 1].op = "begin" /\ Begins(n + 1) = j
      BY <2>2, <2>4
    <3> QED BY <2>1, <3>1
  <2> QED BY <2>3, <2>4
<1> HIDE DEF N
<1>4. Nat \subseteq N
  BY <1>2, <1>3, Induction
<1>5. PICK c \in DOMAIN Ops : Ops[c].op = "begin" /\ Begins(c) = k
  BY <1>1, <1>4 DEF N, Openings
<1> QED BY <1>5, SizeOfBegun, CallCounts

LEMMA TotalFacts ==
    /\ Total[0] = 0
    /\ \A k \in 0 .. Openings : Total[k] \in Nat
    /\ \A k \in 1 .. Openings : Total[k] = Total[k - 1] + SizeOf(k)
<1> DEFINE n == Openings
           step == [k \in 1 .. n |-> [x \in Nat |-> x + SizeOf(k)]]
           IsTotal(f) == f = [k \in 0 .. n |-> IF k = 0 THEN 0 ELSE f[k - 1] + SizeOf(k)]
<1>1. n \in Nat /\ \A k \in 1 .. n : SizeOf(k) \in Nat
  <2>1. Len(Ops) \in Nat
    BY OpsAssumption
  <2> QED BY <2>1, CountTypes, SizesAreKnown DEF Openings
<1>2. step \in [1 .. n -> [Nat -> Nat]]
  BY <1>1
<1> HIDE DEF n
<1>3. ASSUME NEW f \in [0 .. n -> Nat], Follows(f, n, 0, step) PROVE IsTotal(f)
  <2>1. \A k \in 0 .. n : f[k] = IF k = 0 THEN 0 ELSE step[k][f[k - 1]]
    BY <1>3 DEF Follows
  <2>2. \A k \in 1 .. n : k \in Nat /\ k - 1 \in 0 .. n
    BY <1>1
  <2>3. \A k \in 1 .. n : f[k - 1] \in Nat /\ step[k][f[k - 1]] = f[k - 1] + SizeOf(k)
    BY <1>1, <2>2
  <2>4. \A k \in 0 .. n : f[k] = IF k = 0 THEN 0 ELSE f[k - 1] + SizeOf(k)
    <3>1. \A k \in 0 .. n : k = 0 \/ k \in 1 .. n
      BY <1>1
    <3> QED BY <2>1, <2>3, <3>1
  <2>5. f = [k \in 0 .. n |-> f[k]]
    OBVIOUS
  <2> QED BY <2>4, <2>5
<1> HIDE DEF step
<1>4. PICK f \in [0 .. n -> Nat] : Follows(f, n, 0, step)
  BY <1>1, <1>2, RecursionExists
<1>5. IsTotal(f)
  BY <1>3, <1>4
<1> DEFINE g == Total
<1>6. IsTotal(g)
  BY <1>5 DEF Total, n
<1> HIDE DEF g
<1>7. \A k \in 0 .. n : g[k] = IF k = 0 THEN 0 ELSE g[k - 1] + SizeOf(k)
  BY <1>6
<1>8. g[0] = 0 /\ \A k \in 1 .. n : g[k] = g[k - 1] + SizeOf(k)
  BY <1>1, <1>7
<1> DEFINE N == {m \in Nat : m <= n => g[m] \in Nat}
<1>9. 0 \in N
  BY <1>8
<1>10. ASSUME NEW m \in Nat, m \in N PROVE m + 1 \in N
  <2>1. CASE m + 1 > n
    BY <1>1, <2>1
  <2>2. CASE m + 1 <= n
    <3>1. m + 1 \in 1 .. n /\ g[m] \in Nat /\ (m + 1) - 1 = m
      BY <1>1, <1>10, <2>2
    <3>2. g[m + 1] = g[m] + SizeOf(m + 1) /\ SizeOf(m + 1) \in Nat
      BY <1>1, <1>8, <3>1
    <3> QED BY <3>1, <3>2
  <2> QED BY <1>1, <2>1, <2>2
<1> HIDE DEF N
<1>11. Nat \subseteq N
  BY <1>9, <1>10, Induction
<1>12. \A k \in 0 .. n : g[k] \in Nat
  BY <1>1, <1>11 DEF N
<1> QED BY <1>8, <1>12 DEF g, n

LEMMA TotalGrows ==
    ASSUME NEW j \in 0 .. Openings, NEW k \in 0 .. Openings, j <= k
    PROVE  Total[j] <= Total[k]
<1>1. Openings \in Nat
  <2>1. Len(Ops) \in Nat
    BY OpsAssumption
  <2> QED BY <2>1, CountTypes DEF Openings
<1> DEFINE N == {m \in Nat : j + m <= Openings => Total[j] <= Total[j + m]}
<1>2. 0 \in N
  <2>1. j + 0 = j /\ Total[j] \in Nat
    BY <1>1, TotalFacts
  <2> QED BY <2>1
<1>3. ASSUME NEW m \in Nat, m \in N PROVE m + 1 \in N
  <2>1. CASE j + (m + 1) > Openings
    BY <1>1, <2>1
  <2>2. CASE j + (m + 1) <= Openings
    <3>1. /\ j + m \in 0 .. Openings /\ j + (m + 1) \in 1 .. Openings
          /\ (j + (m + 1)) - 1 = j + m /\ Total[j] <= Total[j + m]
      BY <1>1, <1>3, <2>2
    <3>2. Total[j + (m + 1)] = Total[j + m] + SizeOf(j + (m + 1))
      BY <3>1, TotalFacts
    <3>3. Total[j + m] \in Nat /\ SizeOf(j + (m + 1)) \in Nat /\ Total[j] \in Nat
      BY <3>1, TotalFacts, SizesAreKnown
    <3>4. Total[j] <= Total[j + (m + 1)]
      BY <3>1, <3>2, <3>3
    <3> QED BY <3>4
  <2> QED BY <1>1, <2>1, <2>2
<1> HIDE DEF N
<1>4. k - j \in N /\ j + (k - j) = k
  BY <1>1, <1>2, <1>3, Induction
<1> QED BY <1>1, <1>4 DEF N

(* From one call to the next.                                              *)
LEMMA BegunAndReturned ==
    ASSUME NEW c \in DOMAIN Ops
    PROVE  /\ Begun(c - 1) \in Nat /\ Begun(c) \in Nat
           /\ Returns(c - 1) \in Nat /\ Returns(c) \in Nat
           /\ Begun(c) = IF Ops[c].op = "begin" THEN Begun(c - 1) + Ops[c].n ELSE Begun(c - 1)
           /\ IF Ops[c].op = "end"
              THEN Returns(c) = Returns(c - 1) + SizeOf(Ends(c)) /\ SizeOf(Ends(c)) \in Nat
              ELSE Returns(c) = Returns(c - 1)
           /\ Returns(c - 1) <= Returns(c) /\ Returns(c) <= Begun(c)
           /\ Returns(c - 1) <= Begun(c - 1) /\ Begun(c - 1) <= Begun(c)
<1>1. c \in 0 .. Len(Ops) /\ c - 1 \in 0 .. Len(Ops) /\ c - 1 \in Nat /\ c \in Nat
  BY CallCounts
<1>2. PICK x, y : x = c - 1 /\ y = c /\ x \in 0 .. Len(Ops) /\ y \in 0 .. Len(Ops)
                  /\ x \in Nat /\ y \in Nat /\ x <= y
  BY <1>1
<1>3. /\ Begins(x) \in 0 .. Openings /\ Begins(y) \in 0 .. Openings
      /\ Ends(x) \in 0 .. Openings /\ Ends(y) \in 0 .. Openings
      /\ Ends(x) <= Begins(x) /\ Ends(y) <= Begins(y) /\ Openings \in Nat
  BY <1>2, EndsAfterBegins
<1>4. Begun(x) \in Nat /\ Begun(y) \in Nat /\ Returns(x) \in Nat /\ Returns(y) \in Nat
  BY <1>3, TotalFacts DEF Begun, Returns
<1>5. Returns(x) <= Returns(y) /\ Begun(x) <= Begun(y)
  BY <1>2, <1>3, CountsGrow, TotalGrows DEF Begun, Returns
<1>6. Returns(x) <= Begun(x) /\ Returns(y) <= Begun(y)
  BY <1>3, TotalGrows DEF Begun, Returns
<1>7. Begun(y) = IF Ops[y].op = "begin" THEN Begun(x) + Ops[y].n ELSE Begun(x)
  <2>1. CASE Ops[y].op = "begin"
    <3>1. Begins(y) = Begins(x) + 1 /\ Begins(x) \in Nat
      BY <1>2, <2>1, CallCounts
    <3>2. Begins(y) \in 1 .. Openings /\ Begins(y) - 1 = Begins(x)
      BY <1>3, <3>1
    <3>3. Total[Begins(y)] = Total[Begins(x)] + SizeOf(Begins(y))
      BY <3>2, TotalFacts
    <3> QED BY <1>2, <2>1, <3>3, SizeOfBegun DEF Begun
  <2>2. CASE Ops[y].op # "begin"
    <3>1. Begins(y) = Begins(x)
      BY <1>2, <2>2, CallCounts
    <3> QED BY <2>2, <3>1 DEF Begun
  <2> QED BY <2>1, <2>2
<1>8. IF Ops[y].op = "end"
      THEN Returns(y) = Returns(x) + SizeOf(Ends(y)) /\ SizeOf(Ends(y)) \in Nat
      ELSE Returns(y) = Returns(x)
  <2>1. CASE Ops[y].op = "end"
    <3>1. Ends(y) = Ends(x) + 1 /\ Ends(x) \in Nat
      BY <1>2, <2>1, CallCounts
    <3>2. Ends(y) \in 1 .. Openings /\ Ends(y) - 1 = Ends(x)
      BY <1>3, <3>1
    <3>3. Total[Ends(y)] = Total[Ends(x)] + SizeOf(Ends(y))
      BY <3>2, TotalFacts
    <3> QED BY <2>1, <3>2, <3>3, SizesAreKnown DEF Returns
  <2>2. CASE Ops[y].op # "end"
    <3>1. Ends(y) = Ends(x)
      BY <1>2, <2>2, CallCounts
    <3> QED BY <2>2, <3>1 DEF Returns
  <2> QED BY <2>1, <2>2
<1> QED BY <1>2, <1>4, <1>5, <1>6, <1>7, <1>8

-----------------------------------------------------------------------------
(* The ledger.                                                             *)

Empty == [checks |-> <<>>, upTo |-> 0]

LEMMA AfterTypes ==
    ASSUME NEW c \in DOMAIN Ops, NEW l \in Ledgers
    PROVE  After(l, c) \in Ledgers
<1>1. c \in Nat /\ Returns(c) \in Nat
  BY CallCounts, BegunAndReturned
<1>2. l.checks \in Seq(Nat)
  BY DEF Ledgers
<1>3. Append(l.checks, c) \in Seq(Nat)
  BY <1>1, <1>2
<1> QED BY <1>1, <1>3 DEF After, Ledgers

LEMMA LedgerFacts ==
    /\ Ledger[0] = Empty
    /\ \A c \in 0 .. Len(Ops) : Ledger[c] \in Ledgers
    /\ \A c \in 1 .. Len(Ops) : Ledger[c] = After(Ledger[c - 1], c)
<1> DEFINE n == Len(Ops)
           step == [c \in 1 .. n |-> [l \in Ledgers |-> After(l, c)]]
           IsLedger(f) == f = [c \in 0 .. n |-> IF c = 0 THEN Empty ELSE After(f[c - 1], c)]
<1>1. n \in Nat /\ DOMAIN Ops = 1 .. n
  BY OpsAssumption
<1>2. step \in [1 .. n -> [Ledgers -> Ledgers]]
  BY <1>1, AfterTypes
<1>e. Empty \in Ledgers
  BY DEF Empty, Ledgers
<1> HIDE DEF n
<1>3. ASSUME NEW f \in [0 .. n -> Ledgers], Follows(f, n, Empty, step) PROVE IsLedger(f)
  <2>1. \A c \in 0 .. n : f[c] = IF c = 0 THEN Empty ELSE step[c][f[c - 1]]
    BY <1>3 DEF Follows
  <2>2. \A c \in 1 .. n : c \in Nat /\ c - 1 \in 0 .. n
    BY <1>1
  <2>3. \A c \in 1 .. n : f[c - 1] \in Ledgers /\ step[c][f[c - 1]] = After(f[c - 1], c)
    BY <1>1, <2>2
  <2>4. \A c \in 0 .. n : f[c] = IF c = 0 THEN Empty ELSE After(f[c - 1], c)
    <3>1. \A c \in 0 .. n : c = 0 \/ c \in 1 .. n
      BY <1>1
    <3> QED BY <2>1, <2>3, <3>1
  <2>5. f = [c \in 0 .. n |-> f[c]]
    OBVIOUS
  <2> QED BY <2>4, <2>5
<1> HIDE DEF step
<1>4. PICK f \in [0 .. n -> Ledgers] : Follows(f, n, Empty, step)
  BY <1>1, <1>2, <1>e, RecursionExists
<1>5. IsLedger(f)
  BY <1>3, <1>4
<1> DEFINE g == Ledger
<1>6. IsLedger(g)
  BY <1>5 DEF Ledger, n, Empty
<1> HIDE DEF g
<1>7. \A c \in 0 .. n : g[c] = IF c = 0 THEN Empty ELSE After(g[c - 1], c)
  BY <1>6
<1>8. g[0] = Empty /\ \A c \in 1 .. n : g[c] = After(g[c - 1], c)
  BY <1>1, <1>7
<1> DEFINE N == {m \in Nat : m <= n => g[m] \in Ledgers}
<1>9. 0 \in N
  BY <1>8, <1>e
<1>10. ASSUME NEW m \in Nat, m \in N PROVE m + 1 \in N
  <2>1. CASE m + 1 > n
    BY <1>1, <2>1
  <2>2. CASE m + 1 <= n
    <3>1. m + 1 \in 1 .. n /\ g[m] \in Ledgers /\ (m + 1) - 1 = m
      BY <1>1, <1>10, <2>2
    <3>2. PICK e : e = m + 1
      OBVIOUS
    <3>3. g[e] = After(g[m], e) /\ e \in DOMAIN Ops
      BY <1>1, <1>8, <3>1, <3>2
    <3>4. g[e] \in Ledgers
      BY <3>1, <3>3, AfterTypes
    <3> QED BY <3>2, <3>4
  <2> QED BY <1>1, <2>1, <2>2
<1> HIDE DEF N
<1>11. Nat \subseteq N
  BY <1>9, <1>10, Induction
<1>12. \A c \in 0 .. n : g[c] \in Ledgers
  BY <1>1, <1>11 DEF N
<1> QED BY <1>8, <1>12 DEF g, n

(* Checks cover values that were returned.                                 *)
LEMMA LedgerBound ==
    ASSUME NEW c \in 0 .. Len(Ops)
    PROVE  Ledger[c].upTo \in Nat /\ Ledger[c].upTo <= Returns(c)
<1> DEFINE N == {m \in Nat : m <= Len(Ops) => Ledger[m].upTo <= Returns(m)}
<1>1. Len(Ops) \in Nat /\ DOMAIN Ops = 1 .. Len(Ops)
  BY OpsAssumption
<1>2. 0 \in N
  <2>1. Ends(0) = 0 /\ 0 \in 0 .. Openings
    BY <1>1, CountTypes, EndsAfterBegins
  <2>2. Returns(0) \in Nat
    BY <2>1, TotalFacts DEF Returns
  <2>3. Ledger[0].upTo = 0
    BY LedgerFacts DEF Empty
  <2> QED BY <2>2, <2>3
<1>3. ASSUME NEW m \in Nat, m \in N PROVE m + 1 \in N
  <2>1. CASE m + 1 > Len(Ops)
    BY <1>1, <2>1
  <2>2. CASE m + 1 <= Len(Ops)
    <3>1. m + 1 \in DOMAIN Ops /\ (m + 1) - 1 = m /\ m \in 0 .. Len(Ops)
      BY <1>1, <2>2
    <3>2. Ledger[m].upTo <= Returns(m) /\ Ledger[m].upTo \in Nat
      BY <1>1, <1>3, <3>1, LedgerFacts DEF Ledgers
    <3>3. Returns(m) <= Returns(m + 1) /\ Returns(m) \in Nat /\ Returns(m + 1) \in Nat
      BY <3>1, BegunAndReturned
    <3>4. Ledger[m + 1] = After(Ledger[m], m + 1)
      BY <1>1, <3>1, LedgerFacts
    <3>5. Ledger[m + 1].upTo \in {Ledger[m].upTo, Returns(m + 1)}
      BY <3>4 DEF After
    <3>6. Ledger[m + 1].upTo <= Returns(m + 1)
      BY <3>2, <3>3, <3>5
    <3> QED BY <3>6
  <2> QED BY <1>1, <2>1, <2>2
<1> HIDE DEF N
<1>4. c \in N
  BY <1>1, <1>2, <1>3, Induction
<1> QED BY <1>1, <1>4, LedgerFacts DEF N, Ledgers

(* Later calls keep the checks of earlier ones.                            *)
Extends(t, s) == Len(s) <= Len(t) /\ \A i \in 1 .. Len(s) : t[i] = s[i]

LEMMA ExtendsOn ==
    ASSUME NEW s \in Seq(Nat), NEW t \in Seq(Nat), Extends(t, s), NEW x \in Nat
    PROVE  Extends(Append(t, x), s)
<1>1. Len(Append(t, x)) = Len(t) + 1 /\ \A i \in 1 .. Len(t) : Append(t, x)[i] = t[i]
  OBVIOUS
<1>2. PICK u, a, b, c : u = Append(t, x) /\ a = Len(s) /\ b = Len(t) /\ c = Len(u)
  OBVIOUS
<1>3. a \in Nat /\ b \in Nat /\ c = b + 1 /\ \A i \in 1 .. b : u[i] = t[i]
  BY <1>1, <1>2
<1>4. a <= b /\ \A i \in 1 .. a : t[i] = s[i]
  BY <1>2 DEF Extends
<1>5. a <= c /\ 1 .. a \subseteq 1 .. b
  BY <1>3, <1>4
<1>6. \A i \in 1 .. a : u[i] = s[i]
  BY <1>3, <1>4, <1>5
<1> QED BY <1>2, <1>5, <1>6 DEF Extends

LEMMA ChecksExtend ==
    ASSUME NEW c \in 0 .. Len(Ops), NEW d \in 0 .. Len(Ops), c <= d
    PROVE  Extends(Ledger[d].checks, Ledger[c].checks)
<1> DEFINE C(e) == Ledger[e].checks
           N == {m \in Nat : c + m <= Len(Ops) => Extends(C(c + m), C(c))}
<1>1. Len(Ops) \in Nat /\ DOMAIN Ops = 1 .. Len(Ops)
  BY OpsAssumption
<1>2. \A e \in 0 .. Len(Ops) : C(e) \in Seq(Nat)
  BY LedgerFacts DEF Ledgers
<1>3. 0 \in N
  <2>1. c + 0 = c /\ Len(C(c)) \in Nat
    BY <1>1, <1>2
  <2> QED BY <2>1 DEF Extends
<1>4. ASSUME NEW m \in Nat, m \in N PROVE m + 1 \in N
  <2>1. CASE c + (m + 1) > Len(Ops)
    BY <1>1, <2>1
  <2>2. CASE c + (m + 1) <= Len(Ops)
    <3>1. PICK a, b : a = c + m /\ b = c + (m + 1)
      OBVIOUS
    <3>2. a \in 0 .. Len(Ops) /\ b \in 1 .. Len(Ops) /\ b - 1 = a
      BY <1>1, <2>2, <3>1
    <3>3. Extends(C(a), C(c))
      BY <1>1, <1>4, <2>2, <3>1
    <3>4. Ledger[b] = After(Ledger[a], b)
      BY <3>2, LedgerFacts
    <3>5. C(b) = C(a) \/ C(b) = Append(C(a), b)
      BY <3>4 DEF After
    <3>6. C(a) \in Seq(Nat) /\ C(c) \in Seq(Nat) /\ b \in Nat
      BY <1>1, <1>2, <3>2
    <3> HIDE DEF C
    <3>7. Extends(C(b), C(c))
      BY <3>3, <3>5, <3>6, ExtendsOn
    <3> QED BY <3>1, <3>7
  <2> QED BY <1>1, <2>1, <2>2
<1> HIDE DEF N
<1>5. d - c \in N /\ c + (d - c) = d
  BY <1>1, <1>3, <1>4, Induction
<1> QED BY <1>1, <1>5 DEF N

-----------------------------------------------------------------------------
(* One call, as far as values are counted: what the provers need to know   *)
(* of Begun, Returns and Ledger.                                           *)

LEMMA OneCall ==
    ASSUME NEW c \in DOMAIN Ops
    PROVE  \E b0, b1, r0, r1, u \in Nat :
              /\ Begun(c - 1) = b0 /\ Begun(c) = b1
              /\ Returns(c - 1) = r0 /\ Returns(c) = r1 /\ Ledger[c - 1].upTo = u
              /\ u <= r0 /\ r0 <= b0 /\ r0 <= r1 /\ r1 <= b1 /\ b0 <= b1
<1>1. c - 1 \in 0 .. Len(Ops)
  BY CallCounts
<1>2. /\ Ledger[c - 1].upTo \in Nat /\ Ledger[c - 1].upTo <= Returns(c - 1)
  BY <1>1, LedgerBound
<1>3. /\ Begun(c - 1) \in Nat /\ Begun(c) \in Nat /\ Returns(c - 1) \in Nat /\ Returns(c) \in Nat
      /\ Returns(c - 1) <= Returns(c) /\ Returns(c) <= Begun(c)
      /\ Returns(c - 1) <= Begun(c - 1) /\ Begun(c - 1) <= Begun(c)
  BY BegunAndReturned
<1> QED BY <1>2, <1>3

(* The next call.                                                          *)
LEMMA Passing ==
    ASSUME NEW c \in DOMAIN Ops, ~ChecksAt(Ledger[c - 1], c),
           NEW m, NEW v, NEW n, NEW late, NEW d,
           m = Begun(c) - Ledger[c - 1].upTo,
           n = Returns(c) - Ledger[c - 1].upTo,
           v = IF late THEN n ELSE m
    PROVE  PartyOK(c + 1, "call", m, v, n, Ledger[c - 1].checks, late, d)
<1>1. c \in Nat /\ Len(Ops) \in Nat /\ c \in 1 .. Len(Ops) /\ (c + 1) - 1 = c
      /\ c + 1 \in 1 .. Len(Ops) + 1
  BY CallCounts
<1>2. Ledger[c] = Ledger[c - 1]
  BY <1>1, LedgerFacts DEF After
<1>3. PICK e : e = c + 1
  OBVIOUS
<1>4. e - 1 = c /\ e \in 1 .. Len(Ops) + 1
  BY <1>1, <1>3
<1>5. PartyOK(e, "call", m, v, n, Ledger[c - 1].checks, late, d)
  BY <1>2, <1>4 DEF PartyOK, AtCall, Stages
<1> QED BY <1>3, <1>5

(* POpen_Begin in a tree.                                                  *)
LEMMA BeginsInTree ==
    ASSUME NEW c \in DOMAIN Ops, NEW m \in Nat, NEW v, NEW n, NEW ch, NEW late,
           PartyOK(c, "call", m, v, n, ch, late, FALSE), Ops[c].op = "begin"
    PROVE  \A s \in {"sum", "spread"} :
              PartyOK(c, s, m + Ops[c].n, v, n, ch, late, FALSE)
<1>1. PICK b0, b1, r0, r1, u \in Nat :
              /\ Begun(c - 1) = b0 /\ Begun(c) = b1
              /\ Returns(c - 1) = r0 /\ Returns(c) = r1 /\ Ledger[c - 1].upTo = u
              /\ u <= r0 /\ r0 <= b0 /\ r0 <= r1 /\ r1 <= b1 /\ b0 <= b1
  BY OneCall
<1>2. b1 = b0 + Ops[c].n /\ Ops[c].n \in Nat
  BY <1>1, BegunAndReturned, CallCounts
<1>3. m = b0 - u /\ n = r0 - u /\ v = (IF late THEN n ELSE m)
  BY <1>1 DEF PartyOK, AtCall
<1>4. m + Ops[c].n = b1 - u
  BY <1>2, <1>3
<1>5. InTree(c, m + Ops[c].n, v, n, late)
  BY <1>1, <1>3, <1>4 DEF InTree
<1>6. c <= Len(Ops)
  BY CallCounts
<1> QED BY <1>5, <1>6 DEF PartyOK, Stages

LEMMA LeavesTree ==
    ASSUME NEW c \in DOMAIN Ops, NEW m, NEW v, NEW n, NEW ch, NEW late,
           PartyOK(c, "spread", m, v, n, ch, late, FALSE),
           NEW w, w = IF late THEN v ELSE v + SizeOf(Begins(c))
    PROVE  PartyOK(c + 1, "call", m, w, n, ch, late, FALSE)
<1>1. PICK b0, b1, r0, r1, u \in Nat :
              /\ Begun(c - 1) = b0 /\ Begun(c) = b1
              /\ Returns(c - 1) = r0 /\ Returns(c) = r1 /\ Ledger[c - 1].upTo = u
              /\ u <= r0 /\ r0 <= b0 /\ r0 <= r1 /\ r1 <= b1 /\ b0 <= b1
  BY OneCall
<1>2. InTree(c, m, v, n, late) /\ ch = Ledger[c - 1].checks
  BY DEF PartyOK
<1>3. Ops[c].op = "begin"
  BY <1>2 DEF InTree
<1>4. b1 = b0 + Ops[c].n /\ Ops[c].n \in Nat /\ SizeOf(Begins(c)) = Ops[c].n /\ r1 = r0
  BY <1>1, <1>3, BegunAndReturned, CallCounts, SizeOfBegun
<1>5. m = b1 - u /\ n = r1 - u /\ w = (IF late THEN n ELSE m)
  BY <1>1, <1>2, <1>4 DEF InTree
<1>6. ~ChecksAt(Ledger[c - 1], c)
  BY <1>3 DEF ChecksAt
<1> QED BY <1>1, <1>2, <1>5, <1>6, Passing

LEMMA BeginsDirect ==
    ASSUME NEW c \in DOMAIN Ops, NEW m, NEW v, NEW n, NEW ch,
           PartyOK(c, "call", m, v, n, ch, FALSE, TRUE), Ops[c].op = "begin"
    PROVE  PartyOK(c + 1, "call", m + Ops[c].n, v + SizeOf(Begins(c)), n, ch, FALSE, TRUE)
<1>1. PICK b0, b1, r0, r1, u \in Nat :
              /\ Begun(c - 1) = b0 /\ Begun(c) = b1
              /\ Returns(c - 1) = r0 /\ Returns(c) = r1 /\ Ledger[c - 1].upTo = u
              /\ u <= r0 /\ r0 <= b0 /\ r0 <= r1 /\ r1 <= b1 /\ b0 <= b1
  BY OneCall
<1>2. b1 = b0 + Ops[c].n /\ Ops[c].n \in Nat /\ SizeOf(Begins(c)) = Ops[c].n /\ r1 = r0
  BY <1>1, BegunAndReturned, CallCounts, SizeOfBegun
<1>3. m = b0 - u /\ n = r0 - u /\ v = m /\ ch = Ledger[c - 1].checks
  BY <1>1 DEF PartyOK, AtCall
<1>4. PICK x, y : x = m + Ops[c].n /\ y = v + SizeOf(Begins(c))
  OBVIOUS
<1>5. x = b1 - u /\ n = r1 - u /\ y = x
  BY <1>2, <1>3, <1>4
<1>6. ~ChecksAt(Ledger[c - 1], c)
  BY DEF ChecksAt
<1>7. PartyOK(c + 1, "call", x, y, n, ch, FALSE, TRUE)
  BY <1>1, <1>3, <1>5, <1>6, Passing
<1> QED BY <1>4, <1>7

(* POpen_End: it checks if POPEN_MAX values wait, and if they do is known. *)
LEMMA EndsCall ==
    ASSUME NEW c \in DOMAIN Ops, NEW m, NEW v, NEW n, NEW ch, NEW late, NEW d,
           PartyOK(c, "call", m, v, n, ch, late, d), Ops[c].op = "end",
           NEW w, w = IF late THEN v + SizeOf(Ends(c)) ELSE v
    PROVE  IF m >= PopenMax \/ w >= PopenMax
           THEN PartyOK(c, "seed", m, w, n + SizeOf(Ends(c)), ch, late, d)
           ELSE PartyOK(c + 1, "call", m, w, n + SizeOf(Ends(c)), ch, late, d)
<1>1. PICK b0, b1, r0, r1, u \in Nat :
              /\ Begun(c - 1) = b0 /\ Begun(c) = b1
              /\ Returns(c - 1) = r0 /\ Returns(c) = r1 /\ Ledger[c - 1].upTo = u
              /\ u <= r0 /\ r0 <= b0 /\ r0 <= r1 /\ r1 <= b1 /\ b0 <= b1
  BY OneCall
<1>2. PICK z : z = SizeOf(Ends(c))
  OBVIOUS
<1>3. r1 = r0 + z /\ z \in Nat /\ b1 = b0
  BY <1>1, <1>2, BegunAndReturned
<1>4. m = b0 - u /\ n = r0 - u /\ v = (IF late THEN n ELSE m) /\ ch = Ledger[c - 1].checks
  BY <1>1 DEF PartyOK, AtCall
<1>5. PICK y : y = n + z
  OBVIOUS
<1>6. m = b1 - u /\ y = r1 - u /\ w = (IF late THEN y ELSE m)
  BY <1>2, <1>3, <1>4, <1>5
<1>7. m \in Nat /\ w <= m /\ w \in Nat /\ PopenMax \in Nat
  BY <1>1, <1>6, PopenAssumption
<1>8. ChecksAt(Ledger[c - 1], c) <=> m >= PopenMax
  BY <1>1, <1>6 DEF ChecksAt, Waiting
<1>9. (m >= PopenMax \/ w >= PopenMax) <=> m >= PopenMax
  BY <1>7
<1>10. CASE m >= PopenMax
  <2>1. InCheck(c, m, w, y, late)
    BY <1>1, <1>6 DEF InCheck
  <2>2. c \in 1 .. Len(Ops) + 1 /\ c <= Len(Ops)
    BY CallCounts
  <2>3. PartyOK(c, "seed", m, w, y, ch, late, d)
    BY <1>4, <1>8, <1>10, <2>1, <2>2 DEF PartyOK, Stages
  <2> QED BY <1>2, <1>5, <1>10, <2>3
<1>11. CASE ~(m >= PopenMax)
  <2>1. PartyOK(c + 1, "call", m, w, y, ch, late, d)
    BY <1>1, <1>4, <1>6, <1>8, <1>11, Passing
  <2> QED BY <1>2, <1>5, <1>9, <1>11, <2>1
<1> QED BY <1>10, <1>11

(* Check: only with something to check.                                    *)
LEMMA CheckCall ==
    ASSUME NEW c \in DOMAIN Ops, NEW m \in Nat, NEW v \in Nat, NEW n, NEW ch, NEW late, NEW d,
           PartyOK(c, "call", m, v, n, ch, late, d), Ops[c].op = "check"
    PROVE  IF m = 0 /\ v = 0 THEN PartyOK(c + 1, "call", m, v, n, ch, late, d)
           ELSE PartyOK(c, "seed", m, v, n, ch, late, d)
<1>1. PICK b0, b1, r0, r1, u \in Nat :
              /\ Begun(c - 1) = b0 /\ Begun(c) = b1
              /\ Returns(c - 1) = r0 /\ Returns(c) = r1 /\ Ledger[c - 1].upTo = u
              /\ u <= r0 /\ r0 <= b0 /\ r0 <= r1 /\ r1 <= b1 /\ b0 <= b1
  BY OneCall
<1>2. r1 = r0 /\ b1 = b0
  BY <1>1, BegunAndReturned
<1>3. m = b1 - u /\ n = r1 - u /\ v = (IF late THEN n ELSE m) /\ ch = Ledger[c - 1].checks
  BY <1>1, <1>2 DEF PartyOK, AtCall
<1>4. v <= m
  BY <1>1, <1>3
<1>5. ChecksAt(Ledger[c - 1], c) <=> m > 0
  BY <1>1, <1>3 DEF ChecksAt, Waiting
<1>6. CASE m > 0
  <2>1. InCheck(c, m, v, n, late)
    BY <1>1, <1>3 DEF InCheck
  <2>2. c \in 1 .. Len(Ops) + 1 /\ c <= Len(Ops)
    BY CallCounts
  <2> QED BY <1>3, <1>5, <1>6, <2>1, <2>2 DEF PartyOK, Stages
<1>7. CASE ~(m > 0)
  <2>1. m = 0 /\ v = 0
    BY <1>4, <1>7
  <2> QED BY <1>1, <1>3, <1>5, <1>7, <2>1, Passing
<1> QED BY <1>6, <1>7

(* The seeds have come, and what was returned is dropped.                  *)
LEMMA DropsChecked ==
    ASSUME NEW c \in DOMAIN Ops, NEW m, NEW v, NEW n, NEW ch, NEW late, NEW d,
           PartyOK(c, "seeds", m, v, n, ch, late, d)
    PROVE  /\ n \in Nat /\ n <= m /\ n <= v
           /\ PartyOK(c, "taus", m - n, v - n, n, ch, late, d)
<1>1. PICK b0, b1, r0, r1, u \in Nat :
              /\ Begun(c - 1) = b0 /\ Begun(c) = b1
              /\ Returns(c - 1) = r0 /\ Returns(c) = r1 /\ Ledger[c - 1].upTo = u
              /\ u <= r0 /\ r0 <= b0 /\ r0 <= r1 /\ r1 <= b1 /\ b0 <= b1
  BY OneCall
<1>2. m = b1 - u /\ n = r1 - u /\ v = (IF late THEN n ELSE m)
  BY <1>1 DEF PartyOK, InCheck
<1>3. n \in Nat /\ n <= m /\ n <= v
  BY <1>1, <1>2
<1>4. m - n = b1 - r1 /\ v - n = (IF late THEN 0 ELSE m - n)
  BY <1>1, <1>2
<1>5. Checked(c, m - n, v - n, late)
  BY <1>1, <1>4 DEF Checked
<1> QED BY <1>3, <1>5 DEF PartyOK, Stages

LEMMA EndsCheck ==
    ASSUME NEW c \in DOMAIN Ops, NEW m, NEW v, NEW n, NEW ch, NEW late, NEW d,
           PartyOK(c, "taus", m, v, n, ch, late, d)
    PROVE  PartyOK(c + 1, "call", m, v, 0, Append(ch, c), late, d)
<1>1. PICK b0, b1, r0, r1, u \in Nat :
              /\ Begun(c - 1) = b0 /\ Begun(c) = b1
              /\ Returns(c - 1) = r0 /\ Returns(c) = r1 /\ Ledger[c - 1].upTo = u
              /\ u <= r0 /\ r0 <= b0 /\ r0 <= r1 /\ r1 <= b1 /\ b0 <= b1
  BY OneCall
<1>2. /\ ChecksAt(Ledger[c - 1], c) /\ ch = Ledger[c - 1].checks
      /\ m = b1 - r1 /\ v = (IF late THEN 0 ELSE m)
  BY <1>1 DEF PartyOK, Checked
<1>3. c \in Nat /\ Len(Ops) \in Nat /\ c \in 1 .. Len(Ops)
  BY CallCounts
<1>4. Ledger[c] = [checks |-> Append(ch, c), upTo |-> r1]
  BY <1>1, <1>2, <1>3, LedgerFacts DEF After
<1>5. PICK e : e = c + 1
  OBVIOUS
<1>6. e - 1 = c /\ e \in 1 .. Len(Ops) + 1 /\ r1 - r1 = 0
  BY <1>1, <1>3, <1>5
<1>7. AtCall(e, m, v, 0, late)
  BY <1>1, <1>2, <1>4, <1>6 DEF AtCall
<1>8. PartyOK(e, "call", m, v, 0, Append(ch, c), late, d)
  BY <1>4, <1>6, <1>7 DEF PartyOK, Stages
<1> QED BY <1>5, <1>8

(* A call that opens and checks nothing.                                   *)
LEMMA OtherCall ==
    ASSUME NEW c \in DOMAIN Ops, NEW m, NEW v, NEW n, NEW ch, NEW late, NEW d,
           PartyOK(c, "call", m, v, n, ch, late, d),
           Ops[c].op \notin {"begin", "end", "check"}
    PROVE  PartyOK(c + 1, "call", m, v, n, ch, late, d)
<1>1. Returns(c) = Returns(c - 1) /\ Begun(c) = Begun(c - 1)
  BY BegunAndReturned
<1>2. /\ m = Begun(c) - Ledger[c - 1].upTo /\ n = Returns(c) - Ledger[c - 1].upTo
      /\ v = (IF late THEN n ELSE m) /\ ch = Ledger[c - 1].checks
  BY <1>1 DEF PartyOK, AtCall
<1>3. ~ChecksAt(Ledger[c - 1], c)
  BY DEF ChecksAt
<1> QED BY <1>2, <1>3, Passing

-----------------------------------------------------------------------------
(* Sequences of one party.                                                 *)

Places(k, size) == [j \in 1 .. size |-> <<k, j>>]

LEMMA PlacesSeq ==
    ASSUME NEW k, NEW size \in Nat, NEW Y, \A j \in 1 .. size : <<k, j>> \in Y
    PROVE  Places(k, size) \in Seq(Y) /\ Len(Places(k, size)) = size
BY DEF Places

Appends(g, f, p, k, size) == g = [f EXCEPT ![p] = @ \o Places(k, size)]
LEMMA Appended ==
    ASSUME NEW f, SeqFun(f), NEW p \in Players, NEW k, NEW size \in Nat,
           NEW g, Appends(g, f, p, k, size)
    PROVE  /\ SeqFun(g) /\ Len(g[p]) = Len(f[p]) + size /\ Len(f[p]) \in Nat
           /\ \A q \in Players \ {p} : g[q] = f[q]
<1>1. PICK X : f \in [Players -> Seq(X)]
  BY DEF SeqFun
<1>2. PICK Y : X \subseteq Y /\ \A j \in 1 .. size : <<k, j>> \in Y
  <2>1. LET Z == X \cup {<<k, j>> : j \in 1 .. size}
        IN  X \subseteq Z /\ \A j \in 1 .. size : <<k, j>> \in Z
    OBVIOUS
  <2> QED BY <2>1
<1>3. PICK t : t = Places(k, size)
  OBVIOUS
<1>4. t \in Seq(Y) /\ Len(t) = size
  BY <1>2, <1>3, PlacesSeq
<1>5. \A q \in Players : f[q] \in Seq(Y)
  BY <1>1, <1>2
<1>6. PICK s : s = f[p] /\ s \in Seq(Y)
  BY <1>5
<1>7. s \o t \in Seq(Y) /\ Len(s \o t) = Len(s) + Len(t) /\ Len(s) \in Nat
  BY <1>4, <1>6, ConcatProperties, LenProperties
<1>8. g = [f EXCEPT ![p] = s \o t]
  BY <1>3, <1>6 DEF Appends
<1>9. g \in [Players -> Seq(Y)] /\ g[p] = s \o t /\ \A q \in Players \ {p} : g[q] = f[q]
  BY <1>1, <1>5, <1>7, <1>8
<1> QED BY <1>4, <1>6, <1>7, <1>9 DEF SeqFun

Shortens(g, f, p, n) == g = [f EXCEPT ![p] = SubSeq(@, n + 1, Len(@))]
LEMMA Shortened ==
    ASSUME NEW f, SeqFun(f), NEW p \in Players, NEW n \in Nat, n <= Len(f[p]),
           NEW g, Shortens(g, f, p, n)
    PROVE  /\ SeqFun(g) /\ Len(g[p]) = Len(f[p]) - n
           /\ \A q \in Players \ {p} : g[q] = f[q]
<1>1. PICK X : f \in [Players -> Seq(X)]
  BY DEF SeqFun
<1>2. PICK s : s = f[p] /\ s \in Seq(X)
  BY <1>1
<1>3. SubSeq(s, n + 1, Len(s)) \in Seq(X) /\ Len(SubSeq(s, n + 1, Len(s))) = Len(s) - n
  <2>1. Len(s) \in Nat /\ n <= Len(s)
    BY <1>2
  <2>2. PICK a, b : a = n + 1 /\ b = Len(s)
    OBVIOUS
  <2>3. a \in 1 .. Len(s) + 1 /\ b \in a - 1 .. Len(s) /\ b - a + 1 = Len(s) - n
    BY <2>1, <2>2
  <2>4. SubSeq(s, a, b) \in Seq(X) /\ Len(SubSeq(s, a, b)) = IF a <= b THEN b - a + 1 ELSE 0
    BY <1>2, <2>1, <2>3, SubSeqProperties
  <2> QED BY <2>1, <2>2, <2>3, <2>4
<1>4. g = [f EXCEPT ![p] = SubSeq(s, n + 1, Len(s))]
  BY <1>2 DEF Shortens
<1>5. g \in [Players -> Seq(X)] /\ g[p] = SubSeq(s, n + 1, Len(s))
      /\ \A q \in Players \ {p} : g[q] = f[q]
  BY <1>1, <1>3, <1>4
<1> QED BY <1>2, <1>3, <1>5 DEF SeqFun

Rewrites(g, f, p, t) ==
    /\ g = [f EXCEPT ![p] = t]
    /\ t = [i \in DOMAIN t |-> t[i]] /\ DOMAIN t = DOMAIN f[p]
LEMMA Rewritten ==
    ASSUME NEW f, SeqFun(f), NEW p \in Players, NEW t, NEW g, Rewrites(g, f, p, t)
    PROVE  /\ SeqFun(g) /\ Len(g[p]) = Len(f[p])
           /\ \A q \in Players \ {p} : g[q] = f[q]
<1>1. PICK X : f \in [Players -> Seq(X)]
  BY DEF SeqFun
<1>2. PICK n \in Nat : DOMAIN f[p] = 1 .. n /\ Len(f[p]) = n
  BY <1>1
<1> DEFINE Z == {t[i] : i \in 1 .. n}
           Y == X \cup Z
<1>3. t \in [1 .. n -> Y]
  BY <1>2 DEF Rewrites
<1> HIDE DEF Z
<1>4. t \in Seq(Y) /\ Len(t) = n
  BY <1>3
<1>5. \A q \in Players : f[q] \in Seq(Y)
  BY <1>1
<1> HIDE DEF Y
<1>6. g \in [Players -> Seq(Y)] /\ g[p] = t /\ \A q \in Players \ {p} : g[q] = f[q]
  BY <1>1, <1>4, <1>5 DEF Rewrites
<1> QED BY <1>2, <1>4, <1>6 DEF SeqFun

-----------------------------------------------------------------------------
(* Steps.                                                                  *)

Inv == Types /\ PartiesOK

(* Only p has moved.                                                       *)
LEMMA OneMoves ==
    ASSUME Inv, NEW p \in Players, NEW c \in Nat, NEW s \in Stages, NEW n \in Int,
           NEW ch \in Seq(Nat),
           pc' = [pc EXCEPT ![p] = c], stage' = [stage EXCEPT ![p] = s],
           popenCnt' = [popenCnt EXCEPT ![p] = n], checks' = [checks EXCEPT ![p] = ch],
           SeqFun(macs'), SeqFun(vals'), direct' = direct,
           \A q \in Players \ {p} : macs'[q] = macs[q] /\ vals'[q] = vals[q],
           PartyOK(c, s, Len(macs'[p]), Len(vals'[p]), n, ch, Late(direct, p), direct)
    PROVE  Inv'
<1>1. Types'
  BY DEF Inv, Types
<1>2. /\ pc'[p] = c /\ stage'[p] = s /\ popenCnt'[p] = n /\ checks'[p] = ch
      /\ \A q \in Players \ {p} :
            /\ pc'[q] = pc[q] /\ stage'[q] = stage[q]
            /\ popenCnt'[q] = popenCnt[q] /\ checks'[q] = checks[q]
  BY DEF Inv, Types
<1>3. ASSUME NEW q \in Players
      PROVE  PartyOK(pc'[q], stage'[q], Len(macs'[q]), Len(vals'[q]), popenCnt'[q], checks'[q],
                     Late(direct', q), direct')
  <2>1. CASE q = p
    BY <1>2, <2>1
  <2>2. CASE q # p
    <3>1. PartyOK(pc[q], stage[q], Len(macs[q]), Len(vals[q]), popenCnt[q], checks[q],
                  Late(direct, q), direct)
      BY DEF Inv, PartiesOK
    <3>2. /\ pc'[q] = pc[q] /\ stage'[q] = stage[q] /\ macs'[q] = macs[q] /\ vals'[q] = vals[q]
          /\ popenCnt'[q] = popenCnt[q] /\ checks'[q] = checks[q]
      BY <1>2, <2>2
    <3> QED BY <3>1, <3>2
  <2> QED BY <2>1, <2>2
<1>4. PartiesOK'
  BY <1>3 DEF PartiesOK
<1> QED BY <1>1, <1>4 DEF Inv

(* A party at a call of the tape.                                          *)
LEMMA PartyAt ==
    ASSUME Inv, NEW p \in Players
    PROVE  /\ pc[p] \in Nat /\ stage[p] \in Stages /\ popenCnt[p] \in Int
           /\ checks[p] \in Seq(Nat) /\ Len(macs[p]) \in Nat /\ Len(vals[p]) \in Nat
           /\ direct \in BOOLEAN /\ Late(direct, p) \in BOOLEAN
           /\ pc = [pc EXCEPT ![p] = pc[p]] /\ stage = [stage EXCEPT ![p] = stage[p]]
           /\ popenCnt = [popenCnt EXCEPT ![p] = popenCnt[p]]
           /\ checks = [checks EXCEPT ![p] = checks[p]]
           /\ SeqFun(macs) /\ SeqFun(vals)
           /\ PartyOK(pc[p], stage[p], Len(macs[p]), Len(vals[p]), popenCnt[p], checks[p],
                      Late(direct, p), direct)
           /\ pc[p] <= Len(Ops) => pc[p] \in DOMAIN Ops
<1>1. Types /\ PartiesOK
  BY DEF Inv
<1>2. PartyOK(pc[p], stage[p], Len(macs[p]), Len(vals[p]), popenCnt[p], checks[p],
              Late(direct, p), direct)
  BY <1>1 DEF PartiesOK
<1>3. pc[p] \in 1 .. Len(Ops) + 1
  BY <1>2 DEF PartyOK
<1>4. Len(Ops) \in Nat /\ DOMAIN Ops = 1 .. Len(Ops)
  BY OpsAssumption
<1>5. pc[p] <= Len(Ops) => pc[p] \in DOMAIN Ops
  BY <1>3, <1>4
<1>6. Len(macs[p]) \in Nat /\ Len(vals[p]) \in Nat
  BY <1>1 DEF Types, SeqFun
<1>7. /\ pc[p] \in Nat /\ stage[p] \in Stages /\ popenCnt[p] \in Int
      /\ checks[p] \in Seq(Nat) /\ direct \in BOOLEAN
      /\ pc = [pc EXCEPT ![p] = pc[p]] /\ stage = [stage EXCEPT ![p] = stage[p]]
      /\ popenCnt = [popenCnt EXCEPT ![p] = popenCnt[p]]
      /\ checks = [checks EXCEPT ![p] = checks[p]]
      /\ SeqFun(macs) /\ SeqFun(vals)
  BY <1>1 DEF Types
<1>8. Late(direct, p) \in BOOLEAN
  BY DEF Late, IsLeaf
<1> QED BY <1>2, <1>5, <1>6, <1>7, <1>8

LEMMA NothingMoves ==
    ASSUME Inv, UNCHANGED <<direct, pc, stage, macs, vals, popenCnt, checks>>
    PROVE  Inv'
<1>1. Types'
  BY DEF Inv, Types
<1>2. PartiesOK'
  BY DEF Inv, PartiesOK
<1> QED BY <1>1, <1>2 DEF Inv

(* The base player and those that forward have the values at once.         *)
LEMMA InnerParties ==
    ASSUME NEW p \in Players
    PROVE  /\ p = BasePlayer => ~IsLeaf(p)
           /\ IsForwarder(p) => ~IsLeaf(p)
<1>1. NPlayers \in Nat \ {0} /\ BasePlayer \in Int /\ p \in Int /\ MaxBroadcast \in Nat
  BY PlayersAssumption, FanAssumption DEF Players
<1>2. p = BasePlayer => Relative(p) = 0
  BY <1>1 DEF Relative
<1>3. Relative(p) \in Int
  BY <1>1 DEF Relative
<1>4. PICK r : r = Relative(p) /\ r \in Int
  BY <1>3
<1>5. PICK x : x = r * MaxBroadcast /\ x \in Int
  BY <1>1, <1>4
<1>6. r = 0 => x = 0
  BY <1>1, <1>5
<1>7. IsLeaf(p) <=> x >= NPlayers
  BY <1>4, <1>5 DEF IsLeaf
<1>8. IsForwarder(p) => x < NPlayers
  BY <1>4, <1>5 DEF IsForwarder
<1> QED BY <1>1, <1>2, <1>4, <1>5, <1>6, <1>7, <1>8

LEMMA BeginTreeStep ==
    ASSUME Inv, NEW p \in Players, BeginTree(p), direct' = direct
    PROVE  Inv'
<1>1. /\ ~direct /\ stage[p] = "call" /\ pc[p] <= Len(Ops) /\ Ops[pc[p]].op = "begin"
      /\ pc' = pc /\ stage' = [stage EXCEPT ![p] = "sum"]
      /\ vals' = vals /\ popenCnt' = popenCnt /\ checks' = checks
  BY DEF BeginTree, At, Stage, ghosts
<1>2. PICK c, k, size : c = pc[p] /\ k = Opening(p) /\ size = Ops[c].n
  OBVIOUS
<1>3. c \in DOMAIN Ops /\ size \in Nat
  BY <1>1, <1>2, PartyAt, CallCounts
<1>4. Appends(macs', macs, p, k, size)
  BY <1>2 DEF BeginTree, AddToMacs, Places, Appends
<1>5. /\ SeqFun(macs') /\ Len(macs'[p]) = Len(macs[p]) + size
      /\ \A q \in Players \ {p} : macs'[q] = macs[q]
  BY <1>3, <1>4, PartyAt, Appended
<1>6. PICK m, v, n, ch, late :
        /\ m = Len(macs[p]) /\ v = Len(vals[p]) /\ n = popenCnt[p] /\ ch = checks[p]
        /\ late = Late(direct, p)
  OBVIOUS
<1>7. PartyOK(c, "call", m, v, n, ch, late, FALSE) /\ m \in Nat /\ direct = FALSE
  BY <1>1, <1>2, <1>6, PartyAt
<1>8. PartyOK(c, "sum", m + size, v, n, ch, late, FALSE)
  BY <1>1, <1>2, <1>3, <1>7, BeginsInTree
<1>9. PartyOK(c, "sum", Len(macs'[p]), Len(vals'[p]), n, ch, Late(direct, p), direct)
  BY <1>1, <1>5, <1>6, <1>7, <1>8
<1>10. /\ c \in Nat /\ n \in Int /\ ch \in Seq(Nat) /\ SeqFun(vals)
       /\ pc' = [pc EXCEPT ![p] = c] /\ popenCnt' = [popenCnt EXCEPT ![p] = n]
       /\ checks' = [checks EXCEPT ![p] = ch]
  BY <1>1, <1>2, <1>6, PartyAt
<1>11. /\ SeqFun(vals') /\ "sum" \in Stages
       /\ \A q \in Players \ {p} : macs'[q] = macs[q] /\ vals'[q] = vals[q]
  BY <1>1, <1>5, <1>10 DEF Stages
<1> QED BY <1>1, <1>5, <1>9, <1>10, <1>11, OneMoves

LEMMA SumUpStep ==
    ASSUME Inv, NEW p \in Players, SumUp(p), direct' = direct
    PROVE  Inv'
<1>1. /\ stage[p] = "sum"
      /\ macs' = macs /\ vals' = vals /\ popenCnt' = popenCnt /\ checks' = checks
  BY DEF SumUp, At, ghosts, store
<1>2. PICK s \in {"sum", "spread"} : pc' = pc /\ stage' = [stage EXCEPT ![p] = s]
  BY DEF SumUp, Stage
<1>3. PICK c, m, v, n, ch, late :
        /\ c = pc[p] /\ m = Len(macs[p]) /\ v = Len(vals[p]) /\ n = popenCnt[p]
        /\ ch = checks[p] /\ late = Late(direct, p)
  OBVIOUS
<1>4. PartyOK(c, "sum", m, v, n, ch, late, direct)
  BY <1>1, <1>3, PartyAt
<1>5. PartyOK(c, s, m, v, n, ch, late, direct)
  BY <1>4 DEF PartyOK, Stages
<1>6. PartyOK(c, s, Len(macs'[p]), Len(vals'[p]), n, ch, Late(direct, p), direct)
  BY <1>1, <1>3, <1>5
<1>7. /\ c \in Nat /\ n \in Int /\ ch \in Seq(Nat) /\ SeqFun(vals) /\ SeqFun(macs)
      /\ pc' = [pc EXCEPT ![p] = c] /\ popenCnt' = [popenCnt EXCEPT ![p] = n]
      /\ checks' = [checks EXCEPT ![p] = ch] /\ s \in Stages
  BY <1>1, <1>2, <1>3, PartyAt DEF Stages
<1> QED BY <1>1, <1>2, <1>6, <1>7, OneMoves

(* The end of POpen_Begin in a tree.                                       *)
LEMMA TreeLeft ==
    ASSUME Inv, NEW p \in Players, stage[p] = "spread", pc[p] <= Len(Ops), Return(p),
           macs' = macs, popenCnt' = popenCnt, checks' = checks, direct' = direct,
           SeqFun(vals'), \A q \in Players \ {p} : vals'[q] = vals[q],
           Len(vals'[p]) = IF Late(direct, p) THEN Len(vals[p])
                           ELSE Len(vals[p]) + SizeOf(Opening(p))
    PROVE  Inv'
<1>1. PICK c, m, v, n, ch, late, w :
        /\ c = pc[p] /\ m = Len(macs[p]) /\ v = Len(vals[p]) /\ n = popenCnt[p]
        /\ ch = checks[p] /\ late = Late(direct, p) /\ w = Len(vals'[p])
  OBVIOUS
<1>2. c \in DOMAIN Ops /\ PartyOK(c, "spread", m, v, n, ch, late, direct)
      /\ direct \in BOOLEAN
  BY <1>1, PartyAt
<1>3. direct = FALSE
  BY <1>2 DEF PartyOK
<1>4. w = IF late THEN v ELSE v + SizeOf(Begins(c))
  BY <1>1 DEF Opening
<1>5. PartyOK(c + 1, "call", m, w, n, ch, late, FALSE)
  BY <1>2, <1>3, <1>4, LeavesTree
<1>6. PartyOK(c + 1, "call", Len(macs'[p]), Len(vals'[p]), n, ch, Late(direct, p), direct)
  BY <1>1, <1>3, <1>5
<1>7. /\ c + 1 \in Nat /\ n \in Int /\ ch \in Seq(Nat) /\ SeqFun(macs)
      /\ pc' = [pc EXCEPT ![p] = c + 1] /\ popenCnt' = [popenCnt EXCEPT ![p] = n]
      /\ checks' = [checks EXCEPT ![p] = ch] /\ stage' = [stage EXCEPT ![p] = "call"]
  BY <1>1, PartyAt DEF Return
<1> QED BY <1>6, <1>7, OneMoves DEF Stages

(* Values are added for all of an opening.                                 *)
LEMMA ValuesAdded ==
    ASSUME Inv, NEW p \in Players, NEW k, SizeOf(k) \in Nat, NEW content,
           AddToValues(p, k, content)
    PROVE  /\ SeqFun(vals') /\ Len(vals'[p]) = Len(vals[p]) + SizeOf(k)
           /\ \A q \in Players \ {p} : vals'[q] = vals[q]
<1>1. PICK size \in Nat : size = SizeOf(k)
  OBVIOUS
<1>2. Appends(vals', vals, p, content, size)
  BY <1>1 DEF AddToValues, Places, Appends
<1>3. SeqFun(vals)
  BY DEF Inv, Types
<1> QED BY <1>1, <1>2, <1>3, Appended

LEMMA SpreadStep ==
    ASSUME Inv, NEW p \in Players, SpreadBase(p) \/ SpreadForward(p) \/ SpreadLeaf(p),
           direct' = direct
    PROVE  Inv'
<1>1. stage[p] = "spread" /\ pc[p] <= Len(Ops) /\ Return(p)
      /\ macs' = macs /\ popenCnt' = popenCnt /\ checks' = checks
  BY DEF SpreadBase, SpreadForward, SpreadLeaf, At, ghosts, store
<1>2. ~direct
  BY <1>1, PartyAt DEF PartyOK
<1>3. SizeOf(Opening(p)) \in Nat
  <2>1. PICK c \in DOMAIN Ops : c = pc[p]
    BY <1>1, PartyAt
  <2>2. Ops[c].op = "begin"
    BY <1>1, <2>1, PartyAt DEF PartyOK, InTree
  <2>3. SizeOf(Begins(c)) \in Nat
    BY <2>2, SizeOfBegun, CallCounts
  <2> QED BY <2>1, <2>3 DEF Opening
<1>4. CASE SpreadBase(p) \/ SpreadForward(p)
  <2>1. PICK content : AddToValues(p, Opening(p), content)
    BY <1>4 DEF SpreadBase, SpreadForward
  <2>2. ~Late(direct, p)
    BY <1>4, InnerParties DEF SpreadBase, SpreadForward, Late
  <2>3. /\ SeqFun(vals') /\ Len(vals'[p]) = Len(vals[p]) + SizeOf(Opening(p))
        /\ \A q \in Players \ {p} : vals'[q] = vals[q]
    BY <1>3, <2>1, ValuesAdded
  <2> QED BY <1>1, <2>2, <2>3, TreeLeft
<1>5. CASE SpreadLeaf(p)
  <2>1. Late(direct, p) /\ vals' = vals
    BY <1>2, <1>5 DEF SpreadLeaf, Late, store
  <2>2. SeqFun(vals)
    BY DEF Inv, Types
  <2>3. SeqFun(vals') /\ Len(vals'[p]) = Len(vals[p])
    BY <2>1, <2>2
  <2> QED BY <1>1, <2>1, <2>3, TreeLeft
<1> QED BY <1>4, <1>5

LEMMA BeginDirectStep ==
    ASSUME Inv, NEW p \in Players, BeginDirect(p), direct' = direct
    PROVE  Inv'
<1>1. /\ direct /\ stage[p] = "call" /\ pc[p] <= Len(Ops) /\ Ops[pc[p]].op = "begin"
      /\ Return(p) /\ popenCnt' = popenCnt /\ checks' = checks
  BY DEF BeginDirect, At, ghosts
<1>2. PICK c, k, size, z :
        /\ c = pc[p] /\ k = Opening(p) /\ size = Ops[c].n /\ z = SizeOf(Begins(c))
  OBVIOUS
<1>3. c \in DOMAIN Ops /\ size \in Nat /\ z \in Nat
  BY <1>1, <1>2, PartyAt, CallCounts, SizeOfBegun
<1>4. Appends(macs', macs, p, k, size)
  BY <1>2 DEF BeginDirect, AddToMacs, Places, Appends
<1>5. /\ SeqFun(macs') /\ Len(macs'[p]) = Len(macs[p]) + size
      /\ \A q \in Players \ {p} : macs'[q] = macs[q]
  BY <1>3, <1>4, PartyAt, Appended
<1>6. PICK content : AddToValues(p, Opening(p), content)
  BY DEF BeginDirect
<1>7. /\ SeqFun(vals') /\ Len(vals'[p]) = Len(vals[p]) + z
      /\ \A q \in Players \ {p} : vals'[q] = vals[q]
  BY <1>2, <1>3, <1>6, ValuesAdded DEF Opening
<1>8. PICK m, v, n, ch :
        m = Len(macs[p]) /\ v = Len(vals[p]) /\ n = popenCnt[p] /\ ch = checks[p]
  OBVIOUS
<1>9. Late(direct, p) = FALSE /\ direct = TRUE
  BY <1>1, PartyAt DEF Late
<1>10. PartyOK(c, "call", m, v, n, ch, FALSE, TRUE)
  BY <1>1, <1>2, <1>8, <1>9, PartyAt
<1>11. PartyOK(c + 1, "call", m + size, v + z, n, ch, FALSE, TRUE)
  BY <1>1, <1>2, <1>3, <1>10, BeginsDirect
<1>12. PartyOK(c + 1, "call", Len(macs'[p]), Len(vals'[p]), n, ch, Late(direct, p), direct)
  BY <1>5, <1>7, <1>8, <1>9, <1>11
<1>13. /\ n \in Int /\ ch \in Seq(Nat) /\ popenCnt' = [popenCnt EXCEPT ![p] = n]
       /\ checks' = [checks EXCEPT ![p] = ch]
  BY <1>1, <1>8, PartyAt
<1>14. /\ c + 1 \in Nat /\ pc' = [pc EXCEPT ![p] = c + 1]
       /\ stage' = [stage EXCEPT ![p] = "call"]
  <2>1. c \in Nat
    BY <1>3, CallCounts
  <2> QED BY <1>1, <1>2, <2>1 DEF Return
<1> QED BY <1>5, <1>7, <1>12, <1>13, <1>14, OneMoves DEF Stages

(* POpen_End, if it does not throw.                                        *)
LEMMA EndMoves ==
    ASSUME Inv, NEW p \in Players, stage[p] = "call", pc[p] <= Len(Ops), Ops[pc[p]].op = "end",
           macs' = macs, checks' = checks, direct' = direct,
           popenCnt' = [popenCnt EXCEPT ![p] = @ + SizeOf(Ended(p))],
           SeqFun(vals'), \A q \in Players \ {p} : vals'[q] = vals[q],
           Len(vals'[p]) = IF Late(direct, p) THEN Len(vals[p]) + SizeOf(Ended(p))
                           ELSE Len(vals[p]),
           ReturnOrCheck(p)
    PROVE  Inv'
<1>1. PICK c, m, v, n, ch, late, w, z, r :
        /\ c = pc[p] /\ m = Len(macs[p]) /\ v = Len(vals[p]) /\ n = popenCnt[p]
        /\ ch = checks[p] /\ late = Late(direct, p) /\ w = Len(vals'[p])
        /\ z = SizeOf(Ends(c)) /\ r = n + z
  OBVIOUS
<1>2. c \in DOMAIN Ops /\ PartyOK(c, "call", m, v, n, ch, late, direct) /\ n \in Int
  BY <1>1, PartyAt
<1>3. z \in Nat /\ c \in Nat
  BY <1>1, <1>2, BegunAndReturned, CallCounts
<1>4. w = IF late THEN v + z ELSE v
  BY <1>1 DEF Ended
<1>5. IF m >= PopenMax \/ w >= PopenMax
      THEN PartyOK(c, "seed", m, w, r, ch, late, direct)
      ELSE PartyOK(c + 1, "call", m, w, r, ch, late, direct)
  BY <1>1, <1>2, <1>4, EndsCall
<1>6. /\ r \in Int /\ ch \in Seq(Nat) /\ SeqFun(macs)
      /\ checks' = [checks EXCEPT ![p] = ch]
  BY <1>1, <1>2, <1>3, PartyAt
<1>7. popenCnt' = [popenCnt EXCEPT ![p] = r]
  BY <1>1 DEF Ended
<1>8. CASE m >= PopenMax \/ w >= PopenMax
  <2>1. pc' = pc /\ stage' = [stage EXCEPT ![p] = "seed"]
    BY <1>1, <1>8 DEF ReturnOrCheck, CheckIfNeeded, Stage
  <2>2. PartyOK(c, "seed", Len(macs'[p]), Len(vals'[p]), r, ch, Late(direct, p), direct)
    BY <1>1, <1>5, <1>8
  <2>3. pc' = [pc EXCEPT ![p] = c]
    BY <1>1, <2>1, PartyAt
  <2>4. /\ SeqFun(macs') /\ "seed" \in Stages
        /\ \A q \in Players \ {p} : macs'[q] = macs[q] /\ vals'[q] = vals[q]
    BY <1>6 DEF Stages
  <2> QED BY <1>3, <1>6, <1>7, <2>1, <2>2, <2>3, <2>4, OneMoves
<1>9. CASE ~(m >= PopenMax \/ w >= PopenMax)
  <2>1. pc' = [pc EXCEPT ![p] = c + 1] /\ stage' = [stage EXCEPT ![p] = "call"]
    BY <1>1, <1>9 DEF ReturnOrCheck, CheckIfNeeded, Return
  <2>2. PartyOK(c + 1, "call", Len(macs'[p]), Len(vals'[p]), r, ch, Late(direct, p), direct)
    BY <1>1, <1>5, <1>9
  <2>3. c + 1 \in Nat
    BY <1>3
  <2> QED BY <1>6, <1>7, <2>1, <2>2, <2>3, OneMoves DEF Stages
<1> QED BY <1>8, <1>9

LEMMA EndStep ==
    ASSUME Inv, NEW p \in Players, EndLeaf(p) \/ EndInner(p) \/ EndDirect(p), direct' = direct
    PROVE  Inv'
<1>1. stage[p] = "call" /\ pc[p] <= Len(Ops) /\ Ops[pc[p]].op = "end"
  BY DEF EndLeaf, EndInner, EndDirect, At
<1>2. SizeOf(Ended(p)) \in Nat
  <2>1. PICK c \in DOMAIN Ops : c = pc[p]
    BY <1>1, PartyAt
  <2> QED BY <1>1, <2>1, BegunAndReturned DEF Ended
<1>3. SeqFun(vals)
  BY DEF Inv, Types
<1>4. CASE EndLeaf(p)
  <2>1. PICK content :
          /\ AddToValues(p, Ended(p), content) /\ Returned(p, content)
          /\ ReturnOrCheck(p) /\ macs' = macs
    BY <1>4 DEF EndLeaf
  <2>2. popenCnt' = [popenCnt EXCEPT ![p] = @ + SizeOf(Ended(p))] /\ checks' = checks
    BY <2>1 DEF Returned
  <2>3. Late(direct, p)
    BY <1>4 DEF EndLeaf, Late
  <2>4. /\ SeqFun(vals') /\ Len(vals'[p]) = Len(vals[p]) + SizeOf(Ended(p))
        /\ \A q \in Players \ {p} : vals'[q] = vals[q]
    BY <1>2, <2>1, ValuesAdded
  <2> QED BY <1>1, <2>1, <2>2, <2>3, <2>4, EndMoves
<1>5. CASE EndInner(p)
  <2>1. ~Late(direct, p)
    BY <1>5 DEF EndInner, Late
  <2>2. CASE popenCnt[p] + SizeOf(Ended(p)) > Len(vals[p])
    <3>1. UNCHANGED <<direct, pc, stage, macs, vals, popenCnt, checks>>
      BY <1>5, <2>2 DEF EndInner, control, store, ghosts
    <3> QED BY <3>1, NothingMoves
  <2>3. CASE ~(popenCnt[p] + SizeOf(Ended(p)) > Len(vals[p]))
    <3>1. PICK content :
            Returned(p, content) /\ ReturnOrCheck(p) /\ vals' = vals /\ macs' = macs
      BY <1>5, <2>3 DEF EndInner
    <3>2. popenCnt' = [popenCnt EXCEPT ![p] = @ + SizeOf(Ended(p))] /\ checks' = checks
      BY <3>1 DEF Returned
    <3>3. SeqFun(vals') /\ Len(vals'[p]) = Len(vals[p])
      BY <1>3, <3>1
    <3> QED BY <1>1, <2>1, <3>1, <3>2, <3>3, EndMoves
  <2> QED BY <2>2, <2>3
<1>6. CASE EndDirect(p)
  <2>1. ~Late(direct, p)
    BY <1>6 DEF EndDirect, Late
  <2>2. PICK size, content :
          /\ size = SizeOf(Ended(p)) /\ SetValues(p, size, content)
          /\ Returned(p, content) /\ ReturnOrCheck(p) /\ macs' = macs
    BY <1>6 DEF EndDirect
  <2>3. PICK n, w : n = popenCnt[p] /\ w = vals[p]
    OBVIOUS
  <2>4. PICK t : t = [i \in DOMAIN w |-> IF i \in n + 1 .. n + size
                                         THEN <<content, i - n>> ELSE w[i]]
    OBVIOUS
  <2>5. t = [i \in DOMAIN t |-> t[i]] /\ DOMAIN t = DOMAIN vals[p]
    BY <2>3, <2>4
  <2>6. vals' = [vals EXCEPT ![p] = t]
    BY <2>2, <2>3, <2>4, Zenon DEF SetValues
  <2>7. popenCnt' = [popenCnt EXCEPT ![p] = @ + SizeOf(Ended(p))] /\ checks' = checks
    BY <2>2 DEF Returned
  <2>8. PICK g : g = vals'
    OBVIOUS
  <2>9. Rewrites(g, vals, p, t)
    BY <2>5, <2>6, <2>8 DEF Rewrites
  <2>10. /\ SeqFun(g) /\ Len(g[p]) = Len(vals[p])
         /\ \A q \in Players \ {p} : g[q] = vals[q]
    BY <1>3, <2>9, Rewritten
  <2>11. /\ SeqFun(vals') /\ Len(vals'[p]) = Len(vals[p])
         /\ \A q \in Players \ {p} : vals'[q] = vals[q]
    BY <2>8, <2>10
  <2> QED BY <1>1, <2>1, <2>2, <2>7, <2>11, EndMoves
<1> QED BY <1>4, <1>5, <1>6

(* Nothing of p changes but its stage and call.                            *)
LEMMA ControlMoves ==
    ASSUME Inv, NEW p \in Players, NEW c \in Nat, NEW s \in Stages,
           pc' = [pc EXCEPT ![p] = c], stage' = [stage EXCEPT ![p] = s],
           macs' = macs, vals' = vals, popenCnt' = popenCnt, checks' = checks, direct' = direct,
           PartyOK(c, s, Len(macs[p]), Len(vals[p]), popenCnt[p], checks[p],
                   Late(direct, p), direct)
    PROVE  Inv'
<1>1. PICK n, ch : n = popenCnt[p] /\ ch = checks[p]
  OBVIOUS
<1>2. /\ n \in Int /\ ch \in Seq(Nat) /\ popenCnt' = [popenCnt EXCEPT ![p] = n]
      /\ checks' = [checks EXCEPT ![p] = ch] /\ SeqFun(macs) /\ SeqFun(vals)
  BY <1>1, PartyAt
<1>3. SeqFun(macs') /\ SeqFun(vals')
  BY <1>2
<1>4. PartyOK(c, s, Len(macs'[p]), Len(vals'[p]), n, ch, Late(direct, p), direct)
  BY <1>1
<1> QED BY <1>2, <1>3, <1>4, OneMoves

LEMMA CheckCallStep ==
    ASSUME Inv, NEW p \in Players, CheckNothing(p) \/ CheckBegins(p), direct' = direct
    PROVE  Inv'
<1>1. /\ stage[p] = "call" /\ pc[p] <= Len(Ops) /\ Ops[pc[p]].op = "check"
      /\ macs' = macs /\ vals' = vals /\ popenCnt' = popenCnt /\ checks' = checks
  BY DEF CheckNothing, CheckBegins, At, store, ghosts
<1>2. PICK c, m, v, n, ch, late :
        /\ c = pc[p] /\ m = Len(macs[p]) /\ v = Len(vals[p]) /\ n = popenCnt[p]
        /\ ch = checks[p] /\ late = Late(direct, p)
  OBVIOUS
<1>3. /\ c \in DOMAIN Ops /\ PartyOK(c, "call", m, v, n, ch, late, direct)
      /\ m \in Nat /\ v \in Nat
  BY <1>1, <1>2, PartyAt
<1>4. IF m = 0 /\ v = 0 THEN PartyOK(c + 1, "call", m, v, n, ch, late, direct)
      ELSE PartyOK(c, "seed", m, v, n, ch, late, direct)
  BY <1>1, <1>2, <1>3, CheckCall
<1>5. (macs[p] = <<>> <=> m = 0) /\ (vals[p] = <<>> <=> v = 0)
  <2>1. \A f : SeqFun(f) => (f[p] = <<>> <=> Len(f[p]) = 0)
    <3> SUFFICES ASSUME NEW f, SeqFun(f) PROVE f[p] = <<>> <=> Len(f[p]) = 0
      OBVIOUS
    <3>1. PICK X : f \in [Players -> Seq(X)]
      BY DEF SeqFun
    <3>2. f[p] \in Seq(X)
      BY <3>1
    <3> QED BY <3>2, EmptySeq
  <2> QED BY <1>2, <2>1, PartyAt
<1>6. c \in Nat /\ c + 1 \in Nat
  BY <1>3, CallCounts
<1>7. CASE CheckNothing(p)
  <2>1. m = 0 /\ v = 0 /\ Return(p)
    BY <1>5, <1>7 DEF CheckNothing
  <2>2. PartyOK(c + 1, "call", Len(macs[p]), Len(vals[p]), popenCnt[p], checks[p],
                Late(direct, p), direct)
    BY <1>2, <1>4, <2>1
  <2>3. pc' = [pc EXCEPT ![p] = c + 1] /\ stage' = [stage EXCEPT ![p] = "call"]
    BY <1>2, <2>1 DEF Return
  <2> QED BY <1>1, <1>6, <2>2, <2>3, ControlMoves DEF Stages
<1>8. CASE CheckBegins(p)
  <2>1. ~(m = 0 /\ v = 0) /\ Stage(p, "seed")
    BY <1>5, <1>8 DEF CheckBegins
  <2>2. PartyOK(c, "seed", Len(macs[p]), Len(vals[p]), popenCnt[p], checks[p],
                Late(direct, p), direct)
    BY <1>2, <1>4, <2>1
  <2>3. stage' = [stage EXCEPT ![p] = "seed"] /\ pc' = pc
    BY <2>1 DEF Stage
  <2>4. pc' = [pc EXCEPT ![p] = c]
    BY <1>2, <2>3, PartyAt
  <2> QED BY <1>1, <1>6, <2>2, <2>3, <2>4, ControlMoves DEF Stages
<1> QED BY <1>7, <1>8

LEMMA SendSeedStep ==
    ASSUME Inv, NEW p \in Players, SendSeed(p), direct' = direct
    PROVE  Inv'
<1>1. /\ stage[p] = "seed" /\ pc[p] <= Len(Ops)
      /\ macs' = macs /\ vals' = vals /\ popenCnt' = popenCnt /\ checks' = checks
      /\ pc' = pc /\ stage' = [stage EXCEPT ![p] = "seeds"]
  BY DEF SendSeed, At, Stage, store, ghosts
<1>2. PICK c, m, v, n, ch, late :
        /\ c = pc[p] /\ m = Len(macs[p]) /\ v = Len(vals[p]) /\ n = popenCnt[p]
        /\ ch = checks[p] /\ late = Late(direct, p)
  OBVIOUS
<1>3. PartyOK(c, "seed", m, v, n, ch, late, direct)
  BY <1>1, <1>2, PartyAt
<1>4. PartyOK(c, "seeds", m, v, n, ch, late, direct)
  BY <1>3 DEF PartyOK, Stages
<1>5. PartyOK(c, "seeds", Len(macs[p]), Len(vals[p]), popenCnt[p], checks[p],
              Late(direct, p), direct)
  BY <1>2, <1>4
<1>6. c \in Nat /\ pc' = [pc EXCEPT ![p] = c]
  BY <1>1, <1>2, PartyAt
<1> QED BY <1>1, <1>5, <1>6, ControlMoves DEF Stages

(* ReceiveSeeds: what was returned is dropped from macs and vals.          *)
LEMMA ReceiveSeedsStep ==
    ASSUME Inv, NEW p \in Players, ReceiveSeeds(p), direct' = direct
    PROVE  Inv'
<1>1. /\ stage[p] = "seeds" /\ pc[p] <= Len(Ops)
      /\ popenCnt' = popenCnt /\ checks' = checks
  BY DEF ReceiveSeeds, At, ghosts
<1>2. CASE UNCHANGED <<pc, stage, macs, vals>>
  BY <1>1, <1>2, NothingMoves
<1>3. CASE ~UNCHANGED <<pc, stage, macs, vals>>
  <2>1. /\ vals' = [vals EXCEPT ![p] = SubSeq(@, popenCnt[p] + 1, Len(@))]
        /\ macs' = [macs EXCEPT ![p] = SubSeq(@, popenCnt[p] + 1, Len(@))]
        /\ pc' = pc /\ stage' = [stage EXCEPT ![p] = "taus"]
    BY <1>3 DEF ReceiveSeeds, Stage
  <2>2. PICK c, m, v, n, ch, late :
          /\ c = pc[p] /\ m = Len(macs[p]) /\ v = Len(vals[p]) /\ n = popenCnt[p]
          /\ ch = checks[p] /\ late = Late(direct, p)
    OBVIOUS
  <2>3. c \in DOMAIN Ops /\ PartyOK(c, "seeds", m, v, n, ch, late, direct)
    BY <1>1, <2>2, PartyAt
  <2>4. n \in Nat /\ n <= m /\ n <= v /\ PartyOK(c, "taus", m - n, v - n, n, ch, late, direct)
    BY <2>3, DropsChecked
  <2>5. Shortens(vals', vals, p, n) /\ Shortens(macs', macs, p, n)
    BY <2>1, <2>2 DEF Shortens
  <2>6. /\ SeqFun(vals') /\ Len(vals'[p]) = v - n
        /\ \A q \in Players \ {p} : vals'[q] = vals[q]
    BY <2>2, <2>4, <2>5, PartyAt, Shortened
  <2>7. /\ SeqFun(macs') /\ Len(macs'[p]) = m - n
        /\ \A q \in Players \ {p} : macs'[q] = macs[q]
    BY <2>2, <2>4, <2>5, PartyAt, Shortened
  <2>8. PartyOK(c, "taus", Len(macs'[p]), Len(vals'[p]), n, ch, Late(direct, p), direct)
    BY <2>2, <2>4, <2>6, <2>7
  <2>9. /\ c \in Nat /\ n \in Int /\ ch \in Seq(Nat) /\ "taus" \in Stages
        /\ pc' = [pc EXCEPT ![p] = c] /\ popenCnt' = [popenCnt EXCEPT ![p] = n]
        /\ checks' = [checks EXCEPT ![p] = ch]
    BY <1>1, <2>1, <2>2, PartyAt DEF Stages
  <2> QED BY <2>1, <2>6, <2>7, <2>8, <2>9, OneMoves
<1> QED BY <1>2, <1>3

(* ReceiveTaus: the check is done.                                         *)
LEMMA ReceiveTausStep ==
    ASSUME Inv, NEW p \in Players, ReceiveTaus(p), direct' = direct
    PROVE  Inv'
<1>1. stage[p] = "taus" /\ pc[p] <= Len(Ops) /\ macs' = macs /\ vals' = vals
  BY DEF ReceiveTaus, At
<1>2. CASE UNCHANGED <<pc, stage, popenCnt, checks>>
  BY <1>1, <1>2, NothingMoves
<1>3. CASE ~UNCHANGED <<pc, stage, popenCnt, checks>>
  <2>1. /\ popenCnt' = [popenCnt EXCEPT ![p] = 0]
        /\ checks' = [checks EXCEPT ![p] = Append(@, pc[p])] /\ Return(p)
    BY <1>3 DEF ReceiveTaus
  <2>2. PICK c, m, v, n, ch, late, all :
          /\ c = pc[p] /\ m = Len(macs[p]) /\ v = Len(vals[p]) /\ n = popenCnt[p]
          /\ ch = checks[p] /\ late = Late(direct, p) /\ all = Append(ch, c)
    OBVIOUS
  <2>3. c \in DOMAIN Ops /\ PartyOK(c, "taus", m, v, n, ch, late, direct) /\ ch \in Seq(Nat)
    BY <1>1, <2>2, PartyAt
  <2>4. PartyOK(c + 1, "call", m, v, 0, all, late, direct)
    BY <2>2, <2>3, EndsCheck
  <2>5. c \in Nat /\ c + 1 \in Nat
    BY <2>3, CallCounts
  <2>6. all \in Seq(Nat)
    BY <2>2, <2>3, <2>5
  <2>7. /\ checks' = [checks EXCEPT ![p] = all] /\ pc' = [pc EXCEPT ![p] = c + 1]
        /\ stage' = [stage EXCEPT ![p] = "call"]
    BY <2>1, <2>2 DEF Return
  <2>8. PartyOK(c + 1, "call", Len(macs'[p]), Len(vals'[p]), 0, all, Late(direct, p), direct)
    BY <1>1, <2>2, <2>4
  <2>9. SeqFun(macs') /\ SeqFun(vals') /\ "call" \in Stages /\ 0 \in Int
    BY <1>1, PartyAt DEF Stages
  <2> QED BY <1>1, <2>1, <2>5, <2>6, <2>7, <2>8, <2>9, OneMoves
<1> QED BY <1>2, <1>3

LEMMA InputStep ==
    ASSUME Inv, NEW p \in Players, InputStarts(p) \/ InputStops(p), direct' = direct
    PROVE  Inv'
<1>1. /\ stage[p] = "call" /\ pc[p] <= Len(Ops) /\ Ops[pc[p]].op \notin {"begin", "end", "check"}
      /\ macs' = macs /\ vals' = vals /\ popenCnt' = popenCnt /\ checks' = checks /\ Return(p)
  BY DEF InputStarts, InputStops, At, store, ghosts
<1>2. PICK c, m, v, n, ch, late :
        /\ c = pc[p] /\ m = Len(macs[p]) /\ v = Len(vals[p]) /\ n = popenCnt[p]
        /\ ch = checks[p] /\ late = Late(direct, p)
  OBVIOUS
<1>3. c \in DOMAIN Ops /\ PartyOK(c, "call", m, v, n, ch, late, direct)
  BY <1>1, <1>2, PartyAt
<1>4. PartyOK(c + 1, "call", m, v, n, ch, late, direct)
  BY <1>1, <1>2, <1>3, OtherCall
<1>5. PartyOK(c + 1, "call", Len(macs[p]), Len(vals[p]), popenCnt[p], checks[p],
              Late(direct, p), direct)
  BY <1>2, <1>4
<1>6. c + 1 \in Nat
  BY <1>3, CallCounts
<1>7. pc' = [pc EXCEPT ![p] = c + 1] /\ stage' = [stage EXCEPT ![p] = "call"]
  BY <1>1, <1>2 DEF Return
<1> QED BY <1>1, <1>5, <1>6, <1>7, ControlMoves DEF Stages

-----------------------------------------------------------------------------
(* The invariant.                                                          *)

LEMMA InvInit ==
    ASSUME Init
    PROVE  Inv
<1>1. \A p \in Players : macs[p] = <<>> /\ vals[p] = <<>>
  BY DEF Init
<1>2. SeqFun(macs) /\ SeqFun(vals)
  <2>1. macs \in [Players -> Seq({})] /\ vals \in [Players -> Seq({})]
    BY DEF Init
  <2> QED BY <2>1 DEF SeqFun
<1>3. Types
  BY <1>2 DEF Init, Types, Stages
<1>4. Len(Ops) \in Nat /\ 1 \in 1 .. Len(Ops) + 1 /\ 1 - 1 = 0 /\ 0 \in 0 .. Len(Ops)
  BY OpsAssumption
<1>5. Begun(0) = 0 /\ Returns(0) = 0
  BY <1>4, CountTypes, TotalFacts DEF Begun, Returns
<1>6. Ledger[0].upTo = 0 /\ Ledger[0].checks = <<>>
  BY LedgerFacts DEF Empty
<1>7. ASSUME NEW late, NEW d
      PROVE  PartyOK(1, "call", 0, 0, 0, <<>>, late, d)
  BY <1>4, <1>5, <1>6 DEF PartyOK, AtCall, Stages
<1>8. ASSUME NEW p \in Players
      PROVE  /\ pc[p] = 1 /\ stage[p] = "call" /\ popenCnt[p] = 0 /\ checks[p] = <<>>
             /\ Len(macs[p]) = 0 /\ Len(vals[p]) = 0
  BY <1>1 DEF Init
<1>9. PartiesOK
  BY <1>7, <1>8 DEF PartiesOK
<1> QED BY <1>3, <1>9 DEF Inv

LEMMA InvStep ==
    ASSUME Inv, [Next]_vars
    PROVE  Inv'
<1>1. ASSUME NEW p \in Players, Step(p), direct' = direct PROVE Inv'
  BY <1>1, BeginTreeStep, SumUpStep, SpreadStep, BeginDirectStep, EndStep, CheckCallStep,
     SendSeedStep, ReceiveSeedsStep, ReceiveTausStep, InputStep DEF Step
<1>2. CASE UNCHANGED vars
  <2>1. UNCHANGED <<direct, pc, stage, macs, vals, popenCnt, checks>>
    BY <1>2 DEF vars, control, store, ghosts
  <2> QED BY <2>1, NothingMoves
<1> QED BY <1>1, <1>2 DEF Next, Done

LEMMA Invariant == Spec => []Inv
<1>1. Init => Inv
  BY InvInit
<1>2. Inv /\ [Next]_vars => Inv'
  BY InvStep
<1> QED BY <1>1, <1>2, PTL DEF Spec

(* All parties check after the same calls: the n-th check of any two, if   *)
(* both have made it, was at the same call, however openings are nested    *)
(* and whatever was received.                                              *)
THEOREM CheckedAlike == Spec => []ChecksAgree
<1>1. ASSUME Inv PROVE ChecksAgree
  <2> SUFFICES ASSUME NEW p \in Players, NEW q \in Players,
                      NEW n \in DOMAIN checks[p] \cap DOMAIN checks[q]
               PROVE  checks[p][n] = checks[q][n]
    BY DEF ChecksAgree
  <2>1. ASSUME NEW x \in Players
        PROVE  \E c \in 0 .. Len(Ops) : checks[x] = Ledger[c].checks /\ checks[x] \in Seq(Nat)
    <3>1. PICK k, ch, m, v, n1, s, late :
            k = pc[x] /\ ch = checks[x] /\ m = Len(macs[x]) /\ v = Len(vals[x])
            /\ n1 = popenCnt[x] /\ s = stage[x] /\ late = Late(direct, x)
      OBVIOUS
    <3>2. PartyOK(k, s, m, v, n1, ch, late, direct) /\ ch \in Seq(Nat)
      BY <1>1, <3>1, PartyAt
    <3>3. k \in 1 .. Len(Ops) + 1 /\ ch = Ledger[k - 1].checks
      BY <3>2 DEF PartyOK
    <3>4. k - 1 \in 0 .. Len(Ops)
      BY <3>3, OpsAssumption
    <3> QED BY <3>1, <3>2, <3>3, <3>4
  <2>2. PICK c \in 0 .. Len(Ops) : checks[p] = Ledger[c].checks /\ checks[p] \in Seq(Nat)
    BY <2>1
  <2>3. PICK d \in 0 .. Len(Ops) : checks[q] = Ledger[d].checks /\ checks[q] \in Seq(Nat)
    BY <2>1
  <2>4. PICK a, b : a = checks[p] /\ b = checks[q]
    OBVIOUS
  <2>5. n \in 1 .. Len(a) /\ n \in 1 .. Len(b)
    <3>1. a \in Seq(Nat) /\ b \in Seq(Nat) /\ n \in DOMAIN a /\ n \in DOMAIN b
      BY <2>2, <2>3, <2>4
    <3>2. DOMAIN a = 1 .. Len(a) /\ DOMAIN b = 1 .. Len(b)
      BY <3>1
    <3> QED BY <3>1, <3>2
  <2>6. CASE c <= d
    <3>1. Extends(b, a)
      BY <2>2, <2>3, <2>4, <2>6, ChecksExtend
    <3> QED BY <2>4, <2>5, <3>1 DEF Extends
  <2>7. CASE d <= c
    <3>1. Extends(a, b)
      BY <2>2, <2>3, <2>4, <2>7, ChecksExtend
    <3> QED BY <2>4, <2>5, <3>1 DEF Extends
  <2>8. c \in Int /\ d \in Int
    BY OpsAssumption
  <2> QED BY <2>6, <2>7, <2>8
<1> QED BY <1>1, Invariant, PTL

-----------------------------------------------------------------------------
(* The trees.  Level[i] parties are left after i turns of the loop of      *)
(* TreeSum::start; Rep[i][x] is the one that has the share of x then, both *)
(* counted from the base player.                                           *)
Turns == 0 .. NPlayers
Level ==
    LET l[i \in Turns] ==
            IF i = 0 THEN NPlayers ELSE IF l[i - 1] = 0 THEN 0 ELSE SumPlayers(l[i - 1])
    IN  l
Ranks == 0 .. NPlayers - 1
Rep ==
    LET r[i \in Turns] ==
            IF i = 0 THEN [x \in Ranks |-> x]
            ELSE [x \in Ranks |-> IF Level[i] = 0 THEN 0 ELSE r[i - 1][x] % Level[i]]
    IN  r

(* What the party at place r of the tree has after i turns, and what it     *)
(* sends when its turn has come.                                           *)
Shares(k, i, r) == {<<"share", k, Absolute(x)>> : x \in {y \in Ranks : Rep[i][y] = r}}
Part(k, i, r) == SetToBag(Shares(k, i, r))
Sender(i, r) == i + 1 \in Turns /\ Level[i + 1] <= r /\ r < Level[i]
PartialSum(k, r) == Part(k, CHOOSE i \in Turns : Sender(i, r), r)

(* q sends its sum to p; q tells p the result.                             *)
SumsTo(q, p) == \E i \in Turns : i + 1 \in Turns /\ p \in Receiver(q, Level[i + 1], Level[i])
Tells(q, p) == p \in Children(q)

(* The result is in the stream from POpen_Begin to POpen_End.              *)
Kept(d, q, p) == d \/ (Tells(q, p) /\ IsLeaf(p))

-----------------------------------------------------------------------------
(* What q sends to p, and how much of it p reads, in a call.               *)
Channels == {"main", "check"}
CheckOn(d) == IF d THEN "check" ELSE "main"

Sending(d, ch, q, p, c) ==
    LET op == Ops[c].op IN
    IF \/ op = "begin" /\ ch = "main" /\ (d \/ SumsTo(q, p) \/ Tells(q, p))
       \/ op = "startinput" /\ ch = "main" /\ Ops[c].n = q
    THEN 1 ELSE IF ch = CheckOn(d) /\ ChecksAt(Ledger[c - 1], c) THEN 2 ELSE 0

Returning(d, ch, q, p, c) ==
    IF Ops[c].op = "end" /\ ch = "main" /\ Kept(d, q, p) THEN 1 ELSE 0
Reading(d, ch, q, p, c) ==
    LET op == Ops[c].op IN
    IF \/ op = "begin" /\ ch = "main" /\ ~d /\ (SumsTo(q, p) \/ Tells(q, p)) /\ ~Kept(d, q, p)
       \/ op = "stopinput" /\ ch = "main" /\ Ops[c].n = q
    THEN 1
    ELSE Returning(d, ch, q, p, c) +
         (IF ch = CheckOn(d) /\ ChecksAt(Ledger[c - 1], c) THEN 2 ELSE 0)

Accumulated(g) ==
    LET t[c \in 0 .. Len(Ops)] == IF c = 0 THEN 0 ELSE t[c - 1] + g[c]
    IN  t
SentBy(d, ch, q, p) == Accumulated([c \in 1 .. Len(Ops) |-> Sending(d, ch, q, p, c)])
ReadBy(d, ch, q, p) == Accumulated([c \in 1 .. Len(Ops) |-> Reading(d, ch, q, p, c)])

ChecksBefore(c) == Len(Ledger[c - 1].checks)
Message(d, q, p, c, j) ==
    LET op == Ops[c].op
        k == Begins(c)
        n == ChecksBefore(c)
    IN  IF op = "begin" THEN IF d THEN Share(k, q)
                             ELSE IF SumsTo(q, p) THEN PartialSum(k, Relative(q)) ELSE Complete(k)
        ELSE IF op = "startinput" THEN Masked(c)
        ELSE IF j = 1 THEN Seed(n, q) ELSE Tau(n, q, TRUE)

(* The i-th message that q sends to p.                                     *)
Numbered(d, ch, q, p, i, c, j) ==
    j <= Sending(d, ch, q, p, c) /\ i = SentBy(d, ch, q, p)[c - 1] + j
Script(d, ch, q, p, i) ==
    LET x == CHOOSE x \in (DOMAIN Ops) \X {1, 2} : Numbered(d, ch, q, p, i, x[1], x[2])
    IN  Message(d, q, p, x[1], x[2])

(* A stream after a messages have been sent and b of them read.            *)
Flow(s, d, ch, q, p, a, b) ==
    /\ a \in Nat /\ b \in Nat /\ b <= a
    /\ s = [i \in 1 .. a - b |-> Script(d, ch, q, p, b + i)]

-----------------------------------------------------------------------------
(* The inputs.                                                             *)
StartOf(c) == CHOOSE s \in DOMAIN Ops : Matching(s, c)
StopCall(n) == CHOOSE c \in DOMAIN Ops : Ops[c].op = "stopinput" /\ Stopped(c) = n
InputOf(p, n) == IF Ops[StopCall(n)].n = p THEN EmptyBag ELSE Masked(StartOf(StopCall(n)))

-----------------------------------------------------------------------------
(* Where parties are.                                                      *)
InCheckStage(s) == s \in {"seed", "seeds", "taus"}
SentIn(d, ch, q, p, s, l) ==
    IF \/ s = "sum" /\ ch = "main" /\ SumsTo(q, p) /\ Relative(q) >= l
       \/ s = "spread" /\ ch = "main" /\ SumsTo(q, p)
       \/ s = "seeds" /\ ch = CheckOn(d)
    THEN 1 ELSE IF s = "taus" /\ ch = CheckOn(d) THEN 2 ELSE 0
ReadIn(d, ch, q, p, c, s, l) ==
    IF \/ s = "sum" /\ ch = "main" /\ SumsTo(q, p) /\ Relative(q) >= l
       \/ s = "spread" /\ ch = "main" /\ SumsTo(q, p)
    THEN 1
    ELSE IF InCheckStage(s)
    THEN Returning(d, ch, q, p, c) + (IF s = "taus" /\ ch = CheckOn(d) THEN 1 ELSE 0)
    ELSE 0

Sent(d, ch, q, p, c, s, l) == SentBy(d, ch, q, p)[c - 1] + SentIn(d, ch, q, p, s, l)
Read(d, ch, q, p, c, s, l) == ReadBy(d, ch, q, p)[c - 1] + ReadIn(d, ch, q, p, c, s, l)

Shaped(f) ==
    /\ DOMAIN f = Channels
    /\ \A ch \in Channels : DOMAIN f[ch] = Players
    /\ \A ch \in Channels : \A q \in Players : DOMAIN f[ch][q] = Players
StreamsFlow ==
    \A ch \in Channels : \A q \in Players : \A p \in Players \ {q} :
        Flow(stream[ch][q][p], direct, ch, q, p,
             Sent(direct, ch, q, p, pc[q], stage[q], sums[q]),
             Read(direct, ch, q, p, pc[p], stage[p], sums[p]))

(* What a party has.                                                       *)
Blocks(f, u, content) ==
    \A k \in 1 .. Openings : \A j \in 1 .. SizeOf(k) : \A i \in DOMAIN f :
        u + i = Total[k - 1] + j => f[i] = <<content[k], j>>
Numbers == [k \in 1 .. Openings |-> k]
Contents(d, p, e) ==
    [k \in 1 .. Openings |-> IF d /\ k > e THEN Share(k, p) ELSE Complete(k)]

Summed(p, c, s, l, v) ==
    /\ s = "sum" => \E i \in Turns : /\ l = Level[i] /\ Level[i] > 0 /\ i + 1 \in Turns
                                     /\ Relative(p) < l => v = Part(Begins(c), i, Relative(p))
    /\ s = "spread" /\ p = BasePlayer => v = Complete(Begins(c))
    /\ s = "taus" => v = Tau(ChecksBefore(c), p, TRUE)
Covered(c, s) == IF s = "taus" THEN Returns(c) ELSE Ledger[c - 1].upTo
EndedBy(c, s) == IF InCheckStage(s) THEN Ends(c) ELSE Ends(c - 1)
Holds(d, p, c, s, l, v, ms, vs, o, in) ==
    /\ Summed(p, c, s, l, v)
    /\ Blocks(ms, Covered(c, s), Numbers)
    /\ Blocks(vs, Covered(c, s), Contents(d, p, EndedBy(c, s)))
    /\ o = [k \in 1 .. EndedBy(c, s) |-> Complete(k)]
    /\ in = [n \in 1 .. Stopped(c - 1) |-> InputOf(p, n)]
PartiesHold ==
    \A p \in Players :
        Holds(direct, p, pc[p], stage[p], sums[p], values[p], macs[p], vals[p],
              opened[p], input[p])

Domains ==
    /\ Shaped(stream) /\ DOMAIN sums = Players /\ DOMAIN values = Players
    /\ DOMAIN failed = Players /\ DOMAIN opened = Players /\ DOMAIN input = Players
Sound == Domains /\ NobodyFails /\ StreamsFlow /\ PartiesHold

-----------------------------------------------------------------------------
(* Counting from the base player.                                          *)

LEMMA DivMod ==
    ASSUME NEW n \in Nat \ {0}, NEW x \in Nat
    PROVE  /\ x % n \in 0 .. n - 1 /\ x \div n \in Nat
           /\ x = n * (x \div n) + (x % n)
OBVIOUS

LEMMA ModIs ==
    ASSUME NEW n \in Nat \ {0}, NEW r \in 0 .. n - 1, NEW i \in Int
    PROVE  (r + n * i) % n = r
OBVIOUS

LEMMA Ranked ==
    /\ \A p \in Players : /\ Relative(p) \in Ranks /\ Absolute(Relative(p)) = p
                          /\ Relative(p) = 0 <=> p = BasePlayer
    /\ \A r \in Ranks : Absolute(r) \in Players /\ Relative(Absolute(r)) = r
    /\ Relative(BasePlayer) = 0 /\ BasePlayer \in Players
<1> DEFINE n == NPlayers
           b == BasePlayer
<1>1. n \in Nat \ {0} /\ b \in 0 .. n - 1
  BY PlayersAssumption DEF Players
<1> HIDE DEF n, b
<1>2. ASSUME NEW p \in 0 .. n - 1
      PROVE  (p - b + n) % n = IF p >= b THEN p - b ELSE p - b + n
  <2>1. CASE p >= b
    <3>1. p - b \in 0 .. n - 1 /\ p - b + n = (p - b) + n * 1 /\ 1 \in Int
      BY <1>1, <2>1
    <3>2. ((p - b) + n * 1) % n = p - b
      BY ONLY <1>1, <3>1, ModIs
    <3> QED BY <2>1, <3>1, <3>2
  <2>2. CASE ~(p >= b)
    <3>1. p - b + n \in 0 .. n - 1 /\ p - b + n = (p - b + n) + n * 0 /\ 0 \in Int
      BY <1>1, <2>2
    <3>2. ((p - b + n) + n * 0) % n = p - b + n
      BY ONLY <1>1, <3>1, ModIs
    <3> QED BY <2>2, <3>1, <3>2
  <2> QED BY <2>1, <2>2
<1>3. ASSUME NEW r \in 0 .. n - 1
      PROVE  (b + r) % n = IF b + r < n THEN b + r ELSE b + r - n
  <2>1. CASE b + r < n
    <3>1. b + r \in 0 .. n - 1 /\ b + r = (b + r) + n * 0 /\ 0 \in Int
      BY <1>1, <2>1
    <3>2. ((b + r) + n * 0) % n = b + r
      BY ONLY <1>1, <3>1, ModIs
    <3> QED BY <2>1, <3>1, <3>2
  <2>2. CASE ~(b + r < n)
    <3>1. b + r - n \in 0 .. n - 1 /\ b + r = (b + r - n) + n * 1 /\ 1 \in Int
      BY <1>1, <2>2
    <3>2. ((b + r - n) + n * 1) % n = b + r - n
      BY ONLY <1>1, <3>1, ModIs
    <3> QED BY <2>2, <3>1, <3>2
  <2> QED BY <2>1, <2>2
<1>4. /\ Players = 0 .. n - 1 /\ Ranks = 0 .. n - 1 /\ BasePlayer = b
      /\ \A p : Relative(p) = (p - b + n) % n /\ \A r : Absolute(r) = (b + r) % n
  BY DEF Players, Ranks, Relative, Absolute, n, b
<1>5. /\ \A p \in 0 .. n - 1 : Relative(p) = IF p >= b THEN p - b ELSE p - b + n
      /\ \A r \in 0 .. n - 1 : Absolute(r) = IF b + r < n THEN b + r ELSE b + r - n
  BY <1>2, <1>3, <1>4
<1>6. \A p \in 0 .. n - 1 : /\ Relative(p) \in 0 .. n - 1 /\ Absolute(Relative(p)) = p
                            /\ Relative(p) = 0 <=> p = b
  BY <1>1, <1>5
<1>7. \A r \in 0 .. n - 1 : /\ Absolute(r) \in 0 .. n - 1 /\ Relative(Absolute(r)) = r
  BY <1>1, <1>5
<1> QED BY <1>1, <1>4, <1>6, <1>7

(* No two have the same rank.                                              *)
LEMMA RanksDiffer ==
    ASSUME NEW p \in Players, NEW q \in Players, Relative(p) = Relative(q)
    PROVE  p = q
BY Ranked

-----------------------------------------------------------------------------
(* The levels of the tree.                                                 *)

LEMMA SumPlayersSmaller ==
    ASSUME NEW l \in Nat \ {0}
    PROVE  /\ SumPlayers(l) \in Nat /\ SumPlayers(l) < l
           /\ l = 1 <=> SumPlayers(l) = 0
<1> DEFINE o == OpeningSum
           x == l - 2 + o
           q == x \div o
<1>1. o \in Nat \ {0, 1}
  BY FanAssumption
<1>2. x \in Nat
  BY <1>1
<1> HIDE DEF o
<1>3. o \in Nat \ {0}
  BY <1>1
<1>4. q \in Nat /\ x % o \in 0 .. o - 1 /\ x = o * q + (x % o)
  <2> HIDE DEF x
  <2> QED BY <1>2, <1>3, DivMod DEF q
<1>5. SumPlayers(l) = q
  BY DEF SumPlayers, q, x, o
<1> DEFINE m == x % o
<1>6. m \in 0 .. o - 1 /\ l - 2 + o = o * q + m
  BY <1>4 DEF x
<1> HIDE DEF q, m, x
<1>7. q < l
  <2> SUFFICES ASSUME q >= l PROVE FALSE
    BY <1>4
  <2>1. o * q >= o * l
    BY <1>1, <1>4
  <2>2. PICK e \in Nat : o = e + 2
    <3>1. o - 2 \in Nat /\ o = (o - 2) + 2
      BY <1>1
    <3> QED BY <3>1
  <2>3. o * l = e * l + 2 * l /\ e * l >= e
    BY <2>2
  <2>4. l - 2 + o >= o * l
    BY <1>1, <1>4, <1>6, <2>1
  <2> QED BY <2>2, <2>3, <2>4
<1>8. l = 1 => q = 0
  <2> SUFFICES ASSUME l = 1, q >= 1 PROVE FALSE
    BY <1>4
  <2>1. PICK e \in Nat : q = e + 1
    <3>1. q - 1 \in Nat /\ q = (q - 1) + 1
      BY <1>4
    <3> QED BY <3>1
  <2>2. o * q = o * e + o /\ o * e \in Nat
    BY <1>1, <2>1
  <2> QED BY <1>1, <1>6, <2>2
<1>9. q = 0 => l = 1
  <2> SUFFICES ASSUME q = 0 PROVE l = 1
    OBVIOUS
  <2>1. o * q = 0
    BY <1>1
  <2> QED BY <1>1, <1>6, <2>1
<1> QED BY <1>4, <1>5, <1>7, <1>8, <1>9

Lower(l) == IF l = 0 THEN 0 ELSE SumPlayers(l)

LEMMA LevelFacts ==
    /\ Level[0] = NPlayers
    /\ \A i \in Turns : Level[i] \in (0 .. NPlayers - i) \cup {0}
    /\ \A i \in Turns : i + 1 \in Turns => Level[i + 1] = Lower(Level[i])
<1> DEFINE n == NPlayers
           S == 0 .. n
           down == [l \in S |-> Lower(l)]
           step == [k \in 1 .. n |-> down]
           IsLevel(f) == f = [k \in 0 .. n |->
                                 IF k = 0 THEN n ELSE IF f[k - 1] = 0 THEN 0 ELSE SumPlayers(f[k - 1])]
<1>1. n \in Nat \ {0} /\ n \in S
  BY PlayersAssumption
<1> HIDE DEF n
<1>2. \A l \in S : Lower(l) \in S /\ (l # 0 => Lower(l) < l)
  BY <1>1, SumPlayersSmaller DEF Lower
<1>3. step \in [1 .. n -> [S -> S]]
  BY <1>2
<1>4. ASSUME NEW f \in [0 .. n -> S], Follows(f, n, n, step) PROVE IsLevel(f)
  <2>1. \A k \in 0 .. n : f[k] = IF k = 0 THEN n ELSE step[k][f[k - 1]]
    BY <1>4 DEF Follows
  <2>2. \A k \in 1 .. n : k \in Nat /\ k - 1 \in 0 .. n
    BY <1>1
  <2>3. \A k \in 1 .. n : step[k][f[k - 1]] = Lower(f[k - 1])
    BY <2>2
  <2>4. \A k \in 0 .. n : f[k] = IF k = 0 THEN n
                                 ELSE IF f[k - 1] = 0 THEN 0 ELSE SumPlayers(f[k - 1])
    <3>1. \A k \in 0 .. n : k = 0 \/ k \in 1 .. n
      BY <1>1
    <3> QED BY <2>1, <2>3, <3>1 DEF Lower
  <2>5. f = [k \in 0 .. n |-> f[k]]
    OBVIOUS
  <2> QED BY <2>4, <2>5
<1> HIDE DEF step, S
<1>5. PICK f \in [0 .. n -> S] : Follows(f, n, n, step)
  BY <1>1, <1>3, RecursionExists
<1>6. IsLevel(f)
  BY <1>4, <1>5
<1> DEFINE g == Level
<1>7. IsLevel(g)
  BY <1>6 DEF Level, Turns, n
<1> HIDE DEF g
<1>8. \A k \in 0 .. n : g[k] = IF k = 0 THEN n
                               ELSE IF g[k - 1] = 0 THEN 0 ELSE SumPlayers(g[k - 1])
  BY <1>7
<1>9. g[0] = n /\ \A k \in 1 .. n : g[k] = Lower(g[k - 1])
  BY <1>1, <1>8 DEF Lower
<1> DEFINE Good(k) == g[k] \in (0 .. n - k) \cup {0}
           M == {m \in Nat : m <= n => Good(m)}
<1>10. 0 \in M
  BY <1>1, <1>9
<1>11. ASSUME NEW m \in Nat, m \in M PROVE m + 1 \in M
  <2> SUFFICES ASSUME m + 1 <= n PROVE Good(m + 1)
    OBVIOUS
  <2>1. m + 1 \in 1 .. n /\ (m + 1) - 1 = m /\ g[m] \in (0 .. n - m) \cup {0}
    BY <1>1, <1>11
  <2>2. g[m + 1] = Lower(g[m])
    BY <1>9, <2>1
  <2>3. PICK a, c : a = g[m] /\ c = g[m + 1]
    OBVIOUS
  <2>4. c = Lower(a) /\ a \in (0 .. n - m) \cup {0}
    BY <2>1, <2>2, <2>3
  <2>7. a \in 0 .. n
    BY <1>1, <2>4
  <2>5. c \in 0 .. n /\ (a # 0 => c < a) /\ (a = 0 => c = 0)
    BY <1>2, <2>4, <2>7 DEF S, Lower
  <2>6. c \in (0 .. n - (m + 1)) \cup {0}
    BY <1>1, <2>4, <2>5
  <2> QED BY <2>3, <2>6
<1> HIDE DEF M
<1>12. Nat \subseteq M
  BY <1>10, <1>11, Induction
<1>13. \A i \in 0 .. n : g[i] \in (0 .. n - i) \cup {0}
  BY <1>1, <1>12 DEF M
<1>14. \A i \in 0 .. n : i + 1 \in 0 .. n => g[i + 1] = Lower(g[i])
  <2> SUFFICES ASSUME NEW i \in 0 .. n, i + 1 \in 0 .. n PROVE g[i + 1] = Lower(g[i])
    OBVIOUS
  <2>1. i + 1 \in 1 .. n /\ (i + 1) - 1 = i
    BY <1>1
  <2> QED BY <1>9, <2>1
<1> QED BY <1>9, <1>13, <1>14 DEF g, n, Turns

(* A turn: there is one more as long as somebody is left, fewer are then    *)
(* left, and one only when it is the last.                                 *)
LEMMA Turn ==
    ASSUME NEW i \in Turns
    PROVE  /\ i \in Nat /\ Level[i] \in 0 .. NPlayers
           /\ Level[i] > 0 => /\ i + 1 \in Turns /\ Level[i + 1] = SumPlayers(Level[i])
                              /\ Level[i + 1] < Level[i] /\ Level[i + 1] \in Nat
                              /\ Level[i] = 1 <=> Level[i + 1] = 0
           /\ Level[i] = 0 /\ i + 1 \in Turns => Level[i + 1] = 0
<1>1. NPlayers \in Nat \ {0} /\ i \in 0 .. NPlayers
  BY PlayersAssumption DEF Turns
<1>2. PICK n, l : n = NPlayers /\ l = Level[i]
  OBVIOUS
<1>3. n \in Nat \ {0} /\ i \in 0 .. n /\ l \in (0 .. n - i) \cup {0}
  BY <1>1, <1>2, LevelFacts
<1>4. l \in 0 .. n /\ i \in Nat
  BY <1>3
<1>5. CASE l > 0
  <2>1. i + 1 \in 0 .. n /\ l \in Nat \ {0}
    BY <1>3, <1>5
  <2>2. i + 1 \in Turns
    BY <1>2, <2>1 DEF Turns
  <2>3. Level[i + 1] = SumPlayers(l)
    BY <1>2, <1>5, <2>2, LevelFacts DEF Lower
  <2> QED BY <1>2, <1>4, <1>5, <2>1, <2>2, <2>3, SumPlayersSmaller
<1>6. CASE l = 0
  <2>1. i + 1 \in Turns => Level[i + 1] = 0
    BY <1>2, <1>6, LevelFacts DEF Lower
  <2> QED BY <1>2, <1>4, <1>6, <2>1
<1> QED BY <1>4, <1>5, <1>6

LEMMA LevelsFall ==
    ASSUME NEW i \in Turns, NEW j \in Turns, i <= j
    PROVE  Level[j] <= Level[i]
<1>1. NPlayers \in Nat \ {0} /\ i \in 0 .. NPlayers /\ j \in 0 .. NPlayers
  BY PlayersAssumption DEF Turns
<1> DEFINE M == {m \in Nat : i + m \in Turns => Level[i + m] <= Level[i]}
<1>2. 0 \in M
  <2>1. i + 0 = i /\ Level[i] \in Nat
    BY <1>1, Turn
  <2> QED BY <2>1
<1>3. ASSUME NEW m \in Nat, m \in M PROVE m + 1 \in M
  <2> SUFFICES ASSUME i + (m + 1) \in Turns PROVE Level[i + (m + 1)] <= Level[i]
    OBVIOUS
  <2>1. i + m \in Turns /\ i + (m + 1) = (i + m) + 1
    BY <1>1 DEF Turns
  <2>2. PICK k : k = i + m /\ k \in Turns /\ k + 1 \in Turns /\ k + 1 = i + (m + 1)
    BY <2>1
  <2>3. Level[k] <= Level[i] /\ Level[k] \in Nat /\ Level[i] \in Nat /\ Level[k + 1] \in Nat
    BY <1>3, <2>2, Turn
  <2>4. Level[k + 1] <= Level[k]
    BY <2>2, <2>3, Turn
  <2>5. Level[k + 1] <= Level[i]
    BY <2>3, <2>4
  <2> QED BY <2>2, <2>5
<1> HIDE DEF M
<1>4. j - i \in M /\ i + (j - i) = j
  BY <1>1, <1>2, <1>3, Induction
<1> QED BY <1>4 DEF M

(* A party sends in one turn only.                                         *)
LEMMA OneTurn ==
    ASSUME NEW i \in Turns, NEW j \in Turns, NEW r \in Nat, Sender(i, r), Sender(j, r)
    PROVE  i = j
<1>1. ASSUME NEW x \in Turns, NEW y \in Turns, Sender(x, r), Sender(y, r) PROVE ~(x < y)
  <2> SUFFICES ASSUME x < y PROVE FALSE
    OBVIOUS
  <2>1. x + 1 \in Turns /\ Level[x + 1] <= r /\ r < Level[y]
    BY <1>1 DEF Sender
  <2>2. x + 1 <= y /\ x \in Nat /\ y \in Nat
    BY Turn
  <2>3. Level[y] <= Level[x + 1]
    BY <2>1, <2>2, LevelsFall
  <2>4. Level[y] \in Nat /\ Level[x + 1] \in Nat
    BY <2>1, Turn
  <2> QED BY <2>1, <2>3, <2>4
<1>2. i \in Nat /\ j \in Nat
  BY Turn
<1> QED BY <1>1, <1>2

(* Multiples of s apart.                                                   *)
LEMMA SameRemainder ==
    ASSUME NEW s \in Nat \ {0}, NEW x \in Nat, NEW r \in Nat, r < s
    PROVE  /\ x % s = r => x < s \/ (x - r) % s = 0
           /\ x >= s /\ (x - r) % s = 0 => x % s = r
           /\ x < s => x % s = x
<1> DEFINE a == x \div s
           y == x - r
           b == y \div s
<1>1. x % s \in 0 .. s - 1 /\ a \in Nat /\ x = s * a + (x % s)
  BY DivMod
<1>2. x % s = r => (x - r) % s = 0
  <2> SUFFICES ASSUME x % s = r PROVE (x - r) % s = 0
    OBVIOUS
  <2> HIDE DEF a
  <2>1. x - r = 0 + s * a /\ 0 \in 0 .. s - 1 /\ a \in Int
    BY <1>1
  <2>2. (0 + s * a) % s = 0
    BY <2>1, ModIs
  <2> QED BY <2>1, <2>2
<1>3. x >= s /\ (x - r) % s = 0 => x % s = r
  <2> SUFFICES ASSUME x >= s, y % s = 0 PROVE x % s = r
    OBVIOUS
  <2>1. y \in Nat
    OBVIOUS
  <2> HIDE DEF y
  <2>2. b \in Nat /\ y = s * b + (y % s)
    BY <2>1, DivMod
  <2> HIDE DEF b
  <2>3. y = s * b
    BY <2>2
  <2>4. x = r + s * b /\ r \in 0 .. s - 1 /\ b \in Int
    BY <2>2, <2>3 DEF y
  <2>5. (r + s * b) % s = r
    BY ONLY <2>4, ModIs, s \in Nat \ {0}
  <2> QED BY <2>4, <2>5
<1>4. x < s => x % s = x
  <2> SUFFICES ASSUME x < s PROVE x % s = x
    OBVIOUS
  <2>1. x = x + s * 0 /\ x \in 0 .. s - 1 /\ 0 \in Int
    OBVIOUS
  <2>2. (x + s * 0) % s = x
    BY <2>1, ModIs
  <2> QED BY <2>1, <2>2
<1> QED BY <1>2, <1>3, <1>4

(* Who receives a sum, and who adds it up.                                 *)
LEMMA ReceiverIs ==
    ASSUME NEW p \in Players, NEW q \in Players, NEW s \in Nat, NEW l \in 0 .. NPlayers
    PROVE  p \in Receiver(q, s, l) <=>
              s > 0 /\ s <= Relative(q) /\ Relative(q) < l /\ Relative(p) = Relative(q) % s
<1>1. NPlayers \in Nat \ {0} /\ Ranks = 0 .. NPlayers - 1
  BY PlayersAssumption DEF Ranks
<1>2. PICK r : r = Relative(q) /\ r \in Ranks
  BY Ranked
<1>3. r \in Nat /\ (r \in s .. l - 1 <=> s <= r /\ r < l)
  BY <1>1, <1>2
<1>4. CASE s > 0 /\ r \in s .. l - 1
  <2>1. s \in Nat \ {0} /\ s <= r
    BY <1>3, <1>4
  <2>2. r % s \in 0 .. s - 1
    BY <1>3, <2>1, DivMod
  <2>3. r % s \in Ranks
    BY <1>1, <1>2, <2>1, <2>2
  <2>4. Receiver(q, s, l) = {Absolute(r % s)}
    BY <1>2, <1>4 DEF Receiver
  <2>5. Relative(Absolute(r % s)) = r % s /\ Absolute(Relative(p)) = p
    BY <2>3, Ranked
  <2>6. p \in Receiver(q, s, l) <=> Relative(p) = r % s
    BY <2>4, <2>5
  <2> QED BY <1>2, <1>3, <1>4, <2>6
<1>5. CASE ~(s > 0 /\ r \in s .. l - 1)
  BY <1>2, <1>3, <1>5 DEF Receiver
<1> QED BY <1>4, <1>5

LEMMA SummandsAre ==
    ASSUME NEW p \in Players, NEW q \in Players, NEW s \in Nat, NEW l \in 0 .. NPlayers
    PROVE  q \in Summands(p, s, l) <=> p \in Receiver(q, s, l)
<1>1. NPlayers \in Nat \ {0} /\ Ranks = 0 .. NPlayers - 1
  BY PlayersAssumption DEF Ranks
<1>2. PICK r, x : r = Relative(p) /\ r \in Ranks /\ x = Relative(q) /\ x \in Ranks
  BY Ranked
<1>3. r \in Nat /\ x \in Nat
  BY <1>1, <1>2
<1>4. p \in Receiver(q, s, l) <=> s > 0 /\ s <= x /\ x < l /\ r = x % s
  BY <1>2, ReceiverIs
<1>5. CASE s = 0 \/ r >= s
  <2>1. s > 0 => x % s \in 0 .. s - 1
    <3> SUFFICES ASSUME s > 0 PROVE x % s \in 0 .. s - 1
      OBVIOUS
    <3>1. s \in Nat \ {0}
      OBVIOUS
    <3> QED BY <1>3, <3>1, DivMod
  <2>2. ~(s > 0 /\ r = x % s)
    BY <1>3, <1>5, <2>1
  <2>3. q \notin Summands(p, s, l)
    BY <1>2, <1>5 DEF Summands
  <2> QED BY <1>4, <2>2, <2>3
<1>6. CASE ~(s = 0 \/ r >= s)
  <2>1. s \in Nat \ {0} /\ r < s
    BY <1>3, <1>6
  <2>2. /\ x % s = r => x < s \/ (x - r) % s = 0
        /\ x >= s /\ (x - r) % s = 0 => x % s = r
    BY <1>3, <2>1, SameRemainder
  <2> DEFINE R == {y \in s .. l - 1 : (y - r) % s = 0}
  <2>3. Summands(p, s, l) = {Absolute(y) : y \in R}
    BY <1>2, <1>6 DEF Summands
  <2>4. \A y \in R : y \in Ranks
    BY <1>1
  <2> HIDE DEF R
  <2>5. q \in {Absolute(y) : y \in R} <=> x \in R
    <3>1. ASSUME NEW y \in R, q = Absolute(y) PROVE y = x
      BY <1>2, <2>4, <3>1, Ranked
    <3>2. q = Absolute(x)
      BY <1>2, Ranked
    <3> QED BY <3>1, <3>2
  <2>6. x \in R <=> s <= x /\ x < l /\ (x - r) % s = 0
    BY <1>3 DEF R
  <2>7. x \in R <=> s > 0 /\ s <= x /\ x < l /\ r = x % s
    BY <1>3, <2>1, <2>2, <2>6
  <2> QED BY <1>4, <2>3, <2>5, <2>7
<1> QED BY <1>5, <1>6

LEMMA TreeParties ==
    ASSUME NEW p \in Players, NEW s \in Nat, NEW l \in 0 .. NPlayers
    PROVE  Receiver(p, s, l) \subseteq Players /\ Summands(p, s, l) \subseteq Players
<1>1. NPlayers \in Nat \ {0} /\ Ranks = 0 .. NPlayers - 1
  BY PlayersAssumption DEF Ranks
<1>2. ASSUME s > 0, Relative(p) \in s .. l - 1 PROVE Relative(p) % s \in Ranks
  <2>1. PICK r : r = Relative(p) /\ r \in Nat /\ r <= NPlayers - 1 /\ s <= r
    BY <1>1, <1>2, Ranked
  <2>2. s \in Nat \ {0}
    BY <1>2
  <2>3. r % s \in 0 .. s - 1
    BY <2>1, <2>2, DivMod
  <2> QED BY <1>1, <2>1, <2>3
<1>3. Receiver(p, s, l) \subseteq Players
  BY <1>2, Ranked DEF Receiver
<1>4. \A x \in s .. l - 1 : x \in Ranks
  BY <1>1
<1>5. Summands(p, s, l) \subseteq Players
  BY <1>4, Ranked DEF Summands
<1> QED BY <1>3, <1>5

(* Sums go towards the base player.                                        *)
LEMMA SumsTurn ==
    ASSUME NEW p \in Players, NEW q \in Players, NEW i \in Turns, Level[i] > 0
    PROVE  /\ p \in Receiver(q, SumPlayers(Level[i]), Level[i]) <=>
                 SumsTo(q, p) /\ SumPlayers(Level[i]) <= Relative(q) /\ Relative(q) < Level[i]
           /\ q \in Summands(p, SumPlayers(Level[i]), Level[i]) <=>
                 p \in Receiver(q, SumPlayers(Level[i]), Level[i])
<1>1. PICK s, l : s = SumPlayers(Level[i]) /\ l = Level[i]
  OBVIOUS
<1>2. s \in Nat /\ l \in 0 .. NPlayers /\ i + 1 \in Turns /\ s = Level[i + 1]
  BY <1>1, Turn
<1>3. Relative(q) \in Nat
  BY PlayersAssumption, Ranked DEF Ranks
<1>4. p \in Receiver(q, s, l) => SumsTo(q, p) /\ s <= Relative(q) /\ Relative(q) < l
  BY <1>1, <1>2, ReceiverIs DEF SumsTo
<1>5. ASSUME SumsTo(q, p), s <= Relative(q), Relative(q) < l PROVE p \in Receiver(q, s, l)
  <2>1. PICK j \in Turns : j + 1 \in Turns /\ p \in Receiver(q, Level[j + 1], Level[j])
    BY <1>5 DEF SumsTo
  <2>2. Level[j + 1] \in Nat /\ Level[j] \in 0 .. NPlayers
    BY <2>1, Turn
  <2>3. Sender(j, Relative(q))
    BY <2>1, <2>2, ReceiverIs DEF Sender
  <2>4. Sender(i, Relative(q))
    BY <1>1, <1>2, <1>5 DEF Sender
  <2>5. i = j
    BY <1>3, <2>3, <2>4, OneTurn
  <2> QED BY <1>1, <1>2, <2>1, <2>5
<1>6. q \in Summands(p, s, l) <=> p \in Receiver(q, s, l)
  BY <1>2, SummandsAre
<1> QED BY <1>1, <1>4, <1>5, <1>6

LEMMA SumsDown ==
    ASSUME NEW p \in Players, NEW q \in Players, SumsTo(q, p)
    PROVE  Relative(p) < Relative(q) /\ q # p /\ Relative(q) >= 1
<1>1. PICK j \in Turns : j + 1 \in Turns /\ p \in Receiver(q, Level[j + 1], Level[j])
  BY DEF SumsTo
<1>2. Level[j + 1] \in Nat /\ Level[j] \in 0 .. NPlayers
  BY <1>1, Turn
<1>3. PICK s, x, r : s = Level[j + 1] /\ x = Relative(q) /\ r = Relative(p)
  OBVIOUS
<1>4. s > 0 /\ s <= x /\ r = x % s /\ s \in Nat
  BY <1>1, <1>2, <1>3, ReceiverIs
<1>5. x \in Nat /\ s \in Nat \ {0}
  BY <1>3, <1>4, PlayersAssumption, Ranked DEF Ranks
<1>6. r \in 0 .. s - 1
  BY <1>4, <1>5, DivMod
<1>7. r < x /\ x >= 1
  BY <1>4, <1>5, <1>6
<1> QED BY <1>3, <1>5, <1>6, <1>7

-----------------------------------------------------------------------------
(* The tree on which the result is sent.                                   *)

LEMMA Quotient ==
    ASSUME NEW m \in Nat \ {0, 1}, NEW x \in Nat
    PROVE  /\ x \div m \in Nat /\ x \div m <= x /\ m * (x \div m) <= x
           /\ x > 0 => x \div m < x
<1> DEFINE q == x \div m
<1>1. q \in Nat /\ x % m \in 0 .. m - 1 /\ x = m * q + (x % m)
  BY DivMod
<1> HIDE DEF q
<1>2. m * q <= x
  <2> DEFINE z == m * q
  <2>1. z \in Nat
    BY <1>1
  <2> HIDE DEF z
  <2>2. x = z + (x % m)
    BY <1>1 DEF z
  <2>3. z <= x
    BY <1>1, <2>1, <2>2
  <2> QED BY <2>3 DEF z
<1>3. PICK e \in Nat : m = e + 2
  <2>1. m - 2 \in Nat /\ m = (m - 2) + 2
    OBVIOUS
  <2> QED BY <2>1
<1>4. m * q = e * q + 2 * q /\ e * q \in Nat
  BY <1>1, <1>3
<1>5. q <= x /\ (x > 0 => q < x)
  BY <1>1, <1>2, <1>4
<1> QED BY <1>1, <1>2, <1>5 DEF q

LEMMA TellsIs ==
    ASSUME NEW p \in Players
    PROVE  /\ p # BasePlayer => Parent(p) \in Players
           /\ \A q \in Players : /\ Tells(q, p) <=> p # BasePlayer /\ q = Parent(p)
                                 /\ Tells(q, p) => Relative(q) < Relative(p) /\ q # p
<1>1. NPlayers \in Nat \ {0} /\ Ranks = 0 .. NPlayers - 1 /\ MaxBroadcast \in Nat \ {0, 1}
  BY PlayersAssumption, FanAssumption DEF Ranks
<1>2. PICK x, m : x = Relative(p) /\ x \in Ranks /\ m = MaxBroadcast
  BY Ranked
<1>3. x \in Nat /\ x <= NPlayers - 1 /\ m \in Nat \ {0, 1} /\ (x = 0 <=> p = BasePlayer)
  BY <1>1, <1>2, Ranked
<1>4. PICK z : z = x \div m
  OBVIOUS
<1>5. z \in Nat /\ z <= x /\ (x > 0 => z < x)
  BY <1>3, <1>4, Quotient
<1>6. z \in Ranks
  BY <1>1, <1>3, <1>5
<1>7. Parent(p) = Absolute(z)
  BY <1>2, <1>4 DEF Parent
<1>8. Parent(p) \in Players /\ Relative(Parent(p)) = z
  BY <1>6, <1>7, Ranked
<1>9. ASSUME NEW q \in Players
      PROVE  /\ Tells(q, p) <=> p # BasePlayer /\ q = Parent(p)
             /\ Tells(q, p) => Relative(q) < Relative(p) /\ q # p
  <2> DEFINE R == {y \in 1 .. NPlayers - 1 : y \div MaxBroadcast = Relative(q)}
  <2>1. Tells(q, p) <=> p \in {Absolute(y) : y \in R} /\ p # q
    BY DEF Tells, Children
  <2>2. \A y \in R : y \in Ranks
    BY <1>1
  <2>3. x \in R <=> x # 0 /\ z = Relative(q)
    BY <1>1, <1>2, <1>3, <1>4
  <2> HIDE DEF R
  <2>4. p \in {Absolute(y) : y \in R} <=> x \in R
    <3>1. ASSUME NEW y \in R, p = Absolute(y) PROVE y = x
      BY <1>2, <2>2, <3>1, Ranked
    <3>2. p = Absolute(x)
      BY <1>2, Ranked
    <3> QED BY <3>1, <3>2
  <2>5. Relative(q) = z <=> q = Parent(p)
    BY <1>8, RanksDiffer
  <2>6. x # 0 /\ z = Relative(q) => Relative(q) < Relative(p) /\ q # p
    BY <1>2, <1>3, <1>5
  <2> QED BY <1>3, <2>1, <2>3, <2>4, <2>5, <2>6
<1> QED BY <1>8, <1>9

(* A leaf tells nobody.                                                    *)
LEMMA Leaves ==
    ASSUME NEW p \in Players
    PROVE  /\ IsLeaf(p) => p # BasePlayer /\ \A q \in Players : ~Tells(p, q)
           /\ IsLeaf(p) \/ IsForwarder(p) \/ p = BasePlayer
           /\ IsForwarder(p) => p # BasePlayer /\ ~IsLeaf(p)
           /\ Children(p) \subseteq Players \ {p}
<1>1. NPlayers \in Nat \ {0} /\ Ranks = 0 .. NPlayers - 1 /\ MaxBroadcast \in Nat \ {0, 1}
  BY PlayersAssumption, FanAssumption DEF Ranks
<1>2. PICK x, m : x = Relative(p) /\ x \in Ranks /\ m = MaxBroadcast
  BY Ranked
<1>3. x \in Nat /\ x <= NPlayers - 1 /\ m \in Nat \ {0, 1} /\ (x = 0 <=> p = BasePlayer)
  BY <1>1, <1>2, Ranked
<1>4. x * m \in Nat /\ 0 * m = 0 /\ x * m = m * x
  BY <1>3
<1>5. IsLeaf(p) <=> x * m >= NPlayers
  BY <1>2 DEF IsLeaf
<1>6. IsForwarder(p) <=> x # 0 /\ x * m < NPlayers
  BY <1>2 DEF IsForwarder
<1>7. IsLeaf(p) => x # 0
  BY <1>1, <1>4, <1>5
<1>8. ASSUME IsLeaf(p), NEW q \in Players, Tells(p, q) PROVE FALSE
  <2>1. q # BasePlayer /\ p = Parent(q)
    BY <1>8, TellsIs
  <2>2. PICK y : y = Relative(q) /\ y \in Ranks
    BY Ranked
  <2>3. PICK z : z = y \div m
    OBVIOUS
  <2>4. y \in Nat /\ y <= NPlayers - 1
    BY <1>1, <2>2
  <2>5. z \in Nat /\ z <= y /\ m * z <= y
    BY <1>3, <2>3, <2>4, Quotient
  <2>6. z \in Ranks
    BY <1>1, <2>4, <2>5
  <2>7. x = z
    BY <1>2, <2>1, <2>2, <2>3, <2>6, Ranked DEF Parent
  <2> QED BY <1>1, <1>4, <1>5, <1>8, <2>4, <2>5, <2>7
<1>9. Children(p) \subseteq Players \ {p}
  <2>1. \A y \in 1 .. NPlayers - 1 : Absolute(y) \in Players
    BY <1>1, Ranked
  <2> QED BY <2>1 DEF Children
<1> QED BY <1>1, <1>3, <1>4, <1>5, <1>6, <1>7, <1>8, <1>9

(* Whom p tells is not whom it sends its sum to.                           *)
LEMMA NotBoth ==
    ASSUME NEW p \in Players, NEW q \in Players
    PROVE  /\ ~(SumsTo(q, p) /\ Tells(q, p))
           /\ ~SumsTo(BasePlayer, p)
<1>1. Relative(p) \in Nat /\ Relative(q) \in Nat /\ Relative(BasePlayer) = 0
      /\ BasePlayer \in Players
  BY PlayersAssumption, Ranked DEF Ranks
<1>2. ~(SumsTo(q, p) /\ Tells(q, p))
  BY <1>1, SumsDown, TellsIs
<1>3. ~SumsTo(BasePlayer, p)
  BY <1>1, SumsDown
<1> QED BY <1>2, <1>3

-----------------------------------------------------------------------------
(* Whose shares a party has.                                               *)

LEMMA RepFacts ==
    /\ Rep[0] = [x \in Ranks |-> x]
    /\ \A i \in Turns : Rep[i] \in [Ranks -> Ranks]
    /\ \A i \in Turns : i + 1 \in Turns =>
          Rep[i + 1] = [x \in Ranks |-> IF Level[i + 1] = 0 THEN 0 ELSE Rep[i][x] % Level[i + 1]]
<1> DEFINE n == NPlayers
           first == [x \in Ranks |-> x]
           S == [Ranks -> Ranks]
           Next1(i, r) == [x \in Ranks |-> IF Level[i] = 0 THEN 0 ELSE r[x] % Level[i]]
           step == [k \in 1 .. n |-> [r \in S |-> Next1(k, r)]]
           IsRep(f) == f = [k \in 0 .. n |-> IF k = 0 THEN first ELSE Next1(k, f[k - 1])]
<1>1. n \in Nat \ {0} /\ Ranks = 0 .. n - 1 /\ Turns = 0 .. n
  BY PlayersAssumption DEF Ranks, Turns
<1> HIDE DEF n
<1>2. first \in S
  OBVIOUS
<1>3. ASSUME NEW k \in 1 .. n, NEW r \in S PROVE Next1(k, r) \in S
  <2>1. ASSUME NEW x \in Ranks, Level[k] # 0 PROVE r[x] % Level[k] \in Ranks
    <3>1. PICK y, l : y = r[x] /\ l = Level[k]
      OBVIOUS
    <3>2. y \in Nat /\ y <= n - 1 /\ l \in 0 .. NPlayers /\ l # 0
      BY <1>1, <2>1, <3>1, Turn
    <3>3. l \in Nat \ {0} /\ l <= n
      BY <1>1, <3>2 DEF n
    <3>4. y % l \in 0 .. l - 1
      BY <3>2, <3>3, DivMod
    <3>5. y % l \in Ranks
      BY <1>1, <3>3, <3>4
    <3> QED BY <3>1, <3>5
  <2>2. 0 \in Ranks
    BY <1>1
  <2> QED BY <2>1, <2>2
<1>4. step \in [1 .. n -> [S -> S]]
  BY <1>3
<1>5. ASSUME NEW f \in [0 .. n -> S], Follows(f, n, first, step) PROVE IsRep(f)
  <2> HIDE DEF S, first
  <2>1. \A k \in 0 .. n : f[k] = IF k = 0 THEN first ELSE step[k][f[k - 1]]
    BY <1>5 DEF Follows
  <2>2. \A k \in 1 .. n : k \in Nat /\ k - 1 \in 0 .. n
    BY <1>1
  <2>3. \A k \in 1 .. n : step[k][f[k - 1]] = Next1(k, f[k - 1])
    BY <2>2
  <2> HIDE DEF step
  <2>4. \A k \in 0 .. n : f[k] = IF k = 0 THEN first ELSE Next1(k, f[k - 1])
    <3>1. \A k \in 0 .. n : k = 0 \/ k \in 1 .. n
      BY <1>1
    <3> HIDE DEF Next1
    <3> QED BY <2>1, <2>3, <3>1
  <2>5. f = [k \in 0 .. n |-> f[k]]
    OBVIOUS
  <2> HIDE DEF Next1
  <2> QED BY <2>4, <2>5
<1> HIDE DEF step, S, first
<1>6. PICK f \in [0 .. n -> S] : Follows(f, n, first, step)
  BY <1>1, <1>2, <1>4, RecursionExists
<1>7. IsRep(f)
  BY <1>5, <1>6
<1> DEFINE g == Rep
<1>8. IsRep(g)
  <2>1. g = CHOOSE h : h = [i \in Turns |->
              IF i = 0 THEN [x \in Ranks |-> x]
              ELSE [x \in Ranks |-> IF Level[i] = 0 THEN 0 ELSE h[i - 1][x] % Level[i]]]
    BY DEF Rep
  <2>2. g = CHOOSE h : IsRep(h)
    BY <1>1, <2>1 DEF first
  <2> HIDE DEF g, Next1
  <2> QED BY <1>7, <2>2
<1> HIDE DEF g, Next1
<1>9. \A k \in 0 .. n : g[k] = IF k = 0 THEN first ELSE Next1(k, g[k - 1])
  BY <1>8
<1>10. g[0] = first /\ \A k \in 1 .. n : g[k] = Next1(k, g[k - 1])
  <2>1. 0 \in 0 .. n /\ \A k \in 1 .. n : k \in 0 .. n /\ k # 0
    BY <1>1
  <2> QED BY <1>9, <2>1
<1> DEFINE M == {m \in Nat : m <= n => g[m] \in S}
<1>11. 0 \in M
  BY <1>2, <1>10
<1>12. ASSUME NEW m \in Nat, m \in M PROVE m + 1 \in M
  <2> SUFFICES ASSUME m + 1 <= n PROVE g[m + 1] \in S
    OBVIOUS
  <2>1. m + 1 \in 1 .. n /\ (m + 1) - 1 = m /\ g[m] \in S
    BY <1>1, <1>12
  <2> QED BY <1>3, <1>10, <2>1
<1> HIDE DEF M
<1>13. Nat \subseteq M
  BY <1>11, <1>12, Induction
<1>14. \A i \in 0 .. n : g[i] \in S
  BY <1>1, <1>13 DEF M
<1>15. ASSUME NEW i \in 0 .. n, i + 1 \in 0 .. n PROVE g[i + 1] = Next1(i + 1, g[i])
  <2>1. i + 1 \in 1 .. n /\ (i + 1) - 1 = i
    BY <1>1, <1>15
  <2> QED BY <1>10, <2>1
<1> QED BY <1>1, <1>10, <1>14, <1>15 DEF g, S, first, Next1

LEMMA RepBelow ==
    ASSUME NEW i \in Turns, Level[i] > 0, NEW x \in Ranks
    PROVE  Rep[i][x] \in Nat /\ Rep[i][x] < Level[i]
<1>1. NPlayers \in Nat \ {0} /\ Ranks = 0 .. NPlayers - 1 /\ Turns = 0 .. NPlayers
  BY PlayersAssumption DEF Ranks, Turns
<1>2. Rep[i][x] \in Ranks
  BY RepFacts
<1>3. CASE i = 0
  BY <1>1, <1>3, RepFacts, LevelFacts
<1>4. CASE i # 0
  <2>1. PICK j \in Turns : i = j + 1
    <3>1. i - 1 \in Turns /\ i = (i - 1) + 1
      BY <1>1, <1>4
    <3> QED BY <3>1
  <2>2. PICK y, l : y = Rep[j][x] /\ l = Level[i]
    OBVIOUS
  <2>3. y \in Ranks /\ l \in 0 .. NPlayers /\ l > 0
    BY <2>1, <2>2, RepFacts, Turn
  <2>4. Rep[i][x] = y % l
    <3>1. Rep[j + 1] = [z \in Ranks |-> IF Level[j + 1] = 0 THEN 0
                                        ELSE Rep[j][z] % Level[j + 1]]
      BY <2>1, RepFacts
    <3>2. Rep[i] = [z \in Ranks |-> IF l = 0 THEN 0 ELSE Rep[j][z] % l]
      BY <2>1, <2>2, <3>1
    <3>3. l # 0
      BY <2>3
    <3> QED BY <2>2, <3>2, <3>3
  <2>5. y \in Nat /\ l \in Nat \ {0}
    BY <1>1, <2>3
  <2>6. y % l \in 0 .. l - 1
    BY <2>5, DivMod
  <2>7. y % l \in Nat /\ y % l < l
    BY <2>5, <2>6
  <2> QED BY <2>2, <2>4, <2>7
<1> QED BY <1>3, <1>4

-----------------------------------------------------------------------------
(* Adding up bags that have nothing in common.                             *)

LEMMA DisjointBags ==
    ASSUME NEW S, NEW T, S \cap T = {}
    PROVE  SetToBag(S) (+) SetToBag(T) = SetToBag(S \cup T)
<1> DEFINE f == SetToBag(S)
           g == SetToBag(T)
           h == SetToBag(S \cup T)
<1>1. /\ DOMAIN f = S /\ DOMAIN g = T /\ h = [e \in S \cup T |-> 1]
      /\ \A e \in S : f[e] = 1
      /\ \A e \in T : g[e] = 1
  BY DEF SetToBag
<1> HIDE DEF f, g, h
<1>2. f (+) g = [e \in S \cup T |-> (IF e \in S THEN f[e] ELSE 0)
                                  + (IF e \in T THEN g[e] ELSE 0)]
  BY <1>1 DEF (+)
<1>3. \A e \in S \cup T : (IF e \in S THEN f[e] ELSE 0) + (IF e \in T THEN g[e] ELSE 0) = 1
  BY <1>1
<1>4. f (+) g = h
  BY <1>1, <1>2, <1>3
<1> QED BY <1>4 DEF f, g, h

LEMMA Enumerated ==
    ASSUME NEW D, IsFiniteSet(D)
    PROVE  /\ Len(SetToSeq(D)) = Cardinality(D) /\ Cardinality(D) \in Nat
           /\ DOMAIN SetToSeq(D) = 1 .. Cardinality(D)
           /\ \A i \in 1 .. Cardinality(D) : SetToSeq(D)[i] \in D
           /\ \A i, j \in 1 .. Cardinality(D) : SetToSeq(D)[i] = SetToSeq(D)[j] => i = j
           /\ \A q \in D : \E i \in 1 .. Cardinality(D) : SetToSeq(D)[i] = q
<1> DEFINE n == Cardinality(D)
           s == SetToSeq(D)
<1>1. n \in Nat /\ ExistsBijection(1 .. n, D)
  BY FS_CardinalityType
<1>2. s = CHOOSE f \in [1 .. n -> D] : IsInjective(f)
  BY DEF SetToSeq
<1> HIDE DEF n, s
<1>3. \E f \in [1 .. n -> D] : IsInjective(f)
  BY <1>1 DEF ExistsBijection, Bijection, Injection
<1>4. s \in [1 .. n -> D] /\ IsInjective(s)
  BY <1>2, <1>3
<1>5. s \in Injection(1 .. n, D)
  BY <1>4 DEF Injection
<1>6. IsFiniteSet(1 .. n) /\ Cardinality(1 .. n) = n
  <2>1. 1 \in Int /\ n \in Int /\ (IF 1 > n THEN 0 ELSE n - 1 + 1) = n
    BY <1>1
  <2> QED BY <2>1, FS_Interval
<1>7. s \in Surjection(1 .. n, D)
  BY <1>5, <1>6, FS_Injection DEF n
<1>8. \A q \in D : \E i \in 1 .. n : s[i] = q
  BY <1>7 DEF Surjection
<1>9. s \in Seq(D) /\ Len(s) = n
  BY <1>1, <1>4
<1> QED BY <1>1, <1>4, <1>8, <1>9 DEF n, s, IsInjective

LEMMA AddUpSets ==
    ASSUME NEW D, IsFiniteSet(D), NEW S0, NEW G,
           \A q \in D : G[q] \cap S0 = {},
           \A q, r \in D : q # r => G[q] \cap G[r] = {},
           NEW heads, heads = [q \in D |-> SetToBag(G[q])]
    PROVE  AddUp(SetToBag(S0), heads) = SetToBag(S0 \cup UNION {G[q] : q \in D})
<1> DEFINE players == SetToSeq(D)
           n == Len(players)
           b == SetToBag(S0)
           Upto(m) == S0 \cup UNION {G[players[j]] : j \in 1 .. m}
           IsTotal(f) == f = [m \in 0 .. n |-> IF m = 0 THEN b
                                               ELSE f[m - 1] (+) heads[players[m]]]
           total == CHOOSE f : IsTotal(f)
<1>1. /\ n \in Nat
      /\ \A i \in 1 .. n : players[i] \in D
      /\ \A i, j \in 1 .. n : players[i] = players[j] => i = j
      /\ \A q \in D : \E i \in 1 .. n : players[i] = q
  BY Enumerated
<1>2. DOMAIN heads = D
  OBVIOUS
<1>3. AddUp(b, heads) = total[n]
  BY <1>2 DEF AddUp
<1> HIDE DEF players, n
<1>4. Upto(0) = S0
  OBVIOUS
<1>5. ASSUME NEW m \in 1 .. n PROVE SetToBag(Upto(m - 1)) (+) heads[players[m]] = SetToBag(Upto(m))
  <2>1. players[m] \in D /\ heads[players[m]] = SetToBag(G[players[m]])
    BY <1>1
  <2>2. Upto(m) = Upto(m - 1) \cup G[players[m]]
    <3>1. \A j : j \in 1 .. m <=> j \in 1 .. m - 1 \/ j = m
      BY <1>1
    <3> QED BY <3>1
  <2>3. Upto(m - 1) \cap G[players[m]] = {}
    <3>1. S0 \cap G[players[m]] = {}
      BY <2>1
    <3>2. ASSUME NEW j \in 1 .. m - 1 PROVE G[players[j]] \cap G[players[m]] = {}
      <4>1. j \in 1 .. n /\ j # m /\ m \in 1 .. n
        BY <1>1
      <4>2. players[j] # players[m] /\ players[j] \in D
        BY <1>1, <4>1
      <4> QED BY <2>1, <4>2
    <3> QED BY <3>1, <3>2
  <2> HIDE DEF Upto
  <2>4. SetToBag(Upto(m - 1)) (+) SetToBag(G[players[m]]) = SetToBag(Upto(m - 1) \cup G[players[m]])
    BY <2>3, DisjointBags
  <2> QED BY <2>1, <2>2, <2>4, Zenon
<1> HIDE DEF Upto
<1>6. IsTotal([m \in 0 .. n |-> SetToBag(Upto(m))])
  <2> DEFINE f == [m \in 0 .. n |-> SetToBag(Upto(m))]
  <2>1. \A m \in 0 .. n : m # 0 => m \in 1 .. n /\ m - 1 \in 0 .. n
    BY <1>1
  <2>2. \A m \in 0 .. n : f[m] = IF m = 0 THEN b ELSE f[m - 1] (+) heads[players[m]]
    BY <1>4, <1>5, <2>1
  <2>3. f = [m \in 0 .. n |-> f[m]]
    OBVIOUS
  <2> HIDE DEF f
  <2>4. IsTotal(f)
    BY <2>2, <2>3
  <2> QED BY <2>4 DEF f
<1>7. IsTotal(total)
  <2> HIDE DEF IsTotal
  <2> QED BY <1>6
<1> HIDE DEF total
<1>8. \A m \in 0 .. n : total[m] = IF m = 0 THEN b ELSE total[m - 1] (+) heads[players[m]]
  BY <1>7
<1> DEFINE M == {m \in Nat : m <= n => total[m] = SetToBag(Upto(m))}
<1>9. 0 \in M
  <2>1. 0 \in 0 .. n
    BY <1>1
  <2> QED BY <1>4, <1>8, <2>1
<1>10. ASSUME NEW m \in Nat, m \in M PROVE m + 1 \in M
  <2> SUFFICES ASSUME m + 1 <= n PROVE total[m + 1] = SetToBag(Upto(m + 1))
    OBVIOUS
  <2>1. m + 1 \in 0 .. n /\ m + 1 \in 1 .. n /\ (m + 1) - 1 = m /\ m + 1 # 0 /\ m <= n
    BY <1>1
  <2>2. total[m] = SetToBag(Upto(m))
    BY <1>10, <2>1
  <2>3. total[m + 1] = total[m] (+) heads[players[m + 1]]
    BY <1>8, <2>1
  <2>4. SetToBag(Upto(m)) (+) heads[players[m + 1]] = SetToBag(Upto(m + 1))
    BY <1>5, <2>1
  <2> QED BY <2>2, <2>3, <2>4
<1> HIDE DEF M
<1>13. n \in M
  BY <1>1, <1>9, <1>10, Induction
<1>11. total[n] = SetToBag(Upto(n))
  BY <1>1, <1>13 DEF M
<1>12. Upto(n) = S0 \cup UNION {G[q] : q \in D}
  BY <1>1 DEF Upto
<1> QED BY <1>3, <1>11, <1>12

LEMMA AddUpNothing ==
    ASSUME NEW b, NEW heads, DOMAIN heads = {}
    PROVE  AddUp(b, heads) = b
<1> DEFINE players == SetToSeq(DOMAIN heads)
           n == Len(players)
           IsTotal(f) == f = [m \in 0 .. n |-> IF m = 0 THEN b
                                               ELSE f[m - 1] (+) heads[players[m]]]
           total == CHOOSE f : IsTotal(f)
<1>1. n = 0
  BY FS_EmptySet, Enumerated
<1>2. AddUp(b, heads) = total[n]
  BY DEF AddUp
<1> HIDE DEF players, n
<1>3. IsTotal([m \in 0 .. n |-> b])
  <2>1. \A m \in 0 .. n : m = 0
    BY <1>1
  <2> QED BY <2>1
<1>4. IsTotal(total)
  <2> HIDE DEF IsTotal
  <2> QED BY <1>3
<1> HIDE DEF total
<1>5. total[0] = b
  BY <1>1, <1>4
<1> QED BY <1>1, <1>2, <1>5

LEMMA AddUpOne ==
    ASSUME NEW x, NEW S, NEW heads, heads = [q \in {x} |-> SetToBag(S)]
    PROVE  AddUp(EmptyBag, heads) = SetToBag(S)
<1> DEFINE G == [q \in {x} |-> S]
<1>1. /\ heads = [q \in {x} |-> SetToBag(G[q])] /\ IsFiniteSet({x})
      /\ \A q \in {x} : G[q] \cap {} = {}
      /\ \A q, r \in {x} : q # r => G[q] \cap G[r] = {}
  BY FS_Singleton
<1> HIDE DEF G
<1>2. AddUp(SetToBag({}), heads) = SetToBag({} \cup UNION {G[q] : q \in {x}})
  BY <1>1, AddUpSets
<1>3. {} \cup UNION {G[q] : q \in {x}} = S
  BY DEF G
<1> QED BY <1>2, <1>3 DEF EmptyBag

LEMMA FirstPart ==
    ASSUME NEW k, NEW p \in Players
    PROVE  0 \in Turns /\ Part(k, 0, Relative(p)) = Share(k, p)
<1>1. 0 \in Turns
  BY PlayersAssumption DEF Turns
<1>2. Relative(p) \in Ranks /\ Absolute(Relative(p)) = p
  BY Ranked
<1>3. \A y \in Ranks : Rep[0][y] = y
  BY RepFacts
<1>4. {y \in Ranks : Rep[0][y] = Relative(p)} = {Relative(p)}
  BY <1>2, <1>3
<1>5. Shares(k, 0, Relative(p)) = {<<"share", k, p>>}
  BY <1>2, <1>4 DEF Shares
<1> QED BY <1>1, <1>5 DEF Part, Share

LEMMA LastPart ==
    ASSUME NEW k, NEW i \in Turns, Level[i] = 1
    PROVE  Part(k, i, 0) = Complete(k)
<1>1. \A y \in Ranks : Rep[i][y] = 0
  <2> SUFFICES ASSUME NEW y \in Ranks PROVE Rep[i][y] = 0
    OBVIOUS
  <2>1. PICK z : z = Rep[i][y]
    OBVIOUS
  <2>2. z \in Nat /\ z < 1
    BY <2>1, RepBelow
  <2> QED BY <2>1, <2>2
<1>2. {y \in Ranks : Rep[i][y] = 0} = Ranks
  BY <1>1
<1>3. {<<"share", k, Absolute(x)>> : x \in Ranks} = {<<"share", k, p>> : p \in Players}
  BY Ranked
<1>4. Shares(k, i, 0) = {<<"share", k, p>> : p \in Players}
  BY <1>2, <1>3 DEF Shares
<1> QED BY <1>4 DEF Part, Complete

LEMMA SharesDiffer ==
    ASSUME NEW k, NEW i, NEW r, NEW t, r # t
    PROVE  Shares(k, i, r) \cap Shares(k, i, t) = {}
<1> SUFFICES ASSUME NEW x \in Ranks, NEW y \in Ranks, Rep[i][x] = r, Rep[i][y] = t,
                    <<"share", k, Absolute(x)>> = <<"share", k, Absolute(y)>>
             PROVE  FALSE
  BY DEF Shares
<1>1. Absolute(x) = Absolute(y)
  OBVIOUS
<1>2. x = y
  BY <1>1, Ranked
<1> QED BY <1>2

LEMMA PlayersFinite == IsFiniteSet(Players) /\ \A S : S \subseteq Players => IsFiniteSet(S)
<1>1. IsFiniteSet(Players)
  BY PlayersAssumption, FS_Interval DEF Players
<1> QED BY <1>1, FS_Subset

(* What p has after a turn is what it had and what it has added up.        *)
LEMMA SharesTurn ==
    ASSUME NEW k, NEW i \in Turns, Level[i] > 0, NEW p \in Players,
           Relative(p) < SumPlayers(Level[i]),
           NEW from, from = Summands(p, SumPlayers(Level[i]), Level[i])
    PROVE  Shares(k, i + 1, Relative(p)) =
              Shares(k, i, Relative(p)) \cup UNION {Shares(k, i, Relative(q)) : q \in from}
<1>1. PICK s, l, r : s = SumPlayers(Level[i]) /\ l = Level[i] /\ r = Relative(p)
  OBVIOUS
<1>2. /\ s \in Nat /\ l \in 0 .. NPlayers /\ i + 1 \in Turns /\ s = Level[i + 1] /\ s < l
      /\ r \in Ranks
  BY <1>1, Turn, Ranked
<1>3. NPlayers \in Nat \ {0} /\ Ranks = 0 .. NPlayers - 1
  BY PlayersAssumption DEF Ranks
<1>4. r \in Nat /\ s \in Nat \ {0} /\ r < s
  BY <1>1, <1>2, <1>3
<1>5. ASSUME NEW y \in Ranks
      PROVE  Rep[i + 1][y] = r <=>
                Rep[i][y] = r \/ \E q \in from : Rep[i][y] = Relative(q)
  <2>1. PICK z : z = Rep[i][y]
    OBVIOUS
  <2>2. z \in Nat /\ z < l /\ z \in Ranks
    BY <1>1, <1>2, <2>1, RepBelow, RepFacts
  <2>3. Rep[i + 1][y] = z % s
    <3>1. Rep[i + 1] = [x \in Ranks |-> IF Level[i + 1] = 0 THEN 0
                                        ELSE Rep[i][x] % Level[i + 1]]
      BY <1>2, RepFacts
    <3>2. Rep[i + 1] = [x \in Ranks |-> IF s = 0 THEN 0 ELSE Rep[i][x] % s]
      BY <1>2, <3>1
    <3>3. s # 0
      BY <1>4
    <3> QED BY <2>1, <3>2, <3>3
  <2>4. \A q \in Players : q \in from <=> s <= Relative(q) /\ Relative(q) < l
                                          /\ r = Relative(q) % s
    BY <1>1, <1>2, <1>4, SummandsAre, ReceiverIs
  <2>5. (\E q \in from : z = Relative(q)) <=> s <= z /\ r = z % s
    <3>1. from \subseteq Players
      BY <1>1, <1>2, TreeParties
    <3>2. Absolute(z) \in Players /\ Relative(Absolute(z)) = z
      BY <2>2, Ranked
    <3> QED BY <2>2, <2>4, <3>1, <3>2
  <2>6. z < s => z % s = z
    BY <1>4, <2>2, SameRemainder
  <2>7. z % s = r <=> z = r \/ (s <= z /\ r = z % s)
    BY <1>4, <2>2, <2>6
  <2> QED BY <2>1, <2>3, <2>5, <2>7
<1>6. {y \in Ranks : Rep[i + 1][y] = r} =
         {y \in Ranks : Rep[i][y] = r}
            \cup UNION {{y \in Ranks : Rep[i][y] = Relative(q)} : q \in from}
  BY <1>5
<1>7. Shares(k, i + 1, r) = Shares(k, i, r) \cup UNION {Shares(k, i, Relative(q)) : q \in from}
  BY <1>5 DEF Shares
<1> QED BY <1>1, <1>7

LEMMA PartsAddUp ==
    ASSUME NEW k, NEW i \in Turns, Level[i] > 0, NEW p \in Players,
           Relative(p) < SumPlayers(Level[i]),
           NEW from, from = Summands(p, SumPlayers(Level[i]), Level[i])
    PROVE  AddUp(Part(k, i, Relative(p)), [q \in from |-> Part(k, i, Relative(q))])
              = Part(k, i + 1, Relative(p))
<1> DEFINE G == [q \in from |-> Shares(k, i, Relative(q))]
           S0 == Shares(k, i, Relative(p))
           heads == [q \in from |-> Part(k, i, Relative(q))]
<1>1. SumPlayers(Level[i]) \in Nat /\ Level[i] \in 0 .. NPlayers
  BY Turn
<1>2. from \subseteq Players /\ IsFiniteSet(from)
  BY <1>1, TreeParties, PlayersFinite
<1>3. \A q \in from : Relative(q) >= SumPlayers(Level[i]) /\ Relative(q) # Relative(p)
  <2> SUFFICES ASSUME NEW q \in from
               PROVE  Relative(q) >= SumPlayers(Level[i]) /\ Relative(q) # Relative(p)
    OBVIOUS
  <2>1. q \in Players
    BY <1>2
  <2>2. SumPlayers(Level[i]) <= Relative(q)
    BY <1>1, <2>1, SummandsAre, ReceiverIs
  <2>3. Relative(q) \in Nat /\ Relative(p) \in Nat
    BY <2>1, PlayersAssumption, Ranked DEF Ranks
  <2> QED BY <1>1, <2>2, <2>3
<1>4. \A q \in from : G[q] \cap S0 = {}
  BY <1>3, SharesDiffer
<1>5. \A q, r \in from : q # r => G[q] \cap G[r] = {}
  BY <1>2, RanksDiffer, SharesDiffer
<1>6. heads = [q \in from |-> SetToBag(G[q])]
  BY DEF Part
<1>7. UNION {G[q] : q \in from} = UNION {Shares(k, i, Relative(q)) : q \in from}
  OBVIOUS
<1> HIDE DEF G, S0, heads
<1>8. AddUp(SetToBag(S0), heads) = SetToBag(S0 \cup UNION {G[q] : q \in from})
  BY <1>2, <1>4, <1>5, <1>6, AddUpSets
<1>9. S0 \cup UNION {G[q] : q \in from} = Shares(k, i + 1, Relative(p))
  BY <1>7, SharesTurn DEF S0
<1> QED BY <1>8, <1>9 DEF Part, S0, heads

(* What q sends when its turn has come.                                    *)
LEMMA PartSent ==
    ASSUME NEW k, NEW i \in Turns, NEW r \in Nat, Sender(i, r)
    PROVE  PartialSum(k, r) = Part(k, i, r)
<1>1. PICK j : j = CHOOSE x \in Turns : Sender(x, r)
  OBVIOUS
<1>2. j \in Turns /\ Sender(j, r)
  BY <1>1
<1>3. j = i
  BY <1>2, OneTurn
<1> QED BY <1>1, <1>3 DEF PartialSum

(* All shares, each party's from itself.                                   *)
LEMMA AllShares ==
    ASSUME NEW k, NEW p \in Players
    PROVE  AddUp(Share(k, p), [q \in Players \ {p} |-> Share(k, q)]) = Complete(k)
<1> DEFINE others == Players \ {p}
           G == [q \in others |-> {<<"share", k, q>>}]
           heads == [q \in others |-> Share(k, q)]
<1>1. IsFiniteSet(others)
  BY PlayersFinite
<1>2. \A q \in others : G[q] \cap {<<"share", k, p>>} = {}
  OBVIOUS
<1>3. \A q, r \in others : q # r => G[q] \cap G[r] = {}
  OBVIOUS
<1>4. heads = [q \in others |-> SetToBag(G[q])]
  BY DEF Share
<1>5. {<<"share", k, p>>} \cup UNION {G[q] : q \in others} = {<<"share", k, q>> : q \in Players}
  OBVIOUS
<1> HIDE DEF G, heads, others
<1>6. AddUp(SetToBag({<<"share", k, p>>}), heads) =
         SetToBag({<<"share", k, p>>} \cup UNION {G[q] : q \in others})
  BY <1>1, <1>2, <1>3, <1>4, AddUpSets
<1> QED BY <1>5, <1>6 DEF Share, Complete, heads, others

-----------------------------------------------------------------------------
(* Counting inputs.                                                        *)

Among(P, n) == Cardinality({c \in 1 .. n : c \in P})

LEMMA CountAmong ==
    ASSUME NEW P, NEW n \in Nat
    PROVE  /\ Among(P, n) \in Nat /\ Among(P, 0) = 0
           /\ Among(P, n + 1) = IF n + 1 \in P THEN Among(P, n) + 1 ELSE Among(P, n)
<1> DEFINE C(m) == {c \in 1 .. m : c \in P}
<1>1. IsFiniteSet(C(n))
  <2>1. IsFiniteSet(1 .. n)
    BY FS_Interval
  <2>2. C(n) \in SUBSET (1 .. n)
    OBVIOUS
  <2> QED BY <2>1, <2>2, FS_Subset
<1>2. Cardinality(C(n)) \in Nat
  BY <1>1, FS_CardinalityType
<1>3. Cardinality(C(0)) = 0
  <2>1. C(0) = {}
    OBVIOUS
  <2> QED BY <2>1, FS_EmptySet
<1>4. CASE n + 1 \in P
  <2>1. C(n + 1) = C(n) \cup {n + 1} /\ ~(n + 1 \in C(n))
    BY <1>4
  <2> HIDE DEF C
  <2>2. Cardinality(C(n + 1)) = Cardinality(C(n)) + 1
    BY <1>1, <2>1, FS_AddElement
  <2> QED BY <1>2, <1>3, <1>4, <2>2 DEF Among, C
<1>5. CASE n + 1 \notin P
  <2>1. C(n + 1) = C(n)
    BY <1>5
  <2> QED BY <1>2, <1>3, <1>5, <2>1 DEF Among
<1> QED BY <1>4, <1>5

LEMMA AmongGrows ==
    ASSUME NEW P, NEW c \in Nat, NEW d \in Nat, c <= d
    PROVE  Among(P, c) <= Among(P, d)
<1> DEFINE C(m) == {x \in 1 .. m : x \in P}
<1>1. C(c) \in SUBSET C(d)
  OBVIOUS
<1>2. IsFiniteSet(C(d))
  <2>1. IsFiniteSet(1 .. d)
    BY FS_Interval
  <2>2. C(d) \in SUBSET (1 .. d)
    OBVIOUS
  <2> QED BY <2>1, <2>2, FS_Subset
<1> HIDE DEF C
<1>3. Cardinality(C(c)) <= Cardinality(C(d))
  BY <1>1, <1>2, FS_Subset
<1> QED BY <1>3 DEF Among, C

(* Every number up to the count is somebody's.                             *)
LEMMA AmongReaches ==
    ASSUME NEW P, NEW n \in Nat, NEW k \in 1 .. Among(P, n)
    PROVE  \E c \in 1 .. n : c \in P /\ Among(P, c) = k
<1> DEFINE R(m) == \A j \in 1 .. Among(P, m) : \E c \in 1 .. m : c \in P /\ Among(P, c) = j
           M == {m \in Nat : R(m)}
<1>1. 0 \in M
  BY CountAmong
<1>2. ASSUME NEW m \in Nat, m \in M PROVE m + 1 \in M
  <2> SUFFICES ASSUME NEW j \in 1 .. Among(P, m + 1)
               PROVE  \E c \in 1 .. m + 1 : c \in P /\ Among(P, c) = j
    OBVIOUS
  <2>1. /\ Among(P, m) \in Nat
        /\ Among(P, m + 1) = IF m + 1 \in P THEN Among(P, m) + 1 ELSE Among(P, m)
    BY CountAmong
  <2>2. CASE j \in 1 .. Among(P, m)
    <3>1. PICK c \in 1 .. m : c \in P /\ Among(P, c) = j
      BY <1>2, <2>2
    <3> QED BY <3>1
  <2>3. CASE j \notin 1 .. Among(P, m)
    <3>1. m + 1 \in P /\ Among(P, m + 1) = j
      BY <2>1, <2>3
    <3> QED BY <3>1
  <2> QED BY <2>2, <2>3
<1> HIDE DEF M
<1>3. n \in M
  BY <1>1, <1>2, Induction
<1> QED BY <1>3 DEF M

CallsLike(call) == {c \in Nat : Ops[c] = call}
CallsOf(o) == {c \in Nat : Ops[c].op = o}
LEMMA CountsAreAmong ==
    ASSUME NEW n \in Nat
    PROVE  /\ \A x : Started(x, n) = Among(CallsLike(StartInput(x)), n)
           /\ \A x : StoppedBy(x, n) = Among(CallsLike(StopInput(x)), n)
           /\ Stopped(n) = Among(CallsOf("stopinput"), n)
           /\ Begins(n) = Among(CallsOf("begin"), n)
           /\ Ends(n) = Among(CallsOf("end"), n)
<1>1. \A c \in 1 .. n : c \in Nat
  OBVIOUS
<1>2. ASSUME NEW call PROVE Count(call, n) = Among(CallsLike(call), n)
  <2>1. {c \in 1 .. n : Ops[c] = call} = {c \in 1 .. n : c \in CallsLike(call)}
    BY <1>1 DEF CallsLike
  <2> QED BY <2>1 DEF Count, Among
<1>3. ASSUME NEW o
      PROVE  {c \in 1 .. n : Ops[c].op = o} = {c \in 1 .. n : c \in CallsOf(o)}
  BY <1>1 DEF CallsOf
<1>4. /\ {d \in 1 .. n : Ops[d].op = "stopinput"} = {d \in 1 .. n : d \in CallsOf("stopinput")}
      /\ {d \in 1 .. n : Ops[d].op = "begin"} = {d \in 1 .. n : d \in CallsOf("begin")}
      /\ {d \in 1 .. n : Ops[d].op = "end"} = {d \in 1 .. n : d \in CallsOf("end")}
  BY <1>3
<1> QED BY <1>2, <1>4 DEF Started, StoppedBy, Stopped, Among, Begins, Ends

CallRecords == [op : {"begin", "end", "check", "startinput", "stopinput"}, n : Nat]

LEMMA CallIs ==
    ASSUME NEW c \in DOMAIN Ops
    PROVE  /\ Ops[c] \in CallRecords
           /\ Ops[c].op \in {"begin", "end", "check", "startinput", "stopinput"}
           /\ \A x : /\ Ops[c] = StartInput(x) <=> Ops[c].op = "startinput" /\ Ops[c].n = x
                     /\ Ops[c] = StopInput(x) <=> Ops[c].op = "stopinput" /\ Ops[c].n = x
<1>1. Ops \in Seq(CallRecords)
  BY OpsAssumption DEF CallRecords
<1>2. Ops[c] \in CallRecords
  BY <1>1
<1>3. \A r \in CallRecords :
        /\ r.op \in {"begin", "end", "check", "startinput", "stopinput"}
        /\ \A x : /\ r = StartInput(x) <=> r.op = "startinput" /\ r.n = x
                  /\ r = StopInput(x) <=> r.op = "stopinput" /\ r.n = x
  BY DEF CallRecords, StartInput, StopInput, Call
<1> QED BY <1>2, <1>3

LEMMA InputCounts ==
    ASSUME NEW c \in DOMAIN Ops, NEW x
    PROVE  /\ Started(x, c - 1) \in Nat /\ StoppedBy(x, c - 1) \in Nat /\ Stopped(c - 1) \in Nat
           /\ Started(x, c) = IF Ops[c].op = "startinput" /\ Ops[c].n = x
                              THEN Started(x, c - 1) + 1 ELSE Started(x, c - 1)
           /\ StoppedBy(x, c) = IF Ops[c].op = "stopinput" /\ Ops[c].n = x
                                THEN StoppedBy(x, c - 1) + 1 ELSE StoppedBy(x, c - 1)
           /\ Stopped(c) = IF Ops[c].op = "stopinput" THEN Stopped(c - 1) + 1 ELSE Stopped(c - 1)
<1>1. PICK n \in Nat : n = c - 1 /\ n + 1 = c
  BY CallCounts
<1>2. /\ n + 1 \in CallsLike(StartInput(x)) <=> Ops[c].op = "startinput" /\ Ops[c].n = x
      /\ n + 1 \in CallsLike(StopInput(x)) <=> Ops[c].op = "stopinput" /\ Ops[c].n = x
      /\ n + 1 \in CallsOf("stopinput") <=> Ops[c].op = "stopinput"
  BY <1>1, CallIs DEF CallsLike, CallsOf
<1>3. ASSUME NEW P
      PROVE  /\ Among(P, n) \in Nat
             /\ Among(P, n + 1) = IF n + 1 \in P THEN Among(P, n) + 1 ELSE Among(P, n)
  BY CountAmong
<1>4. n + 1 \in Nat
  OBVIOUS
<1>5. /\ Started(x, n) = Among(CallsLike(StartInput(x)), n)
      /\ StoppedBy(x, n) = Among(CallsLike(StopInput(x)), n)
      /\ Stopped(n) = Among(CallsOf("stopinput"), n)
      /\ Started(x, n + 1) = Among(CallsLike(StartInput(x)), n + 1)
      /\ StoppedBy(x, n + 1) = Among(CallsLike(StopInput(x)), n + 1)
      /\ Stopped(n + 1) = Among(CallsOf("stopinput"), n + 1)
  BY <1>4, CountsAreAmong
<1> HIDE DEF Among
<1>6. /\ Started(x, n) \in Nat /\ StoppedBy(x, n) \in Nat /\ Stopped(n) \in Nat
      /\ Started(x, n + 1) = IF Ops[c].op = "startinput" /\ Ops[c].n = x
                             THEN Started(x, n) + 1 ELSE Started(x, n)
      /\ StoppedBy(x, n + 1) = IF Ops[c].op = "stopinput" /\ Ops[c].n = x
                               THEN StoppedBy(x, n) + 1 ELSE StoppedBy(x, n)
      /\ Stopped(n + 1) = IF Ops[c].op = "stopinput" THEN Stopped(n) + 1 ELSE Stopped(n)
  BY <1>2, <1>3, <1>5
<1> QED BY <1>1, <1>6

-----------------------------------------------------------------------------
(* Accumulated numbers.                                                    *)

LEMMA Accumulates ==
    ASSUME NEW g, \A c \in 1 .. Len(Ops) : g[c] \in Nat
    PROVE  /\ Accumulated(g)[0] = 0
           /\ \A c \in 0 .. Len(Ops) : Accumulated(g)[c] \in Nat
           /\ \A c \in 1 .. Len(Ops) : Accumulated(g)[c] = Accumulated(g)[c - 1] + g[c]
<1> DEFINE n == Len(Ops)
           step == [c \in 1 .. n |-> [x \in Nat |-> x + g[c]]]
           IsTotal(f) == f = [c \in 0 .. n |-> IF c = 0 THEN 0 ELSE f[c - 1] + g[c]]
<1>1. n \in Nat /\ \A c \in 1 .. n : g[c] \in Nat
  BY OpsAssumption
<1>2. step \in [1 .. n -> [Nat -> Nat]]
  BY <1>1
<1> HIDE DEF n
<1>3. ASSUME NEW f \in [0 .. n -> Nat], Follows(f, n, 0, step) PROVE IsTotal(f)
  <2>1. \A k \in 0 .. n : f[k] = IF k = 0 THEN 0 ELSE step[k][f[k - 1]]
    BY <1>3 DEF Follows
  <2>2. \A k \in 1 .. n : k \in Nat /\ k - 1 \in 0 .. n
    BY <1>1
  <2>3. \A k \in 1 .. n : f[k - 1] \in Nat /\ step[k][f[k - 1]] = f[k - 1] + g[k]
    BY <1>1, <2>2
  <2>4. \A k \in 0 .. n : f[k] = IF k = 0 THEN 0 ELSE f[k - 1] + g[k]
    <3>1. \A k \in 0 .. n : k = 0 \/ k \in 1 .. n
      BY <1>1
    <3> QED BY <2>1, <2>3, <3>1
  <2>5. f = [k \in 0 .. n |-> f[k]]
    OBVIOUS
  <2> QED BY <2>4, <2>5
<1> HIDE DEF step
<1>4. PICK f \in [0 .. n -> Nat] : Follows(f, n, 0, step)
  BY <1>1, <1>2, RecursionExists
<1>5. IsTotal(f)
  BY <1>3, <1>4
<1> DEFINE t == Accumulated(g)
<1>6. IsTotal(t)
  BY <1>5 DEF Accumulated, n
<1> HIDE DEF t
<1>7. \A k \in 0 .. n : t[k] = IF k = 0 THEN 0 ELSE t[k - 1] + g[k]
  BY <1>6
<1>8. t[0] = 0 /\ \A k \in 1 .. n : t[k] = t[k - 1] + g[k]
  BY <1>1, <1>7
<1> DEFINE N == {m \in Nat : m <= n => t[m] \in Nat}
<1>9. 0 \in N
  BY <1>8
<1>10. ASSUME NEW m \in Nat, m \in N PROVE m + 1 \in N
  <2> SUFFICES ASSUME m + 1 <= n PROVE t[m + 1] \in Nat
    OBVIOUS
  <2>1. m + 1 \in 1 .. n /\ t[m] \in Nat /\ (m + 1) - 1 = m
    BY <1>1, <1>10
  <2>2. t[m + 1] = t[m] + g[m + 1] /\ g[m + 1] \in Nat
    BY <1>1, <1>8, <2>1
  <2> QED BY <2>1, <2>2
<1> HIDE DEF N
<1>11. Nat \subseteq N
  BY <1>9, <1>10, Induction
<1>12. \A k \in 0 .. n : t[k] \in Nat
  BY <1>1, <1>11 DEF N
<1> QED BY <1>8, <1>12 DEF t, n

LEMMA AccumulatedGrows ==
    ASSUME NEW g, \A c \in 1 .. Len(Ops) : g[c] \in Nat,
           NEW j \in 0 .. Len(Ops), NEW k \in 0 .. Len(Ops), j <= k
    PROVE  Accumulated(g)[j] <= Accumulated(g)[k]
<1> DEFINE t == Accumulated(g)
           n == Len(Ops)
           N == {m \in Nat : j + m <= n => t[j] <= t[j + m]}
<1>1. /\ n \in Nat /\ \A c \in 1 .. n : t[c] = t[c - 1] + g[c] /\ g[c] \in Nat
      /\ \A c \in 0 .. n : t[c] \in Nat
  BY OpsAssumption, Accumulates
<1> HIDE DEF n, t
<1>2. 0 \in N
  <2>1. j + 0 = j /\ t[j] \in Nat
    BY <1>1 DEF n
  <2> QED BY <2>1
<1>3. ASSUME NEW m \in Nat, m \in N PROVE m + 1 \in N
  <2> SUFFICES ASSUME j + (m + 1) <= n PROVE t[j] <= t[j + (m + 1)]
    OBVIOUS
  <2>1. PICK x : x = j + m
    OBVIOUS
  <2>2. x \in 0 .. n /\ x + 1 \in 1 .. n /\ (x + 1) - 1 = x /\ j + (m + 1) = x + 1
        /\ j \in 0 .. n
    BY <1>1, <2>1 DEF n
  <2>3. t[j] <= t[x]
    BY <1>1, <1>3, <2>1, <2>2
  <2>4. t[x + 1] = t[x] + g[x + 1] /\ g[x + 1] \in Nat /\ t[x] \in Nat /\ t[j] \in Nat
    BY <1>1, <2>2
  <2>5. t[j] <= t[x + 1]
    BY <2>3, <2>4
  <2> QED BY <2>2, <2>5
<1> HIDE DEF N
<1>4. k - j \in Nat /\ j + (k - j) = k /\ k <= n
  BY <1>1 DEF n
<1>5. k - j \in N
  BY <1>2, <1>3, <1>4, Induction
<1> QED BY <1>1, <1>4, <1>5 DEF N, t

-----------------------------------------------------------------------------
(* What is sent and read in a call.                                        *)

CheckAt(c) == ChecksAt(Ledger[c - 1], c)

LEMMA CallMessages ==
    ASSUME NEW d \in BOOLEAN, NEW ch \in Channels, NEW q \in Players, NEW p \in Players,
           NEW c \in DOMAIN Ops
    PROVE  /\ Sending(d, ch, q, p, c) \in {0, 1, 2} /\ Reading(d, ch, q, p, c) \in {0, 1, 2, 3}
           /\ Returning(d, ch, q, p, c) \in {0, 1}
           /\ Ops[c].op = "begin" =>
                 /\ ~CheckAt(c) /\ Returning(d, ch, q, p, c) = 0
                 /\ Sending(d, ch, q, p, c) =
                       IF ch = "main" /\ (d \/ SumsTo(q, p) \/ Tells(q, p)) THEN 1 ELSE 0
                 /\ Reading(d, ch, q, p, c) =
                       IF ch = "main" /\ ~d /\ (SumsTo(q, p) \/ Tells(q, p)) /\ ~Kept(d, q, p)
                       THEN 1 ELSE 0
           /\ Ops[c].op = "startinput" =>
                 /\ ~CheckAt(c) /\ Returning(d, ch, q, p, c) = 0 /\ Reading(d, ch, q, p, c) = 0
                 /\ Sending(d, ch, q, p, c) = IF ch = "main" /\ Ops[c].n = q THEN 1 ELSE 0
           /\ Ops[c].op = "stopinput" =>
                 /\ ~CheckAt(c) /\ Returning(d, ch, q, p, c) = 0 /\ Sending(d, ch, q, p, c) = 0
                 /\ Reading(d, ch, q, p, c) = IF ch = "main" /\ Ops[c].n = q THEN 1 ELSE 0
           /\ Ops[c].op = "end" =>
                 Returning(d, ch, q, p, c) = IF ch = "main" /\ Kept(d, q, p) THEN 1 ELSE 0
           /\ Ops[c].op = "check" => Returning(d, ch, q, p, c) = 0
           /\ Ops[c].op \in {"end", "check"} =>
                 /\ Sending(d, ch, q, p, c) = IF ch = CheckOn(d) /\ CheckAt(c) THEN 2 ELSE 0
                 /\ Reading(d, ch, q, p, c) = Returning(d, ch, q, p, c) +
                       (IF ch = CheckOn(d) /\ CheckAt(c) THEN 2 ELSE 0)
<1>1. Ops[c].op \in {"begin", "end", "check", "startinput", "stopinput"}
  BY CallIs
<1>2. CheckAt(c) => Ops[c].op \in {"end", "check"}
  BY DEF CheckAt, ChecksAt
<1>3. CASE Ops[c].op = "begin"
  BY <1>2, <1>3 DEF Sending, Reading, Returning, CheckAt
<1>4. CASE Ops[c].op = "startinput"
  BY <1>2, <1>4 DEF Sending, Reading, Returning, CheckAt
<1>5. CASE Ops[c].op = "stopinput"
  BY <1>2, <1>5 DEF Sending, Reading, Returning, CheckAt
<1>6. CASE Ops[c].op = "end"
  BY <1>6 DEF Sending, Reading, Returning, CheckAt
<1>7. CASE Ops[c].op = "check"
  BY <1>7 DEF Sending, Reading, Returning, CheckAt
<1> QED BY <1>1, <1>3, <1>4, <1>5, <1>6, <1>7

LEMMA MessageCounts ==
    ASSUME NEW d \in BOOLEAN, NEW ch \in Channels, NEW q \in Players, NEW p \in Players
    PROVE  /\ SentBy(d, ch, q, p)[0] = 0 /\ ReadBy(d, ch, q, p)[0] = 0
           /\ \A c \in 0 .. Len(Ops) : /\ SentBy(d, ch, q, p)[c] \in Nat
                                       /\ ReadBy(d, ch, q, p)[c] \in Nat
           /\ \A c \in DOMAIN Ops :
                 /\ SentBy(d, ch, q, p)[c] = SentBy(d, ch, q, p)[c - 1] + Sending(d, ch, q, p, c)
                 /\ ReadBy(d, ch, q, p)[c] = ReadBy(d, ch, q, p)[c - 1] + Reading(d, ch, q, p, c)
                 /\ SentBy(d, ch, q, p)[c - 1] \in Nat /\ ReadBy(d, ch, q, p)[c - 1] \in Nat
           /\ \A b, c \in 0 .. Len(Ops) : b <= c =>
                 SentBy(d, ch, q, p)[b] <= SentBy(d, ch, q, p)[c]
<1> DEFINE f == [c \in 1 .. Len(Ops) |-> Sending(d, ch, q, p, c)]
           g == [c \in 1 .. Len(Ops) |-> Reading(d, ch, q, p, c)]
<1>1. DOMAIN Ops = 1 .. Len(Ops) /\ Len(Ops) \in Nat
  BY OpsAssumption
<1>2. \A c \in 1 .. Len(Ops) : /\ f[c] = Sending(d, ch, q, p, c) /\ f[c] \in Nat
                               /\ g[c] = Reading(d, ch, q, p, c) /\ g[c] \in Nat
  BY <1>1, CallMessages
<1>3. SentBy(d, ch, q, p) = Accumulated(f) /\ ReadBy(d, ch, q, p) = Accumulated(g)
  BY DEF SentBy, ReadBy
<1> HIDE DEF f, g
<1>4. /\ Accumulated(f)[0] = 0 /\ Accumulated(g)[0] = 0
      /\ \A c \in 0 .. Len(Ops) : Accumulated(f)[c] \in Nat /\ Accumulated(g)[c] \in Nat
      /\ \A c \in 1 .. Len(Ops) : Accumulated(f)[c] = Accumulated(f)[c - 1] + f[c]
      /\ \A c \in 1 .. Len(Ops) : Accumulated(g)[c] = Accumulated(g)[c - 1] + g[c]
  BY <1>2, Accumulates
<1>5. \A b, c \in 0 .. Len(Ops) : b <= c => Accumulated(f)[b] <= Accumulated(f)[c]
  BY <1>2, AccumulatedGrows
<1>6. \A c \in DOMAIN Ops : c \in 1 .. Len(Ops) /\ c - 1 \in 0 .. Len(Ops)
  BY <1>1
<1> QED BY <1>1, <1>2, <1>3, <1>4, <1>5, <1>6

(* The place of a message in the stream tells which it is.                 *)
LEMMA ScriptAt ==
    ASSUME NEW d \in BOOLEAN, NEW ch \in Channels, NEW q \in Players, NEW p \in Players,
           NEW c \in DOMAIN Ops, NEW j \in 1 .. Sending(d, ch, q, p, c)
    PROVE  Script(d, ch, q, p, SentBy(d, ch, q, p)[c - 1] + j) = Message(d, q, p, c, j)
<1> DEFINE t == SentBy(d, ch, q, p)
           i == t[c - 1] + j
           Fits(x) == Numbered(d, ch, q, p, i, x[1], x[2])
           x == CHOOSE y \in (DOMAIN Ops) \X {1, 2} : Fits(y)
<1>1. j \in {1, 2} /\ j <= Sending(d, ch, q, p, c)
  <2>1. Sending(d, ch, q, p, c) \in {0, 1, 2}
    BY CallMessages
  <2> QED BY <2>1
<1>2. <<c, j>> \in (DOMAIN Ops) \X {1, 2} /\ Fits(<<c, j>>)
  BY <1>1 DEF Numbered
<1>3. x \in (DOMAIN Ops) \X {1, 2} /\ Fits(x)
  BY <1>2
<1>4. PICK a, e : a = x[1] /\ e = x[2]
  OBVIOUS
<1>5. a \in DOMAIN Ops /\ e \in {1, 2} /\ e <= Sending(d, ch, q, p, a) /\ i = t[a - 1] + e
  <2>1. a \in DOMAIN Ops /\ e \in {1, 2}
    BY <1>3, <1>4
  <2>2. Numbered(d, ch, q, p, i, a, e)
    BY <1>3, <1>4
  <2> QED BY <2>1, <2>2 DEF Numbered
<1>6. ASSUME NEW y \in DOMAIN Ops, NEW z \in DOMAIN Ops, NEW u \in {1, 2}, NEW v \in {1, 2},
             u <= Sending(d, ch, q, p, y), v <= Sending(d, ch, q, p, z),
             t[y - 1] + u = t[z - 1] + v, y < z
      PROVE  FALSE
  <2>1. y \in 0 .. Len(Ops) /\ z - 1 \in 0 .. Len(Ops) /\ y <= z - 1
    BY SMTT(20), <1>6, OpsAssumption
  <2>2. t[y] <= t[z - 1] /\ t[y] = t[y - 1] + Sending(d, ch, q, p, y)
    BY <2>1, MessageCounts
  <2>3. t[y - 1] \in Nat /\ t[z - 1] \in Nat /\ Sending(d, ch, q, p, y) \in {0, 1, 2}
    BY MessageCounts, CallMessages
  <2> HIDE DEF t
  <2> QED BY <1>6, <2>2, <2>3
<1>7. a = c
  <2>1. a \in Int /\ c \in Int
    BY <1>5, OpsAssumption
  <2>2. ~(a < c) /\ ~(c < a)
    BY <1>1, <1>5, <1>6
  <2> QED BY <2>1, <2>2
<1>8. e = j
  <2>1. t[c - 1] \in Nat
    BY MessageCounts
  <2> HIDE DEF t
  <2> QED BY <1>1, <1>5, <1>7, <2>1
<1>9. Script(d, ch, q, p, i) = Message(d, q, p, x[1], x[2])
  BY DEF Script
<1> QED BY <1>4, <1>7, <1>8, <1>9

-----------------------------------------------------------------------------
(* What is on its way after a call, and where it is in the stream.          *)

Pending(d, q, p, c) ==
    (IF Kept(d, q, p) THEN Begins(c) - Ends(c) ELSE 0) + (Started(q, c) - StoppedBy(q, c))

LEMMA NoCalls ==
    /\ Begins(0) = 0 /\ Ends(0) = 0
    /\ \A x : Started(x, 0) = 0 /\ StoppedBy(x, 0) = 0
    /\ Stopped(0) = 0 /\ Len(Ops) \in Nat
<1>1. 0 \in Nat /\ \A P : Among(P, 0) = 0
  BY CountAmong
<1>2. /\ \A x : Started(x, 0) = Among(CallsLike(StartInput(x)), 0)
      /\ \A x : StoppedBy(x, 0) = Among(CallsLike(StopInput(x)), 0)
      /\ Stopped(0) = Among(CallsOf("stopinput"), 0)
  BY <1>1, CountsAreAmong
<1>3. Len(Ops) \in Nat
  BY OpsAssumption
<1> QED BY <1>1, <1>2, <1>3, CountTypes

LEMMA Balance ==
    ASSUME NEW d \in BOOLEAN, NEW q \in Players, NEW p \in Players, NEW c \in 0 .. Len(Ops)
    PROVE  /\ SentBy(d, "main", q, p)[c] = ReadBy(d, "main", q, p)[c] + Pending(d, q, p, c)
           /\ SentBy(d, "check", q, p)[c] = ReadBy(d, "check", q, p)[c]
<1> DEFINE s == SentBy(d, "main", q, p)
           r == ReadBy(d, "main", q, p)
           s2 == SentBy(d, "check", q, p)
           r2 == ReadBy(d, "check", q, p)
           P(m) == s[m] = r[m] + Pending(d, q, p, m) /\ s2[m] = r2[m]
           M == {m \in Nat : m <= Len(Ops) => P(m)}
<1>1. "main" \in Channels /\ "check" \in Channels
  BY DEF Channels
<1>2. 0 \in M
  <2>1. s[0] = 0 /\ r[0] = 0 /\ s2[0] = 0 /\ r2[0] = 0
    BY <1>1, MessageCounts
  <2>2. Pending(d, q, p, 0) = 0
    BY NoCalls DEF Pending
  <2> HIDE DEF s, r, s2, r2
  <2> QED BY <2>1, <2>2
<1>3. ASSUME NEW m \in Nat, m \in M PROVE m + 1 \in M
  <2> SUFFICES ASSUME m + 1 <= Len(Ops) PROVE P(m + 1)
    OBVIOUS
  <2>1. PICK x \in DOMAIN Ops : x = m + 1 /\ x - 1 = m /\ P(m)
    <3>2. PICK l \in Nat : l = Len(Ops) /\ DOMAIN Ops = 1 .. l
      BY OpsAssumption
    <3>1. m + 1 \in DOMAIN Ops /\ (m + 1) - 1 = m /\ m <= Len(Ops)
      BY <3>2
    <3> QED BY <1>3, <3>1
  <2>2. /\ s[x] = s[m] + Sending(d, "main", q, p, x) /\ s[m] \in Nat
        /\ r[x] = r[m] + Reading(d, "main", q, p, x) /\ r[m] \in Nat
        /\ s2[x] = s2[m] + Sending(d, "check", q, p, x) /\ s2[m] \in Nat
        /\ r2[x] = r2[m] + Reading(d, "check", q, p, x) /\ r2[m] \in Nat
    <3>1. ASSUME NEW ch \in Channels
          PROVE  /\ SentBy(d, ch, q, p)[x] = SentBy(d, ch, q, p)[m] + Sending(d, ch, q, p, x)
                 /\ ReadBy(d, ch, q, p)[x] = ReadBy(d, ch, q, p)[m] + Reading(d, ch, q, p, x)
                 /\ SentBy(d, ch, q, p)[m] \in Nat /\ ReadBy(d, ch, q, p)[m] \in Nat
      BY <2>1, MessageCounts
    <3> QED BY <1>1, <3>1
  <2> HIDE DEF s, r, s2, r2
  <2>3. /\ Begins(m) \in Nat /\ Ends(m) \in Nat
        /\ Begins(x) = IF Ops[x].op = "begin" THEN Begins(m) + 1 ELSE Begins(m)
        /\ Ends(x) = IF Ops[x].op = "end" THEN Ends(m) + 1 ELSE Ends(m)
    BY <2>1, CallCounts
  <2>4. /\ Started(q, m) \in Nat /\ StoppedBy(q, m) \in Nat
        /\ Started(q, x) = IF Ops[x].op = "startinput" /\ Ops[x].n = q
                           THEN Started(q, m) + 1 ELSE Started(q, m)
        /\ StoppedBy(q, x) = IF Ops[x].op = "stopinput" /\ Ops[x].n = q
                             THEN StoppedBy(q, m) + 1 ELSE StoppedBy(q, m)
    BY <2>1, InputCounts
  <2>5. PICK b, e, st, sp, st1, sp1, k, k1, u, u1, v, v1, y, z :
          /\ b = Begins(m) /\ e = Ends(m) /\ st = Started(q, m) /\ sp = StoppedBy(q, m)
          /\ st1 = Started(q, x) /\ sp1 = StoppedBy(q, x)
          /\ k = (IF Kept(d, q, p) THEN Begins(m) - Ends(m) ELSE 0)
          /\ k1 = (IF Kept(d, q, p) THEN Begins(x) - Ends(x) ELSE 0)
          /\ u = s[m] /\ u1 = s[x] /\ v = r[m] /\ v1 = r[x]
          /\ y = Sending(d, "main", q, p, x) /\ z = Reading(d, "main", q, p, x)
    OBVIOUS
  <2>6. /\ u = v + (k + (st - sp)) /\ s2[m] = r2[m]
        /\ st \in Nat /\ sp \in Nat /\ u \in Nat /\ v \in Nat
        /\ u1 = u + y /\ v1 = v + z
    BY <2>1, <2>2, <2>4, <2>5 DEF Pending
  <2>13. k \in Int /\ b \in Nat /\ e \in Nat
    BY <2>3, <2>5
  <2>7. SUFFICES u1 = v1 + (k1 + (st1 - sp1)) /\ s2[x] = r2[x]
    BY <2>1, <2>5 DEF Pending
  <2>8. Ops[x].op \in {"begin", "end", "check", "startinput", "stopinput"}
    BY CallIs
  <2>9. CASE Ops[x].op = "begin"
    <3>1. st1 = st /\ sp1 = sp /\ k1 = k + (IF Kept(d, q, p) THEN 1 ELSE 0)
      BY <2>3, <2>4, <2>5, <2>9
    <3>2. /\ Sending(d, "check", q, p, x) = 0 /\ Reading(d, "check", q, p, x) = 0
          /\ Sending(d, "main", q, p, x) =
                Reading(d, "main", q, p, x) + (IF Kept(d, q, p) THEN 1 ELSE 0)
          /\ Reading(d, "main", q, p, x) \in Nat
      BY <1>1, <2>9, CallMessages DEF Kept
    <3>3. s2[x] = r2[x]
      BY <2>2, <2>6, <3>2
    <3>5. y = z + (IF Kept(d, q, p) THEN 1 ELSE 0) /\ z \in Nat
      BY <2>5, <3>2
    <3>6. PICK w : w = IF Kept(d, q, p) THEN 1 ELSE 0
      OBVIOUS
    <3>7. w \in {0, 1} /\ k1 = k + w /\ y = z + w /\ st1 = st /\ sp1 = sp
          /\ y \in Nat /\ z \in Nat
      BY <3>1, <3>5, <3>6
    <3>4. u1 = v1 + (k1 + (st1 - sp1))
      BY <2>6, <2>13, <3>7
    <3> QED BY <3>3, <3>4
  <2>10. CASE Ops[x].op = "startinput"
    <3>1. k1 = k /\ sp1 = sp /\ st1 = IF Ops[x].n = q THEN st + 1 ELSE st
      BY <2>3, <2>4, <2>5, <2>10
    <3>2. /\ Sending(d, "check", q, p, x) = 0 /\ Reading(d, "check", q, p, x) = 0
          /\ Sending(d, "main", q, p, x) = (IF Ops[x].n = q THEN 1 ELSE 0)
          /\ Reading(d, "main", q, p, x) = 0
      BY <1>1, <2>10, CallMessages
    <3>3. s2[x] = r2[x]
      BY <2>2, <2>6, <3>2
    <3>6. PICK w : w = IF Ops[x].n = q THEN 1 ELSE 0
      OBVIOUS
    <3>7. w \in {0, 1} /\ y = w /\ z = 0
      BY <2>5, <3>2, <3>6
    <3>5. k1 = k /\ sp1 = sp /\ st1 = st + w
      BY <2>6, <3>1, <3>6
    <3>4. u1 = v1 + (k1 + (st1 - sp1))
      BY <2>6, <2>13, <3>5, <3>7
    <3> QED BY <3>3, <3>4
  <2>11. CASE Ops[x].op = "stopinput"
    <3>1. k1 = k /\ st1 = st /\ sp1 = IF Ops[x].n = q THEN sp + 1 ELSE sp
      BY <2>3, <2>4, <2>5, <2>11
    <3>2. /\ Sending(d, "check", q, p, x) = 0 /\ Reading(d, "check", q, p, x) = 0
          /\ Reading(d, "main", q, p, x) = (IF Ops[x].n = q THEN 1 ELSE 0)
          /\ Sending(d, "main", q, p, x) = 0
      BY <1>1, <2>11, CallMessages
    <3>3. s2[x] = r2[x]
      BY <2>2, <2>6, <3>2
    <3>6. PICK w : w = IF Ops[x].n = q THEN 1 ELSE 0
      OBVIOUS
    <3>7. w \in {0, 1} /\ z = w /\ y = 0
      BY <2>5, <3>2, <3>6
    <3>5. k1 = k /\ st1 = st /\ sp1 = sp + w
      BY <2>6, <3>1, <3>6
    <3>4. u1 = v1 + (k1 + (st1 - sp1))
      BY <2>6, <2>13, <3>5, <3>7
    <3> QED BY <3>3, <3>4
  <2>12. CASE Ops[x].op \in {"end", "check"}
    <3>1. /\ k1 = k - (IF Ops[x].op = "end" /\ Kept(d, q, p) THEN 1 ELSE 0)
          /\ st1 = st /\ sp1 = sp
      <4>1. Begins(x) = Begins(m) /\ Ends(x) = IF Ops[x].op = "end" THEN Ends(m) + 1 ELSE Ends(m)
        BY <2>3, <2>12
      <4>2. st1 = st /\ sp1 = sp
        BY <2>4, <2>5, <2>12
      <4>3. k1 = k - (IF Ops[x].op = "end" /\ Kept(d, q, p) THEN 1 ELSE 0)
        <5>1. CASE Kept(d, q, p)
          BY <2>3, <2>5, <4>1, <5>1
        <5>2. CASE ~Kept(d, q, p)
          BY <2>5, <5>2
        <5> QED BY <5>1, <5>2
      <4> QED BY <4>2, <4>3
    <3>2. /\ Sending(d, "check", q, p, x) = Reading(d, "check", q, p, x)
          /\ Sending(d, "check", q, p, x) \in Nat
          /\ Reading(d, "main", q, p, x) = Sending(d, "main", q, p, x) +
                (IF Ops[x].op = "end" /\ Kept(d, q, p) THEN 1 ELSE 0)
          /\ Sending(d, "main", q, p, x) \in Nat
      <4>1. \A ch \in Channels :
              /\ Sending(d, ch, q, p, x) \in {0, 1, 2}
              /\ Reading(d, ch, q, p, x) = Returning(d, ch, q, p, x) + Sending(d, ch, q, p, x)
              /\ Returning(d, ch, q, p, x) =
                    IF Ops[x].op = "end" /\ ch = "main" /\ Kept(d, q, p) THEN 1 ELSE 0
        BY <2>12, CallMessages
      <4> QED BY <1>1, <4>1
    <3>3. s2[x] = r2[x]
      BY <2>2, <2>6, <3>2
    <3>5. z = y + (IF Ops[x].op = "end" /\ Kept(d, q, p) THEN 1 ELSE 0) /\ y \in Nat
      BY <2>5, <3>2
    <3>6. PICK w : w = IF Ops[x].op = "end" /\ Kept(d, q, p) THEN 1 ELSE 0
      OBVIOUS
    <3>7. w \in {0, 1} /\ k1 = k - w /\ z = y + w /\ st1 = st /\ sp1 = sp
          /\ y \in Nat /\ z \in Nat
      BY <3>1, <3>5, <3>6
    <3>4. u1 = v1 + (k1 + (st1 - sp1))
      BY <2>6, <2>13, <3>7
    <3> QED BY <3>3, <3>4
  <2> QED BY <2>8, <2>9, <2>10, <2>11, <2>12
<1> HIDE DEF M
<1>4. c \in M /\ c <= Len(Ops)
  <2>1. c \in Nat /\ c <= Len(Ops)
    BY OpsAssumption
  <2> QED BY <1>2, <1>3, <2>1, Induction
<1> QED BY <1>4 DEF M

LEMMA InOrder ==
    ASSUME CallsInOrder, NEW x \in Players, NEW c \in 0 .. Len(Ops)
    PROVE  /\ Started(x, c) \in Nat /\ StoppedBy(x, c) \in Nat
           /\ StoppedBy(x, c) <= Started(x, c)
           /\ StoppedBy(x, c) # Started(x, c) => Begins(c) = Ends(c)
<1>1. c \in Nat /\ (c = 0 \/ c \in DOMAIN Ops)
  BY OpsAssumption
<1>2. Started(x, c) \in Nat /\ StoppedBy(x, c) \in Nat
  <2>1. /\ Started(x, c) = Among(CallsLike(StartInput(x)), c)
        /\ StoppedBy(x, c) = Among(CallsLike(StopInput(x)), c)
    BY <1>1, CountsAreAmong
  <2>2. \A P : Among(P, c) \in Nat
    BY <1>1, CountAmong
  <2> QED BY <2>1, <2>2
<1>3. CASE c = 0
  BY <1>2, <1>3, NoCalls
<1>4. CASE c \in DOMAIN Ops
  BY <1>2, <1>4 DEF CallsInOrder
<1> QED BY <1>1, <1>3, <1>4

LEMMA BeforeCall ==
    ASSUME CallsInOrder, NEW c \in DOMAIN Ops, NEW x \in Players
    PROVE  /\ Ops[c].op \in {"begin", "end"} => Started(x, c - 1) = StoppedBy(x, c - 1)
           /\ Ops[c].op = "end" => Ends(c - 1) < Begins(c - 1)
           /\ Ops[c].op \in {"startinput", "stopinput"} /\ Ops[c].n = x =>
                 Begins(c - 1) = Ends(c - 1)
           /\ Ops[c].op = "stopinput" /\ Ops[c].n = x => StoppedBy(x, c - 1) < Started(x, c - 1)
<1>1. c \in 0 .. Len(Ops) /\ c - 1 \in 0 .. Len(Ops)
  BY OpsAssumption
<1>2. /\ StoppedBy(x, c) <= Started(x, c)
      /\ StoppedBy(x, c) # Started(x, c) => Begins(c) = Ends(c)
      /\ StoppedBy(x, c - 1) <= Started(x, c - 1)
      /\ StoppedBy(x, c - 1) # Started(x, c - 1) => Begins(c - 1) = Ends(c - 1)
      /\ Ends(c) <= Begins(c) /\ Ends(c - 1) <= Begins(c - 1)
  BY <1>1, InOrder, EndsAfterBegins
<1>3. /\ Begins(c - 1) \in Nat /\ Ends(c - 1) \in Nat
      /\ Begins(c) = IF Ops[c].op = "begin" THEN Begins(c - 1) + 1 ELSE Begins(c - 1)
      /\ Ends(c) = IF Ops[c].op = "end" THEN Ends(c - 1) + 1 ELSE Ends(c - 1)
  BY CallCounts
<1>4. /\ Started(x, c - 1) \in Nat /\ StoppedBy(x, c - 1) \in Nat
      /\ Started(x, c) = IF Ops[c].op = "startinput" /\ Ops[c].n = x
                         THEN Started(x, c - 1) + 1 ELSE Started(x, c - 1)
      /\ StoppedBy(x, c) = IF Ops[c].op = "stopinput" /\ Ops[c].n = x
                           THEN StoppedBy(x, c - 1) + 1 ELSE StoppedBy(x, c - 1)
  BY InputCounts
<1>5. PICK b, e, s, t, b1, e1, s1, t1 :
        /\ b = Begins(c - 1) /\ e = Ends(c - 1) /\ s = Started(x, c - 1) /\ t = StoppedBy(x, c - 1)
        /\ b1 = Begins(c) /\ e1 = Ends(c) /\ s1 = Started(x, c) /\ t1 = StoppedBy(x, c)
  OBVIOUS
<1>6. /\ t1 <= s1 /\ (t1 # s1 => b1 = e1) /\ t <= s /\ (t # s => b = e) /\ e1 <= b1 /\ e <= b
      /\ b \in Nat /\ e \in Nat /\ s \in Nat /\ t \in Nat
      /\ b1 = (IF Ops[c].op = "begin" THEN b + 1 ELSE b)
      /\ e1 = (IF Ops[c].op = "end" THEN e + 1 ELSE e)
      /\ s1 = (IF Ops[c].op = "startinput" /\ Ops[c].n = x THEN s + 1 ELSE s)
      /\ t1 = (IF Ops[c].op = "stopinput" /\ Ops[c].n = x THEN t + 1 ELSE t)
  BY <1>2, <1>3, <1>4, <1>5
<1>7. /\ Ops[c].op \in {"begin", "end"} => s = t
      /\ Ops[c].op = "end" => e < b
      /\ Ops[c].op \in {"startinput", "stopinput"} /\ Ops[c].n = x => b = e
      /\ Ops[c].op = "stopinput" /\ Ops[c].n = x => t < s
  BY <1>6
<1> QED BY <1>5, <1>7

(* What is read at most once in a call with nothing on its way.            *)
LEMMA ReadNothingElse ==
    ASSUME NEW d \in BOOLEAN, d \/ ChecksApart, NEW c \in DOMAIN Ops, CheckAt(c),
           CheckOn(d) = "main"
    PROVE  /\ ~d /\ Begins(c) = Ends(c)
           /\ \A x \in Players : StoppedBy(x, c) = Started(x, c)
BY DEF CheckOn, ChecksApart, CheckAt

(* The openings that are not ended are behind each other in the stream.    *)
LEMMA OpenPositions ==
    ASSUME CallsInOrder, NEW d \in BOOLEAN, d \/ ChecksApart,
           NEW q \in Players, NEW p \in Players, Kept(d, q, p),
           NEW c \in 0 .. Len(Ops), NEW b \in DOMAIN Ops, b <= c, Ops[b].op = "begin",
           Begins(b) > Ends(c)
    PROVE  SentBy(d, "main", q, p)[b - 1] =
              ReadBy(d, "main", q, p)[c] + (Begins(b) - Ends(c) - 1)
<1> DEFINE s == SentBy(d, "main", q, p)
           r == ReadBy(d, "main", q, p)
           P(m) == b <= m /\ Begins(b) > Ends(m) => s[b - 1] = r[m] + (Begins(b) - Ends(m) - 1)
           M == {m \in Nat : m <= Len(Ops) => P(m)}
<1>1. b \in Nat \ {0} /\ "main" \in Channels
  BY OpsAssumption DEF Channels
<1>5. \A x \in DOMAIN Ops : r[x] = r[x - 1] + Reading(d, "main", q, p, x) /\ r[x - 1] \in Nat
  BY <1>1, MessageCounts
<1>2. 0 \in M
  BY <1>1
<1>3. ASSUME NEW m \in Nat, m \in M PROVE m + 1 \in M
  <2> SUFFICES ASSUME m + 1 <= Len(Ops), b <= m + 1, Begins(b) > Ends(m + 1)
               PROVE  s[b - 1] = r[m + 1] + (Begins(b) - Ends(m + 1) - 1)
    OBVIOUS
  <2>1. PICK x \in DOMAIN Ops : x = m + 1 /\ x - 1 = m /\ (P(m) /\ x \in Nat)
    <3>2. PICK l \in Nat : l = Len(Ops) /\ DOMAIN Ops = 1 .. l
      BY OpsAssumption
    <3>1. m + 1 \in DOMAIN Ops /\ (m + 1) - 1 = m /\ m <= Len(Ops) /\ m + 1 \in Nat
      BY <3>2
    <3> QED BY <1>3, <3>1
  <2>2. r[x] = r[m] + Reading(d, "main", q, p, x) /\ r[m] \in Nat
    BY <1>5, <2>1
  <2>3. /\ Begins(m) \in Nat /\ Ends(m) \in Nat /\ Begins(b) \in Nat
        /\ Begins(x) = IF Ops[x].op = "begin" THEN Begins(m) + 1 ELSE Begins(m)
        /\ Ends(x) = IF Ops[x].op = "end" THEN Ends(m) + 1 ELSE Ends(m)
    BY <1>1, <2>1, CallCounts, CountTypes
  <2>4. CASE b = x
    <3>1. Ops[x].op = "begin" /\ Started(q, m) = StoppedBy(q, m)
      BY <2>1, <2>4, BeforeCall
    <3>2. Reading(d, "main", q, p, x) = 0
      BY <1>1, <3>1, CallMessages
    <3>3. m \in 0 .. Len(Ops)
      BY <2>1
    <3>4. Started(q, m) \in Nat
      BY <3>3, InOrder
    <3>5. s[m] = r[m] + (Begins(m) - Ends(m))
      <4>1. s[m] = r[m] + Pending(d, q, p, m)
        BY <3>3, Balance
      <4>3. PICK st, a, e : st = Started(q, m) /\ a = Begins(m) /\ e = Ends(m)
        OBVIOUS
      <4>2. Pending(d, q, p, m) = a - e
        <5>1. Pending(d, q, p, m) = (a - e) + (st - st)
          BY <3>1, <4>3 DEF Pending
        <5>2. st \in Nat /\ a \in Nat /\ e \in Nat
          BY <2>3, <3>4, <4>3
        <5> QED BY <5>1, <5>2
      <4> QED BY <4>1, <4>2, <4>3
    <3>6. b - 1 = m /\ Begins(b) = Begins(m) + 1 /\ Ends(x) = Ends(m)
      BY <2>1, <2>3, <2>4, <3>1
    <3> HIDE DEF s, r
    <3>7. s[m] = r[x] + (Begins(b) - Ends(x) - 1)
      BY <2>2, <2>3, <3>2, <3>5, <3>6
    <3> QED BY <2>1, <3>6, <3>7
  <2>5. CASE b # x
    <3>1. b <= m /\ b <= x
      BY <1>1, <2>1, <2>5
    <3>2. Begins(b) <= Begins(m) /\ Begins(b) <= Begins(x)
      BY <1>1, <2>1, <3>1, CountsGrow
    <3>3. Begins(b) > Ends(m) /\ Begins(b) > Ends(x)
      BY <2>1, <2>3
    <3> HIDE DEF s, r
    <3>4. s[b - 1] = r[m] + (Begins(b) - Ends(m) - 1)
      BY <2>1, <3>1, <3>3
    <3>5. ~CheckAt(x) \/ CheckOn(d) # "main"
      <4>1. Begins(x) # Ends(x)
        BY <2>3, <3>2, <3>3
      <4> QED BY <4>1, ReadNothingElse
    <3>6. Reading(d, "main", q, p, x) = IF Ops[x].op = "end" THEN 1 ELSE 0
      <4>1. Ops[x].op \in {"begin", "end", "check", "startinput", "stopinput"}
        BY CallIs
      <4>2. CASE Ops[x].op \in {"begin", "startinput"}
        BY <1>1, <4>2, CallMessages
      <4>3. CASE Ops[x].op = "stopinput"
        <5>1. Ops[x].n # q
          <6>1. Begins(m) # Ends(m)
            BY <2>3, <3>2, <3>3
          <6> QED BY <2>1, <4>3, <6>1, BeforeCall
        <5> QED BY <1>1, <4>3, <5>1, CallMessages
      <4>4. CASE Ops[x].op \in {"end", "check"}
        <5>1. /\ Reading(d, "main", q, p, x) = Returning(d, "main", q, p, x) +
                    (IF "main" = CheckOn(d) /\ CheckAt(x) THEN 2 ELSE 0)
              /\ Returning(d, "main", q, p, x) = IF Ops[x].op = "end" THEN 1 ELSE 0
          BY <1>1, <4>4, CallMessages
        <5> QED BY <3>5, <5>1
      <4> QED BY <4>1, <4>2, <4>3, <4>4
    <3>7. s[b - 1] = r[x] + (Begins(b) - Ends(x) - 1)
      <4>1. PICK k, e, u, v : k = Begins(b) /\ e = Ends(m) /\ u = s[b - 1] /\ v = r[m]
        OBVIOUS
      <4>2. PICK e1, v1 : e1 = Ends(x) /\ v1 = r[x]
        OBVIOUS
      <4>3. /\ u = v + (k - e - 1) /\ k \in Nat /\ e \in Nat /\ v \in Nat
            /\ e1 = (IF Ops[x].op = "end" THEN e + 1 ELSE e)
            /\ v1 = v + (IF Ops[x].op = "end" THEN 1 ELSE 0)
        BY <2>2, <2>3, <3>4, <3>6, <4>1, <4>2
      <4>4. u = v1 + (k - e1 - 1)
        BY <4>3
      <4> QED BY <4>1, <4>2, <4>4
    <3> QED BY <2>1, <3>7
  <2> QED BY <2>4, <2>5
<1> HIDE DEF M
<1>4. c \in M /\ c <= Len(Ops)
  <2>1. c \in Nat /\ c <= Len(Ops)
    BY OpsAssumption
  <2> QED BY <1>2, <1>3, <2>1, Induction
<1> QED BY <1>4 DEF M

(* The inputs of q that are not read are behind each other in the stream.  *)
LEMMA InputPositions ==
    ASSUME CallsInOrder, NEW d \in BOOLEAN, d \/ ChecksApart,
           NEW q \in Players, NEW p \in Players,
           NEW c \in 0 .. Len(Ops), NEW b \in DOMAIN Ops, b <= c,
           Ops[b].op = "startinput", Ops[b].n = q, Started(q, b) > StoppedBy(q, c)
    PROVE  SentBy(d, "main", q, p)[b - 1] =
              ReadBy(d, "main", q, p)[c] + (Started(q, b) - StoppedBy(q, c) - 1)
<1> DEFINE s == SentBy(d, "main", q, p)
           r == ReadBy(d, "main", q, p)
           P(m) == b <= m /\ Started(q, b) > StoppedBy(q, m) =>
                      s[b - 1] = r[m] + (Started(q, b) - StoppedBy(q, m) - 1)
           M == {m \in Nat : m <= Len(Ops) => P(m)}
<1>1. b \in Nat \ {0} /\ b \in 0 .. Len(Ops) /\ "main" \in Channels
  BY OpsAssumption DEF Channels
<1>5. \A x \in DOMAIN Ops : r[x] = r[x - 1] + Reading(d, "main", q, p, x) /\ r[x - 1] \in Nat
  BY <1>1, MessageCounts
<1>2. 0 \in M
  BY <1>1
<1>3. ASSUME NEW m \in Nat, m \in M PROVE m + 1 \in M
  <2> SUFFICES ASSUME m + 1 <= Len(Ops), b <= m + 1, Started(q, b) > StoppedBy(q, m + 1)
               PROVE  s[b - 1] = r[m + 1] + (Started(q, b) - StoppedBy(q, m + 1) - 1)
    OBVIOUS
  <2>1. PICK x \in DOMAIN Ops : x = m + 1 /\ x - 1 = m /\ (P(m) /\ x \in Nat)
    <3>2. PICK l \in Nat : l = Len(Ops) /\ DOMAIN Ops = 1 .. l
      BY OpsAssumption
    <3>1. m + 1 \in DOMAIN Ops /\ (m + 1) - 1 = m /\ m <= Len(Ops) /\ m + 1 \in Nat
      BY <3>2
    <3> QED BY <1>3, <3>1
  <2>2. r[x] = r[m] + Reading(d, "main", q, p, x) /\ r[m] \in Nat
    BY <1>5, <2>1
  <2>3. /\ Started(q, m) \in Nat /\ StoppedBy(q, m) \in Nat /\ Started(q, b) \in Nat
        /\ Started(q, x) = IF Ops[x].op = "startinput" /\ Ops[x].n = q
                           THEN Started(q, m) + 1 ELSE Started(q, m)
        /\ StoppedBy(q, x) = IF Ops[x].op = "stopinput" /\ Ops[x].n = q
                             THEN StoppedBy(q, m) + 1 ELSE StoppedBy(q, m)
    <3>1. Started(q, b) \in Nat
      BY <1>1, InOrder
    <3>2. /\ Started(q, m) \in Nat /\ StoppedBy(q, m) \in Nat
          /\ Started(q, x) = IF Ops[x].op = "startinput" /\ Ops[x].n = q
                             THEN Started(q, m) + 1 ELSE Started(q, m)
          /\ StoppedBy(q, x) = IF Ops[x].op = "stopinput" /\ Ops[x].n = q
                               THEN StoppedBy(q, m) + 1 ELSE StoppedBy(q, m)
      <4>1. x \in DOMAIN Ops /\ x - 1 = m
        BY <2>1
      <4>2. /\ Started(q, x - 1) \in Nat /\ StoppedBy(q, x - 1) \in Nat
            /\ Started(q, x) = IF Ops[x].op = "startinput" /\ Ops[x].n = q
                               THEN Started(q, x - 1) + 1 ELSE Started(q, x - 1)
            /\ StoppedBy(q, x) = IF Ops[x].op = "stopinput" /\ Ops[x].n = q
                                 THEN StoppedBy(q, x - 1) + 1 ELSE StoppedBy(q, x - 1)
        BY <4>1, InputCounts
      <4> QED BY <4>1, <4>2
    <3> QED BY <3>1, <3>2
  <2>4. m \in 0 .. Len(Ops) /\ x \in 0 .. Len(Ops)
    BY <2>1
  <2>5. CASE b = x
    <3>1. Begins(m) = Ends(m) /\ Begins(m) \in Nat
      BY <2>1, <2>5, BeforeCall, CallCounts
    <3>2. Reading(d, "main", q, p, x) = 0
      BY <1>1, <2>5, CallMessages
    <3>3. s[m] = r[m] + (Started(q, m) - StoppedBy(q, m))
      <4>1. s[m] = r[m] + Pending(d, q, p, m)
        BY <2>4, Balance
      <4>2. Pending(d, q, p, m) = Started(q, m) - StoppedBy(q, m)
        BY <2>3, <3>1 DEF Pending
      <4> QED BY <4>1, <4>2
    <3>4. b - 1 = m /\ Started(q, b) = Started(q, m) + 1 /\ StoppedBy(q, x) = StoppedBy(q, m)
      BY <2>1, <2>3, <2>5
    <3> HIDE DEF s, r
    <3>5. s[m] = r[x] + (Started(q, b) - StoppedBy(q, x) - 1)
      BY <2>2, <2>3, <3>2, <3>3, <3>4
    <3> QED BY <2>1, <3>4, <3>5
  <2>6. CASE b # x
    <3>1. b <= m /\ b <= x
      BY <1>1, <2>1, <2>6
    <3>2. Started(q, b) <= Started(q, m) /\ Started(q, b) <= Started(q, x)
      BY <1>1, <2>1, <3>1, CountsAreAmong, AmongGrows
    <3>3. Started(q, b) > StoppedBy(q, m) /\ Started(q, b) > StoppedBy(q, x)
      BY <2>1, <2>3
    <3> HIDE DEF s, r
    <3>4. s[b - 1] = r[m] + (Started(q, b) - StoppedBy(q, m) - 1)
      BY <2>1, <3>1, <3>3
    <3>5. Started(q, m) # StoppedBy(q, m) /\ Started(q, x) # StoppedBy(q, x)
      BY <2>3, <3>2, <3>3
    <3>6. ~CheckAt(x) \/ CheckOn(d) # "main"
      BY <3>5, ReadNothingElse
    <3>7. Reading(d, "main", q, p, x) = IF Ops[x].op = "stopinput" /\ Ops[x].n = q THEN 1 ELSE 0
      <4>1. Ops[x].op \in {"begin", "end", "check", "startinput", "stopinput"}
        BY CallIs
      <4>2. Ops[x].op \notin {"begin", "end"}
        BY <2>1, <3>5, BeforeCall
      <4>3. CASE Ops[x].op \in {"startinput", "stopinput"}
        BY <1>1, <4>3, CallMessages
      <4>4. CASE Ops[x].op = "check"
        BY <1>1, <3>6, <4>4, CallMessages
      <4> QED BY <4>1, <4>2, <4>3, <4>4
    <3>8. s[b - 1] = r[x] + (Started(q, b) - StoppedBy(q, x) - 1)
      <4>1. PICK k, e, u, v : k = Started(q, b) /\ e = StoppedBy(q, m) /\ u = s[b - 1] /\ v = r[m]
        OBVIOUS
      <4>2. PICK e1, v1 : e1 = StoppedBy(q, x) /\ v1 = r[x]
        OBVIOUS
      <4>3. /\ u = v + (k - e - 1) /\ k \in Nat /\ e \in Nat /\ v \in Nat
            /\ e1 = (IF Ops[x].op = "stopinput" /\ Ops[x].n = q THEN e + 1 ELSE e)
            /\ v1 = v + (IF Ops[x].op = "stopinput" /\ Ops[x].n = q THEN 1 ELSE 0)
        BY <2>2, <2>3, <3>4, <3>7, <4>1, <4>2
      <4>4. u = v1 + (k - e1 - 1)
        BY <4>3
      <4> QED BY <4>1, <4>2, <4>4
    <3> QED BY <2>1, <3>8
  <2> QED BY <2>5, <2>6
<1> HIDE DEF M
<1>4. c \in M /\ c <= Len(Ops)
  <2>1. c \in Nat /\ c <= Len(Ops)
    BY OpsAssumption
  <2> QED BY <1>2, <1>3, <2>1, Induction
<1> QED BY <1>4 DEF M

-----------------------------------------------------------------------------
(* What is read is what was expected.                                      *)

LEMMA ReadInTree ==
    ASSUME CallsInOrder, NEW q \in Players, NEW p \in Players, NEW c \in DOMAIN Ops,
           Ops[c].op = "begin", SumsTo(q, p) \/ Tells(q, p), ~Kept(FALSE, q, p)
    PROVE  /\ SentBy(FALSE, "main", q, p)[c - 1] = ReadBy(FALSE, "main", q, p)[c - 1]
           /\ Script(FALSE, "main", q, p, ReadBy(FALSE, "main", q, p)[c - 1] + 1) =
                 IF SumsTo(q, p) THEN PartialSum(Begins(c), Relative(q)) ELSE Complete(Begins(c))
<1> DEFINE s == SentBy(FALSE, "main", q, p)
           r == ReadBy(FALSE, "main", q, p)
<1>1. c - 1 \in 0 .. Len(Ops) /\ FALSE \in BOOLEAN /\ "main" \in Channels
  BY OpsAssumption DEF Channels
<1>2. s[c - 1] = r[c - 1]
  <2>1. s[c - 1] = r[c - 1] + Pending(FALSE, q, p, c - 1)
    BY <1>1, Balance
  <2>2. Started(q, c - 1) = StoppedBy(q, c - 1) /\ Started(q, c - 1) \in Nat
    BY BeforeCall, InputCounts
  <2>3. Pending(FALSE, q, p, c - 1) = 0
    BY <2>2 DEF Pending
  <2>4. r[c - 1] \in Nat
    BY <1>1, MessageCounts
  <2>5. s[c - 1] = r[c - 1] + 0
    BY <2>1, <2>3
  <2> HIDE DEF s, r
  <2> QED BY <2>4, <2>5
<1>3. Sending(FALSE, "main", q, p, c) = 1
  <2>1. PICK d : d = FALSE /\ d \in BOOLEAN
    OBVIOUS
  <2>2. Sending(d, "main", q, p, c) =
           IF "main" = "main" /\ (d \/ SumsTo(q, p) \/ Tells(q, p)) THEN 1 ELSE 0
    BY <1>1, <2>1, CallMessages
  <2> QED BY <2>1, <2>2
<1>4. 1 \in 1 .. Sending(FALSE, "main", q, p, c)
  <2>1. 1 \in 1 .. 1
    OBVIOUS
  <2> QED BY <1>3, <2>1
<1>5. Script(FALSE, "main", q, p, s[c - 1] + 1) = Message(FALSE, q, p, c, 1)
  BY <1>1, <1>4, ScriptAt
<1>6. Message(FALSE, q, p, c, 1) =
         IF SumsTo(q, p) THEN PartialSum(Begins(c), Relative(q)) ELSE Complete(Begins(c))
  BY DEF Message
<1> QED BY <1>2, <1>5, <1>6

LEMMA ReadAtEnd ==
    ASSUME CallsInOrder, NEW d \in BOOLEAN, d \/ ChecksApart, NEW q \in Players, NEW p \in Players,
           NEW c \in DOMAIN Ops, Ops[c].op = "end", Kept(d, q, p)
    PROVE  Script(d, "main", q, p, ReadBy(d, "main", q, p)[c - 1] + 1) =
              IF d THEN Share(Ends(c), q) ELSE Complete(Ends(c))
<1> DEFINE s == SentBy(d, "main", q, p)
           r == ReadBy(d, "main", q, p)
<1>1. PICK m : m = c - 1 /\ m \in Nat /\ m \in 0 .. Len(Ops) /\ m + 1 = c /\ "main" \in Channels
  BY OpsAssumption DEF Channels
<1>2. /\ Ends(c) = Ends(m) + 1 /\ Ends(m) \in Nat /\ Begins(m) \in Nat
      /\ Ends(m) < Begins(m)
  <2>1. Ends(c) = Ends(c - 1) + 1 /\ Ends(c - 1) \in Nat /\ Begins(c - 1) \in Nat
    BY CallCounts
  <2>2. Ends(c - 1) < Begins(c - 1)
    BY BeforeCall
  <2> QED BY <1>1, <2>1, <2>2
<1>3. Begins(m) = Among(CallsOf("begin"), m)
  BY <1>1, CountsAreAmong
<1>4. Ends(c) \in 1 .. Among(CallsOf("begin"), m)
  BY <1>2, <1>3
<1>5. PICK b \in 1 .. m : b \in CallsOf("begin") /\ Among(CallsOf("begin"), b) = Ends(c)
  BY <1>1, <1>4, AmongReaches
<1>6. b \in DOMAIN Ops /\ b \in Nat /\ b <= m /\ Ops[b].op = "begin"
  BY <1>1, <1>5, OpsAssumption DEF CallsOf
<1>7. Begins(b) = Ends(c)
  BY <1>5, <1>6, CountsAreAmong
<1>8. Begins(b) > Ends(m)
  BY <1>2, <1>7
<1>9. s[b - 1] = r[m] + (Begins(b) - Ends(m) - 1)
  BY <1>1, <1>6, <1>8, OpenPositions
<1>10. s[b - 1] = r[m]
  <2>1. r[m] \in Nat
    BY <1>1, MessageCounts
  <2> HIDE DEF s, r
  <2> QED BY <1>2, <1>7, <1>9, <2>1
<1>11. Sending(d, "main", q, p, b) = 1
  BY <1>1, <1>6, CallMessages DEF Kept
<1>12. 1 \in 1 .. Sending(d, "main", q, p, b)
  BY <1>11
<1>13. Script(d, "main", q, p, s[b - 1] + 1) = Message(d, q, p, b, 1)
  BY <1>1, <1>6, <1>12, ScriptAt
<1>14. ~d => ~SumsTo(q, p)
  BY NotBoth DEF Kept
<1>15. Message(d, q, p, b, 1) = IF d THEN Share(Ends(c), q) ELSE Complete(Ends(c))
  BY <1>6, <1>7, <1>14 DEF Message
<1> QED BY <1>1, <1>10, <1>13, <1>15

(* The start that a stop matches.                                          *)
LEMMA StartIs ==
    ASSUME CallsInOrder, NEW c \in DOMAIN Ops, Ops[c].op = "stopinput",
           NEW q \in Players, Ops[c].n = q
    PROVE  /\ StartOf(c) \in DOMAIN Ops /\ Matching(StartOf(c), c) /\ StartOf(c) <= c - 1
           /\ Ops[StartOf(c)].op = "startinput" /\ Ops[StartOf(c)].n = q
           /\ Started(q, StartOf(c)) = StoppedBy(q, c)
<1>1. PICK m : m = c - 1 /\ m \in Nat /\ m \in 0 .. Len(Ops) /\ m + 1 = c /\ c \in Nat
               /\ c \in 0 .. Len(Ops)
  BY OpsAssumption
<1>2. /\ StoppedBy(q, c) = StoppedBy(q, m) + 1 /\ StoppedBy(q, m) \in Nat
      /\ Started(q, m) \in Nat /\ StoppedBy(q, m) < Started(q, m)
  BY <1>1, InputCounts, BeforeCall
<1> DEFINE P == CallsLike(StartInput(q))
<1>3. Started(q, m) = Among(P, m)
  BY <1>1, CountsAreAmong
<1>4. StoppedBy(q, c) \in 1 .. Among(P, m)
  BY <1>2, <1>3
<1>5. PICK b \in 1 .. m : b \in P /\ Among(P, b) = StoppedBy(q, c)
  BY <1>1, <1>4, AmongReaches
<1>6. \A s \in DOMAIN Ops : Matching(s, c) <=> Ops[s] = StartInput(q)
                                              /\ Started(q, s) = StoppedBy(q, c)
  BY DEF Matching, Started, StoppedBy
<1>7. b \in DOMAIN Ops /\ b \in Nat /\ Ops[b] = StartInput(q)
  BY <1>1, <1>5, OpsAssumption DEF CallsLike
<1>8. Started(q, b) = StoppedBy(q, c)
  BY <1>5, <1>7, CountsAreAmong
<1> DEFINE s == StartOf(c)
<1>9. s \in DOMAIN Ops /\ Matching(s, c)
  <2>1. \E x \in DOMAIN Ops : Matching(x, c)
    BY <1>6, <1>7, <1>8
  <2> QED BY <2>1 DEF StartOf
<1> HIDE DEF s
<1>10. Ops[s] = StartInput(q) /\ Started(q, s) = StoppedBy(q, c)
  BY <1>6, <1>9
<1>11. Ops[s].op = "startinput" /\ Ops[s].n = q
  BY <1>9, <1>10, CallIs
<1>12. s <= m
  <2> SUFFICES ASSUME ~(s <= m) PROVE FALSE
    OBVIOUS
  <2>6. s \in Nat \ {0} /\ m \in Int
    BY <1>1, <1>9, OpsAssumption
  <2>1. s \in Nat /\ s - 1 \in Nat /\ m <= s - 1
    BY <2>6
  <2>2. Started(q, s) = Started(q, s - 1) + 1
    BY <1>9, <1>11, InputCounts
  <2>3. Among(P, m) <= Among(P, s - 1) /\ Started(q, s - 1) = Among(P, s - 1)
    BY <1>1, <2>1, AmongGrows, CountsAreAmong
  <2>4. Started(q, s - 1) \in Nat
    BY <1>9, InputCounts
  <2>5. Started(q, m) <= Started(q, s - 1)
    BY <1>3, <2>3
  <2> QED BY <1>2, <1>10, <2>2, <2>4, <2>5
<1> QED BY <1>1, <1>9, <1>10, <1>11, <1>12 DEF s

LEMMA ReadAtStop ==
    ASSUME CallsInOrder, NEW d \in BOOLEAN, d \/ ChecksApart, NEW q \in Players, NEW p \in Players,
           NEW c \in DOMAIN Ops, Ops[c].op = "stopinput", Ops[c].n = q
    PROVE  Script(d, "main", q, p, ReadBy(d, "main", q, p)[c - 1] + 1) = Masked(StartOf(c))
<1> DEFINE s == SentBy(d, "main", q, p)
           r == ReadBy(d, "main", q, p)
<1>1. PICK b : /\ b = StartOf(c) /\ b \in DOMAIN Ops /\ b <= c - 1
               /\ Ops[b].op = "startinput" /\ Ops[b].n = q /\ Started(q, b) = StoppedBy(q, c)
  BY StartIs
<1>2. PICK m : m = c - 1 /\ m \in 0 .. Len(Ops) /\ "main" \in Channels
  BY OpsAssumption DEF Channels
<1>3. StoppedBy(q, c) = StoppedBy(q, m) + 1 /\ StoppedBy(q, m) \in Nat
  BY <1>2, InputCounts
<1>4. Started(q, b) > StoppedBy(q, m) /\ b <= m
  BY <1>1, <1>2, <1>3
<1>5. s[b - 1] = r[m] + (Started(q, b) - StoppedBy(q, m) - 1)
  BY <1>1, <1>2, <1>4, InputPositions
<1>6. s[b - 1] = r[m]
  <2>1. r[m] \in Nat
    BY <1>2, MessageCounts
  <2> HIDE DEF s, r
  <2> QED BY <1>1, <1>3, <1>5, <2>1
<1>7. Sending(d, "main", q, p, b) = 1
  BY <1>1, <1>2, CallMessages
<1>8. 1 \in 1 .. Sending(d, "main", q, p, b)
  BY <1>7
<1>9. Script(d, "main", q, p, s[b - 1] + 1) = Message(d, q, p, b, 1)
  BY <1>1, <1>2, <1>8, ScriptAt
<1>10. Message(d, q, p, b, 1) = Masked(b)
  BY <1>1 DEF Message
<1> QED BY <1>1, <1>2, <1>6, <1>9, <1>10

LEMMA CheckMessages ==
    ASSUME NEW d \in BOOLEAN, NEW q \in Players, NEW p \in Players,
           NEW c \in DOMAIN Ops, CheckAt(c), NEW ch \in Channels, ch = CheckOn(d)
    PROVE  /\ Script(d, ch, q, p, SentBy(d, ch, q, p)[c - 1] + 1) = Seed(ChecksBefore(c), q)
           /\ Script(d, ch, q, p, SentBy(d, ch, q, p)[c - 1] + 2) = Tau(ChecksBefore(c), q, TRUE)
<1>1. Ops[c].op \in {"end", "check"}
  BY OpsAssumption DEF CheckAt, ChecksAt
<1>2. Sending(d, ch, q, p, c) = 2
  BY <1>1, CallMessages
<1>3. 1 \in 1 .. Sending(d, ch, q, p, c) /\ 2 \in 1 .. Sending(d, ch, q, p, c)
  BY <1>2
<1>4. /\ Script(d, ch, q, p, SentBy(d, ch, q, p)[c - 1] + 1) = Message(d, q, p, c, 1)
      /\ Script(d, ch, q, p, SentBy(d, ch, q, p)[c - 1] + 2) = Message(d, q, p, c, 2)
  BY <1>3, ScriptAt
<1>5. /\ Message(d, q, p, c, 1) = Seed(ChecksBefore(c), q)
      /\ Message(d, q, p, c, 2) = Tau(ChecksBefore(c), q, TRUE)
  <2>1. Ops[c].op # "begin" /\ Ops[c].op # "startinput"
    BY <1>1
  <2>2. /\ Message(d, q, p, c, 1) = Seed(ChecksBefore(c), q)
        /\ \A j : j # 1 => Message(d, q, p, c, j) = Tau(ChecksBefore(c), q, TRUE)
    BY <2>1 DEF Message
  <2>3. 2 # 1
    OBVIOUS
  <2> QED BY <2>2, <2>3
<1> QED BY <1>4, <1>5

(* As written by the channel that the check uses.                         *)
LEMMA CheckScript ==
    ASSUME NEW d \in BOOLEAN, NEW q \in Players, NEW p \in Players,
           NEW c \in DOMAIN Ops, CheckAt(c)
    PROVE  /\ Script(d, CheckOn(d), q, p, SentBy(d, CheckOn(d), q, p)[c - 1] + 1) =
                 Seed(ChecksBefore(c), q)
           /\ Script(d, CheckOn(d), q, p, SentBy(d, CheckOn(d), q, p)[c - 1] + 2) =
                 Tau(ChecksBefore(c), q, TRUE)
<1>1. CheckOn(d) \in Channels
  BY DEF CheckOn, Channels
<1>2. Script(d, CheckOn(d), q, p, SentBy(d, CheckOn(d), q, p)[c - 1] + 1) =
         Seed(ChecksBefore(c), q)
  BY <1>1, CheckMessages
<1>3. Script(d, CheckOn(d), q, p, SentBy(d, CheckOn(d), q, p)[c - 1] + 2) =
         Tau(ChecksBefore(c), q, TRUE)
  BY <1>1, CheckMessages
<1> QED BY <1>2, <1>3

LEMMA ReadInCheck ==
    ASSUME CallsInOrder, NEW d \in BOOLEAN, d \/ ChecksApart, NEW q \in Players, NEW p \in Players,
           NEW c \in DOMAIN Ops, CheckAt(c), NEW ch \in Channels, ch = CheckOn(d)
    PROVE  SentBy(d, ch, q, p)[c - 1] = ReadBy(d, ch, q, p)[c - 1] + Returning(d, ch, q, p, c)
<1> DEFINE s == SentBy(d, ch, q, p)
           r == ReadBy(d, ch, q, p)
<1>1. ch \in Channels /\ Ops[c].op \in {"end", "check"} /\ c \in 0 .. Len(Ops)
      /\ ch \in {"main", "check"}
  BY OpsAssumption DEF Channels, CheckOn, CheckAt, ChecksAt
<1>2. /\ Sending(d, ch, q, p, c) = 2
      /\ Reading(d, ch, q, p, c) = Returning(d, ch, q, p, c) + 2
      /\ Returning(d, ch, q, p, c) \in {0, 1}
  BY <1>1, CallMessages
<1>3. /\ s[c] = s[c - 1] + Sending(d, ch, q, p, c) /\ s[c - 1] \in Nat
      /\ r[c] = r[c - 1] + Reading(d, ch, q, p, c) /\ r[c - 1] \in Nat
      /\ s[c] \in Nat /\ r[c] \in Nat
  BY <1>1, MessageCounts
<1>4. s[c] = r[c]
  <2>1. CASE ch = "check"
    BY <1>1, <2>1, Balance
  <2>2. CASE ch = "main"
    <3>1. SentBy(d, "main", q, p)[c] = ReadBy(d, "main", q, p)[c] + Pending(d, q, p, c)
      BY <1>1, Balance
    <3>2. Begins(c) = Ends(c) /\ StoppedBy(q, c) = Started(q, c)
      BY <2>2, ReadNothingElse
    <3>3. Begins(c) \in Nat /\ Started(q, c) \in Nat
      BY <1>1, EndsAfterBegins, InOrder, CountTypes
    <3>4. Pending(d, q, p, c) = 0
      BY <3>2, <3>3 DEF Pending
    <3>5. s[c] = r[c] + 0
      BY <2>2, <3>1, <3>4
    <3> HIDE DEF s, r
    <3> QED BY <1>3, <3>5
  <2> QED BY <1>1, <2>1, <2>2
<1> HIDE DEF s, r
<1>5. s[c - 1] = r[c - 1] + Returning(d, ch, q, p, c)
  BY <1>2, <1>3, <1>4
<1> QED BY <1>5 DEF s, r

-----------------------------------------------------------------------------
(* Streams.                                                                *)

LEMMA FlowAppends ==
    ASSUME NEW s, NEW d, NEW ch, NEW q, NEW p, NEW a, NEW b, Flow(s, d, ch, q, p, a, b),
           NEW m, m = Script(d, ch, q, p, a + 1)
    PROVE  Flow(Append(s, m), d, ch, q, p, a + 1, b)
<1> DEFINE F(i) == Script(d, ch, q, p, i)
           X == {F(i) : i \in Int}
<1>1. a \in Nat /\ b \in Nat /\ b <= a /\ s = [i \in 1 .. a - b |-> F(b + i)]
  BY DEF Flow
<1>2. m = F(a + 1)
  OBVIOUS
<1>3. \A i \in Int : F(i) \in X
  OBVIOUS
<1> HIDE DEF F, X
<1>4. s \in Seq(X) /\ Len(s) = a - b /\ m \in X
  BY <1>1, <1>2, <1>3
<1>5. /\ Append(s, m) \in Seq(X) /\ Len(Append(s, m)) = a - b + 1
      /\ \A i \in 1 .. a - b : Append(s, m)[i] = s[i]
      /\ Append(s, m)[a - b + 1] = m
  BY <1>4
<1>6. Append(s, m) = [i \in 1 .. (a + 1) - b |-> Append(s, m)[i]]
  BY <1>1, <1>5
<1>7. \A i \in 1 .. (a + 1) - b : Append(s, m)[i] = F(b + i)
  <2> TAKE i \in 1 .. (a + 1) - b
  <2>1. CASE i \in 1 .. a - b
    BY <1>1, <1>5, <2>1
  <2>2. CASE i = a - b + 1
    <3>1. b + i = a + 1
      BY <1>1, <2>2
    <3> QED BY <1>2, <1>5, <2>2, <3>1
  <2> QED BY <1>1, <2>1, <2>2
<1>8. Append(s, m) = [i \in 1 .. (a + 1) - b |-> F(b + i)]
  BY <1>6, <1>7
<1>9. a + 1 \in Nat /\ b <= a + 1
  BY <1>1
<1> QED BY <1>1, <1>8, <1>9 DEF Flow, F

LEMMA FlowTails ==
    ASSUME NEW s, NEW d, NEW ch, NEW q, NEW p, NEW a, NEW b, Flow(s, d, ch, q, p, a, b),
           s # <<>>
    PROVE  /\ Head(s) = Script(d, ch, q, p, b + 1)
           /\ Flow(Tail(s), d, ch, q, p, a, b + 1)
<1> DEFINE F(i) == Script(d, ch, q, p, i)
           X == {F(i) : i \in Int}
<1>1. a \in Nat /\ b \in Nat /\ b <= a /\ s = [i \in 1 .. a - b |-> F(b + i)]
  BY DEF Flow
<1>2. \A i \in Int : F(i) \in X
  OBVIOUS
<1> HIDE DEF F, X
<1>3. s \in Seq(X) /\ Len(s) = a - b
  BY <1>1, <1>2
<1>4. Len(s) # 0
  BY <1>3
<1>5. b < a
  BY <1>1, <1>3, <1>4
<1>6. Head(s) = F(b + 1)
  BY <1>1, <1>3, <1>5
<1>7. /\ Tail(s) \in Seq(X) /\ Len(Tail(s)) = a - (b + 1)
      /\ \A i \in 1 .. a - (b + 1) : Tail(s)[i] = s[i + 1]
  <2>1. /\ Tail(s) \in Seq(X) /\ Len(Tail(s)) = Len(s) - 1
        /\ \A i \in 1 .. Len(Tail(s)) : Tail(s)[i] = s[i + 1]
    BY <1>3, HeadTailProperties
  <2>2. Len(s) - 1 = a - (b + 1)
    BY <1>1, <1>3
  <2> QED BY <2>1, <2>2
<1>8. Tail(s) = [i \in 1 .. a - (b + 1) |-> Tail(s)[i]]
  <2>1. Tail(s) \in [1 .. Len(Tail(s)) -> X]
    BY <1>7, LenProperties
  <2>2. Tail(s) \in [1 .. a - (b + 1) -> X]
    BY <1>7, <2>1
  <2> QED BY <2>2
<1>9. \A i \in 1 .. a - (b + 1) : Tail(s)[i] = F((b + 1) + i)
  <2> TAKE i \in 1 .. a - (b + 1)
  <2>1. i + 1 \in 1 .. a - b /\ b + (i + 1) = (b + 1) + i
    BY <1>1
  <2> QED BY <1>1, <1>7, <2>1
<1>10. Tail(s) = [i \in 1 .. a - (b + 1) |-> F((b + 1) + i)]
  BY <1>8, <1>9
<1>11. b + 1 \in Nat /\ b + 1 <= a
  BY <1>1, <1>5
<1> QED BY <1>1, <1>6, <1>10, <1>11 DEF Flow, F

(* What sending and taking do to every stream.                             *)
Streamed(g, f, c, p, to, from, m) ==
    /\ Shaped(g)
    /\ \A ch \in Channels : \A q, r \in Players :
          g[ch][q][r] = IF ch = c /\ q = p /\ r \in to THEN Append(f[ch][q][r], m)
                        ELSE IF ch = c /\ r = p /\ q \in from THEN Tail(f[ch][q][r])
                        ELSE f[ch][q][r]

LEMMA SendsAll ==
    ASSUME NEW f, Shaped(f), NEW c \in Channels, NEW p \in Players, NEW to, NEW m
    PROVE  Streamed(Sends(f, c, p, to, m), f, c, p, to, {}, m)
<1> DEFINE g == Sends(f, c, p, to, m)
<1>1. DOMAIN g = Channels
  BY DEF Sends, Shaped
<1>2. \A ch \in Channels : \A q \in Players :
         g[ch][q] = IF ch = c /\ q = p
                    THEN [r \in Players |-> IF r \in to THEN Append(f[c][p][r], m) ELSE f[c][p][r]]
                    ELSE f[ch][q]
  BY DEF Sends, Shaped
<1>3. \A ch \in Channels : DOMAIN g[ch] = Players
  BY DEF Sends, Shaped
<1> HIDE DEF g
<1>4. Shaped(g)
  <2>1. \A ch \in Channels : \A q \in Players : DOMAIN f[ch][q] = Players
    BY DEF Shaped
  <2>2. \A ch \in Channels : \A q \in Players : DOMAIN g[ch][q] = Players
    <3> TAKE ch \in Channels
    <3> TAKE q \in Players
    <3>1. CASE ch = c /\ q = p
      <4>1. g[ch][q] =
               [r \in Players |-> IF r \in to THEN Append(f[c][p][r], m) ELSE f[c][p][r]]
        BY <1>2, <3>1
      <4> QED BY <4>1
    <3>2. CASE ~(ch = c /\ q = p)
      <4>1. g[ch][q] = f[ch][q]
        BY <1>2, <3>2
      <4> QED BY <2>1, <4>1
    <3> QED BY <3>1, <3>2
  <2> QED BY <1>1, <1>3, <2>2 DEF Shaped
<1>5. \A ch \in Channels : \A q, r \in Players :
         g[ch][q][r] = IF ch = c /\ q = p /\ r \in to THEN Append(f[ch][q][r], m)
                       ELSE f[ch][q][r]
  <2> TAKE ch \in Channels
  <2> TAKE q, r \in Players
  <2>1. CASE ch = c /\ q = p
    <3>1. g[ch][q] =
             [x \in Players |-> IF x \in to THEN Append(f[c][p][x], m) ELSE f[c][p][x]]
      BY <1>2, <2>1
    <3> QED BY <2>1, <3>1
  <2>2. CASE ~(ch = c /\ q = p)
    <3>1. g[ch][q] = f[ch][q]
      BY <1>2, <2>2
    <3> QED BY <2>2, <3>1
  <2> QED BY <2>1, <2>2
<1> QED BY <1>4, <1>5 DEF Streamed, g

LEMMA TakesAll ==
    ASSUME NEW f, Shaped(f), NEW c \in Channels, NEW p \in Players, NEW from, NEW m
    PROVE  Streamed(Takes(f, c, p, from), f, c, p, {}, from, m)
<1> DEFINE g == Takes(f, c, p, from)
<1>1. DOMAIN g = Channels
  BY DEF Takes, Shaped
<1>2. \A ch \in Channels : \A q \in Players :
         g[ch][q] = IF ch = c /\ q \in from
                    THEN [f[c][q] EXCEPT ![p] = Tail(f[c][q][p])] ELSE f[ch][q]
  <2>1. c \in DOMAIN f
    BY DEF Shaped
  <2>2. g = [f EXCEPT ![c] = [q \in Players |->
              IF q \in from THEN [f[c][q] EXCEPT ![p] = Tail(f[c][q][p])] ELSE f[c][q]]]
    BY DEF Takes
  <2>3. g[c] = [q \in Players |->
              IF q \in from THEN [f[c][q] EXCEPT ![p] = Tail(f[c][q][p])] ELSE f[c][q]]
    BY <2>1, <2>2
  <2>4. \A ch \in Channels : ch # c => g[ch] = f[ch]
    BY <2>2 DEF Shaped
  <2> QED BY <2>3, <2>4
<1>3. \A ch \in Channels : DOMAIN g[ch] = Players
  BY DEF Takes, Shaped
<1> HIDE DEF g
<1>4. Shaped(g)
  <2>1. \A ch \in Channels : \A q \in Players : DOMAIN f[ch][q] = Players
    BY DEF Shaped
  <2>2. \A ch \in Channels : \A q \in Players : DOMAIN g[ch][q] = Players
    <3> TAKE ch \in Channels
    <3> TAKE q \in Players
    <3>1. CASE ch = c /\ q \in from
      <4>1. g[ch][q] = [f[c][q] EXCEPT ![p] = Tail(f[c][q][p])]
        BY <1>2, <3>1
      <4>2. DOMAIN g[ch][q] = DOMAIN f[c][q]
        BY <4>1
      <4> QED BY <2>1, <4>2
    <3>2. CASE ~(ch = c /\ q \in from)
      <4>1. g[ch][q] = f[ch][q]
        BY <1>2, <3>2
      <4> QED BY <2>1, <4>1
    <3> QED BY <3>1, <3>2
  <2> QED BY <1>1, <1>3, <2>2 DEF Shaped
<1>5. \A ch \in Channels : \A q, r \in Players :
         g[ch][q][r] = IF ch = c /\ r = p /\ q \in from THEN Tail(f[ch][q][r]) ELSE f[ch][q][r]
  <2> TAKE ch \in Channels
  <2> TAKE q, r \in Players
  <2>1. CASE ch = c /\ q \in from
    <3>1. g[ch][q] = [f[c][q] EXCEPT ![p] = Tail(f[c][q][p])] /\ DOMAIN f[c][q] = Players
      BY <1>2, <2>1 DEF Shaped
    <3> QED BY <2>1, <3>1
  <2>2. CASE ~(ch = c /\ q \in from)
    <3>1. g[ch][q] = f[ch][q]
      BY <1>2, <2>2
    <3> QED BY <2>2, <3>1
  <2> QED BY <2>1, <2>2
<1> QED BY <1>4, <1>5 DEF Streamed, g

LEMMA SendsAndTakes ==
    ASSUME NEW f, Shaped(f), NEW c \in Channels, NEW p \in Players, NEW m,
           NEW to, p \notin to, NEW from, p \notin from
    PROVE  /\ Streamed(Takes(Sends(f, c, p, to, m), c, p, from), f, c, p, to, from, m)
           /\ Streamed(Sends(Takes(f, c, p, from), c, p, to, m), f, c, p, to, from, m)
<1> DEFINE s == Sends(f, c, p, to, m)
           t == Takes(f, c, p, from)
           st == Takes(s, c, p, from)
           ts == Sends(t, c, p, to, m)
<1>1. Streamed(s, f, c, p, to, {}, m) /\ Streamed(t, f, c, p, {}, from, m)
  BY SendsAll, TakesAll
<1>2. Shaped(s) /\ Shaped(t)
  BY <1>1 DEF Streamed
<1>3. Streamed(st, s, c, p, {}, from, m) /\ Streamed(ts, t, c, p, to, {}, m)
  BY <1>2, SendsAll, TakesAll
<1> HIDE DEF s, t, st, ts
<1>4. Streamed(st, f, c, p, to, from, m)
  BY <1>1, <1>3 DEF Streamed
<1>5. Streamed(ts, f, c, p, to, from, m)
  BY <1>1, <1>3 DEF Streamed
<1> QED BY <1>4, <1>5 DEF s, t, st, ts

-----------------------------------------------------------------------------
(* A party that moves from <<k, s, l>> to <<i, t, j>> writes m to r, or reads *)
(* from r, if it should.                                                   *)
Writes(d, ch, p, r, m, k, s, l, i, t, j) ==
    /\ Sent(d, ch, p, r, i, t, j) = Sent(d, ch, p, r, k, s, l) + 1
    /\ m = Script(d, ch, p, r, Sent(d, ch, p, r, k, s, l) + 1)
Silent(d, ch, p, r, k, s, l, i, t, j) ==
    Sent(d, ch, p, r, i, t, j) = Sent(d, ch, p, r, k, s, l)
Reads(d, ch, r, p, k, s, l, i, t, j) ==
    Read(d, ch, r, p, i, t, j) = Read(d, ch, r, p, k, s, l) + 1
Waits(d, ch, r, p, k, s, l, i, t, j) ==
    Read(d, ch, r, p, i, t, j) = Read(d, ch, r, p, k, s, l)

Moves(d, c, p, to, from, m, k, s, l, i, t, j) ==
    \A ch \in Channels : \A r \in Players \ {p} :
        /\ IF ch = c /\ r \in to THEN Writes(d, ch, p, r, m, k, s, l, i, t, j)
           ELSE Silent(d, ch, p, r, k, s, l, i, t, j)
        /\ IF ch = c /\ r \in from THEN Reads(d, ch, r, p, k, s, l, i, t, j)
           ELSE Waits(d, ch, r, p, k, s, l, i, t, j)

LEMMA StreamsGoOn ==
    ASSUME StreamsFlow, NEW p \in Players, NEW c \in Channels, NEW m,
           NEW to, p \notin to, NEW from, p \notin from,
           Streamed(stream', stream, c, p, to, from, m), direct' = direct,
           \A q \in Players \ {p} : pc'[q] = pc[q] /\ stage'[q] = stage[q] /\ sums'[q] = sums[q],
           \A q \in Players : q \in from => stream[c][q][p] # <<>>,
           Moves(direct, c, p, to, from, m, pc[p], stage[p], sums[p], pc'[p], stage'[p], sums'[p])
    PROVE  StreamsFlow' /\ Shaped(stream')
<1>1. Shaped(stream')
  BY DEF Streamed
<1>2. SUFFICES ASSUME NEW ch \in Channels, NEW q \in Players, NEW r \in Players \ {q}
               PROVE  Flow(stream'[ch][q][r], direct, ch, q, r,
                           Sent(direct, ch, q, r, pc'[q], stage'[q], sums'[q]),
                           Read(direct, ch, q, r, pc'[r], stage'[r], sums'[r]))
  BY <1>1 DEF StreamsFlow
<1> DEFINE a == Sent(direct, ch, q, r, pc[q], stage[q], sums[q])
           b == Read(direct, ch, q, r, pc[r], stage[r], sums[r])
           a1 == Sent(direct, ch, q, r, pc'[q], stage'[q], sums'[q])
           b1 == Read(direct, ch, q, r, pc'[r], stage'[r], sums'[r])
           f == stream[ch][q][r]
           g == stream'[ch][q][r]
<1>3. Flow(f, direct, ch, q, r, a, b)
  BY DEF StreamsFlow
<1>4. g = IF ch = c /\ q = p /\ r \in to THEN Append(f, m)
          ELSE IF ch = c /\ r = p /\ q \in from THEN Tail(f) ELSE f
  BY DEF Streamed
<1>5. /\ q # p => a1 = a
      /\ r # p => b1 = b
  OBVIOUS
<1>6. q = p => IF ch = c /\ r \in to
               THEN a1 = a + 1 /\ m = Script(direct, ch, q, r, a + 1)
               ELSE a1 = a
  BY DEF Moves, Writes, Silent
<1>7. r = p => IF ch = c /\ q \in from THEN b1 = b + 1 ELSE b1 = b
  BY DEF Moves, Reads, Waits
<1> HIDE DEF a, b, a1, b1
<1>8. CASE ch = c /\ q = p /\ r \in to
  <2>1. g = Append(f, m) /\ a1 = a + 1 /\ b1 = b /\ m = Script(direct, ch, q, r, a + 1)
    BY <1>4, <1>5, <1>6, <1>8
  <2> HIDE DEF f, g
  <2>2. Flow(Append(f, m), direct, ch, q, r, a + 1, b)
    BY <1>3, <2>1, FlowAppends
  <2> QED BY <2>1, <2>2 DEF a1, b1, g
<1>9. CASE ch = c /\ r = p /\ q \in from
  <2>1. g = Tail(f) /\ a1 = a /\ b1 = b + 1 /\ f # <<>>
    BY <1>4, <1>5, <1>7, <1>9
  <2> HIDE DEF f, g
  <2>2. Flow(Tail(f), direct, ch, q, r, a, b + 1)
    BY <1>3, <2>1, FlowTails
  <2> QED BY <2>1, <2>2 DEF a1, b1, g
<1>10. CASE ~(ch = c /\ q = p /\ r \in to) /\ ~(ch = c /\ r = p /\ q \in from)
  <2>1. g = f
    BY <1>4, <1>10
  <2>2. a1 = a
    BY <1>5, <1>6, <1>10
  <2>3. b1 = b
    BY <1>5, <1>7, <1>10
  <2> QED BY <1>3, <2>1, <2>2, <2>3 DEF a1, b1
<1> QED BY <1>8, <1>9, <1>10

LEMMA HeadIs ==
    ASSUME StreamsFlow, NEW ch \in Channels, NEW q \in Players, NEW p \in Players, q # p,
           stream[ch][q][p] # <<>>
    PROVE  Head(stream[ch][q][p]) =
              Script(direct, ch, q, p, Read(direct, ch, q, p, pc[p], stage[p], sums[p]) + 1)
<1>1. Flow(stream[ch][q][p], direct, ch, q, p,
           Sent(direct, ch, q, p, pc[q], stage[q], sums[q]),
           Read(direct, ch, q, p, pc[p], stage[p], sums[p]))
  BY DEF StreamsFlow
<1> QED BY <1>1, FlowTails

(* Nothing is sent and nothing read.                                       *)
Still(d, p, k, s, l, i, t, j) ==
    \A ch \in Channels : \A r \in Players \ {p} :
        Silent(d, ch, p, r, k, s, l, i, t, j) /\ Waits(d, ch, r, p, k, s, l, i, t, j)

LEMMA StreamsStay ==
    ASSUME StreamsFlow, Shaped(stream), NEW p \in Players, stream' = stream, direct' = direct,
           \A q \in Players \ {p} : pc'[q] = pc[q] /\ stage'[q] = stage[q] /\ sums'[q] = sums[q],
           Still(direct, p, pc[p], stage[p], sums[p], pc'[p], stage'[p], sums'[p])
    PROVE  StreamsFlow' /\ Shaped(stream')
<1>1. Streamed(stream', stream, "main", p, {}, {}, 0)
  BY DEF Streamed
<1>2. \A c, m : Moves(direct, c, p, {}, {}, m,
                      pc[p], stage[p], sums[p], pc'[p], stage'[p], sums'[p])
  BY DEF Moves, Still
<1>3. "main" \in Channels
  BY DEF Channels
<1> QED BY <1>1, <1>2, <1>3, StreamsGoOn

-----------------------------------------------------------------------------
(* How far the messages from q to p have come: s sent and r read before    *)
(* call c, x sent and y read in it, z of these as its result.              *)

One(b) == IF b THEN 1 ELSE 0

AtEnds(d, ch, q, p, c, s, r, x, y) ==
    /\ SentBy(d, ch, q, p)[c - 1] = s /\ ReadBy(d, ch, q, p)[c - 1] = r
    /\ Sending(d, ch, q, p, c) = x /\ Reading(d, ch, q, p, c) = y
    /\ \A l : /\ Sent(d, ch, q, p, c, "call", l) = s /\ Read(d, ch, q, p, c, "call", l) = r
              /\ Sent(d, ch, q, p, c + 1, "call", l) = s + x
              /\ Read(d, ch, q, p, c + 1, "call", l) = r + y
AtTree(d, ch, q, p, c, s, r) ==
    \A l : /\ Sent(d, ch, q, p, c, "sum", l) =
                 s + One(ch = "main" /\ SumsTo(q, p) /\ Relative(q) >= l)
           /\ Read(d, ch, q, p, c, "sum", l) =
                 r + One(ch = "main" /\ SumsTo(q, p) /\ Relative(q) >= l)
           /\ Sent(d, ch, q, p, c, "spread", l) = s + One(ch = "main" /\ SumsTo(q, p))
           /\ Read(d, ch, q, p, c, "spread", l) = r + One(ch = "main" /\ SumsTo(q, p))
AtCheck(d, ch, q, p, c, s, r, z) ==
    /\ Returning(d, ch, q, p, c) = z
    /\ \A l : /\ Sent(d, ch, q, p, c, "seed", l) = s
              /\ Sent(d, ch, q, p, c, "seeds", l) = IF ch = CheckOn(d) THEN s + 1 ELSE s
              /\ Sent(d, ch, q, p, c, "taus", l) = IF ch = CheckOn(d) THEN s + 2 ELSE s
              /\ Read(d, ch, q, p, c, "seed", l) = r + z
              /\ Read(d, ch, q, p, c, "seeds", l) = r + z
              /\ Read(d, ch, q, p, c, "taus", l) =
                    IF ch = CheckOn(d) THEN r + z + 1 ELSE r + z

LEMMA Standing ==
    ASSUME NEW d \in BOOLEAN, NEW ch \in Channels, NEW q \in Players, NEW p \in Players,
           NEW c \in DOMAIN Ops
    PROVE  \E s, r, x, y \in Nat :
              /\ AtEnds(d, ch, q, p, c, s, r, x, y)
              /\ AtTree(d, ch, q, p, c, s, r)
              /\ \E z \in Nat : AtCheck(d, ch, q, p, c, s, r, z)
<1>1. c - 1 \in 0 .. Len(Ops) /\ (c + 1) - 1 = c /\ c \in Nat
  BY OpsAssumption
<1>2. /\ SentBy(d, ch, q, p)[c] = SentBy(d, ch, q, p)[c - 1] + Sending(d, ch, q, p, c)
      /\ ReadBy(d, ch, q, p)[c] = ReadBy(d, ch, q, p)[c - 1] + Reading(d, ch, q, p, c)
      /\ SentBy(d, ch, q, p)[c - 1] \in Nat /\ ReadBy(d, ch, q, p)[c - 1] \in Nat
  BY MessageCounts
<1>3. Sending(d, ch, q, p, c) \in {0, 1, 2} /\ Reading(d, ch, q, p, c) \in {0, 1, 2, 3}
  BY CallMessages
<1>4. PICK s, r, x, y \in Nat :
              /\ SentBy(d, ch, q, p)[c - 1] = s /\ ReadBy(d, ch, q, p)[c - 1] = r
              /\ Sending(d, ch, q, p, c) = x /\ Reading(d, ch, q, p, c) = y
              /\ SentBy(d, ch, q, p)[c] = s + x /\ ReadBy(d, ch, q, p)[c] = r + y
  BY <1>2, <1>3
<1>5. AtEnds(d, ch, q, p, c, s, r, x, y)
  <2>1. ASSUME NEW l
        PROVE  /\ Sent(d, ch, q, p, c, "call", l) = s /\ Read(d, ch, q, p, c, "call", l) = r
               /\ Sent(d, ch, q, p, c + 1, "call", l) = s + x
               /\ Read(d, ch, q, p, c + 1, "call", l) = r + y
    <3>1. /\ SentIn(d, ch, q, p, "call", l) = 0 /\ ReadIn(d, ch, q, p, c, "call", l) = 0
          /\ ReadIn(d, ch, q, p, c + 1, "call", l) = 0
      BY DEF SentIn, ReadIn, InCheckStage
    <3>2. /\ Sent(d, ch, q, p, c, "call", l) = s + 0 /\ Read(d, ch, q, p, c, "call", l) = r + 0
          /\ Sent(d, ch, q, p, c + 1, "call", l) = (s + x) + 0
          /\ Read(d, ch, q, p, c + 1, "call", l) = (r + y) + 0
      BY <1>1, <1>4, <3>1 DEF Sent, Read
    <3> QED BY <3>2
  <2> QED BY <1>4, <2>1 DEF AtEnds
<1>6. AtTree(d, ch, q, p, c, s, r)
  <2>1. ASSUME NEW l
        PROVE  /\ SentIn(d, ch, q, p, "sum", l) =
                     One(ch = "main" /\ SumsTo(q, p) /\ Relative(q) >= l)
               /\ ReadIn(d, ch, q, p, c, "sum", l) =
                     One(ch = "main" /\ SumsTo(q, p) /\ Relative(q) >= l)
               /\ SentIn(d, ch, q, p, "spread", l) = One(ch = "main" /\ SumsTo(q, p))
               /\ ReadIn(d, ch, q, p, c, "spread", l) = One(ch = "main" /\ SumsTo(q, p))
    BY DEF SentIn, ReadIn, InCheckStage, One
  <2> QED BY <1>4, <2>1 DEF AtTree, Sent, Read
<1>7. PICK z \in Nat : Returning(d, ch, q, p, c) = z
  <2>1. Returning(d, ch, q, p, c) \in {0, 1}
    BY CallMessages
  <2> QED BY <2>1
<1>8. AtCheck(d, ch, q, p, c, s, r, z)
  <2> SUFFICES ASSUME NEW l
               PROVE  /\ Sent(d, ch, q, p, c, "seed", l) = s
                      /\ Sent(d, ch, q, p, c, "seeds", l) = IF ch = CheckOn(d) THEN s + 1 ELSE s
                      /\ Sent(d, ch, q, p, c, "taus", l) = IF ch = CheckOn(d) THEN s + 2 ELSE s
                      /\ Read(d, ch, q, p, c, "seed", l) = r + z
                      /\ Read(d, ch, q, p, c, "seeds", l) = r + z
                      /\ Read(d, ch, q, p, c, "taus", l) =
                            IF ch = CheckOn(d) THEN r + z + 1 ELSE r + z
    BY <1>7 DEF AtCheck
  <2>1. /\ Sent(d, ch, q, p, c, "seed", l) = s + SentIn(d, ch, q, p, "seed", l)
        /\ Sent(d, ch, q, p, c, "seeds", l) = s + SentIn(d, ch, q, p, "seeds", l)
        /\ Sent(d, ch, q, p, c, "taus", l) = s + SentIn(d, ch, q, p, "taus", l)
        /\ Read(d, ch, q, p, c, "seed", l) = r + ReadIn(d, ch, q, p, c, "seed", l)
        /\ Read(d, ch, q, p, c, "seeds", l) = r + ReadIn(d, ch, q, p, c, "seeds", l)
        /\ Read(d, ch, q, p, c, "taus", l) = r + ReadIn(d, ch, q, p, c, "taus", l)
    BY <1>4 DEF Sent, Read
  <2>2. /\ SentIn(d, ch, q, p, "seed", l) = 0
        /\ SentIn(d, ch, q, p, "seeds", l) = IF ch = CheckOn(d) THEN 1 ELSE 0
        /\ SentIn(d, ch, q, p, "taus", l) = IF ch = CheckOn(d) THEN 2 ELSE 0
        /\ ReadIn(d, ch, q, p, c, "seed", l) = z + 0
        /\ ReadIn(d, ch, q, p, c, "seeds", l) = z + 0
        /\ ReadIn(d, ch, q, p, c, "taus", l) = z + (IF ch = CheckOn(d) THEN 1 ELSE 0)
    BY <1>7 DEF SentIn, ReadIn, InCheckStage
  <2>3. /\ Sent(d, ch, q, p, c, "seed", l) = s
        /\ Read(d, ch, q, p, c, "seed", l) = r + z /\ Read(d, ch, q, p, c, "seeds", l) = r + z
    BY <2>1, <2>2
  <2>4. CASE ch = CheckOn(d)
    BY <2>1, <2>2, <2>3, <2>4
  <2>5. CASE ch # CheckOn(d)
    BY <2>1, <2>2, <2>3, <2>5
  <2> QED BY <2>4, <2>5
<1> QED BY <1>5, <1>6, <1>8

(* The first message of a call.                                            *)
LEMMA FirstMessage ==
    ASSUME NEW d \in BOOLEAN, NEW ch \in Channels, NEW q \in Players, NEW p \in Players,
           NEW c \in DOMAIN Ops, Sending(d, ch, q, p, c) # 0
    PROVE  Script(d, ch, q, p, SentBy(d, ch, q, p)[c - 1] + 1) = Message(d, q, p, c, 1)
<1>1. Sending(d, ch, q, p, c) \in {0, 1, 2}
  BY CallMessages
<1>2. 1 \in 1 .. Sending(d, ch, q, p, c)
  BY <1>1
<1> QED BY <1>2, ScriptAt

-----------------------------------------------------------------------------
(* The moves of a party through the streams.                               *)

LEMMA TreeBegins ==
    ASSUME NEW p \in Players, NEW k \in DOMAIN Ops, NEW l
    PROVE  Still(FALSE, p, k, "call", l, k, "sum", NPlayers)
<1> SUFFICES ASSUME NEW ch \in Channels, NEW r \in Players
             PROVE  /\ Silent(FALSE, ch, p, r, k, "call", l, k, "sum", NPlayers)
                    /\ Waits(FALSE, ch, r, p, k, "call", l, k, "sum", NPlayers)
  BY DEF Still
<1>1. \A q \in Players : Relative(q) \in Nat /\ Relative(q) < NPlayers /\ NPlayers \in Nat
  BY Ranked, PlayersAssumption DEF Ranks
<1>2. \A q \in Players : ~(Relative(q) >= NPlayers)
  BY <1>1
<1>3. FALSE \in BOOLEAN
  OBVIOUS
<1>4. Silent(FALSE, ch, p, r, k, "call", l, k, "sum", NPlayers)
  <2>1. PICK a, b, x, y \in Nat :
           AtEnds(FALSE, ch, p, r, k, a, b, x, y) /\ AtTree(FALSE, ch, p, r, k, a, b)
    BY <1>3, Standing
  <2>2. Sent(FALSE, ch, p, r, k, "call", l) = a
    BY <2>1 DEF AtEnds
  <2>3. Sent(FALSE, ch, p, r, k, "sum", NPlayers) = a + 0
    BY <1>2, <2>1 DEF AtTree, One
  <2>4. a + 0 = a
    OBVIOUS
  <2> QED BY <2>2, <2>3, <2>4 DEF Silent
<1>5. Waits(FALSE, ch, r, p, k, "call", l, k, "sum", NPlayers)
  <2>1. PICK a, b, x, y \in Nat :
           AtEnds(FALSE, ch, r, p, k, a, b, x, y) /\ AtTree(FALSE, ch, r, p, k, a, b)
    BY <1>3, Standing
  <2>2. Read(FALSE, ch, r, p, k, "call", l) = b
    BY <2>1 DEF AtEnds
  <2>3. Read(FALSE, ch, r, p, k, "sum", NPlayers) = b + 0
    BY <1>2, <2>1 DEF AtTree, One
  <2>4. b + 0 = b
    OBVIOUS
  <2> QED BY <2>2, <2>3, <2>4 DEF Waits
<1> QED BY <1>4, <1>5

LEMMA TreeTurns ==
    ASSUME NEW p \in Players, NEW k \in DOMAIN Ops, Ops[k].op = "begin",
           NEW i \in Turns, Level[i] > 0,
           NEW j, j = SumPlayers(Level[i]), NEW t, t = IF j = 0 THEN "spread" ELSE "sum",
           NEW m, Relative(p) < Level[i] => m = Part(Begins(k), i, Relative(p))
    PROVE  Moves(FALSE, "main", p, Receiver(p, j, Level[i]), Summands(p, j, Level[i]), m,
                 k, "sum", Level[i], k, t, j)
<1>1. PICK l \in Nat : l = Level[i] /\ l \in 0 .. NPlayers
  BY Turn, PlayersAssumption
<1>2. j \in Nat /\ j < l /\ i + 1 \in Turns /\ Level[i + 1] = j
  BY <1>1, Turn
<1> DEFINE In(q) == Relative(q) >= j /\ Relative(q) < l
<1>3. \A q \in Players : Relative(q) \in Nat
  BY Ranked, PlayersAssumption DEF Ranks
<1>4. SUFFICES ASSUME NEW ch \in Channels, NEW r \in Players \ {p}
      PROVE  /\ IF ch = "main" /\ r \in Receiver(p, j, l)
                THEN Writes(FALSE, ch, p, r, m, k, "sum", l, k, t, j)
                ELSE Silent(FALSE, ch, p, r, k, "sum", l, k, t, j)
             /\ IF ch = "main" /\ r \in Summands(p, j, l)
                THEN Reads(FALSE, ch, r, p, k, "sum", l, k, t, j)
                ELSE Waits(FALSE, ch, r, p, k, "sum", l, k, t, j)
  BY <1>1 DEF Moves
<1>5. /\ r \in Receiver(p, j, l) <=> SumsTo(p, r) /\ In(p)
      /\ r \in Summands(p, j, l) <=> SumsTo(r, p) /\ In(r)
  <2>1. /\ r \in Receiver(p, SumPlayers(Level[i]), Level[i]) <=>
             SumsTo(p, r) /\ SumPlayers(Level[i]) <= Relative(p) /\ Relative(p) < Level[i]
        /\ p \in Receiver(r, SumPlayers(Level[i]), Level[i]) <=>
             SumsTo(r, p) /\ SumPlayers(Level[i]) <= Relative(r) /\ Relative(r) < Level[i]
        /\ r \in Summands(p, SumPlayers(Level[i]), Level[i]) <=>
             p \in Receiver(r, SumPlayers(Level[i]), Level[i])
    BY SumsTurn
  <2> QED BY <1>1, <2>1, <1>2, <1>3
<1>6. FALSE \in BOOLEAN /\ t \in {"sum", "spread"} /\ (t = "spread" => j = 0)
  OBVIOUS
<1>7. IF ch = "main" /\ r \in Receiver(p, j, l)
      THEN Writes(FALSE, ch, p, r, m, k, "sum", l, k, t, j)
      ELSE Silent(FALSE, ch, p, r, k, "sum", l, k, t, j)
  <2>1. PICK a, b, x, y \in Nat :
           AtEnds(FALSE, ch, p, r, k, a, b, x, y) /\ AtTree(FALSE, ch, p, r, k, a, b)
    BY <1>6, Standing
  <2>2. Sent(FALSE, ch, p, r, k, "sum", l) =
           a + One(ch = "main" /\ SumsTo(p, r) /\ Relative(p) >= l)
    BY <2>1 DEF AtTree
  <2>3. Sent(FALSE, ch, p, r, k, t, j) =
           a + One(ch = "main" /\ SumsTo(p, r) /\ Relative(p) >= j)
    <3>1. /\ Sent(FALSE, ch, p, r, k, "sum", j) =
               a + One(ch = "main" /\ SumsTo(p, r) /\ Relative(p) >= j)
          /\ Sent(FALSE, ch, p, r, k, "spread", j) = a + One(ch = "main" /\ SumsTo(p, r))
      BY <2>1 DEF AtTree
    <3>2. j = 0 => Relative(p) >= j
      BY <1>3
    <3> QED BY <1>6, <3>1, <3>2 DEF One
  <2>4. CASE ch = "main" /\ r \in Receiver(p, j, l)
    <3>1. SumsTo(p, r) /\ In(p)
      BY <1>5, <2>4
    <3>2. ~(Relative(p) >= l)
      BY <1>3, <1>1, <3>1
    <3>3. Sent(FALSE, ch, p, r, k, "sum", l) = a + 0 /\ Sent(FALSE, ch, p, r, k, t, j) = a + 1
      BY <2>2, <2>3, <2>4, <3>1, <3>2 DEF One
    <3>12. a + 0 = a
      OBVIOUS
    <3>4. Sent(FALSE, ch, p, r, k, "sum", l) = a
      BY <3>3, <3>12
    <3>5. SentBy(FALSE, "main", p, r)[k - 1] = a /\ Sending(FALSE, "main", p, r, k) = x
      BY <2>1, <2>4 DEF AtEnds
    <3>6. Sending(FALSE, "main", p, r, k) # 0
      BY <3>1 DEF Sending
    <3>7. "main" \in Channels
      BY DEF Channels
    <3>8. Script(FALSE, "main", p, r, a + 1) = Message(FALSE, p, r, k, 1)
      BY <3>5, <3>6, <3>7, FirstMessage
    <3>9. Message(FALSE, p, r, k, 1) = PartialSum(Begins(k), Relative(p))
      BY <3>1 DEF Message
    <3>10. Sender(i, Relative(p))
      BY <1>1, <1>2, <3>1 DEF Sender
    <3>11. PartialSum(Begins(k), Relative(p)) = m
      BY <1>1, <1>3, <3>1, <3>10, PartSent
    <3> QED BY <2>4, <3>3, <3>4, <3>8, <3>9, <3>11 DEF Writes
  <2>5. CASE ~(ch = "main" /\ r \in Receiver(p, j, l))
    <3>1. (ch = "main" /\ SumsTo(p, r) /\ Relative(p) >= l)
          <=> (ch = "main" /\ SumsTo(p, r) /\ Relative(p) >= j)
      BY <1>1, <1>2, <1>3, <1>5, <2>5
    <3> QED BY <2>2, <2>3, <2>5, <3>1 DEF Silent, One
  <2> QED BY <2>4, <2>5
<1>8. IF ch = "main" /\ r \in Summands(p, j, l)
      THEN Reads(FALSE, ch, r, p, k, "sum", l, k, t, j)
      ELSE Waits(FALSE, ch, r, p, k, "sum", l, k, t, j)
  <2>1. PICK a, b, x, y \in Nat :
           AtEnds(FALSE, ch, r, p, k, a, b, x, y) /\ AtTree(FALSE, ch, r, p, k, a, b)
    BY <1>6, Standing
  <2>2. Read(FALSE, ch, r, p, k, "sum", l) =
           b + One(ch = "main" /\ SumsTo(r, p) /\ Relative(r) >= l)
    BY <2>1 DEF AtTree
  <2>3. Read(FALSE, ch, r, p, k, t, j) =
           b + One(ch = "main" /\ SumsTo(r, p) /\ Relative(r) >= j)
    <3>1. /\ Read(FALSE, ch, r, p, k, "sum", j) =
               b + One(ch = "main" /\ SumsTo(r, p) /\ Relative(r) >= j)
          /\ Read(FALSE, ch, r, p, k, "spread", j) = b + One(ch = "main" /\ SumsTo(r, p))
      BY <2>1 DEF AtTree
    <3>2. j = 0 => Relative(r) >= j
      BY <1>3
    <3> QED BY <1>6, <3>1, <3>2 DEF One
  <2>4. CASE ch = "main" /\ r \in Summands(p, j, l)
    <3>1. SumsTo(r, p) /\ In(r)
      BY <1>5, <2>4
    <3>2. ~(Relative(r) >= l)
      BY <1>3, <1>1, <3>1
    <3>3. Read(FALSE, ch, r, p, k, "sum", l) = b + 0 /\ Read(FALSE, ch, r, p, k, t, j) = b + 1
      BY <2>2, <2>3, <2>4, <3>1, <3>2 DEF One
    <3>12. b + 0 = b
      OBVIOUS
    <3>4. Read(FALSE, ch, r, p, k, "sum", l) = b
      BY <3>3, <3>12
    <3> QED BY <2>4, <3>3, <3>4 DEF Reads
  <2>5. CASE ~(ch = "main" /\ r \in Summands(p, j, l))
    <3>1. (ch = "main" /\ SumsTo(r, p) /\ Relative(r) >= l)
          <=> (ch = "main" /\ SumsTo(r, p) /\ Relative(r) >= j)
      BY <1>1, <1>2, <1>3, <1>5, <2>5
    <3> QED BY <2>2, <2>3, <2>5, <3>1 DEF Waits, One
  <2> QED BY <2>4, <2>5
<1> QED BY <1>7, <1>8

(* One call, between two of its stages, as numbers.                        *)
LEMMA SpreadMoves ==
    ASSUME NEW p \in Players, NEW k \in DOMAIN Ops, Ops[k].op = "begin", NEW l,
           NEW from, \A r \in Players \ {p} : r \in from <=> Tells(r, p) /\ ~IsLeaf(p)
    PROVE  Moves(FALSE, "main", p, Children(p), from, Complete(Begins(k)),
                 k, "spread", l, k + 1, "call", l)
<1> SUFFICES ASSUME NEW ch \in Channels, NEW r \in Players \ {p}
             PROVE  /\ IF ch = "main" /\ r \in Children(p)
                       THEN Writes(FALSE, ch, p, r, Complete(Begins(k)), k, "spread", l, k + 1, "call", l)
                       ELSE Silent(FALSE, ch, p, r, k, "spread", l, k + 1, "call", l)
                    /\ IF ch = "main" /\ r \in from
                       THEN Reads(FALSE, ch, r, p, k, "spread", l, k + 1, "call", l)
                       ELSE Waits(FALSE, ch, r, p, k, "spread", l, k + 1, "call", l)
  BY DEF Moves
<1>1. PICK d : d = FALSE /\ d \in BOOLEAN
  OBVIOUS
<1>2. ~(SumsTo(p, r) /\ Tells(p, r)) /\ ~(SumsTo(r, p) /\ Tells(r, p))
  BY NotBoth
<1>3. r \in Children(p) <=> Tells(p, r)
  BY DEF Tells
<1>4. IF ch = "main" /\ r \in Children(p)
      THEN Writes(d, ch, p, r, Complete(Begins(k)), k, "spread", l, k + 1, "call", l)
      ELSE Silent(d, ch, p, r, k, "spread", l, k + 1, "call", l)
  <2>1. PICK a, b, x, y \in Nat :
           AtEnds(d, ch, p, r, k, a, b, x, y) /\ AtTree(d, ch, p, r, k, a, b)
    BY <1>1, Standing
  <2>2. x = One(ch = "main" /\ (SumsTo(p, r) \/ Tells(p, r)))
    <3>1. Sending(d, ch, p, r, k) =
             IF ch = "main" /\ (d \/ SumsTo(p, r) \/ Tells(p, r)) THEN 1 ELSE 0
      BY <1>1, CallMessages
    <3>2. Sending(d, ch, p, r, k) = x
      BY <2>1 DEF AtEnds
    <3> QED BY <1>1, <3>1, <3>2 DEF One
  <2>3. /\ Sent(d, ch, p, r, k, "spread", l) = a + One(ch = "main" /\ SumsTo(p, r))
        /\ Sent(d, ch, p, r, k + 1, "call", l) = a + x
    BY <2>1 DEF AtTree, AtEnds
  <2>4. CASE ch = "main" /\ r \in Children(p)
    <3>1. Sent(d, ch, p, r, k, "spread", l) = a + 0 /\ Sent(d, ch, p, r, k + 1, "call", l) = a + 1
      BY <1>2, <1>3, <2>2, <2>3, <2>4 DEF One
    <3>2. Sent(d, ch, p, r, k, "spread", l) = a
      <4>1. a + 0 = a
        OBVIOUS
      <4> QED BY <3>1, <4>1
    <3>3. SentBy(d, ch, p, r)[k - 1] = a /\ Sending(d, ch, p, r, k) = 1
      BY <1>3, <2>1, <2>2, <2>4 DEF AtEnds, One
    <3>4. Script(d, ch, p, r, a + 1) = Message(d, p, r, k, 1)
      BY <1>1, <3>3, FirstMessage
    <3>5. Message(d, p, r, k, 1) = Complete(Begins(k))
      BY <1>1, <1>2, <1>3, <2>4 DEF Message
    <3> QED BY <2>4, <3>1, <3>2, <3>4, <3>5 DEF Writes
  <2>5. CASE ~(ch = "main" /\ r \in Children(p))
    <3>1. (ch = "main" /\ SumsTo(p, r)) <=> (ch = "main" /\ (SumsTo(p, r) \/ Tells(p, r)))
      BY <1>3, <2>5
    <3> QED BY <2>2, <2>3, <2>5, <3>1 DEF Silent, One
  <2> QED BY <2>4, <2>5
<1>5. IF ch = "main" /\ r \in from
      THEN Reads(d, ch, r, p, k, "spread", l, k + 1, "call", l)
      ELSE Waits(d, ch, r, p, k, "spread", l, k + 1, "call", l)
  <2>1. PICK a, b, x, y \in Nat :
           AtEnds(d, ch, r, p, k, a, b, x, y) /\ AtTree(d, ch, r, p, k, a, b)
    BY <1>1, Standing
  <2>2. y = One(ch = "main" /\ (SumsTo(r, p) \/ Tells(r, p)) /\ ~(Tells(r, p) /\ IsLeaf(p)))
    <3>1. Reading(d, ch, r, p, k) =
             IF ch = "main" /\ ~d /\ (SumsTo(r, p) \/ Tells(r, p)) /\ ~Kept(d, r, p)
             THEN 1 ELSE 0
      BY <1>1, CallMessages
    <3>2. Reading(d, ch, r, p, k) = y
      BY <2>1 DEF AtEnds
    <3>3. Kept(d, r, p) <=> Tells(r, p) /\ IsLeaf(p)
      BY <1>1 DEF Kept
    <3> QED BY <1>1, <3>1, <3>2, <3>3 DEF One
  <2>3. /\ Read(d, ch, r, p, k, "spread", l) = b + One(ch = "main" /\ SumsTo(r, p))
        /\ Read(d, ch, r, p, k + 1, "call", l) = b + y
    BY <2>1 DEF AtTree, AtEnds
  <2>4. CASE ch = "main" /\ r \in from
    <3>1. Read(d, ch, r, p, k, "spread", l) = b + 0 /\ Read(d, ch, r, p, k + 1, "call", l) = b + 1
      BY <1>2, <2>2, <2>3, <2>4 DEF One
    <3>2. b + 0 = b
      OBVIOUS
    <3> QED BY <2>4, <3>1, <3>2 DEF Reads
  <2>5. CASE ~(ch = "main" /\ r \in from)
    <3>1. (ch = "main" /\ SumsTo(r, p))
          <=> (ch = "main" /\ (SumsTo(r, p) \/ Tells(r, p)) /\ ~(Tells(r, p) /\ IsLeaf(p)))
      BY <1>2, <2>5
    <3> QED BY <2>2, <2>3, <2>5, <3>1 DEF Waits, One
  <2> QED BY <2>4, <2>5
<1> QED BY <1>1, <1>4, <1>5

LEMMA DirectMoves ==
    ASSUME NEW p \in Players, NEW k \in DOMAIN Ops, Ops[k].op = "begin", NEW l
    PROVE  Moves(TRUE, "main", p, Players \ {p}, {}, Share(Begins(k), p),
                 k, "call", l, k + 1, "call", l)
<1> SUFFICES ASSUME NEW ch \in Channels, NEW r \in Players \ {p}
             PROVE  /\ IF ch = "main" THEN Writes(TRUE, ch, p, r, Share(Begins(k), p),
                                                  k, "call", l, k + 1, "call", l)
                       ELSE Silent(TRUE, ch, p, r, k, "call", l, k + 1, "call", l)
                    /\ Waits(TRUE, ch, r, p, k, "call", l, k + 1, "call", l)
  BY DEF Moves
<1>1. PICK d \in BOOLEAN : d = TRUE
  OBVIOUS
<1>2. IF ch = "main" THEN Writes(d, ch, p, r, Share(Begins(k), p), k, "call", l, k + 1, "call", l)
      ELSE Silent(d, ch, p, r, k, "call", l, k + 1, "call", l)
  <2>1. PICK a, b, x, y \in Nat : AtEnds(d, ch, p, r, k, a, b, x, y)
    BY Standing
  <2>2. /\ Sent(d, ch, p, r, k, "call", l) = a /\ Sent(d, ch, p, r, k + 1, "call", l) = a + x
        /\ SentBy(d, ch, p, r)[k - 1] = a /\ Sending(d, ch, p, r, k) = x
    BY <2>1 DEF AtEnds
  <2>3. x = IF ch = "main" THEN 1 ELSE 0
    <3>1. Sending(d, ch, p, r, k) =
             IF ch = "main" /\ (d \/ SumsTo(p, r) \/ Tells(p, r)) THEN 1 ELSE 0
      BY CallMessages
    <3> QED BY <1>1, <2>2, <3>1
  <2>4. CASE ch = "main"
    <3>1. x = 1 /\ Sending(d, ch, p, r, k) # 0
      BY <2>2, <2>3, <2>4
    <3>2. Script(d, ch, p, r, a + 1) = Message(d, p, r, k, 1)
      BY <2>2, <3>1, FirstMessage
    <3>3. Message(d, p, r, k, 1) = Share(Begins(k), p)
      BY <1>1 DEF Message
    <3> QED BY <2>2, <2>4, <3>1, <3>2, <3>3 DEF Writes
  <2>5. CASE ch # "main"
    <3>1. a + x = a
      BY <2>3, <2>5
    <3> QED BY <2>2, <2>5, <3>1 DEF Silent
  <2> QED BY <2>4, <2>5
<1>3. Waits(d, ch, r, p, k, "call", l, k + 1, "call", l)
  <2>1. PICK a, b, x, y \in Nat : AtEnds(d, ch, r, p, k, a, b, x, y)
    BY Standing
  <2>2. /\ Read(d, ch, r, p, k, "call", l) = b /\ Read(d, ch, r, p, k + 1, "call", l) = b + y
        /\ Reading(d, ch, r, p, k) = y
    BY <2>1 DEF AtEnds
  <2>3. Reading(d, ch, r, p, k) =
           IF ch = "main" /\ ~d /\ (SumsTo(r, p) \/ Tells(r, p)) /\ ~Kept(d, r, p)
           THEN 1 ELSE 0
    BY CallMessages
  <2>4. y = 0
    BY <1>1, <2>2, <2>3
  <2>5. b + y = b
    BY <2>4
  <2> QED BY <2>2, <2>5 DEF Waits
<1> QED BY <1>1, <1>2, <1>3

LEMMA EndReads ==
    ASSUME NEW d \in BOOLEAN, NEW p \in Players, NEW k \in DOMAIN Ops,
           Ops[k].op \in {"end", "check"}, NEW l, NEW m, NEW from,
           \A r \in Players \ {p} : r \in from <=> Ops[k].op = "end" /\ Kept(d, r, p)
    PROVE  /\ Moves(d, "main", p, {}, from, m, k, "call", l, k, "seed", l)
           /\ ~CheckAt(k) => Moves(d, "main", p, {}, from, m, k, "call", l, k + 1, "call", l)
<1>1. ASSUME NEW ch \in Channels, NEW r \in Players \ {p}
      PROVE  /\ Silent(d, ch, p, r, k, "call", l, k, "seed", l)
             /\ ~CheckAt(k) => Silent(d, ch, p, r, k, "call", l, k + 1, "call", l)
  <2>1. PICK a, b, x, y, z \in Nat :
           AtEnds(d, ch, p, r, k, a, b, x, y) /\ AtCheck(d, ch, p, r, k, a, b, z)
    BY Standing
  <2>2. /\ Sent(d, ch, p, r, k, "call", l) = a /\ Sent(d, ch, p, r, k, "seed", l) = a
        /\ Sent(d, ch, p, r, k + 1, "call", l) = a + x /\ Sending(d, ch, p, r, k) = x
    BY <2>1 DEF AtEnds, AtCheck
  <2>3. Sending(d, ch, p, r, k) = IF ch = CheckOn(d) /\ CheckAt(k) THEN 2 ELSE 0
    BY CallMessages
  <2>4. ~CheckAt(k) => a + x = a
    BY <2>2, <2>3
  <2> QED BY <2>2, <2>4 DEF Silent
<1>2. ASSUME NEW ch \in Channels, NEW r \in Players \ {p}
      PROVE  /\ IF ch = "main" /\ r \in from THEN Reads(d, ch, r, p, k, "call", l, k, "seed", l)
                ELSE Waits(d, ch, r, p, k, "call", l, k, "seed", l)
             /\ ~CheckAt(k) =>
                IF ch = "main" /\ r \in from THEN Reads(d, ch, r, p, k, "call", l, k + 1, "call", l)
                ELSE Waits(d, ch, r, p, k, "call", l, k + 1, "call", l)
  <2>1. PICK a, b, x, y, z \in Nat :
           AtEnds(d, ch, r, p, k, a, b, x, y) /\ AtCheck(d, ch, r, p, k, a, b, z)
    BY Standing
  <2>2. /\ Read(d, ch, r, p, k, "call", l) = b /\ Read(d, ch, r, p, k, "seed", l) = b + z
        /\ Read(d, ch, r, p, k + 1, "call", l) = b + y
        /\ Reading(d, ch, r, p, k) = y /\ Returning(d, ch, r, p, k) = z
    BY <2>1 DEF AtEnds, AtCheck
  <2>3. Reading(d, ch, r, p, k) = Returning(d, ch, r, p, k) +
           (IF ch = CheckOn(d) /\ CheckAt(k) THEN 2 ELSE 0)
    BY CallMessages
  <2>4. ~CheckAt(k) => y = z
    BY <2>2, <2>3
  <2>5. z = IF ch = "main" /\ r \in from THEN 1 ELSE 0
    <3>1. CASE Ops[k].op = "end"
      <4>1. Returning(d, ch, r, p, k) = IF ch = "main" /\ Kept(d, r, p) THEN 1 ELSE 0
        BY <3>1, CallMessages
      <4>2. r \in from <=> Kept(d, r, p)
        BY <3>1
      <4> QED BY <2>2, <4>1, <4>2
    <3>2. CASE Ops[k].op = "check"
      <4>1. Returning(d, ch, r, p, k) = 0 /\ r \notin from
        BY <3>2, CallMessages
      <4> QED BY <2>2, <4>1
    <3> QED BY <3>1, <3>2
  <2>6. CASE ch = "main" /\ r \in from
    <3>1. b + z = b + 1 /\ (~CheckAt(k) => b + y = b + 1)
      BY <2>4, <2>5, <2>6
    <3> QED BY <2>2, <2>6, <3>1 DEF Reads
  <2>7. CASE ~(ch = "main" /\ r \in from)
    <3>1. b + z = b /\ (~CheckAt(k) => b + y = b)
      BY <2>4, <2>5, <2>7
    <3> QED BY <2>2, <2>7, <3>1 DEF Waits
  <2> QED BY <2>6, <2>7
<1> QED BY <1>1, <1>2 DEF Moves

LEMMA CheckMoves ==
    ASSUME CallsInOrder, NEW d \in BOOLEAN, d \/ ChecksApart, NEW p \in Players,
           NEW k \in DOMAIN Ops, CheckAt(k), NEW l, NEW m,
           NEW others, others = Players \ {p}
    PROVE  /\ Moves(d, CheckOn(d), p, others, {}, Seed(ChecksBefore(k), p), k, "seed", l, k, "seeds", l)
           /\ Moves(d, CheckOn(d), p, others, others, Tau(ChecksBefore(k), p, TRUE),
                    k, "seeds", l, k, "taus", l)
           /\ Moves(d, CheckOn(d), p, {}, others, m, k, "taus", l, k + 1, "call", l)
<1>1. Ops[k].op \in {"end", "check"}
  BY OpsAssumption DEF CheckAt, ChecksAt
<1>2. ASSUME NEW ch \in Channels, NEW r \in Players \ {p}
      PROVE  /\ ch = CheckOn(d) => /\ Writes(d, ch, p, r, Seed(ChecksBefore(k), p),
                                    k, "seed", l, k, "seeds", l)
                          /\ Writes(d, ch, p, r, Tau(ChecksBefore(k), p, TRUE),
                                    k, "seeds", l, k, "taus", l)
             /\ ch # CheckOn(d) => /\ Silent(d, ch, p, r, k, "seed", l, k, "seeds", l)
                          /\ Silent(d, ch, p, r, k, "seeds", l, k, "taus", l)
             /\ Silent(d, ch, p, r, k, "taus", l, k + 1, "call", l)
  <2>1. PICK a, b, x, y, z \in Nat :
           AtEnds(d, ch, p, r, k, a, b, x, y) /\ AtCheck(d, ch, p, r, k, a, b, z)
    BY Standing
  <2>2. /\ Sent(d, ch, p, r, k, "seed", l) = a
        /\ Sent(d, ch, p, r, k, "seeds", l) = IF ch = CheckOn(d) THEN a + 1 ELSE a
        /\ Sent(d, ch, p, r, k, "taus", l) = IF ch = CheckOn(d) THEN a + 2 ELSE a
        /\ Sent(d, ch, p, r, k + 1, "call", l) = a + x /\ Sending(d, ch, p, r, k) = x
        /\ SentBy(d, ch, p, r)[k - 1] = a
    BY <2>1 DEF AtEnds, AtCheck
  <2>3. Sending(d, ch, p, r, k) = IF ch = CheckOn(d) /\ CheckAt(k) THEN 2 ELSE 0
    BY <1>1, CallMessages
  <2>4. x = IF ch = CheckOn(d) THEN 2 ELSE 0
    BY <2>2, <2>3
  <2>5. CASE ch = CheckOn(d)
    <3>1. /\ Script(d, ch, p, r, a + 1) = Seed(ChecksBefore(k), p)
          /\ Script(d, ch, p, r, a + 2) = Tau(ChecksBefore(k), p, TRUE)
      <4>1. Script(d, CheckOn(d), p, r, SentBy(d, CheckOn(d), p, r)[k - 1] + 1) =
                  Seed(ChecksBefore(k), p)
        BY CheckScript
      <4>2. Script(d, CheckOn(d), p, r, SentBy(d, CheckOn(d), p, r)[k - 1] + 2) =
                  Tau(ChecksBefore(k), p, TRUE)
        BY CheckScript
      <4> QED BY <2>2, <2>5, <4>1, <4>2
    <3>2. (a + 1) + 1 = a + 2
      OBVIOUS
    <3>3. /\ Sent(d, ch, p, r, k, "seeds", l) = a + 1
          /\ Sent(d, ch, p, r, k, "taus", l) = (a + 1) + 1
          /\ Sent(d, ch, p, r, k, "taus", l) = Sent(d, ch, p, r, k + 1, "call", l)
      BY <2>2, <2>4, <2>5, <3>2
    <3>4. Script(d, ch, p, r, (a + 1) + 1) = Tau(ChecksBefore(k), p, TRUE)
      BY <3>1, <3>2
    <3> QED BY <2>2, <2>5, <3>1, <3>3, <3>4 DEF Writes, Silent
  <2>6. CASE ch # CheckOn(d)
    <3>1. a + x = a
      BY <2>4, <2>6
    <3> QED BY <2>2, <2>6, <3>1 DEF Silent
  <2> QED BY <2>5, <2>6
<1>3. ASSUME NEW ch \in Channels, NEW r \in Players \ {p}
      PROVE  /\ Waits(d, ch, r, p, k, "seed", l, k, "seeds", l)
             /\ ch = CheckOn(d) => /\ Reads(d, ch, r, p, k, "seeds", l, k, "taus", l)
                          /\ Reads(d, ch, r, p, k, "taus", l, k + 1, "call", l)
             /\ ch # CheckOn(d) => /\ Waits(d, ch, r, p, k, "seeds", l, k, "taus", l)
                          /\ Waits(d, ch, r, p, k, "taus", l, k + 1, "call", l)
  <2>1. PICK a, b, x, y, z \in Nat :
           AtEnds(d, ch, r, p, k, a, b, x, y) /\ AtCheck(d, ch, r, p, k, a, b, z)
    BY Standing
  <2>2. /\ Read(d, ch, r, p, k, "seed", l) = b + z /\ Read(d, ch, r, p, k, "seeds", l) = b + z
        /\ Read(d, ch, r, p, k, "taus", l) = IF ch = CheckOn(d) THEN b + z + 1 ELSE b + z
        /\ Read(d, ch, r, p, k + 1, "call", l) = b + y
        /\ Reading(d, ch, r, p, k) = y /\ Returning(d, ch, r, p, k) = z
    BY <2>1 DEF AtEnds, AtCheck
  <2>3. Reading(d, ch, r, p, k) = Returning(d, ch, r, p, k) +
           (IF ch = CheckOn(d) /\ CheckAt(k) THEN 2 ELSE 0)
    BY <1>1, CallMessages
  <2>4. y = z + (IF ch = CheckOn(d) THEN 2 ELSE 0)
    BY <2>2, <2>3
  <2>5. CASE ch = CheckOn(d)
    <3>1. b + y = (b + z + 1) + 1
      BY <2>4, <2>5
    <3> QED BY <2>2, <2>5, <3>1 DEF Reads, Waits
  <2>6. CASE ch # CheckOn(d)
    <3>1. b + y = b + z
      BY <2>4, <2>6
    <3> QED BY <2>2, <2>6, <3>1 DEF Waits
  <2> QED BY <2>5, <2>6
<1> QED BY <1>2, <1>3 DEF Moves

LEMMA InputMoves ==
    ASSUME NEW d \in BOOLEAN, NEW p \in Players, NEW k \in DOMAIN Ops, NEW l, NEW m
    PROVE  /\ Ops[k].op = "startinput" =>
                 \A to : (\A r \in Players \ {p} : r \in to <=> Ops[k].n = p) =>
                    Moves(d, "main", p, to, {}, Masked(k), k, "call", l, k + 1, "call", l)
           /\ Ops[k].op = "stopinput" =>
                 \A from : (\A r \in Players \ {p} : r \in from <=> Ops[k].n = r) =>
                    Moves(d, "main", p, {}, from, m, k, "call", l, k + 1, "call", l)
<1>1. ASSUME NEW ch \in Channels, NEW r \in Players \ {p}, Ops[k].op = "startinput"
      PROVE  /\ ch = "main" /\ Ops[k].n = p =>
                   Writes(d, ch, p, r, Masked(k), k, "call", l, k + 1, "call", l)
             /\ ~(ch = "main" /\ Ops[k].n = p) =>
                   Silent(d, ch, p, r, k, "call", l, k + 1, "call", l)
  <2>1. PICK a, b, x, y \in Nat : AtEnds(d, ch, p, r, k, a, b, x, y)
    BY Standing
  <2>2. /\ Sent(d, ch, p, r, k, "call", l) = a /\ Sent(d, ch, p, r, k + 1, "call", l) = a + x
        /\ SentBy(d, ch, p, r)[k - 1] = a /\ Sending(d, ch, p, r, k) = x
    BY <2>1 DEF AtEnds
  <2>3. Sending(d, ch, p, r, k) = IF ch = "main" /\ Ops[k].n = p THEN 1 ELSE 0
    BY <1>1, CallMessages
  <2>4. CASE ch = "main" /\ Ops[k].n = p
    <3>1. x = 1 /\ Sending(d, ch, p, r, k) # 0
      BY <2>2, <2>3, <2>4
    <3>2. Script(d, ch, p, r, a + 1) = Message(d, p, r, k, 1)
      BY <2>2, <3>1, FirstMessage
    <3>3. Message(d, p, r, k, 1) = Masked(k)
      BY <1>1 DEF Message
    <3> QED BY <2>2, <2>4, <3>1, <3>2, <3>3 DEF Writes
  <2>5. CASE ~(ch = "main" /\ Ops[k].n = p)
    <3>1. a + x = a
      BY <2>2, <2>3, <2>5
    <3> QED BY <2>2, <2>5, <3>1 DEF Silent
  <2> QED BY <2>4, <2>5
<1>2. ASSUME NEW ch \in Channels, NEW r \in Players \ {p}, Ops[k].op = "startinput"
      PROVE  Waits(d, ch, r, p, k, "call", l, k + 1, "call", l)
  <2>1. PICK a, b, x, y \in Nat : AtEnds(d, ch, r, p, k, a, b, x, y)
    BY Standing
  <2>2. /\ Read(d, ch, r, p, k, "call", l) = b /\ Read(d, ch, r, p, k + 1, "call", l) = b + y
        /\ Reading(d, ch, r, p, k) = y
    BY <2>1 DEF AtEnds
  <2>3. Reading(d, ch, r, p, k) = 0
    BY <1>2, CallMessages
  <2>4. b + y = b
    BY <2>2, <2>3
  <2> QED BY <2>2, <2>4 DEF Waits
<1>3. ASSUME NEW ch \in Channels, NEW r \in Players \ {p}, Ops[k].op = "stopinput"
      PROVE  Silent(d, ch, p, r, k, "call", l, k + 1, "call", l)
  <2>1. PICK a, b, x, y \in Nat : AtEnds(d, ch, p, r, k, a, b, x, y)
    BY Standing
  <2>2. /\ Sent(d, ch, p, r, k, "call", l) = a /\ Sent(d, ch, p, r, k + 1, "call", l) = a + x
        /\ Sending(d, ch, p, r, k) = x
    BY <2>1 DEF AtEnds
  <2>3. Sending(d, ch, p, r, k) = 0
    BY <1>3, CallMessages
  <2>4. a + x = a
    BY <2>2, <2>3
  <2> QED BY <2>2, <2>4 DEF Silent
<1>4. ASSUME NEW ch \in Channels, NEW r \in Players \ {p}, Ops[k].op = "stopinput"
      PROVE  /\ ch = "main" /\ Ops[k].n = r => Reads(d, ch, r, p, k, "call", l, k + 1, "call", l)
             /\ ~(ch = "main" /\ Ops[k].n = r) =>
                   Waits(d, ch, r, p, k, "call", l, k + 1, "call", l)
  <2>1. PICK a, b, x, y \in Nat : AtEnds(d, ch, r, p, k, a, b, x, y)
    BY Standing
  <2>2. /\ Read(d, ch, r, p, k, "call", l) = b /\ Read(d, ch, r, p, k + 1, "call", l) = b + y
        /\ Reading(d, ch, r, p, k) = y
    BY <2>1 DEF AtEnds
  <2>3. Reading(d, ch, r, p, k) = IF ch = "main" /\ Ops[k].n = r THEN 1 ELSE 0
    BY <1>4, CallMessages
  <2>4. CASE ch = "main" /\ Ops[k].n = r
    <3>1. b + y = b + 1
      BY <2>2, <2>3, <2>4
    <3> QED BY <2>2, <2>4, <3>1 DEF Reads
  <2>5. CASE ~(ch = "main" /\ Ops[k].n = r)
    <3>1. b + y = b
      BY <2>2, <2>3, <2>5
    <3> QED BY <2>2, <2>5, <3>1 DEF Waits
  <2> QED BY <2>4, <2>5
<1> QED BY <1>1, <1>2, <1>3, <1>4 DEF Moves

LEMMA StillIs ==
    ASSUME NEW d, NEW p, NEW c, NEW m, NEW k, NEW s, NEW l, NEW i, NEW t, NEW j,
           Moves(d, c, p, {}, {}, m, k, s, l, i, t, j)
    PROVE  Still(d, p, k, s, l, i, t, j)
BY DEF Moves, Still

-----------------------------------------------------------------------------
(* What is stored, opening by opening.                                     *)

LEMMA SizesArePositive ==
    ASSUME CallsInOrder, NEW k \in 1 .. Openings
    PROVE  SizeOf(k) \in Nat /\ SizeOf(k) > 0
<1>1. Len(Ops) \in Nat /\ Openings = Among(CallsOf("begin"), Len(Ops))
  BY NoCalls, CountsAreAmong DEF Openings
<1>2. PICK b \in 1 .. Len(Ops) : b \in CallsOf("begin") /\ Among(CallsOf("begin"), b) = k
  BY <1>1, AmongReaches
<1>3. b \in DOMAIN Ops /\ b \in Nat /\ Ops[b].op = "begin"
  BY <1>2, OpsAssumption DEF CallsOf
<1>4. Begins(b) = k
  BY <1>2, <1>3, CountsAreAmong
<1>5. SizeOf(k) = Ops[b].n
  BY <1>3, <1>4, SizeOfBegun
<1>6. Ops[b].n > 0 /\ Ops[b].n \in Nat
  BY <1>3, CallCounts DEF CallsInOrder
<1> QED BY <1>5, <1>6

LEMMA OnePlace ==
    ASSUME NEW k \in 1 .. Openings, NEW h \in 1 .. Openings,
           NEW j \in 1 .. SizeOf(k), NEW i \in 1 .. SizeOf(h),
           Total[k - 1] + j = Total[h - 1] + i
    PROVE  k = h /\ j = i
<1>1. Openings \in Nat
  BY CountTypes, NoCalls DEF Openings
<1>2. ASSUME NEW x \in 1 .. Openings, NEW y \in 1 .. Openings,
             NEW u \in 1 .. SizeOf(x), NEW v \in 1 .. SizeOf(y), x < y
      PROVE  Total[x - 1] + u < Total[y - 1] + v
  <2>1. /\ Total[x] = Total[x - 1] + SizeOf(x) /\ SizeOf(x) \in Nat /\ SizeOf(y) \in Nat
        /\ Total[x - 1] \in Nat /\ Total[y - 1] \in Nat /\ Total[x] \in Nat
    <3>1. x - 1 \in 0 .. Openings /\ y - 1 \in 0 .. Openings /\ x \in 0 .. Openings
      BY <1>1
    <3> QED BY <3>1, TotalFacts, SizesAreKnown
  <2>2. Total[x] <= Total[y - 1]
    <3>1. x \in 0 .. Openings /\ y - 1 \in 0 .. Openings /\ x <= y - 1
      BY <1>1, <1>2
    <3> QED BY <3>1, TotalGrows
  <2>3. u <= SizeOf(x) /\ u \in Nat /\ v \in Nat /\ v > 0
    BY <2>1
  <2> QED BY <2>1, <2>2, <2>3
<1>3. Total[k - 1] + j \in Nat
  <2>1. k - 1 \in 0 .. Openings
    BY <1>1
  <2>2. Total[k - 1] \in Nat /\ SizeOf(k) \in Nat
    BY <2>1, TotalFacts, SizesAreKnown
  <2> QED BY <2>2
<1>4. ~(k < h) /\ ~(h < k)
  BY <1>2, <1>3
<1>5. k = h
  BY <1>1, <1>4
<1>6. Total[k - 1] \in Nat /\ SizeOf(k) \in Nat
  <2>1. k - 1 \in 0 .. Openings
    BY <1>1
  <2> QED BY <2>1, TotalFacts, SizesAreKnown
<1> QED BY <1>5, <1>6

LEMMA EveryPlace ==
    ASSUME NEW e \in 0 .. Openings, NEW x \in 1 .. Total[e]
    PROVE  \E k \in 1 .. e : \E j \in 1 .. SizeOf(k) : x = Total[k - 1] + j
<1>1. Openings \in Nat
  BY CountTypes, NoCalls DEF Openings
<1> DEFINE N == {m \in Nat : m <= Openings => \A y \in 1 .. Total[m] :
                    \E k \in 1 .. m : \E j \in 1 .. SizeOf(k) : y = Total[k - 1] + j}
<1>2. 0 \in N
  BY TotalFacts
<1>3. ASSUME NEW m \in Nat, m \in N PROVE m + 1 \in N
  <2> SUFFICES ASSUME m + 1 <= Openings, NEW y \in 1 .. Total[m + 1]
               PROVE  \E k \in 1 .. m + 1 : \E j \in 1 .. SizeOf(k) : y = Total[k - 1] + j
    OBVIOUS
  <2>1. m \in 0 .. Openings /\ m + 1 \in 1 .. Openings /\ (m + 1) - 1 = m /\ m <= Openings
    BY <1>1
  <2>2. PICK a, b \in Nat : a = Total[m] /\ b = SizeOf(m + 1) /\ Total[m + 1] = a + b
    BY <2>1, TotalFacts, SizesAreKnown
  <2>3. CASE y <= a
    <3>1. y \in 1 .. Total[m]
      BY <2>2, <2>3
    <3>2. PICK k \in 1 .. m : \E j \in 1 .. SizeOf(k) : y = Total[k - 1] + j
      BY <1>3, <2>1, <3>1
    <3>3. k \in 1 .. m + 1
      OBVIOUS
    <3> QED BY <3>2, <3>3
  <2>4. CASE ~(y <= a)
    <3>1. y - a \in 1 .. b /\ y = a + (y - a)
      BY <2>2, <2>4
    <3>2. m + 1 \in 1 .. m + 1 /\ y - a \in 1 .. SizeOf(m + 1) /\ y = Total[(m + 1) - 1] + (y - a)
      BY <2>1, <2>2, <3>1
    <3> QED BY <3>2
  <2> QED BY <2>3, <2>4
<1> HIDE DEF N
<1>4. e \in Nat /\ e <= Openings /\ e \in N
  BY <1>1, <1>2, <1>3, Induction
<1> QED BY <1>4 DEF N

LEMMA BlocksAppended ==
    ASSUME NEW X, NEW f \in Seq(X), NEW u \in Int, NEW content, Blocks(f, u, content),
           NEW k \in 1 .. Openings, u + Len(f) = Total[k - 1],
           NEW x, x = content[k], NEW t, t = Places(x, SizeOf(k))
    PROVE  Blocks(f \o t, u, content)
<1>1. PICK n \in Nat : n = Len(f) /\ DOMAIN f = 1 .. n
  OBVIOUS
<1>2. PICK z \in Nat : z = SizeOf(k)
  BY SizesAreKnown
<1>3. PICK Y : X \subseteq Y /\ \A j \in 1 .. z : <<x, j>> \in Y
  <2>1. LET Z == X \cup {<<x, j>> : j \in 1 .. z}
        IN  X \subseteq Z /\ \A j \in 1 .. z : <<x, j>> \in Z
    OBVIOUS
  <2> QED BY <2>1
<1>4. t \in Seq(Y) /\ Len(t) = z /\ f \in Seq(Y) /\ \A j \in 1 .. z : t[j] = <<x, j>>
  BY <1>2, <1>3, PlacesSeq DEF Places
<1>5. /\ DOMAIN (f \o t) = 1 .. n + z
      /\ \A i \in 1 .. n : (f \o t)[i] = f[i]
      /\ \A i \in 1 .. z : (f \o t)[n + i] = t[i]
  <2>1. f \o t \in Seq(Y) /\ Len(f \o t) = n + z
    BY <1>1, <1>4, ConcatProperties
  <2>2. \A i \in 1 .. Len(f) + Len(t) : (f \o t)[i] = IF i <= Len(f) THEN f[i] ELSE t[i - Len(f)]
    BY <1>4, ConcatProperties
  <2>3. ASSUME NEW i \in 1 .. n PROVE (f \o t)[i] = f[i]
    <3>1. i \in 1 .. Len(f) + Len(t) /\ i <= Len(f)
      BY <1>1, <1>4
    <3> QED BY <2>2, <3>1
  <2>4. ASSUME NEW i \in 1 .. z PROVE (f \o t)[n + i] = t[i]
    <3>1. n + i \in 1 .. Len(f) + Len(t) /\ ~(n + i <= Len(f)) /\ (n + i) - Len(f) = i
      BY <1>1, <1>4
    <3> QED BY <2>2, <3>1
  <2> QED BY <2>1, <2>3, <2>4, LenProperties
<1>6. SUFFICES ASSUME NEW h \in 1 .. Openings, NEW j \in 1 .. SizeOf(h), NEW i \in 1 .. n + z,
                      u + i = Total[h - 1] + j
               PROVE  (f \o t)[i] = <<content[h], j>>
  BY <1>5 DEF Blocks
<1>7. CASE i <= n
  <2>1. i \in DOMAIN f
    BY <1>1, <1>7
  <2>2. f[i] = <<content[h], j>>
    BY <1>6, <2>1 DEF Blocks
  <2> QED BY <1>1, <1>5, <2>1, <2>2
<1>8. CASE ~(i <= n)
  <2>1. PICK v \in 1 .. z : i = n + v
    <3>1. i - n \in 1 .. z /\ i = n + (i - n)
      BY <1>8
    <3> QED BY <3>1
  <2>2. Total[k - 1] \in Int /\ Total[k - 1] = u + n
    BY <1>1
  <2>3. u + i = Total[k - 1] + v
    BY <2>1, <2>2
  <2>4. Total[k - 1] + v = Total[h - 1] + j /\ v \in 1 .. SizeOf(k)
    BY <1>2, <1>6, <2>3
  <2>5. k = h /\ v = j
    BY <2>4, OnePlace
  <2>6. (f \o t)[n + v] = <<x, v>>
    BY <1>4, <1>5
  <2> QED BY <2>1, <2>5, <2>6
<1> QED BY <1>7, <1>8

LEMMA BlocksCut ==
    ASSUME NEW X, NEW f \in Seq(X), NEW u \in Int, NEW content, Blocks(f, u, content),
           NEW n \in Nat, n <= Len(f)
    PROVE  Blocks(SubSeq(f, n + 1, Len(f)), u + n, content)
<1>1. PICK l \in Nat : l = Len(f) /\ DOMAIN f = 1 .. l /\ n <= l
  OBVIOUS
<1>2. PICK g : g = SubSeq(f, n + 1, l)
  OBVIOUS
<1>3. DOMAIN g = 1 .. l - n /\ \A i \in 1 .. l - n : g[i] = f[n + i]
  <2>1. PICK a : a = n + 1
    OBVIOUS
  <2>2. a \in 1 .. Len(f) + 1 /\ l \in a - 1 .. Len(f) /\ l - a + 1 = l - n
    BY <1>1, <2>1
  <2>3. /\ Len(SubSeq(f, a, l)) = (IF a <= l THEN l - a + 1 ELSE 0)
        /\ SubSeq(f, a, l) \in Seq(X)
        /\ \A i \in 1 .. l - a + 1 : SubSeq(f, a, l)[i] = f[a + i - 1]
    BY <1>1, <2>2, SubSeqProperties
  <2>6. g = SubSeq(f, a, l)
    BY <1>2, <2>1
  <2>7. (IF a <= l THEN l - a + 1 ELSE 0) = l - n
    BY <1>1, <2>1
  <2>4. g = SubSeq(f, a, l) /\ Len(g) = l - n /\ g \in Seq(X)
    BY <2>3, <2>6, <2>7
  <2>5. \A i \in 1 .. l - n : g[i] = f[n + i]
    <3> TAKE i \in 1 .. l - n
    <3>1. a + i - 1 = n + i /\ i \in 1 .. l - a + 1
      BY <2>1, <2>2
    <3> QED BY <2>3, <2>4, <3>1
  <2> QED BY <2>4, <2>5, LenProperties
<1>4. Blocks(g, u + n, content)
  <2> SUFFICES ASSUME NEW h \in 1 .. Openings, NEW j \in 1 .. SizeOf(h), NEW i \in 1 .. l - n,
                      (u + n) + i = Total[h - 1] + j
               PROVE  g[i] = <<content[h], j>>
    BY <1>3 DEF Blocks
  <2>1. n + i \in DOMAIN f /\ u + (n + i) = (u + n) + i
    BY <1>1
  <2>2. f[n + i] = <<content[h], j>>
    BY <2>1 DEF Blocks
  <2> QED BY <1>3, <2>2
<1> QED BY <1>1, <1>2, <1>4

(* An opening is written over.                                             *)
Overwritten(t, f, l, n, k, x) ==
    /\ DOMAIN f = 1 .. l /\ DOMAIN t = 1 .. l
    /\ \A i \in 1 .. l :
          t[i] = IF i \in n + 1 .. n + SizeOf(k) THEN <<x, i - n>> ELSE f[i]

LEMMA BlocksRewritten ==
    ASSUME NEW f, NEW l \in Nat, NEW u \in Int, NEW content, Blocks(f, u, content),
           NEW k \in 1 .. Openings, NEW n \in Int, u + n = Total[k - 1],
           NEW other, \A h \in 1 .. Openings : h # k => other[h] = content[h],
           NEW t, Overwritten(t, f, l, n, k, other[k])
    PROVE  Blocks(t, u, other)
<1>1. PICK z \in Nat : z = SizeOf(k)
  BY SizesAreKnown
<1>2. SUFFICES ASSUME NEW h \in 1 .. Openings, NEW j \in 1 .. SizeOf(h), NEW i \in 1 .. l,
                      u + i = Total[h - 1] + j
               PROVE  t[i] = <<other[h], j>>
  BY DEF Blocks, Overwritten
<1>3. PICK w \in Int : w = Total[k - 1] /\ u + n = w
  OBVIOUS
<1>4. CASE i \in n + 1 .. n + z
  <2>5. i - n \in 1 .. z /\ u + i = w + (i - n)
    BY <1>3, <1>4
  <2>1. i - n \in 1 .. SizeOf(k) /\ u + i = w + (i - n)
    BY <1>1, <2>5
  <2>2. Total[k - 1] + (i - n) = Total[h - 1] + j
    BY <1>2, <1>3, <2>1
  <2>3. k = h /\ i - n = j
    BY <2>1, <2>2, OnePlace
  <2>4. t[i] = <<other[k], i - n>>
    BY <1>1, <1>4 DEF Overwritten
  <2> QED BY <2>3, <2>4
<1>5. CASE i \notin n + 1 .. n + z
  <2>1. t[i] = f[i]
    BY <1>1, <1>5 DEF Overwritten
  <2>2. f[i] = <<content[h], j>>
    BY <1>2 DEF Blocks, Overwritten
  <2>3. h # k
    <3> SUFFICES ASSUME h = k PROVE FALSE
      OBVIOUS
    <3>1. u + i = w + j /\ j \in 1 .. z
      BY <1>1, <1>2, <1>3
    <3> QED BY <1>3, <1>5, <3>1
  <2> QED BY <2>1, <2>2, <2>3
<1> QED BY <1>4, <1>5

-----------------------------------------------------------------------------
(* Steps.  One party moves, the others have what they had.                 *)

Others(p) ==
    \A q \in Players \ {p} :
        /\ pc'[q] = pc[q] /\ stage'[q] = stage[q] /\ sums'[q] = sums[q]
        /\ values'[q] = values[q] /\ macs'[q] = macs[q] /\ vals'[q] = vals[q]
        /\ opened'[q] = opened[q] /\ input'[q] = input[q]

LEMMA SoundGoesOn ==
    ASSUME Sound, NEW p \in Players, direct' = direct, failed' = failed, Others(p),
           StreamsFlow', Shaped(stream'),
           DOMAIN sums' = Players, DOMAIN values' = Players,
           DOMAIN opened' = Players, DOMAIN input' = Players,
           Holds(direct, p, pc'[p], stage'[p], sums'[p], values'[p], macs'[p], vals'[p],
                 opened'[p], input'[p])
    PROVE  Sound'
<1>1. Domains'
  BY DEF Sound, Domains
<1>2. NobodyFails'
  BY DEF Sound, NobodyFails
<1>3. ASSUME NEW q \in Players
      PROVE  Holds(direct', q, pc'[q], stage'[q], sums'[q], values'[q], macs'[q], vals'[q],
                   opened'[q], input'[q])
  <2>1. CASE q = p
    BY <2>1
  <2>2. CASE q # p
    <3>1. q \in Players \ {p}
      BY <2>2
    <3>2. Holds(direct, q, pc[q], stage[q], sums[q], values[q], macs[q], vals[q],
                opened[q], input[q])
      BY DEF Sound, PartiesHold
    <3> QED BY <3>1, <3>2 DEF Others
  <2> QED BY <2>1, <2>2
<1>4. PartiesHold'
  BY <1>3 DEF PartiesHold
<1> QED BY <1>1, <1>2, <1>4 DEF Sound

LEMMA NoCheckMade ==
    ASSUME Inv, Inv', NEW p \in Players, NEW k \in DOMAIN Ops, k = pc[p],
           pc'[p] = k + 1, checks'[p] = checks[p]
    PROVE  ~CheckAt(k)
<1> SUFFICES ASSUME CheckAt(k) PROVE FALSE
  OBVIOUS
<1>1. PartyOK(pc[p], stage[p], Len(macs[p]), Len(vals[p]), popenCnt[p], checks[p],
              Late(direct, p), direct)
  BY DEF Inv, PartiesOK
<1>2. checks[p] = Ledger[k - 1].checks
  BY <1>1 DEF PartyOK
<1>3. PartyOK(pc[p], stage[p], Len(macs[p]), Len(vals[p]), popenCnt[p], checks[p],
              Late(direct, p), direct)'
  BY DEF Inv, PartiesOK
<1>4. checks'[p] = Ledger[pc'[p] - 1].checks
  BY <1>3 DEF PartyOK
<1>5. k \in Nat /\ (k + 1) - 1 = k /\ k - 1 \in 0 .. Len(Ops) /\ k \in 1 .. Len(Ops)
  BY OpsAssumption
<1>6. Ledger[k].checks = Ledger[k - 1].checks
  BY <1>2, <1>4, <1>5
<1>7. Ledger[k] = After(Ledger[k - 1], k) /\ Ledger[k - 1] \in Ledgers
  BY <1>5, LedgerFacts
<1>8. Ledger[k].checks = Append(Ledger[k - 1].checks, k)
  BY <1>7 DEF After, CheckAt
<1>9. PICK s : s = Ledger[k - 1].checks /\ s \in Seq(Nat)
  BY <1>7 DEF Ledgers
<1>10. Len(Append(s, k)) = Len(s) + 1 /\ Len(s) \in Nat
  BY <1>5, <1>9
<1>11. Append(s, k) = s
  BY <1>6, <1>8, <1>9
<1>12. PICK l \in Nat : l = Len(s)
  BY <1>10
<1>13. l + 1 = l
  BY <1>10, <1>11, <1>12
<1> QED BY <1>13

(* A party has come to the end of call k, or to the check that it makes.   *)
Settled(c, s, k) ==
    \/ c = k + 1 /\ s = "call" /\ ~CheckAt(k)
    \/ c = k /\ s = "seed" /\ CheckAt(k)

LEMMA Settles ==
    ASSUME Inv, Inv', NEW p \in Players, pc[p] \in DOMAIN Ops, checks' = checks,
           Return(p) \/ Stage(p, "seed")
    PROVE  /\ Settled(pc'[p], stage'[p], pc[p])
           /\ \A q \in Players \ {p} : pc'[q] = pc[q] /\ stage'[q] = stage[q]
<1>1. /\ DOMAIN pc = Players /\ DOMAIN stage = Players
  BY DEF Inv, Types
<1>2. \A q \in Players \ {p} : pc'[q] = pc[q] /\ stage'[q] = stage[q]
  BY <1>1 DEF Return, Stage
<1>3. CASE Return(p)
  <2>1. pc'[p] = pc[p] + 1 /\ stage'[p] = "call"
    BY <1>1, <1>3 DEF Return
  <2>2. ~CheckAt(pc[p])
    BY <2>1, NoCheckMade
  <2> QED BY <1>2, <2>1, <2>2 DEF Settled
<1>4. CASE Stage(p, "seed")
  <2>1. pc'[p] = pc[p] /\ stage'[p] = "seed"
    BY <1>1, <1>4 DEF Stage
  <2>2. PartyOK(pc[p], stage[p], Len(macs[p]), Len(vals[p]), popenCnt[p], checks[p],
                Late(direct, p), direct)'
    BY DEF Inv, PartiesOK
  <2>3. CheckAt(pc[p])
    BY <2>1, <2>2 DEF PartyOK, CheckAt
  <2> QED BY <1>2, <2>1, <2>3 DEF Settled
<1> QED BY <1>3, <1>4

LEMMA HoldsSettled ==
    ASSUME NEW k \in DOMAIN Ops, NEW c, NEW s, Settled(c, s, k),
           NEW d, NEW p, NEW l, NEW v, NEW ms, NEW vs, NEW o, NEW in,
           Blocks(ms, Ledger[k - 1].upTo, Numbers),
           Blocks(vs, Ledger[k - 1].upTo, Contents(d, p, Ends(k))),
           o = [n \in 1 .. Ends(k) |-> Complete(n)],
           in = [n \in 1 .. Stopped(k) |-> InputOf(p, n)]
    PROVE  Holds(d, p, c, s, l, v, ms, vs, o, in)
<1>1. k \in Nat /\ (k + 1) - 1 = k /\ k \in 1 .. Len(Ops)
  BY OpsAssumption
<1>2. CASE c = k + 1 /\ s = "call" /\ ~CheckAt(k)
  <2>1. Ledger[k] = Ledger[k - 1]
    BY <1>1, <1>2, LedgerFacts DEF After, CheckAt
  <2>2. Covered(c, s) = Ledger[k - 1].upTo /\ EndedBy(c, s) = Ends(k) /\ Stopped(c - 1) = Stopped(k)
    BY <1>1, <1>2, <2>1 DEF Covered, EndedBy, InCheckStage
  <2>3. Summed(p, c, s, l, v)
    BY <1>2 DEF Summed
  <2> QED BY <2>2, <2>3 DEF Holds
<1>3. CASE c = k /\ s = "seed" /\ CheckAt(k)
  <2>1. Covered(c, s) = Ledger[k - 1].upTo /\ EndedBy(c, s) = Ends(k)
    BY <1>3 DEF Covered, EndedBy, InCheckStage
  <2>2. Stopped(c - 1) = Stopped(k)
    <3>1. Ops[k].op # "stopinput"
      BY <1>3 DEF CheckAt, ChecksAt
    <3> QED BY <1>3, <3>1, InputCounts
  <2>3. Summed(p, c, s, l, v)
    BY <1>3 DEF Summed
  <2> QED BY <2>1, <2>2, <2>3 DEF Holds
<1> QED BY <1>2, <1>3 DEF Settled

(* Before and in a call, and in its check.                                 *)
LEMMA Held ==
    ASSUME Sound, NEW p \in Players, NEW k, k = pc[p]
    PROVE  /\ Summed(p, k, stage[p], sums[p], values[p])
           /\ stage[p] # "taus" =>
                 /\ Blocks(macs[p], Ledger[k - 1].upTo, Numbers)
                 /\ \A e : (e = IF InCheckStage(stage[p]) THEN Ends(k) ELSE Ends(k - 1)) =>
                       /\ Blocks(vals[p], Ledger[k - 1].upTo, Contents(direct, p, e))
                       /\ opened[p] = [n \in 1 .. e |-> Complete(n)]
           /\ stage[p] = "taus" =>
                 /\ Blocks(macs[p], Returns(k), Numbers)
                 /\ Blocks(vals[p], Returns(k), Contents(direct, p, Ends(k)))
                 /\ opened[p] = [n \in 1 .. Ends(k) |-> Complete(n)]
           /\ input[p] = [n \in 1 .. Stopped(k - 1) |-> InputOf(p, n)]
<1>1. Holds(direct, p, pc[p], stage[p], sums[p], values[p], macs[p], vals[p],
            opened[p], input[p])
  BY DEF Sound, PartiesHold
<1> QED BY <1>1 DEF Holds, Covered, EndedBy, InCheckStage

(* A party at a call of the tape.                                          *)
LEMMA AtACall ==
    ASSUME Inv, Sound, NEW p \in Players, pc[p] <= Len(Ops)
    PROVE  /\ pc[p] \in DOMAIN Ops /\ pc[p] \in Nat /\ direct \in BOOLEAN
           /\ DOMAIN pc = Players /\ DOMAIN stage = Players
           /\ DOMAIN macs = Players /\ DOMAIN vals = Players
           /\ DOMAIN sums = Players /\ DOMAIN values = Players /\ DOMAIN failed = Players
           /\ DOMAIN opened = Players /\ DOMAIN input = Players
           /\ Shaped(stream) /\ StreamsFlow
           /\ \E X : macs[p] \in Seq(X)
           /\ \E X : vals[p] \in Seq(X)
           /\ Ledger[pc[p] - 1].upTo \in Nat /\ Len(macs[p]) \in Nat /\ Len(vals[p]) \in Nat
           /\ PartyOK(pc[p], stage[p], Len(macs[p]), Len(vals[p]), popenCnt[p], checks[p],
                      Late(direct, p), direct)
<1>1. pc[p] \in DOMAIN Ops /\ pc[p] \in Nat /\ direct \in BOOLEAN
  BY PartyAt
<1>2. /\ DOMAIN pc = Players /\ DOMAIN stage = Players
      /\ DOMAIN macs = Players /\ DOMAIN vals = Players
  BY DEF Inv, Types, SeqFun
<1>3. (\E X : macs[p] \in Seq(X)) /\ (\E X : vals[p] \in Seq(X))
  BY DEF Inv, Types, SeqFun
<1>4. Ledger[pc[p] - 1].upTo \in Nat
  <2>1. pc[p] - 1 \in 0 .. Len(Ops)
    BY <1>1, OpsAssumption
  <2> QED BY <2>1, LedgerBound
<1>5. Len(macs[p]) \in Nat /\ Len(vals[p]) \in Nat
  BY PartyAt
<1> QED BY <1>1, <1>2, <1>3, <1>4, <1>5 DEF Sound, Domains, Inv, PartiesOK

(* The opening that a call begins, or ends.                                *)
LEMMA BegunHere ==
    ASSUME NEW k \in DOMAIN Ops, Ops[k].op = "begin"
    PROVE  /\ Begins(k) \in 1 .. Openings /\ Begun(k - 1) = Total[Begins(k) - 1]
           /\ SizeOf(Begins(k)) = Ops[k].n /\ Ends(k) = Ends(k - 1)
           /\ Ends(k) < Begins(k) /\ Ends(k) \in Nat /\ Stopped(k) = Stopped(k - 1)
<1>1. /\ Begins(k) = Begins(k - 1) + 1 /\ Begins(k - 1) \in Nat /\ Ends(k) = Ends(k - 1)
      /\ Ends(k - 1) \in Nat
  BY CallCounts
<1>2. k - 1 \in 0 .. Len(Ops) /\ k \in 0 .. Len(Ops)
  BY OpsAssumption
<1>3. Begins(k) <= Openings /\ Ends(k - 1) <= Begins(k - 1) /\ Openings \in Nat
  BY <1>2, EndsAfterBegins
<1>4. Begins(k) - 1 = Begins(k - 1)
  BY <1>1
<1> QED BY <1>1, <1>3, <1>4, SizeOfBegun, InputCounts DEF Begun

LEMMA EndedHere ==
    ASSUME NEW k \in DOMAIN Ops, Ops[k].op = "end"
    PROVE  /\ Ends(k) \in 1 .. Openings /\ Returns(k - 1) = Total[Ends(k) - 1]
           /\ Ends(k) = Ends(k - 1) + 1 /\ Ends(k - 1) \in Nat /\ Stopped(k) = Stopped(k - 1)
           /\ Begun(k) = Begun(k - 1)
<1>1. Ends(k) = Ends(k - 1) + 1 /\ Ends(k - 1) \in Nat /\ Begins(k) = Begins(k - 1)
  BY CallCounts
<1>2. k \in 0 .. Len(Ops)
  BY OpsAssumption
<1>3. Ends(k) \in 0 .. Openings /\ Openings \in Nat
  BY <1>2, EndsAfterBegins
<1>4. Ends(k) - 1 = Ends(k - 1)
  BY <1>1
<1> QED BY <1>1, <1>3, <1>4, InputCounts DEF Returns, Begun

LEMMA BeginTreeSound ==
    ASSUME Inv, Sound, NEW p \in Players, BeginTree(p), direct' = direct
    PROVE  Sound'
<1>1. /\ ~direct /\ stage[p] = "call" /\ pc[p] <= Len(Ops) /\ Ops[pc[p]].op = "begin"
      /\ macs' = [macs EXCEPT ![p] = @ \o [j \in 1 .. Ops[pc[p]].n |-> <<Opening(p), j>>]]
      /\ values' = [values EXCEPT ![p] = Share(Opening(p), p)]
      /\ sums' = [sums EXCEPT ![p] = NPlayers]
      /\ pc' = pc /\ stage' = [stage EXCEPT ![p] = "sum"]
      /\ stream' = stream /\ vals' = vals /\ failed' = failed
      /\ opened' = opened /\ input' = input
  BY DEF BeginTree, At, Stage, ghosts, AddToMacs
<1>2. PICK k \in DOMAIN Ops : k = pc[p]
  BY <1>1, AtACall
<1>3. /\ Ops[k].op = "begin" /\ Opening(p) = Begins(k) /\ Ops[k].n = SizeOf(Begins(k))
  BY <1>1, <1>2, SizeOfBegun DEF Opening
<1>4. /\ DOMAIN pc = Players /\ DOMAIN stage = Players /\ DOMAIN macs = Players
      /\ DOMAIN sums = Players /\ DOMAIN values = Players
      /\ DOMAIN opened = Players /\ DOMAIN input = Players
      /\ Shaped(stream) /\ StreamsFlow /\ direct \in BOOLEAN
  BY <1>1, AtACall
<1>5. /\ pc'[p] = k /\ stage'[p] = "sum" /\ sums'[p] = NPlayers
      /\ values'[p] = Share(Begins(k), p)
      /\ macs'[p] = macs[p] \o Places(Begins(k), SizeOf(Begins(k)))
  BY <1>1, <1>2, <1>3, <1>4 DEF Places
<1>6. Others(p)
  BY <1>1, <1>4 DEF Others
<1>7. StreamsFlow' /\ Shaped(stream')
  <2>1. Still(direct, p, k, "call", sums[p], k, "sum", NPlayers)
    <3>1. direct = FALSE
      BY <1>1, <1>4
    <3> QED BY <3>1, TreeBegins
  <2>2. Still(direct, p, pc[p], stage[p], sums[p], pc'[p], stage'[p], sums'[p])
    BY <1>1, <1>2, <1>5, <2>1
  <2> QED BY <1>1, <1>4, <1>6, <2>2, StreamsStay DEF Others
<1>8. Summed(p, k, "sum", NPlayers, Share(Begins(k), p))
  <2>1. 0 \in Turns /\ Level[0] = NPlayers /\ NPlayers > 0
    BY LevelFacts, PlayersAssumption DEF Turns
  <2>2. 0 + 1 \in Turns /\ Level[0] > 0
    BY <2>1, Turn
  <2>3. Share(Begins(k), p) = Part(Begins(k), 0, Relative(p))
    BY FirstPart
  <2> QED BY <2>1, <2>2, <2>3 DEF Summed
<1>9. Blocks(macs'[p], Ledger[k - 1].upTo, Numbers)
  <2>1. PICK X : macs[p] \in Seq(X)
    BY <1>1, AtACall
  <2>2. PICK u, m \in Nat : u = Ledger[k - 1].upTo /\ m = Len(macs[p])
    BY <1>1, <1>2, AtACall
  <2>3. Begins(k) \in 1 .. Openings /\ Begun(k - 1) = Total[Begins(k) - 1]
    BY <1>3, BegunHere
  <2>4. m = Begun(k - 1) - u
    BY <1>1, <1>2, <2>2, AtACall DEF PartyOK, AtCall
  <2>5. Begun(k - 1) \in Nat
    BY BegunAndReturned
  <2>6. u + m = Begun(k - 1)
    BY <2>4, <2>5
  <2>7. Blocks(macs[p], u, Numbers)
    BY <1>1, <1>2, <2>2, Held
  <2>8. Numbers[Begins(k)] = Begins(k)
    BY <2>3 DEF Numbers
  <2>9. Blocks(macs[p] \o Places(Begins(k), SizeOf(Begins(k))), u, Numbers)
    BY <2>1, <2>2, <2>3, <2>6, <2>7, <2>8, BlocksAppended
  <2> QED BY <1>5, <2>2, <2>9
<1>10. Holds(direct, p, pc'[p], stage'[p], sums'[p], values'[p], macs'[p], vals'[p],
             opened'[p], input'[p])
  <2>1. /\ Blocks(vals[p], Ledger[k - 1].upTo, Contents(direct, p, Ends(k - 1)))
        /\ opened[p] = [n \in 1 .. Ends(k - 1) |-> Complete(n)]
        /\ input[p] = [n \in 1 .. Stopped(k - 1) |-> InputOf(p, n)]
    BY <1>1, <1>2, Held DEF InCheckStage
  <2>2. Covered(k, "sum") = Ledger[k - 1].upTo /\ EndedBy(k, "sum") = Ends(k - 1)
    BY DEF Covered, EndedBy, InCheckStage
  <2> QED BY <1>1, <1>5, <1>8, <1>9, <2>1, <2>2 DEF Holds
<1>11. /\ DOMAIN sums' = Players /\ DOMAIN values' = Players
       /\ DOMAIN opened' = Players /\ DOMAIN input' = Players
  BY <1>1, <1>4
<1> QED BY <1>1, <1>6, <1>7, <1>10, <1>11, SoundGoesOn

(* What a party finds at the head of the stream of one it adds up.         *)
LEMMA SummandHead ==
    ASSUME CallsInOrder, StreamsFlow, direct = FALSE, NEW p \in Players, stage[p] = "sum",
           NEW k \in DOMAIN Ops, k = pc[p], Ops[k].op = "begin",
           NEW i \in Turns, Level[i] > 0, sums[p] = Level[i],
           NEW q \in Summands(p, SumPlayers(Level[i]), Level[i]), stream["main"][q][p] # <<>>
    PROVE  Head(stream["main"][q][p]) = Part(Begins(k), i, Relative(q))
<1>1. /\ i + 1 \in Turns /\ Level[i + 1] = SumPlayers(Level[i]) /\ Level[i + 1] \in Nat
      /\ Level[i] \in 0 .. NPlayers
  BY Turn
<1>2. q \in Players
  BY <1>1, TreeParties
<1>3. /\ SumsTo(q, p) /\ SumPlayers(Level[i]) <= Relative(q) /\ Relative(q) < Level[i]
  BY <1>2, SumsTurn
<1>4. q # p
  BY <1>2, <1>3, SumsDown
<1>5. Relative(q) \in Nat
  BY <1>2, Ranked DEF Ranks
<1>6. ~Kept(FALSE, q, p)
  BY <1>2, <1>3, NotBoth DEF Kept
<1>7. Script(FALSE, "main", q, p, ReadBy(FALSE, "main", q, p)[k - 1] + 1)
         = PartialSum(Begins(k), Relative(q))
  BY <1>2, <1>3, <1>6, ReadInTree
<1>8. Sender(i, Relative(q))
  BY <1>1, <1>3 DEF Sender
<1>9. PartialSum(Begins(k), Relative(q)) = Part(Begins(k), i, Relative(q))
  BY <1>5, <1>8, PartSent
<1>10. Read(FALSE, "main", q, p, k, "sum", Level[i]) = ReadBy(FALSE, "main", q, p)[k - 1]
  <2>1. FALSE \in BOOLEAN /\ "main" \in Channels
    BY DEF Channels
  <2>2. PICK s, r, x, y \in Nat : /\ AtEnds(FALSE, "main", q, p, k, s, r, x, y)
                                  /\ AtTree(FALSE, "main", q, p, k, s, r)
    BY <1>2, <2>1, Standing
  <2>3. ReadBy(FALSE, "main", q, p)[k - 1] = r
    BY <2>2 DEF AtEnds
  <2>4. Read(FALSE, "main", q, p, k, "sum", Level[i]) =
           r + One("main" = "main" /\ SumsTo(q, p) /\ Relative(q) >= Level[i])
    BY <2>2 DEF AtTree
  <2>5. ~(Relative(q) >= Level[i])
    BY <1>1, <1>3, <1>5
  <2>6. One("main" = "main" /\ SumsTo(q, p) /\ Relative(q) >= Level[i]) = 0
    BY <2>5 DEF One
  <2>7. r + 0 = r
    BY <2>2
  <2> QED BY <2>3, <2>4, <2>6, <2>7
<1>11. Head(stream["main"][q][p]) =
         Script(direct, "main", q, p, Read(direct, "main", q, p, pc[p], stage[p], sums[p]) + 1)
  <2>1. "main" \in Channels
    BY DEF Channels
  <2> QED BY <1>2, <1>4, <2>1, HeadIs
<1> QED BY <1>7, <1>9, <1>10, <1>11

(* A turn of the loop.                                                     *)
LEMMA SumsGoOn ==
    ASSUME NEW p \in Players, NEW k \in DOMAIN Ops,
           NEW i \in Turns, Level[i] > 0, NEW j, j = SumPlayers(Level[i]),
           NEW v, Relative(p) < Level[i] => v = Part(Begins(k), i, Relative(p)),
           NEW from, from = Summands(p, j, Level[i]),
           NEW heads, heads = [q \in from |-> Part(Begins(k), i, Relative(q))]
    PROVE  Summed(p, k, IF j = 0 THEN "spread" ELSE "sum", j, AddUp(v, heads))
<1>1. /\ i + 1 \in Turns /\ Level[i + 1] = j /\ j \in Nat /\ j < Level[i]
      /\ Level[i] \in 0 .. NPlayers /\ (Level[i] = 1 <=> j = 0)
  BY Turn
<1>2. Relative(p) \in Nat
  BY Ranked DEF Ranks
<1>3. CASE j = 0
  <2>1. SUFFICES ASSUME p = BasePlayer PROVE AddUp(v, heads) = Complete(Begins(k))
    BY <1>3 DEF Summed
  <2>2. Relative(p) = 0
    BY <2>1, Ranked
  <2>3. v = Part(Begins(k), i, 0)
    BY <2>2
  <2>4. Part(Begins(k), i, 0) = Complete(Begins(k))
    BY <1>1, <1>3, LastPart
  <2>5. from = {}
    BY <1>3 DEF Summands
  <2> QED BY <2>3, <2>4, <2>5, AddUpNothing
<1>4. CASE j # 0
  <2>1. i + 1 + 1 \in Turns /\ Level[i + 1] > 0
    BY <1>1, <1>4, Turn
  <2>2. ASSUME Relative(p) < j PROVE AddUp(v, heads) = Part(Begins(k), i + 1, Relative(p))
    <3>1. v = Part(Begins(k), i, Relative(p))
      BY <1>1, <1>2, <2>2
    <3>2. AddUp(Part(Begins(k), i, Relative(p)), [q \in from |-> Part(Begins(k), i, Relative(q))])
              = Part(Begins(k), i + 1, Relative(p))
      BY <2>2, PartsAddUp
    <3> QED BY <3>1, <3>2
  <2> QED BY <1>1, <1>4, <2>1, <2>2 DEF Summed
<1> QED BY <1>3, <1>4

LEMMA SumUpSound ==
    ASSUME CallsInOrder, Inv, Sound, NEW p \in Players, SumUp(p), direct' = direct
    PROVE  Sound'
<1> DEFINE from == Summands(p, SumPlayers(sums[p]), sums[p])
           to == Receiver(p, SumPlayers(sums[p]), sums[p])
           s == SumPlayers(sums[p])
           t == IF s = 0 THEN "spread" ELSE "sum"
<1>1. /\ stage[p] = "sum" /\ pc[p] <= Len(Ops) /\ Available("main", p, from)
      /\ stream' = Takes(Sends(stream, "main", p, to, values[p]), "main", p, from)
      /\ values' = [values EXCEPT ![p] = AddUp(@, Heads("main", p, from))]
      /\ sums' = [sums EXCEPT ![p] = s]
      /\ pc' = pc /\ stage' = [stage EXCEPT ![p] = t]
      /\ macs' = macs /\ vals' = vals /\ failed' = failed
      /\ opened' = opened /\ input' = input
  BY DEF SumUp, At, Stage, ghosts, store
<1>2. PICK k \in DOMAIN Ops : k = pc[p]
  BY <1>1, AtACall
<1>3. direct = FALSE /\ Ops[k].op = "begin"
  BY <1>1, <1>2, AtACall DEF PartyOK, InTree
<1>4. /\ DOMAIN pc = Players /\ DOMAIN stage = Players
      /\ DOMAIN sums = Players /\ DOMAIN values = Players
      /\ DOMAIN opened = Players /\ DOMAIN input = Players
      /\ Shaped(stream) /\ StreamsFlow
  BY <1>1, AtACall
<1>5. Others(p)
  BY <1>1, <1>4 DEF Others
<1>6. PICK i \in Turns : /\ sums[p] = Level[i] /\ Level[i] > 0
                         /\ Relative(p) < Level[i] => values[p] = Part(Begins(k), i, Relative(p))
  BY <1>1, <1>2, Held DEF Summed
<1>7. Level[i] \in 0 .. NPlayers /\ s \in Nat /\ s = SumPlayers(Level[i])
  BY <1>6, Turn
<1>8. /\ from \subseteq Players /\ to \subseteq Players
      /\ p \notin from /\ p \notin to
  <2>1. from \subseteq Players /\ to \subseteq Players
    BY <1>6, <1>7, TreeParties
  <2>2. ASSUME p \in to PROVE FALSE
    <3>1. SumsTo(p, p)
      BY <2>2, <1>6, <1>7, SumsTurn
    <3> QED BY <3>1, SumsDown
  <2>3. ASSUME p \in from PROVE FALSE
    <3>1. p \in to
      BY <2>3, <1>6, <1>7, SumsTurn
    <3> QED BY <3>1, <2>2
  <2> QED BY <2>1, <2>2, <2>3
<1> HIDE DEF s, t, from, to
<1>9. Heads("main", p, from) = [q \in from |-> Part(Begins(k), i, Relative(q))]
  <2>1. \A q \in from : Head(stream["main"][q][p]) = Part(Begins(k), i, Relative(q))
    BY <1>1, <1>2, <1>3, <1>4, <1>6, <1>7, SummandHead DEF Available, from, s
  <2> QED BY <2>1 DEF Heads
<1>10. /\ pc'[p] = k /\ stage'[p] = t /\ sums'[p] = s
       /\ values'[p] = AddUp(values[p], Heads("main", p, from))
       /\ macs'[p] = macs[p] /\ vals'[p] = vals[p]
  BY <1>1, <1>2, <1>4
<1>11. StreamsFlow' /\ Shaped(stream')
  <2>1. "main" \in Channels
    BY DEF Channels
  <2>2. Streamed(stream', stream, "main", p, to, from, values[p])
    BY <1>1, <1>4, <1>8, <2>1, SendsAndTakes
  <2>3. Moves(FALSE, "main", p, to, from, values[p], k, "sum", Level[i], k, t, s)
    BY <1>3, <1>6, <1>7, TreeTurns DEF t, to, from, s
  <2>4. Moves(direct, "main", p, to, from, values[p],
              pc[p], stage[p], sums[p], pc'[p], stage'[p], sums'[p])
    BY <1>1, <1>2, <1>3, <1>6, <1>10, <2>3
  <2>5. \A q \in Players : q \in from => stream["main"][q][p] # <<>>
    BY <1>1 DEF Available
  <2>6. \A q \in Players \ {p} : pc'[q] = pc[q] /\ stage'[q] = stage[q] /\ sums'[q] = sums[q]
    BY <1>5 DEF Others
  <2> QED BY <1>4, <1>8, <2>1, <2>2, <2>4, <2>5, <2>6, StreamsGoOn
<1>12. Summed(p, k, t, s, values'[p])
  <2>1. Summed(p, k, t, s, AddUp(values[p], Heads("main", p, from)))
    BY <1>6, <1>7, <1>9, SumsGoOn DEF t, from, s
  <2> QED BY <1>10, <2>1
<1>13. Holds(direct, p, pc'[p], stage'[p], sums'[p], values'[p], macs'[p], vals'[p],
             opened'[p], input'[p])
  <2>1. /\ Blocks(macs[p], Ledger[k - 1].upTo, Numbers)
        /\ Blocks(vals[p], Ledger[k - 1].upTo, Contents(direct, p, Ends(k - 1)))
        /\ opened[p] = [n \in 1 .. Ends(k - 1) |-> Complete(n)]
        /\ input[p] = [n \in 1 .. Stopped(k - 1) |-> InputOf(p, n)]
    <3>1. stage[p] # "taus" /\ ~InCheckStage(stage[p])
      BY <1>1 DEF InCheckStage
    <3> QED BY <1>2, <3>1, Held
  <2>2. Covered(k, t) = Ledger[k - 1].upTo /\ EndedBy(k, t) = Ends(k - 1)
    BY DEF Covered, EndedBy, InCheckStage, t
  <2> QED BY <1>1, <1>10, <1>12, <2>1, <2>2 DEF Holds
<1>14. /\ DOMAIN sums' = Players /\ DOMAIN values' = Players
       /\ DOMAIN opened' = Players /\ DOMAIN input' = Players
  BY <1>1, <1>4
<1> QED BY <1>1, <1>5, <1>11, <1>13, <1>14, SoundGoesOn

(* What a party has on the way into an opening.                            *)
LEMMA HeldInTree ==
    ASSUME Inv, Sound, NEW p \in Players, pc[p] <= Len(Ops), stage[p] \in {"call", "sum", "spread"},
           NEW k, k = pc[p]
    PROVE  /\ Blocks(macs[p], Ledger[k - 1].upTo, Numbers)
           /\ Blocks(vals[p], Ledger[k - 1].upTo, Contents(direct, p, Ends(k - 1)))
           /\ opened[p] = [n \in 1 .. Ends(k - 1) |-> Complete(n)]
           /\ input[p] = [n \in 1 .. Stopped(k - 1) |-> InputOf(p, n)]
<1>1. stage[p] # "taus" /\ ~InCheckStage(stage[p])
  BY DEF InCheckStage
<1>2. Covered(pc[p], stage[p]) = Ledger[k - 1].upTo /\ EndedBy(pc[p], stage[p]) = Ends(k - 1)
  BY <1>1 DEF Covered, EndedBy
<1>3. Holds(direct, p, pc[p], stage[p], sums[p], values[p], macs[p], vals[p], opened[p], input[p])
  BY DEF Sound, PartiesHold
<1> QED BY <1>2, <1>3 DEF Holds

(* Nothing is expected of a call that is done.                             *)
LEMMA ContentsKnown ==
    ASSUME NEW p, NEW d, NEW e, NEW k \in 1 .. Openings
    PROVE  /\ Contents(FALSE, p, e)[k] = Complete(k)
           /\ d = FALSE => Contents(d, p, e) = Contents(FALSE, p, 0)
           /\ d = TRUE /\ e \in Nat /\ k > e => Contents(d, p, e)[k] = Share(k, p)
           /\ d = TRUE /\ e \in Nat /\ ~(k > e) => Contents(d, p, e)[k] = Complete(k)
  BY DEF Contents

(* The values that a party is left with when the result has been added.    *)
LEMMA SpreadAdds ==
    ASSUME Inv, Sound, NEW p \in Players, stage[p] = "spread", pc[p] <= Len(Ops),
           NEW k \in DOMAIN Ops, k = pc[p], ~IsLeaf(p),
           AddToValues(p, Opening(p), Complete(Begins(k)))
    PROVE  Blocks(vals'[p], Ledger[k - 1].upTo, Contents(direct, p, Ends(k - 1)))
<1>1. /\ direct = FALSE /\ Ops[k].op = "begin" /\ DOMAIN vals = Players
  BY AtACall DEF PartyOK, InTree
<1>2. PICK X : vals[p] \in Seq(X)
  BY AtACall
<1>3. PICK u, m \in Nat : u = Ledger[k - 1].upTo /\ m = Len(vals[p])
  BY AtACall
<1>4. Begins(k) \in 1 .. Openings /\ Begun(k - 1) = Total[Begins(k) - 1]
  BY <1>1, BegunHere
<1>5. m = Begun(k - 1) - u
  <2>1. Late(direct, p) = FALSE
    BY DEF Late
  <2> QED BY <1>3, <2>1, AtACall DEF PartyOK, InTree
<1>6. Begun(k - 1) \in Nat
  BY BegunAndReturned
<1>7. u + m = Begun(k - 1)
  BY <1>5, <1>6
<1>c. PICK content : content = Contents(direct, p, Ends(k - 1))
  OBVIOUS
<1>8. Blocks(vals[p], u, content)
  BY <1>3, <1>c, HeldInTree
<1>9. Complete(Begins(k)) = content[Begins(k)]
  BY <1>1, <1>4, <1>c, ContentsKnown
<1>10. vals'[p] = vals[p] \o Places(Complete(Begins(k)), SizeOf(Begins(k)))
  BY <1>1 DEF AddToValues, Places, Opening
<1>11. Blocks(vals[p] \o Places(Complete(Begins(k)), SizeOf(Begins(k))), u, content)
  <2>1. u + Len(vals[p]) = Total[Begins(k) - 1] /\ u \in Int
    BY <1>3, <1>4, <1>7
  <2> QED BY <1>2, <1>4, <1>8, <1>9, <2>1, BlocksAppended
<1> QED BY <1>3, <1>10, <1>11, <1>c

(* A party leaves the opening.                                             *)
LEMMA LeavesOpening ==
    ASSUME Inv, Sound, NEW p \in Players, stage[p] = "spread", pc[p] <= Len(Ops), Return(p),
           direct' = direct, macs' = macs, sums' = sums, failed' = failed,
           opened' = opened, input' = input,
           NEW k \in DOMAIN Ops, k = pc[p],
           Blocks(vals'[p], Ledger[k - 1].upTo, Contents(direct, p, Ends(k - 1))),
           \A q \in Players \ {p} : values'[q] = values[q] /\ vals'[q] = vals[q],
           DOMAIN values' = Players,
           NEW from, \A r \in Players \ {p} : r \in from <=> Tells(r, p) /\ ~IsLeaf(p),
           p \notin from, Available("main", p, from), from \subseteq Players,
           Streamed(stream', stream, "main", p, Children(p), from, Complete(Begins(k)))
    PROVE  Sound'
<1>1. /\ direct = FALSE /\ Ops[k].op = "begin"
      /\ DOMAIN pc = Players /\ DOMAIN stage = Players
      /\ DOMAIN sums = Players /\ DOMAIN opened = Players /\ DOMAIN input = Players
      /\ StreamsFlow
  BY AtACall DEF PartyOK, InTree
<1>2. /\ pc' = [pc EXCEPT ![p] = @ + 1] /\ stage' = [stage EXCEPT ![p] = "call"]
  BY DEF Return
<1>3. pc'[p] = k + 1 /\ stage'[p] = "call"
  BY <1>1, <1>2
<1>4. Others(p)
  BY <1>1, <1>2 DEF Others
<1>5. StreamsFlow' /\ Shaped(stream')
  <2>1. "main" \in Channels
    BY DEF Channels
  <2>2. p \notin Children(p)
    BY Leaves
  <2>3. Moves(FALSE, "main", p, Children(p), from, Complete(Begins(k)),
              k, "spread", sums[p], k + 1, "call", sums[p])
    BY <1>1, SpreadMoves
  <2>4. Moves(direct, "main", p, Children(p), from, Complete(Begins(k)),
              pc[p], stage[p], sums[p], pc'[p], stage'[p], sums'[p])
    BY <1>1, <1>3, <2>3
  <2>5. \A q \in Players : q \in from => stream["main"][q][p] # <<>>
    BY DEF Available
  <2>6. \A q \in Players \ {p} : pc'[q] = pc[q] /\ stage'[q] = stage[q] /\ sums'[q] = sums[q]
    BY <1>4 DEF Others
  <2> QED BY <1>1, <2>1, <2>2, <2>4, <2>5, <2>6, StreamsGoOn
<1>6. Settled(k + 1, "call", k)
  BY <1>1, CallMessages DEF Settled, Channels
<1>7. Holds(direct, p, pc'[p], stage'[p], sums'[p], values'[p], macs'[p], vals'[p],
             opened'[p], input'[p])
  <2>1. /\ Blocks(macs[p], Ledger[k - 1].upTo, Numbers)
        /\ opened[p] = [n \in 1 .. Ends(k - 1) |-> Complete(n)]
        /\ input[p] = [n \in 1 .. Stopped(k - 1) |-> InputOf(p, n)]
    BY HeldInTree
  <2>2. Ends(k) = Ends(k - 1) /\ Stopped(k) = Stopped(k - 1)
    BY <1>1, BegunHere
  <2>3. Holds(direct, p, k + 1, "call", sums'[p], values'[p], macs[p], vals'[p],
              opened[p], input[p])
    BY <1>6, <2>1, <2>2, HoldsSettled
  <2> QED BY <1>3, <2>3
<1> QED BY <1>1, <1>4, <1>5, <1>7, SoundGoesOn

(* What a party that passes the result on finds at the head of the stream. *)
LEMMA ToldHead ==
    ASSUME CallsInOrder, StreamsFlow, direct = FALSE, NEW p \in Players, stage[p] = "spread",
           NEW k \in DOMAIN Ops, k = pc[p], Ops[k].op = "begin", ~IsLeaf(p),
           NEW q \in Players, Tells(q, p), stream["main"][q][p] # <<>>
    PROVE  Head(stream["main"][q][p]) = Complete(Begins(k))
<1>1. ~SumsTo(q, p) /\ q # p /\ ~Kept(FALSE, q, p)
  BY NotBoth, TellsIs DEF Kept
<1>2. Script(FALSE, "main", q, p, ReadBy(FALSE, "main", q, p)[k - 1] + 1) = Complete(Begins(k))
  BY <1>1, ReadInTree
<1>3. Read(FALSE, "main", q, p, k, "spread", sums[p]) = ReadBy(FALSE, "main", q, p)[k - 1]
  <2>1. FALSE \in BOOLEAN /\ "main" \in Channels
    BY DEF Channels
  <2>2. PICK s, r, x, y \in Nat : /\ AtEnds(FALSE, "main", q, p, k, s, r, x, y)
                                  /\ AtTree(FALSE, "main", q, p, k, s, r)
    BY <2>1, Standing
  <2>3. ReadBy(FALSE, "main", q, p)[k - 1] = r
    BY <2>2 DEF AtEnds
  <2>4. Read(FALSE, "main", q, p, k, "spread", sums[p]) = r + One("main" = "main" /\ SumsTo(q, p))
    BY <2>2 DEF AtTree
  <2>5. One("main" = "main" /\ SumsTo(q, p)) = 0
    BY <1>1 DEF One
  <2>6. r + 0 = r
    BY <2>2
  <2> QED BY <2>3, <2>4, <2>5, <2>6
<1>4. Head(stream["main"][q][p]) =
         Script(direct, "main", q, p, Read(direct, "main", q, p, pc[p], stage[p], sums[p]) + 1)
  <2>1. "main" \in Channels
    BY DEF Channels
  <2> QED BY <1>1, <2>1, HeadIs
<1> QED BY <1>2, <1>3, <1>4

LEMMA SpreadBaseSound ==
    ASSUME Inv, Sound, NEW p \in Players, SpreadBase(p), direct' = direct
    PROVE  Sound'
<1>1. /\ stage[p] = "spread" /\ pc[p] <= Len(Ops) /\ p = BasePlayer
      /\ stream' = Sends(stream, "main", p, Children(p), values[p])
      /\ AddToValues(p, Opening(p), values[p]) /\ Return(p)
      /\ macs' = macs /\ sums' = sums /\ values' = values /\ failed' = failed
      /\ opened' = opened /\ input' = input
  BY DEF SpreadBase, At, ghosts
<1>2. PICK k \in DOMAIN Ops : k = pc[p]
  BY <1>1, AtACall
<1>3. values[p] = Complete(Begins(k))
  BY <1>1, <1>2, Held DEF Summed
<1>4. ~IsLeaf(p) /\ \A r \in Players : ~Tells(r, p)
  BY <1>1, InnerParties, TellsIs
<1>5. DOMAIN values = Players /\ DOMAIN vals = Players /\ Shaped(stream)
  BY <1>1, AtACall
<1>6. Blocks(vals'[p], Ledger[k - 1].upTo, Contents(direct, p, Ends(k - 1)))
  BY <1>1, <1>2, <1>3, <1>4, SpreadAdds
<1>7. \A q \in Players \ {p} : values'[q] = values[q] /\ vals'[q] = vals[q]
  BY <1>1, <1>5 DEF AddToValues
<1>8. Streamed(stream', stream, "main", p, Children(p), {}, Complete(Begins(k)))
  BY <1>1, <1>3, <1>5, SendsAll DEF Channels
<1>9. Available("main", p, {})
  BY DEF Available
<1> QED BY <1>1, <1>2, <1>4, <1>5, <1>6, <1>7, <1>8, <1>9, LeavesOpening

LEMMA SpreadForwardSound ==
    ASSUME CallsInOrder, Inv, Sound, NEW p \in Players, SpreadForward(p), direct' = direct
    PROVE  Sound'
<1>1. /\ stage[p] = "spread" /\ pc[p] <= Len(Ops) /\ IsForwarder(p)
      /\ Available("main", p, {Parent(p)}) /\ Return(p)
      /\ macs' = macs /\ sums' = sums /\ failed' = failed
      /\ opened' = opened /\ input' = input
  BY DEF SpreadForward, At, ghosts
<1>2. PICK k \in DOMAIN Ops : k = pc[p]
  BY <1>1, AtACall
<1>3. /\ direct = FALSE /\ Ops[k].op = "begin" /\ StreamsFlow
      /\ DOMAIN values = Players /\ DOMAIN vals = Players /\ Shaped(stream)
  BY <1>1, <1>2, AtACall DEF PartyOK, InTree
<1>4. /\ ~IsLeaf(p) /\ Parent(p) \in Players /\ Parent(p) # p
      /\ \A r \in Players : Tells(r, p) <=> r = Parent(p)
  BY <1>1, Leaves, TellsIs
<1>5. Head(stream["main"][Parent(p)][p]) = Complete(Begins(k))
  BY <1>1, <1>2, <1>3, <1>4, ToldHead DEF Available
<1>6. /\ stream' = Sends(Takes(stream, "main", p, {Parent(p)}), "main", p, Children(p),
                         Complete(Begins(k)))
      /\ values' = [values EXCEPT ![p] = Complete(Begins(k))]
      /\ AddToValues(p, Opening(p), Complete(Begins(k)))
  BY <1>5 DEF SpreadForward
<1>7. Blocks(vals'[p], Ledger[k - 1].upTo, Contents(direct, p, Ends(k - 1)))
  BY <1>1, <1>2, <1>4, <1>6, SpreadAdds
<1>8. \A q \in Players \ {p} : values'[q] = values[q] /\ vals'[q] = vals[q]
  BY <1>3, <1>6 DEF AddToValues
<1>9. Streamed(stream', stream, "main", p, Children(p), {Parent(p)}, Complete(Begins(k)))
  <2>1. p \notin Children(p) /\ p \notin {Parent(p)} /\ "main" \in Channels
    BY <1>4, Leaves DEF Channels
  <2> QED BY <1>3, <1>6, <2>1, SendsAndTakes
<1>10. DOMAIN values' = Players
  BY <1>3, <1>6
<1>11. \A r \in Players \ {p} : r \in {Parent(p)} <=> Tells(r, p) /\ ~IsLeaf(p)
  BY <1>4
<1>12. p \notin {Parent(p)} /\ {Parent(p)} \subseteq Players
  BY <1>4
<1> QED BY <1>1, <1>2, <1>7, <1>8, <1>9, <1>10, <1>11, <1>12, LeavesOpening

LEMMA SpreadLeafSound ==
    ASSUME Inv, Sound, NEW p \in Players, SpreadLeaf(p), direct' = direct
    PROVE  Sound'
<1>1. /\ stage[p] = "spread" /\ pc[p] <= Len(Ops) /\ IsLeaf(p) /\ Return(p)
      /\ macs' = macs /\ vals' = vals /\ sums' = sums /\ values' = values
      /\ stream' = stream /\ failed' = failed /\ opened' = opened /\ input' = input
  BY DEF SpreadLeaf, At, ghosts, store
<1>2. PICK k \in DOMAIN Ops : k = pc[p]
  BY <1>1, AtACall
<1>3. DOMAIN values = Players /\ Shaped(stream)
  BY <1>1, AtACall
<1>4. Children(p) = {}
  BY <1>1, Leaves DEF Tells
<1>5. Blocks(vals'[p], Ledger[k - 1].upTo, Contents(direct, p, Ends(k - 1)))
  BY <1>1, <1>2, HeldInTree
<1>6. Streamed(stream', stream, "main", p, Children(p), {}, Complete(Begins(k)))
  BY <1>1, <1>3, <1>4 DEF Streamed
<1>7. Available("main", p, {})
  BY DEF Available
<1> QED BY <1>1, <1>2, <1>3, <1>5, <1>6, <1>7, LeavesOpening

LEMMA BeginDirectSound ==
    ASSUME Inv, Sound, NEW p \in Players, BeginDirect(p), direct' = direct
    PROVE  Sound'
<1>1. /\ direct /\ stage[p] = "call" /\ pc[p] <= Len(Ops) /\ Ops[pc[p]].op = "begin"
      /\ stream' = Sends(stream, "main", p, Players \ {p}, Share(Opening(p), p))
      /\ vals' = [vals EXCEPT ![p] =
                     @ \o [j \in 1 .. SizeOf(Opening(p)) |-> <<Share(Opening(p), p), j>>]]
      /\ macs' = [macs EXCEPT ![p] = @ \o [j \in 1 .. Ops[pc[p]].n |-> <<Opening(p), j>>]]
      /\ pc' = [pc EXCEPT ![p] = @ + 1] /\ stage' = [stage EXCEPT ![p] = "call"]
      /\ sums' = sums /\ values' = values /\ failed' = failed
      /\ opened' = opened /\ input' = input
  BY DEF BeginDirect, At, Return, ghosts, AddToMacs, AddToValues
<1>2. PICK k \in DOMAIN Ops : k = pc[p]
  BY <1>1, AtACall
<1>3. /\ Ops[k].op = "begin" /\ Opening(p) = Begins(k) /\ Ops[k].n = SizeOf(Begins(k))
  BY <1>1, <1>2, SizeOfBegun DEF Opening
<1>4. /\ DOMAIN pc = Players /\ DOMAIN stage = Players /\ DOMAIN macs = Players
      /\ DOMAIN vals = Players /\ DOMAIN sums = Players /\ DOMAIN values = Players
      /\ DOMAIN opened = Players /\ DOMAIN input = Players
      /\ Shaped(stream) /\ StreamsFlow /\ direct = TRUE
  BY <1>1, AtACall
<1>5. /\ pc'[p] = k + 1 /\ stage'[p] = "call"
      /\ macs'[p] = macs[p] \o Places(Begins(k), SizeOf(Begins(k)))
      /\ vals'[p] = vals[p] \o Places(Share(Begins(k), p), SizeOf(Begins(k)))
  BY <1>1, <1>2, <1>3, <1>4 DEF Places
<1>6. Others(p)
  BY <1>1, <1>4 DEF Others
<1>7. StreamsFlow' /\ Shaped(stream')
  <2>1. "main" \in Channels /\ p \notin Players \ {p} /\ p \notin {}
    BY DEF Channels
  <2>2. Streamed(stream', stream, "main", p, Players \ {p}, {}, Share(Begins(k), p))
    BY <1>1, <1>3, <1>4, <2>1, SendsAll
  <2>3. Moves(TRUE, "main", p, Players \ {p}, {}, Share(Begins(k), p),
              k, "call", sums[p], k + 1, "call", sums[p])
    BY <1>3, DirectMoves
  <2>4. Moves(direct, "main", p, Players \ {p}, {}, Share(Begins(k), p),
              pc[p], stage[p], sums[p], pc'[p], stage'[p], sums'[p])
    BY <1>1, <1>2, <1>4, <1>5, <2>3
  <2>5. \A q \in Players \ {p} : pc'[q] = pc[q] /\ stage'[q] = stage[q] /\ sums'[q] = sums[q]
    BY <1>6 DEF Others
  <2>6. StreamsFlow /\ \A q \in Players : q \in {} => stream["main"][q][p] # <<>>
    BY <1>4
  <2> QED BY <2>1, <2>2, <2>4, <2>5, <2>6, StreamsGoOn
<1>8. /\ Begins(k) \in 1 .. Openings /\ Begun(k - 1) = Total[Begins(k) - 1]
      /\ Ends(k) = Ends(k - 1) /\ Ends(k) < Begins(k) /\ Ends(k) \in Nat
      /\ Stopped(k) = Stopped(k - 1)
  BY <1>3, BegunHere
<1>9. PICK u, m \in Nat : u = Ledger[k - 1].upTo /\ m = Len(macs[p])
  BY <1>1, <1>2, AtACall
<1>10. m = Begun(k - 1) - u /\ Len(vals[p]) = m
  <2>1. Late(direct, p) = FALSE
    BY <1>1 DEF Late
  <2> QED BY <1>1, <1>2, <1>9, <2>1, AtACall DEF PartyOK, AtCall
<1>11. u + m = Total[Begins(k) - 1] /\ u \in Int
  <2>1. Begun(k - 1) \in Nat
    BY BegunAndReturned
  <2> QED BY <1>8, <1>9, <1>10, <2>1
<1>12. Blocks(macs'[p], u, Numbers)
  <2>1. PICK X : macs[p] \in Seq(X)
    BY <1>1, AtACall
  <2>2. Blocks(macs[p], u, Numbers)
    BY <1>1, <1>2, <1>9, HeldInTree
  <2>3. Numbers[Begins(k)] = Begins(k)
    BY <1>8 DEF Numbers
  <2>4. u + Len(macs[p]) = Total[Begins(k) - 1]
    BY <1>9, <1>11
  <2>5. Blocks(macs[p] \o Places(Begins(k), SizeOf(Begins(k))), u, Numbers)
    BY <1>8, <1>11, <2>1, <2>2, <2>3, <2>4, BlocksAppended
  <2> QED BY <1>5, <2>5
<1>13. Blocks(vals'[p], u, Contents(direct, p, Ends(k)))
  <2>1. PICK X : vals[p] \in Seq(X)
    BY <1>1, AtACall
  <2>2. PICK content : content = Contents(direct, p, Ends(k))
    OBVIOUS
  <2>3. Blocks(vals[p], u, content)
    BY <1>1, <1>2, <1>8, <1>9, <2>2, HeldInTree
  <2>4. Share(Begins(k), p) = content[Begins(k)]
    BY <1>4, <1>8, <2>2, ContentsKnown
  <2>5. u + Len(vals[p]) = Total[Begins(k) - 1]
    BY <1>10, <1>11
  <2>6. Blocks(vals[p] \o Places(Share(Begins(k), p), SizeOf(Begins(k))), u, content)
    BY <1>8, <1>11, <2>1, <2>3, <2>4, <2>5, BlocksAppended
  <2> QED BY <1>5, <2>2, <2>6
<1>14. Holds(direct, p, pc'[p], stage'[p], sums'[p], values'[p], macs'[p], vals'[p],
             opened'[p], input'[p])
  <2>1. /\ opened[p] = [n \in 1 .. Ends(k - 1) |-> Complete(n)]
        /\ input[p] = [n \in 1 .. Stopped(k - 1) |-> InputOf(p, n)]
    BY <1>1, <1>2, HeldInTree
  <2>2. Settled(k + 1, "call", k)
    BY <1>3, CallMessages DEF Settled, Channels
  <2>3. Holds(direct, p, k + 1, "call", sums'[p], values'[p], macs'[p], vals'[p],
              opened[p], input[p])
    BY <1>8, <1>9, <1>12, <1>13, <2>1, <2>2, HoldsSettled
  <2> QED BY <1>1, <1>5, <2>3
<1> QED BY <1>1, <1>4, <1>6, <1>7, <1>14, SoundGoesOn

LEMMA FunctionGrows ==
    ASSUME NEW m \in Nat, NEW g, NEW s, s = [n \in 1 .. m |-> g[n]],
           NEW k, k = m + 1
    PROVE  Append(s, g[k]) = [n \in 1 .. k |-> g[n]]
<1> DEFINE X == {g[n] : n \in Int}
<1>1. s \in Seq(X) /\ Len(s) = m /\ g[k] \in X
  BY DEF X
<1> HIDE DEF X
<1>2. /\ Append(s, g[k]) \in Seq(X) /\ Len(Append(s, g[k])) = k
      /\ \A n \in 1 .. m : Append(s, g[k])[n] = s[n]
      /\ Append(s, g[k])[k] = g[k]
  BY <1>1
<1>3. Append(s, g[k]) = [n \in 1 .. k |-> Append(s, g[k])[n]]
  <2>1. Append(s, g[k]) \in [1 .. Len(Append(s, g[k])) -> X]
    BY <1>2, LenProperties
  <2>2. Append(s, g[k]) \in [1 .. k -> X]
    BY <1>2, <2>1
  <2> QED BY <2>2
<1>4. \A n \in 1 .. k : Append(s, g[k])[n] = g[n]
  <2> TAKE n \in 1 .. k
  <2>1. n \in 1 .. m \/ n = k
    OBVIOUS
  <2> QED BY <1>2, <2>1
<1> QED BY <1>3, <1>4

(* What a party finds at the head of a stream when it ends an opening.     *)
LEMMA KeptHead ==
    ASSUME CallsInOrder, StreamsFlow, NEW d \in BOOLEAN, d = direct, d \/ ChecksApart,
           NEW p \in Players, stage[p] = "call",
           NEW k \in DOMAIN Ops, k = pc[p], Ops[k].op = "end",
           NEW q \in Players, q # p, Kept(d, q, p), stream["main"][q][p] # <<>>
    PROVE  Head(stream["main"][q][p]) = IF d THEN Share(Ends(k), q) ELSE Complete(Ends(k))
<1>1. "main" \in Channels
  BY DEF Channels
<1>2. Script(d, "main", q, p, ReadBy(d, "main", q, p)[k - 1] + 1) =
         IF d THEN Share(Ends(k), q) ELSE Complete(Ends(k))
  BY ReadAtEnd
<1>3. Read(d, "main", q, p, k, "call", sums[p]) = ReadBy(d, "main", q, p)[k - 1]
  <2>1. PICK s, r, x, y \in Nat : AtEnds(d, "main", q, p, k, s, r, x, y)
    BY <1>1, Standing
  <2> QED BY <2>1 DEF AtEnds
<1>4. Head(stream["main"][q][p]) =
         Script(d, "main", q, p, Read(d, "main", q, p, k, "call", sums[p]) + 1)
  BY <1>1, HeadIs
<1> QED BY <1>2, <1>3, <1>4

(* The call is done, or a check is made.                                   *)
LEMMA EndsOpening ==
    ASSUME Inv, Inv', Sound, NEW p \in Players, stage[p] = "call", pc[p] <= Len(Ops),
           NEW k \in DOMAIN Ops, k = pc[p], Ops[k].op = "end",
           direct' = direct, checks' = checks, macs' = macs, sums' = sums, failed' = failed,
           input' = input, ReturnOrCheck(p),
           opened' = [opened EXCEPT ![p] = Append(@, Complete(Ends(k)))],
           Blocks(vals'[p], Ledger[k - 1].upTo, Contents(direct, p, Ends(k))),
           \A q \in Players \ {p} : values'[q] = values[q] /\ vals'[q] = vals[q],
           DOMAIN values' = Players,
           NEW from, \A r \in Players \ {p} : r \in from <=> Kept(direct, r, p),
           p \notin from, Available("main", p, from), from \subseteq Players,
           NEW m, Streamed(stream', stream, "main", p, {}, from, m)
    PROVE  Sound'
<1>1. /\ direct \in BOOLEAN /\ DOMAIN sums = Players /\ DOMAIN opened = Players
      /\ DOMAIN input = Players /\ StreamsFlow
  BY AtACall
<1>2. /\ Settled(pc'[p], stage'[p], k)
      /\ \A q \in Players \ {p} : pc'[q] = pc[q] /\ stage'[q] = stage[q]
  BY Settles DEF ReturnOrCheck
<1>3. Others(p)
  BY <1>1, <1>2 DEF Others
<1>4. StreamsFlow' /\ Shaped(stream')
  <2>1. "main" \in Channels /\ p \notin {}
    BY DEF Channels
  <2>2. \A r \in Players \ {p} : r \in from <=> Ops[k].op = "end" /\ Kept(direct, r, p)
    OBVIOUS
  <2>3. /\ Moves(direct, "main", p, {}, from, m, k, "call", sums[p], k, "seed", sums[p])
        /\ ~CheckAt(k) => Moves(direct, "main", p, {}, from, m,
                                k, "call", sums[p], k + 1, "call", sums[p])
    <3>1. Ops[k].op \in {"end", "check"}
      OBVIOUS
    <3> QED BY <1>1, <2>2, <3>1, EndReads
  <2>4. Moves(direct, "main", p, {}, from, m, k, "call", sums[p], pc'[p], stage'[p], sums[p])
    BY <1>2, <2>3 DEF Settled
  <2>5. Moves(direct, "main", p, {}, from, m,
              pc[p], stage[p], sums[p], pc'[p], stage'[p], sums'[p])
    BY <2>4
  <2>6. \A q \in Players : q \in from => stream["main"][q][p] # <<>>
    BY DEF Available
  <2>7. \A q \in Players \ {p} : pc'[q] = pc[q] /\ stage'[q] = stage[q] /\ sums'[q] = sums[q]
    BY <1>3 DEF Others
  <2> QED BY <1>1, <2>1, <2>5, <2>6, <2>7, StreamsGoOn
<1>5. opened'[p] = [n \in 1 .. Ends(k) |-> Complete(n)]
  <2>1. Ends(k) = Ends(k - 1) + 1 /\ Ends(k - 1) \in Nat
    BY EndedHere
  <2>2. PICK g : g = [n \in 1 .. Ends(k) |-> Complete(n)]
    OBVIOUS
  <2>3. Ends(k) \in 1 .. Ends(k) /\ \A n \in 1 .. Ends(k - 1) : n \in 1 .. Ends(k)
    BY <2>1
  <2>4. opened[p] = [n \in 1 .. Ends(k - 1) |-> Complete(n)]
    BY HeldInTree
  <2>5. opened[p] = [n \in 1 .. Ends(k - 1) |-> g[n]]
    BY <2>2, <2>3, <2>4
  <2>6. g[Ends(k)] = Complete(Ends(k))
    BY <2>2, <2>3
  <2>7. Append(opened[p], g[Ends(k)]) = [n \in 1 .. Ends(k) |-> g[n]]
    BY <2>1, <2>5, FunctionGrows
  <2>8. [n \in 1 .. Ends(k) |-> g[n]] = [n \in 1 .. Ends(k) |-> Complete(n)]
    BY <2>2
  <2> QED BY <1>1, <2>6, <2>7, <2>8
<1>6. Holds(direct, p, pc'[p], stage'[p], sums'[p], values'[p], macs'[p], vals'[p],
             opened'[p], input'[p])
  <2>1. /\ Blocks(macs[p], Ledger[k - 1].upTo, Numbers)
        /\ input[p] = [n \in 1 .. Stopped(k - 1) |-> InputOf(p, n)]
    BY HeldInTree
  <2>2. Stopped(k) = Stopped(k - 1)
    BY EndedHere
  <2>3. Holds(direct, p, pc'[p], stage'[p], sums'[p], values'[p], macs[p], vals'[p],
              opened'[p], input[p])
    BY <1>2, <1>5, <2>1, <2>2, HoldsSettled
  <2> QED BY <2>3
<1>7. DOMAIN opened' = Players
  BY <1>1
<1> QED BY <1>1, <1>3, <1>4, <1>6, <1>7, SoundGoesOn

LEMMA EndLeafSound ==
    ASSUME CallsInOrder, direct \/ ChecksApart, Inv, Inv', Sound, NEW p \in Players, EndLeaf(p),
           direct' = direct
    PROVE  Sound'
<1>1. /\ ~direct /\ stage[p] = "call" /\ pc[p] <= Len(Ops) /\ Ops[pc[p]].op = "end"
      /\ IsLeaf(p) /\ Available("main", p, {Parent(p)})
      /\ macs' = macs /\ sums' = sums /\ failed' = failed /\ ReturnOrCheck(p)
      /\ stream' = Takes(stream, "main", p, {Parent(p)})
  BY DEF EndLeaf, At
<1>2. PICK k \in DOMAIN Ops : k = pc[p]
  BY <1>1, AtACall
<1>3. /\ direct = FALSE /\ Ops[k].op = "end" /\ StreamsFlow
      /\ DOMAIN values = Players /\ DOMAIN vals = Players /\ Shaped(stream)
  BY <1>1, <1>2, AtACall
<1>4. /\ Parent(p) \in Players /\ Parent(p) # p
      /\ \A r \in Players : Tells(r, p) <=> r = Parent(p)
  BY <1>1, Leaves, TellsIs
<1>5. \A r \in Players \ {p} : r \in {Parent(p)} <=> Kept(direct, r, p)
  BY <1>1, <1>4 DEF Kept
<1>6. Head(stream["main"][Parent(p)][p]) = Complete(Ends(k))
  <2>1. PICK d \in BOOLEAN : d = direct
    BY <1>3
  <2>2. d \/ ChecksApart
    BY <2>1
  <2>3. Kept(d, Parent(p), p) /\ stream["main"][Parent(p)][p] # <<>>
    BY <1>1, <1>4, <1>5, <2>1 DEF Available
  <2>4. Head(stream["main"][Parent(p)][p]) =
           IF d THEN Share(Ends(k), Parent(p)) ELSE Complete(Ends(k))
    BY <1>1, <1>2, <1>3, <1>4, <2>1, <2>2, <2>3, KeptHead
  <2> QED BY <1>3, <2>1, <2>4
<1>7. /\ AddToValues(p, Ended(p), Complete(Ends(k)))
      /\ values' = [values EXCEPT ![p] = Complete(Ends(k))]
      /\ Returned(p, Complete(Ends(k)))
  BY <1>6 DEF EndLeaf
<1>8. Blocks(vals'[p], Ledger[k - 1].upTo, Contents(direct, p, Ends(k)))
  <2>1. PICK X : vals[p] \in Seq(X)
    BY <1>1, AtACall
  <2>2. PICK u, m \in Nat : u = Ledger[k - 1].upTo /\ m = Len(vals[p])
    BY <1>1, <1>2, AtACall
  <2>3. Ends(k) \in 1 .. Openings /\ Returns(k - 1) = Total[Ends(k) - 1]
    BY <1>3, EndedHere
  <2>4. m = Returns(k - 1) - u
    <3>1. Late(direct, p) = TRUE
      BY <1>1 DEF Late
    <3> QED BY <1>1, <1>2, <2>2, <3>1, AtACall DEF PartyOK, AtCall
  <2>5. Returns(k - 1) \in Nat
    BY BegunAndReturned
  <2>6. u + Len(vals[p]) = Total[Ends(k) - 1] /\ u \in Int
    BY <2>2, <2>3, <2>4, <2>5
  <2>7. PICK content : content = Contents(direct, p, Ends(k))
    OBVIOUS
  <2>8. Contents(direct, p, Ends(k - 1)) = Contents(direct, p, Ends(k))
    BY <1>3, <2>3, ContentsKnown
  <2>9. Blocks(vals[p], u, content)
    BY <1>1, <1>2, <2>2, <2>7, <2>8, HeldInTree
  <2>10. Complete(Ends(k)) = content[Ends(k)]
    BY <1>3, <2>3, <2>7, ContentsKnown
  <2>11. Blocks(vals[p] \o Places(Complete(Ends(k)), SizeOf(Ends(k))), u, content)
    BY <2>1, <2>3, <2>6, <2>9, <2>10, BlocksAppended
  <2>12. vals'[p] = vals[p] \o Places(Complete(Ends(k)), SizeOf(Ends(k)))
    BY <1>2, <1>3, <1>7 DEF AddToValues, Places, Ended
  <2> QED BY <2>2, <2>7, <2>11, <2>12
<1>9. \A q \in Players \ {p} : values'[q] = values[q] /\ vals'[q] = vals[q]
  BY <1>3, <1>7 DEF AddToValues
<1>10. Streamed(stream', stream, "main", p, {}, {Parent(p)}, Complete(Ends(k)))
  BY <1>1, <1>3, TakesAll DEF Channels
<1>11. /\ opened' = [opened EXCEPT ![p] = Append(@, Complete(Ends(k)))]
       /\ checks' = checks /\ input' = input
  BY <1>7 DEF Returned
<1>12. DOMAIN values' = Players /\ p \notin {Parent(p)} /\ {Parent(p)} \subseteq Players
  BY <1>3, <1>4, <1>7
<1> QED BY <1>1, <1>2, <1>3, <1>5, <1>8, <1>9, <1>10, <1>11, <1>12, EndsOpening

LEMMA DirectContents ==
    ASSUME NEW p, NEW d, d, NEW e \in Nat, NEW k \in 1 .. Openings
    PROVE  /\ k > e => Contents(d, p, e)[k] = Share(k, p)
           /\ k <= e => Contents(d, p, e)[k] = Complete(k)
<1>1. Contents(d, p, e)[k] = IF k > e THEN Share(k, p) ELSE Complete(k)
  BY DEF Contents
<1>2. k <= e => ~(k > e)
  OBVIOUS
<1> QED BY <1>1, <1>2

(* What a party that has the values of an opening finds of it when it ends. *)
LEMMA StoredValues ==
    ASSUME CallsInOrder, Inv, Sound, NEW p \in Players, stage[p] = "call", pc[p] <= Len(Ops),
           NEW k \in DOMAIN Ops, k = pc[p], Ops[k].op = "end", ~Late(direct, p),
           NEW size, size = SizeOf(Ends(k))
    PROVE  /\ ~(popenCnt[p] + size > Len(vals[p]))
           /\ GetValues(p, size)[1][1] = Contents(direct, p, Ends(k - 1))[Ends(k)]
           /\ Ledger[k - 1].upTo + popenCnt[p] = Total[Ends(k) - 1] /\ popenCnt[p] \in Nat
<1>1. PICK X : vals[p] \in Seq(X)
  BY AtACall
<1>2. PICK b0, b1, r0, r1, u \in Nat :
              /\ Begun(k - 1) = b0 /\ Begun(k) = b1
              /\ Returns(k - 1) = r0 /\ Returns(k) = r1 /\ Ledger[k - 1].upTo = u
              /\ u <= r0 /\ r0 <= b0 /\ r0 <= r1 /\ r1 <= b1 /\ b0 <= b1
  BY OneCall
<1>3. /\ Ends(k) \in 1 .. Openings /\ r0 = Total[Ends(k) - 1] /\ b1 = b0
  BY <1>2, EndedHere
<1>4. PICK z \in Nat : z = size /\ z > 0
  BY <1>3, SizesArePositive
<1>5. r1 = r0 + z
  BY <1>2, <1>4, BegunAndReturned
<1>6. PICK n \in Int, v \in Nat : n = popenCnt[p] /\ v = Len(vals[p])
  BY PartyAt
<1>7. n = r0 - u /\ v = b0 - u
  BY <1>2, <1>6, AtACall DEF PartyOK, AtCall
<1>8. n \in Nat /\ n + z <= v /\ v \in Nat /\ u + n = r0
  <2>1. u <= r0 /\ r1 <= b0
    BY <1>2, <1>3
  <2> QED BY <1>5, <1>7, <2>1
<1>9. SubSeq(vals[p], n + 1, n + z)[1] = vals[p][n + 1]
  <2>1. PICK a, e \in Nat : a = n + 1 /\ e = n + z
    BY <1>8
  <2>2. a >= 1 /\ e <= v /\ 1 \in 1 .. e - a + 1 /\ a + 1 - 1 = a
    BY <1>4, <1>8, <2>1
  <2>3. PICK f \in Seq(X) : f = vals[p]
    BY <1>1
  <2>4. \A i \in a .. e : f[i] \in X
    <3> TAKE i \in a .. e
    <3>1. i \in 1 .. Len(f)
      BY <1>6, <2>2, <2>3
    <3> QED BY <3>1
  <2>5. \A i \in 1 .. e - a + 1 : SubSeq(f, a, e)[i] = f[a + i - 1]
    BY <2>4, SubSeqProperties
  <2>6. SubSeq(f, a, e)[1] = f[a]
    BY <2>2, <2>5
  <2> QED BY <2>1, <2>3, <2>6
<1>10. vals[p][n + 1] = <<Contents(direct, p, Ends(k - 1))[Ends(k)], 1>>
  <2>1. Blocks(vals[p], u, Contents(direct, p, Ends(k - 1)))
    BY <1>2, HeldInTree
  <2>2. 1 \in 1 .. SizeOf(Ends(k)) /\ n + 1 \in DOMAIN vals[p] /\ u + (n + 1) = r0 + 1
    <3>1. DOMAIN vals[p] = 1 .. v
      BY <1>1, <1>6
    <3> QED BY <1>4, <1>8, <3>1
  <2>3. u + (n + 1) = Total[Ends(k) - 1] + 1
    BY <1>3, <2>2
  <2> QED BY <1>3, <2>1, <2>2, <2>3 DEF Blocks
<1>11. GetValues(p, size)[1][1] = Contents(direct, p, Ends(k - 1))[Ends(k)]
  <2>1. GetValues(p, size) = SubSeq(vals[p], n + 1, n + z)
    BY <1>4, <1>6 DEF GetValues
  <2>2. GetValues(p, size)[1] = <<Contents(direct, p, Ends(k - 1))[Ends(k)], 1>>
    BY <1>9, <1>10, <2>1
  <2> QED BY <2>2
<1>12. ~(n + z > v)
  BY <1>4, <1>8
<1> QED BY <1>2, <1>3, <1>4, <1>6, <1>8, <1>11, <1>12

LEMMA EndInnerSound ==
    ASSUME CallsInOrder, direct \/ ChecksApart, Inv, Inv', Sound, NEW p \in Players, EndInner(p),
           direct' = direct
    PROVE  Sound'
<1> DEFINE size == SizeOf(Ended(p))
<1>1. /\ ~direct /\ stage[p] = "call" /\ pc[p] <= Len(Ops) /\ Ops[pc[p]].op = "end"
      /\ ~IsLeaf(p) /\ values' = values /\ stream' = stream
  BY DEF EndInner, At
<1>2. PICK k \in DOMAIN Ops : k = pc[p]
  BY <1>1, AtACall
<1>3. /\ direct = FALSE /\ Ops[k].op = "end" /\ Ended(p) = Ends(k)
      /\ DOMAIN values = Players /\ Shaped(stream)
  BY <1>1, <1>2, AtACall DEF Ended
<1>4. ~Late(direct, p)
  BY <1>1 DEF Late
<1>5. /\ ~(popenCnt[p] + size > Len(vals[p]))
      /\ GetValues(p, size)[1][1] = Contents(direct, p, Ends(k - 1))[Ends(k)]
  BY <1>1, <1>2, <1>3, <1>4, StoredValues
<1>6. Ends(k) \in 1 .. Openings
  BY <1>3, EndedHere
<1>7. GetValues(p, size)[1][1] = Complete(Ends(k))
  BY <1>3, <1>5, <1>6, ContentsKnown
<1>8. /\ vals' = vals /\ macs' = macs /\ sums' = sums /\ failed' = failed
      /\ Returned(p, Complete(Ends(k))) /\ ReturnOrCheck(p)
  BY <1>5, <1>7 DEF EndInner
<1>9. /\ opened' = [opened EXCEPT ![p] = Append(@, Complete(Ends(k)))]
      /\ checks' = checks /\ input' = input
  BY <1>8 DEF Returned
<1>10. Blocks(vals'[p], Ledger[k - 1].upTo, Contents(direct, p, Ends(k)))
  <2>1. Contents(direct, p, Ends(k - 1)) = Contents(direct, p, Ends(k))
    BY <1>3, <1>6, ContentsKnown
  <2>2. Blocks(vals[p], Ledger[k - 1].upTo, Contents(direct, p, Ends(k - 1)))
    BY <1>1, <1>2, HeldInTree
  <2> QED BY <1>8, <2>1, <2>2
<1>11. Streamed(stream', stream, "main", p, {}, {}, Complete(Ends(k)))
  BY <1>1, <1>3 DEF Streamed
<1>12. \A r \in Players \ {p} : r \in {} <=> Kept(direct, r, p)
  BY <1>1 DEF Kept
<1>13. p \notin {} /\ {} \subseteq Players /\ Available("main", p, {})
  BY DEF Available
<1>14. \A q \in Players \ {p} : values'[q] = values[q] /\ vals'[q] = vals[q]
  BY <1>1, <1>8
<1>15. DOMAIN values' = Players
  BY <1>1, <1>3
<1> QED BY <1>1, <1>2, <1>3, <1>8, <1>9, <1>10, <1>11, <1>12, <1>13, <1>14, <1>15, EndsOpening

LEMMA EndDirectSound ==
    ASSUME CallsInOrder, Inv, Inv', Sound, NEW p \in Players, EndDirect(p), direct' = direct
    PROVE  Sound'
<1> DEFINE others == Players \ {p}
           size == SizeOf(Ended(p))
           own == GetValues(p, size)[1][1]
           content == AddUp(own, Heads("main", p, others))
<1>1. /\ direct /\ stage[p] = "call" /\ pc[p] <= Len(Ops) /\ Ops[pc[p]].op = "end"
      /\ Available("main", p, others)
      /\ stream' = Takes(stream, "main", p, others)
      /\ SetValues(p, size, content) /\ Returned(p, content) /\ ReturnOrCheck(p)
      /\ values' = values /\ macs' = macs /\ sums' = sums /\ failed' = failed
  BY DEF EndDirect, At
<1>0. direct
  BY <1>1
<1>2. PICK k \in DOMAIN Ops : k = pc[p]
  BY <1>1, AtACall
<1>3. /\ Ops[k].op = "end" /\ Ended(p) = Ends(k) /\ StreamsFlow
      /\ DOMAIN values = Players /\ DOMAIN vals = Players /\ Shaped(stream)
  BY <1>1, <1>2, AtACall DEF Ended
<1>4. ~Late(direct, p)
  BY <1>1 DEF Late
<1>5. direct = TRUE
  BY <1>1, AtACall
<1>6. /\ Ends(k) \in 1 .. Openings /\ Ends(k) = Ends(k - 1) + 1 /\ Ends(k - 1) \in Nat
      /\ Openings \in Nat
  <2>1. k \in 0 .. Len(Ops)
    BY OpsAssumption
  <2> QED BY <1>3, <2>1, EndedHere, EndsAfterBegins
<1>7. /\ own = Contents(direct, p, Ends(k - 1))[Ends(k)]
      /\ Ledger[k - 1].upTo + popenCnt[p] = Total[Ends(k) - 1] /\ popenCnt[p] \in Nat
  BY <1>1, <1>2, <1>3, <1>4, StoredValues
<1>8. own = Share(Ends(k), p)
  <2>1. Ends(k) > Ends(k - 1)
    BY <1>6
  <2> QED BY <1>1, <1>6, <1>7, <2>1, DirectContents
<1>9. Heads("main", p, others) = [q \in others |-> Share(Ends(k), q)]
  <2>1. ASSUME NEW q \in others PROVE Head(stream["main"][q][p]) = Share(Ends(k), q)
    <3>1. PICK d \in BOOLEAN : d = direct
      BY <1>5
    <3>2. d \/ ChecksApart
      BY <1>1, <3>1
    <3>3. Kept(d, q, p)
      BY <1>1, <3>1 DEF Kept
    <3>4. stream["main"][q][p] # <<>> /\ q \in Players /\ q # p
      BY <1>1, <2>1 DEF Available
    <3>6. /\ stage[p] = "call" /\ k = pc[p] /\ Ops[k].op = "end" /\ StreamsFlow
          /\ d = direct
      BY <1>1, <1>2, <1>3, <3>1
    <3>5. Head(stream["main"][q][p]) = IF d THEN Share(Ends(k), q) ELSE Complete(Ends(k))
      BY <3>2, <3>3, <3>4, <3>6, KeptHead
    <3> QED BY <1>1, <3>1, <3>5
  <2> QED BY <2>1 DEF Heads
<1>10. content = Complete(Ends(k))
  BY <1>8, <1>9, AllShares
<1>11. /\ opened' = [opened EXCEPT ![p] = Append(@, Complete(Ends(k)))]
       /\ checks' = checks /\ input' = input
  BY <1>1, <1>10 DEF Returned
<1>12. vals' = [vals EXCEPT ![p] = [i \in DOMAIN @ |->
                IF i \in popenCnt[p] + 1 .. popenCnt[p] + size
                THEN <<Complete(Ends(k)), i - popenCnt[p]>> ELSE @[i]]]
  BY <1>1, <1>10 DEF SetValues
<1> HIDE DEF content, own
<1>13. Blocks(vals'[p], Ledger[k - 1].upTo, Contents(direct, p, Ends(k)))
  <2>1. PICK u, m \in Nat : u = Ledger[k - 1].upTo /\ m = Len(vals[p])
    BY <1>1, <1>2, AtACall
  <2>2. DOMAIN vals[p] = 1 .. m
    <3>1. PICK X : vals[p] \in Seq(X)
      BY <1>1, AtACall
    <3> QED BY <2>1, <3>1
  <2>3. PICK f, n : f = vals[p] /\ n = popenCnt[p]
    OBVIOUS
  <2>4. PICK before, after : /\ before = Contents(direct, p, Ends(k - 1))
                             /\ after = Contents(direct, p, Ends(k))
    OBVIOUS
  <2>5. Blocks(f, u, before)
    BY <1>1, <1>2, <2>1, <2>3, <2>4, HeldInTree
  <2>6. after[Ends(k)] = Complete(Ends(k))
    <3>1. Ends(k) \in Nat /\ Ends(k) <= Ends(k)
      BY <1>6
    <3> QED BY <1>6, <2>4, <3>1 DEF Contents
  <2>7. \A h \in 1 .. Openings : h # Ends(k) => after[h] = before[h]
    <3> TAKE h \in 1 .. Openings
    <3> HAVE h # Ends(k)
    <3>1. /\ h > Ends(k) <=> h > Ends(k - 1)
          /\ h <= Ends(k) <=> h <= Ends(k - 1)
          /\ h > Ends(k) \/ h <= Ends(k)
          /\ Ends(k) \in Nat /\ Ends(k - 1) \in Nat
      BY <1>6
    <3>2. CASE h > Ends(k)
      <4>1. /\ Contents(direct, p, Ends(k))[h] = Share(h, p)
            /\ Contents(direct, p, Ends(k - 1))[h] = Share(h, p)
        BY <1>0, <3>1, <3>2, DirectContents
      <4> QED BY <2>4, <4>1
    <3>3. CASE h <= Ends(k)
      <4>1. /\ Contents(direct, p, Ends(k))[h] = Complete(h)
            /\ Contents(direct, p, Ends(k - 1))[h] = Complete(h)
        BY <3>1, <3>3 DEF Contents
      <4> QED BY <2>4, <4>1
    <3> QED BY <3>1, <3>2, <3>3
  <2>8. u + n = Total[Ends(k) - 1] /\ n \in Int /\ u \in Int
    BY <1>7, <2>1, <2>3
  <2>9. size = SizeOf(Ends(k))
    BY <1>3
  <2>10. DOMAIN f = 1 .. m
    BY <2>2, <2>3
  <2> HIDE DEF size
  <2>11. Blocks([i \in DOMAIN f |-> IF i \in n + 1 .. n + size
                                    THEN <<Complete(Ends(k)), i - n>> ELSE f[i]], u, after)
    <3>1. PICK e \in 1 .. Openings : e = Ends(k)
      BY <1>6
    <3>2. /\ u + n = Total[e - 1] /\ size = SizeOf(e) /\ after[e] = Complete(e)
          /\ \A h \in 1 .. Openings : h # e => after[h] = before[h]
      BY <2>6, <2>7, <2>8, <2>9, <3>1
    <3>3. PICK t : t = [i \in DOMAIN f |-> IF i \in n + 1 .. n + size
                                           THEN <<Complete(e), i - n>> ELSE f[i]]
      OBVIOUS
    <3>4. Overwritten(t, f, m, n, e, after[e])
      BY <2>10, <3>2, <3>3 DEF Overwritten
    <3>5. Blocks(t, u, after)
      BY <2>5, <2>8, <2>10, <3>2, <3>4, BlocksRewritten
    <3> QED BY <3>1, <3>3, <3>5
  <2>12. vals'[p] = [i \in DOMAIN f |-> IF i \in n + 1 .. n + size
                                    THEN <<Complete(Ends(k)), i - n>> ELSE f[i]]
    BY <1>3, <1>12, <2>3
  <2> QED BY <2>1, <2>4, <2>11, <2>12
<1>14. Streamed(stream', stream, "main", p, {}, others, Complete(Ends(k)))
  BY <1>1, <1>3, TakesAll DEF Channels
<1>15. \A r \in Players \ {p} : r \in others <=> Kept(direct, r, p)
  BY <1>1 DEF Kept
<1>16. p \notin others /\ others \subseteq Players
  OBVIOUS
<1>17. \A q \in Players \ {p} : values'[q] = values[q] /\ vals'[q] = vals[q]
  BY <1>1, <1>3, <1>12
<1>18. DOMAIN values' = Players
  BY <1>1, <1>3
<1> HIDE DEF others, size
<1> QED BY <1>1, <1>2, <1>3, <1>11, <1>13, <1>14, <1>15, <1>16, <1>17, <1>18, EndsOpening

LEMMA CheckCallSound ==
    ASSUME Inv, Inv', Sound, NEW p \in Players, CheckNothing(p) \/ CheckBegins(p), direct' = direct
    PROVE  Sound'
<1>1. /\ stage[p] = "call" /\ pc[p] <= Len(Ops) /\ Ops[pc[p]].op = "check"
      /\ Return(p) \/ Stage(p, "seed")
      /\ sums' = sums /\ values' = values /\ stream' = stream /\ macs' = macs /\ vals' = vals
      /\ failed' = failed /\ opened' = opened /\ input' = input /\ checks' = checks
  BY DEF CheckNothing, CheckBegins, At, store, ghosts
<1>2. PICK k \in DOMAIN Ops : k = pc[p]
  BY <1>1, AtACall
<1>3. /\ Ops[k].op = "check" /\ StreamsFlow /\ direct \in BOOLEAN /\ Shaped(stream)
      /\ DOMAIN sums = Players /\ DOMAIN values = Players
      /\ DOMAIN opened = Players /\ DOMAIN input = Players
  BY <1>1, <1>2, AtACall
<1>4. /\ Settled(pc'[p], stage'[p], k)
      /\ \A q \in Players \ {p} : pc'[q] = pc[q] /\ stage'[q] = stage[q]
  BY <1>1, <1>2, Settles
<1>5. Others(p)
  BY <1>1, <1>4 DEF Others
<1>6. StreamsFlow' /\ Shaped(stream')
  <2>1. /\ Moves(direct, "main", p, {}, {}, Seed(0, p), k, "call", sums[p], k, "seed", sums[p])
        /\ ~CheckAt(k) => Moves(direct, "main", p, {}, {}, Seed(0, p),
                                k, "call", sums[p], k + 1, "call", sums[p])
    <3>1. \A r \in Players \ {p} : r \in {} <=> Ops[k].op = "end" /\ Kept(direct, r, p)
      BY <1>3
    <3>2. Ops[k].op \in {"end", "check"}
      BY <1>3
    <3> QED BY <1>3, <3>1, <3>2, EndReads
  <2>2. Moves(direct, "main", p, {}, {}, Seed(0, p), k, "call", sums[p], pc'[p], stage'[p], sums[p])
    BY <1>4, <2>1 DEF Settled
  <2>3. Still(direct, p, k, "call", sums[p], pc'[p], stage'[p], sums[p])
    BY <2>2, StillIs
  <2>4. Still(direct, p, pc[p], stage[p], sums[p], pc'[p], stage'[p], sums'[p])
    BY <1>1, <1>2, <2>3
  <2> QED BY <1>1, <1>3, <1>5, <2>4, StreamsStay DEF Others
<1>7. Holds(direct, p, pc'[p], stage'[p], sums'[p], values'[p], macs'[p], vals'[p],
            opened'[p], input'[p])
  <2>1. Ends(k) = Ends(k - 1) /\ Stopped(k) = Stopped(k - 1)
    BY <1>3, CallCounts, InputCounts
  <2>2. /\ Blocks(macs[p], Ledger[k - 1].upTo, Numbers)
        /\ Blocks(vals[p], Ledger[k - 1].upTo, Contents(direct, p, Ends(k)))
        /\ opened[p] = [n \in 1 .. Ends(k) |-> Complete(n)]
        /\ input[p] = [n \in 1 .. Stopped(k) |-> InputOf(p, n)]
    BY <1>1, <1>2, <2>1, HeldInTree
  <2>3. Holds(direct, p, pc'[p], stage'[p], sums'[p], values'[p], macs[p], vals[p],
              opened[p], input[p])
    BY <1>4, <2>2, HoldsSettled
  <2> QED BY <1>1, <2>3
<1> QED BY <1>1, <1>3, <1>5, <1>6, <1>7, SoundGoesOn

(* A party in a check.                                                     *)
LEMMA InACheck ==
    ASSUME Inv, Sound, NEW p \in Players, pc[p] <= Len(Ops), InCheckStage(stage[p]),
           NEW k \in DOMAIN Ops, k = pc[p]
    PROVE  /\ CheckAt(k) /\ Nth(p) = ChecksBefore(k) /\ CheckChannel = CheckOn(direct)
           /\ CheckOn(direct) \in Channels
           /\ Blocks(macs[p], Covered(k, stage[p]), Numbers)
           /\ Blocks(vals[p], Covered(k, stage[p]), Contents(direct, p, Ends(k)))
           /\ opened[p] = [n \in 1 .. Ends(k) |-> Complete(n)]
           /\ input[p] = [n \in 1 .. Stopped(k - 1) |-> InputOf(p, n)]
<1>1. PartyOK(pc[p], stage[p], Len(macs[p]), Len(vals[p]), popenCnt[p], checks[p],
              Late(direct, p), direct)
  BY AtACall
<1>2. CheckAt(k) /\ Nth(p) = ChecksBefore(k)
  BY <1>1 DEF PartyOK, InCheckStage, CheckAt, Nth, ChecksBefore
<1>3. CheckChannel = CheckOn(direct) /\ CheckOn(direct) \in Channels
  BY DEF CheckChannel, CheckOn, Channels
<1>4. EndedBy(pc[p], stage[p]) = Ends(k)
  BY DEF EndedBy
<1>5. Holds(direct, p, pc[p], stage[p], sums[p], values[p], macs[p], vals[p], opened[p], input[p])
  BY DEF Sound, PartiesHold
<1> QED BY <1>2, <1>3, <1>4, <1>5 DEF Holds

LEMMA SendSeedSound ==
    ASSUME CallsInOrder, direct \/ ChecksApart, Inv, Sound, NEW p \in Players, SendSeed(p),
           direct' = direct
    PROVE  Sound'
<1> DEFINE others == Players \ {p}
<1>1. /\ stage[p] = "seed" /\ pc[p] <= Len(Ops) /\ InCheckStage(stage[p])
      /\ stream' = Sends(stream, CheckChannel, p, others, Seed(Nth(p), p))
      /\ pc' = pc /\ stage' = [stage EXCEPT ![p] = "seeds"]
      /\ sums' = sums /\ values' = values /\ macs' = macs /\ vals' = vals
      /\ failed' = failed /\ opened' = opened /\ input' = input
  BY DEF SendSeed, At, Stage, store, ghosts, InCheckStage
<1>2. PICK k \in DOMAIN Ops : k = pc[p]
  BY <1>1, AtACall
<1>3. /\ StreamsFlow /\ direct \in BOOLEAN /\ Shaped(stream)
      /\ DOMAIN pc = Players /\ DOMAIN stage = Players
      /\ DOMAIN sums = Players /\ DOMAIN values = Players
      /\ DOMAIN opened = Players /\ DOMAIN input = Players
  BY <1>1, <1>2, AtACall
<1>4. /\ CheckAt(k) /\ Nth(p) = ChecksBefore(k) /\ CheckChannel = CheckOn(direct)
      /\ CheckOn(direct) \in Channels
  BY <1>1, <1>2, InACheck
<1>5. pc'[p] = k /\ stage'[p] = "seeds"
  BY <1>1, <1>2, <1>3
<1>6. Others(p)
  BY <1>1, <1>3 DEF Others
<1>7. StreamsFlow' /\ Shaped(stream')
  <2>1. p \notin others /\ p \notin {}
    OBVIOUS
  <2>2. Streamed(stream', stream, CheckOn(direct), p, others, {}, Seed(ChecksBefore(k), p))
    BY <1>1, <1>3, <1>4, SendsAll
  <2>3. Moves(direct, CheckOn(direct), p, others, {}, Seed(ChecksBefore(k), p),
              k, "seed", sums[p], k, "seeds", sums[p])
    BY <1>3, <1>4, CheckMoves
  <2>4. Moves(direct, CheckOn(direct), p, others, {}, Seed(ChecksBefore(k), p),
              pc[p], stage[p], sums[p], pc'[p], stage'[p], sums'[p])
    BY <1>1, <1>2, <1>5, <2>3
  <2>5. \A q \in Players : q \in {} => stream[CheckOn(direct)][q][p] # <<>>
    OBVIOUS
  <2>6. \A q \in Players \ {p} : pc'[q] = pc[q] /\ stage'[q] = stage[q] /\ sums'[q] = sums[q]
    BY <1>6 DEF Others
  <2> QED BY <1>3, <1>4, <2>1, <2>2, <2>4, <2>5, <2>6, StreamsGoOn
<1>8. Holds(direct, p, pc'[p], stage'[p], sums'[p], values'[p], macs'[p], vals'[p],
            opened'[p], input'[p])
  <2>1. /\ Blocks(macs[p], Covered(k, stage[p]), Numbers)
        /\ Blocks(vals[p], Covered(k, stage[p]), Contents(direct, p, Ends(k)))
        /\ opened[p] = [n \in 1 .. Ends(k) |-> Complete(n)]
        /\ input[p] = [n \in 1 .. Stopped(k - 1) |-> InputOf(p, n)]
    BY <1>1, <1>2, InACheck
  <2>2. /\ Covered(k, stage[p]) = Ledger[k - 1].upTo /\ Covered(k, "seeds") = Ledger[k - 1].upTo
        /\ EndedBy(k, "seeds") = Ends(k)
    BY <1>1 DEF Covered, EndedBy, InCheckStage
  <2>3. Summed(p, k, "seeds", sums[p], values[p])
    BY DEF Summed
  <2> QED BY <1>1, <1>5, <2>1, <2>2, <2>3 DEF Holds
<1> QED BY <1>1, <1>3, <1>6, <1>7, <1>8, SoundGoesOn

(* What a party reads next in a check.                                     *)
LEMMA ReadsSeed ==
    ASSUME CallsInOrder, NEW d \in BOOLEAN, d \/ ChecksApart, NEW p \in Players,
           NEW q \in Players, NEW k \in DOMAIN Ops, CheckAt(k), NEW l
    PROVE  Script(d, CheckOn(d), q, p, Read(d, CheckOn(d), q, p, k, "seeds", l) + 1) =
              Seed(ChecksBefore(k), q)
<1>1. PICK ch \in Channels : ch = CheckOn(d)
  BY DEF CheckOn, Channels
<1>2. SentBy(d, ch, q, p)[k - 1] = ReadBy(d, ch, q, p)[k - 1] + Returning(d, ch, q, p, k)
  BY <1>1, ReadInCheck
<1>3. PICK s, r, x, y, z \in Nat : /\ AtEnds(d, ch, q, p, k, s, r, x, y)
                                   /\ AtCheck(d, ch, q, p, k, s, r, z)
  BY Standing
<1>4. SentBy(d, ch, q, p)[k - 1] = s /\ ReadBy(d, ch, q, p)[k - 1] = r
  BY <1>3 DEF AtEnds
<1>5. Returning(d, ch, q, p, k) = z /\ Read(d, ch, q, p, k, "seeds", l) = r + z
  BY <1>3 DEF AtCheck
<1>6. Read(d, CheckOn(d), q, p, k, "seeds", l) = SentBy(d, CheckOn(d), q, p)[k - 1]
  BY <1>1, <1>2, <1>4, <1>5
<1>7. Script(d, CheckOn(d), q, p, SentBy(d, CheckOn(d), q, p)[k - 1] + 1) =
         Seed(ChecksBefore(k), q)
  BY CheckScript
<1> QED BY <1>6, <1>7

LEMMA ReadsTau ==
    ASSUME CallsInOrder, NEW d \in BOOLEAN, d \/ ChecksApart, NEW p \in Players,
           NEW q \in Players, NEW k \in DOMAIN Ops, CheckAt(k), NEW l
    PROVE  Script(d, CheckOn(d), q, p, Read(d, CheckOn(d), q, p, k, "taus", l) + 1) =
              Tau(ChecksBefore(k), q, TRUE)
<1>1. PICK ch \in Channels : ch = CheckOn(d)
  BY DEF CheckOn, Channels
<1>2. SentBy(d, ch, q, p)[k - 1] = ReadBy(d, ch, q, p)[k - 1] + Returning(d, ch, q, p, k)
  BY <1>1, ReadInCheck
<1>3. PICK s, r, x, y, z \in Nat : /\ AtEnds(d, ch, q, p, k, s, r, x, y)
                                   /\ AtCheck(d, ch, q, p, k, s, r, z)
  BY Standing
<1>4. SentBy(d, ch, q, p)[k - 1] = s /\ ReadBy(d, ch, q, p)[k - 1] = r
  BY <1>3 DEF AtEnds
<1>5. Returning(d, ch, q, p, k) = z
  BY <1>3 DEF AtCheck
<1>6. Read(d, ch, q, p, k, "taus", l) = r + z + 1
  BY <1>1, <1>3 DEF AtCheck
<1>7. s = r + z /\ r + z + 1 + 1 = s + 2
  BY <1>2, <1>3, <1>4, <1>5
<1>8. Read(d, CheckOn(d), q, p, k, "taus", l) + 1 = s + 2
  BY <1>1, <1>6, <1>7
<1>9. SentBy(d, CheckOn(d), q, p)[k - 1] = s
  BY <1>1, <1>4
<1>10. Script(d, CheckOn(d), q, p, SentBy(d, CheckOn(d), q, p)[k - 1] + 2) =
          Tau(ChecksBefore(k), q, TRUE)
  BY CheckScript
<1> QED BY <1>8, <1>9, <1>10

(* What a party finds at the head of a stream in a check.                  *)
LEMMA HeadInCheck ==
    ASSUME CallsInOrder, direct \in BOOLEAN, direct \/ ChecksApart,
           StreamsFlow, NEW p \in Players,
           NEW k \in DOMAIN Ops, k = pc[p], CheckAt(k), NEW q \in Players, q # p,
           stream[CheckOn(direct)][q][p] # <<>>
    PROVE  /\ stage[p] = "seeds" =>
                 Head(stream[CheckOn(direct)][q][p]) = Seed(ChecksBefore(k), q)
           /\ stage[p] = "taus" =>
                 Head(stream[CheckOn(direct)][q][p]) = Tau(ChecksBefore(k), q, TRUE)
<1>1. CheckOn(direct) \in Channels
  BY DEF CheckOn, Channels
<1>2. Head(stream[CheckOn(direct)][q][p]) =
        Script(direct, CheckOn(direct), q, p,
               Read(direct, CheckOn(direct), q, p, pc[p], stage[p], sums[p]) + 1)
  BY <1>1, HeadIs
<1>3. \A l : Script(direct, CheckOn(direct), q, p,
                    Read(direct, CheckOn(direct), q, p, k, "seeds", l) + 1) =
                Seed(ChecksBefore(k), q)
  BY ReadsSeed
<1>4. \A l : Script(direct, CheckOn(direct), q, p,
                    Read(direct, CheckOn(direct), q, p, k, "taus", l) + 1) =
                Tau(ChecksBefore(k), q, TRUE)
  BY ReadsTau
<1> QED BY <1>2, <1>3, <1>4

(* Every value that was returned is the sum, and belongs to its MAC.       *)
LEMMA AllAligned ==
    ASSUME Inv, Sound, NEW p \in Players, pc[p] <= Len(Ops), stage[p] = "seeds"
    PROVE  \A i \in 1 .. popenCnt[p] : Aligned(p, i)
<1> TAKE i \in 1 .. popenCnt[p]
<1>1. PICK k \in DOMAIN Ops : k = pc[p]
  BY AtACall
<1>2. PICK m, v \in Nat, n \in Int, late \in BOOLEAN : /\ m = Len(macs[p]) /\ v = Len(vals[p])
                                     /\ n = popenCnt[p] /\ late = Late(direct, p)
  BY PartyAt
<1>3. PartyOK(k, "seeds", m, v, n, checks[p], late, direct)
  BY <1>1, <1>2, AtACall
<1>4. n \in Nat /\ n <= m /\ n <= v
  BY <1>3, DropsChecked
<1>5. n = Returns(k) - Ledger[k - 1].upTo
  BY <1>3 DEF PartyOK, InCheck
<1>6. PICK u, r \in Nat : u = Ledger[k - 1].upTo /\ r = Returns(k)
  BY OneCall
<1>7. i \in 1 .. n /\ u + i \in 1 .. r
  <2>1. i \in 1 .. n
    BY <1>2
  <2>2. n = r - u
    BY <1>5, <1>6
  <2> QED BY <2>1, <2>2
<1>8. r = Total[Ends(k)] /\ Ends(k) \in 0 .. Openings /\ Openings \in Nat
  <2>1. k \in 0 .. Len(Ops)
    BY OpsAssumption
  <2> QED BY <1>6, <2>1, EndsAfterBegins DEF Returns
<1>9. PICK h \in 1 .. Ends(k) : \E j \in 1 .. SizeOf(h) : u + i = Total[h - 1] + j
  <2>1. u + i \in 1 .. Total[Ends(k)]
    BY <1>7, <1>8
  <2> QED BY <1>8, <2>1, EveryPlace
<1>10. PICK j \in 1 .. SizeOf(h) : u + i = Total[h - 1] + j
  BY <1>9
<1>11. h \in 1 .. Openings
  BY <1>8
<1>12. /\ Blocks(macs[p], u, Numbers)
       /\ Blocks(vals[p], u, Contents(direct, p, Ends(k)))
  <2>1. InCheckStage(stage[p]) /\ Covered(k, stage[p]) = u
    BY <1>6 DEF InCheckStage, Covered
  <2> QED BY <1>1, <2>1, InACheck
<1>13. DOMAIN macs[p] = 1 .. m /\ DOMAIN vals[p] = 1 .. v
  <2>1. PICK X : macs[p] \in Seq(X)
    BY AtACall
  <2>2. PICK Y : vals[p] \in Seq(Y)
    BY AtACall
  <2> QED BY <1>2, <2>1, <2>2
<1>14. i \in DOMAIN macs[p] /\ i \in DOMAIN vals[p]
  BY <1>2, <1>4, <1>7, <1>13
<1>15. macs[p][i] = <<h, j>>
  <2>1. macs[p][i] = <<Numbers[h], j>>
    BY <1>10, <1>11, <1>12, <1>14 DEF Blocks
  <2> QED BY <1>11, <2>1 DEF Numbers
<1>16. vals[p][i] = <<Complete(h), j>>
  <2>1. vals[p][i] = <<Contents(direct, p, Ends(k))[h], j>>
    BY <1>10, <1>11, <1>12, <1>14 DEF Blocks
  <2>2. ~(h > Ends(k))
    BY <1>8
  <2>3. Contents(direct, p, Ends(k))[h] = Complete(h)
    BY <1>11, <2>2 DEF Contents
  <2> QED BY <2>1, <2>3
<1> QED BY <1>14, <1>15, <1>16 DEF Aligned

LEMMA ReceiveSeedsSound ==
    ASSUME CallsInOrder, direct \/ ChecksApart, Inv, Sound, NEW p \in Players, ReceiveSeeds(p),
           direct' = direct
    PROVE  Sound'
<1> DEFINE others == Players \ {p}
<1>1. /\ stage[p] = "seeds" /\ pc[p] <= Len(Ops) /\ InCheckStage(stage[p])
      /\ Available(CheckChannel, p, others)
      /\ sums' = sums /\ opened' = opened /\ input' = input
  BY DEF ReceiveSeeds, At, ghosts, InCheckStage
<1>2. PICK k \in DOMAIN Ops : k = pc[p]
  BY <1>1, AtACall
<1>3. /\ StreamsFlow /\ direct \in BOOLEAN /\ Shaped(stream)
      /\ DOMAIN pc = Players /\ DOMAIN stage = Players
      /\ DOMAIN macs = Players /\ DOMAIN vals = Players
      /\ DOMAIN sums = Players /\ DOMAIN values = Players
      /\ DOMAIN opened = Players /\ DOMAIN input = Players
  BY <1>1, <1>2, AtACall
<1>4. /\ CheckAt(k) /\ Nth(p) = ChecksBefore(k) /\ CheckChannel = CheckOn(direct)
      /\ CheckOn(direct) \in Channels
  BY <1>1, <1>2, InACheck
<1> DEFINE tau == Tau(ChecksBefore(k), p, TRUE)
           ch == CheckOn(direct)
           n == popenCnt[p]
<1>5. \A q \in others : Heads(CheckChannel, p, others)[q] = Seed(Nth(p), q)
  <2> TAKE q \in others
  <2>1. stream[CheckOn(direct)][q][p] # <<>> /\ q \in Players /\ q # p
    BY <1>1, <1>4 DEF Available
  <2>3. Head(stream[CheckOn(direct)][q][p]) = Seed(ChecksBefore(k), q)
    BY <1>1, <1>2, <1>3, <1>4, <2>1, HeadInCheck
  <2> QED BY <1>1, <1>4, <2>3 DEF Heads
<1>6. \A i \in 1 .. popenCnt[p] : Aligned(p, i)
  BY <1>1, AllAligned
<1>7. Tau(Nth(p), p, \A i \in 1 .. popenCnt[p] : Aligned(p, i)) = tau
  BY <1>4, <1>6
<1>8. /\ stream' = Sends(Takes(stream, CheckChannel, p, others), CheckChannel, p, others, tau)
      /\ vals' = [vals EXCEPT ![p] = SubSeq(@, n + 1, Len(@))]
      /\ macs' = [macs EXCEPT ![p] = SubSeq(@, n + 1, Len(@))]
      /\ values' = [values EXCEPT ![p] = tau]
      /\ pc' = pc /\ stage' = [stage EXCEPT ![p] = "taus"] /\ failed' = failed
  BY <1>5, <1>7 DEF ReceiveSeeds, Stage
<1>9. /\ pc'[p] = k /\ stage'[p] = "taus" /\ values'[p] = tau
      /\ macs'[p] = SubSeq(macs[p], n + 1, Len(macs[p]))
      /\ vals'[p] = SubSeq(vals[p], n + 1, Len(vals[p]))
  BY <1>2, <1>3, <1>8
<1>10. Others(p)
  BY <1>1, <1>3, <1>8 DEF Others
<1> HIDE DEF tau, ch, n
<1>11. StreamsFlow' /\ Shaped(stream')
  <2>1. p \notin others
    OBVIOUS
  <2>2. Streamed(stream', stream, ch, p, others, others, tau)
    BY <1>3, <1>4, <1>8, <2>1, SendsAndTakes DEF ch
  <2>3. Moves(direct, ch, p, others, others, tau, k, "seeds", sums[p], k, "taus", sums[p])
    BY <1>3, <1>4, CheckMoves DEF ch, tau
  <2>4. Moves(direct, ch, p, others, others, tau,
              pc[p], stage[p], sums[p], pc'[p], stage'[p], sums'[p])
    BY <1>1, <1>2, <1>9, <2>3
  <2>5. \A q \in Players : q \in others => stream[ch][q][p] # <<>>
    BY <1>1, <1>4 DEF Available, ch
  <2>6. \A q \in Players \ {p} : pc'[q] = pc[q] /\ stage'[q] = stage[q] /\ sums'[q] = sums[q]
    BY <1>10 DEF Others
  <2>7. ch \in Channels
    BY <1>4 DEF ch
  <2> QED BY <1>3, <2>1, <2>2, <2>4, <2>5, <2>6, <2>7, StreamsGoOn
<1>12. PICK u \in Nat : /\ u = Ledger[k - 1].upTo /\ n \in Nat /\ u + n = Returns(k)
                        /\ n <= Len(macs[p]) /\ n <= Len(vals[p])
  <2>1. PICK m, v \in Nat, e \in Int, late \in BOOLEAN : /\ m = Len(macs[p]) /\ v = Len(vals[p])
                                     /\ e = popenCnt[p] /\ late = Late(direct, p)
    BY PartyAt
  <2>2. PartyOK(k, "seeds", m, v, e, checks[p], late, direct)
    BY <1>1, <1>2, <2>1, AtACall
  <2>3. e \in Nat /\ e <= m /\ e <= v
    BY <2>2, DropsChecked
  <2>4. e = Returns(k) - Ledger[k - 1].upTo
    BY <2>2 DEF PartyOK, InCheck
  <2>5. PICK u, r \in Nat : u = Ledger[k - 1].upTo /\ r = Returns(k)
    BY OneCall
  <2>6. u + e = r
    BY <2>3, <2>4, <2>5
  <2> QED BY <2>1, <2>3, <2>5, <2>6 DEF n
<1>13. /\ Blocks(macs[p], u, Numbers)
       /\ Blocks(vals[p], u, Contents(direct, p, Ends(k)))
       /\ opened[p] = [j \in 1 .. Ends(k) |-> Complete(j)]
       /\ input[p] = [j \in 1 .. Stopped(k - 1) |-> InputOf(p, j)]
  <2>1. Covered(k, stage[p]) = u
    BY <1>1, <1>12 DEF InCheckStage, Covered
  <2> QED BY <1>1, <1>2, <2>1, InACheck
<1>14. Blocks(macs'[p], Returns(k), Numbers)
  <2>1. PICK X : macs[p] \in Seq(X)
    BY <1>1, AtACall
  <2>2. u \in Int
    BY <1>12
  <2>3. Blocks(SubSeq(macs[p], n + 1, Len(macs[p])), u + n, Numbers)
    BY <1>12, <1>13, <2>1, <2>2, BlocksCut
  <2> QED BY <1>9, <1>12, <2>3
<1>15. Blocks(vals'[p], Returns(k), Contents(direct, p, Ends(k)))
  <2>1. PICK X : vals[p] \in Seq(X)
    BY <1>1, AtACall
  <2>2. u \in Int
    BY <1>12
  <2>3. Blocks(SubSeq(vals[p], n + 1, Len(vals[p])), u + n, Contents(direct, p, Ends(k)))
    BY <1>12, <1>13, <2>1, <2>2, BlocksCut
  <2> QED BY <1>9, <1>12, <2>3
<1>16. Holds(direct, p, pc'[p], stage'[p], sums'[p], values'[p], macs'[p], vals'[p],
             opened'[p], input'[p])
  <2>1. Covered(k, "taus") = Returns(k) /\ EndedBy(k, "taus") = Ends(k)
    BY DEF Covered, EndedBy, InCheckStage
  <2>2. Summed(p, k, "taus", sums'[p], tau)
    BY DEF Summed, tau
  <2> QED BY <1>1, <1>9, <1>13, <1>14, <1>15, <2>1, <2>2 DEF Holds
<1>17. DOMAIN sums' = Players /\ DOMAIN values' = Players
       /\ DOMAIN opened' = Players /\ DOMAIN input' = Players
  BY <1>1, <1>3, <1>8
<1> QED BY <1>8, <1>10, <1>11, <1>16, <1>17, SoundGoesOn

LEMMA ReceiveTausSound ==
    ASSUME CallsInOrder, direct \/ ChecksApart, Inv, Sound, NEW p \in Players, ReceiveTaus(p),
           direct' = direct
    PROVE  Sound'
<1> DEFINE others == Players \ {p}
<1>1. /\ stage[p] = "taus" /\ pc[p] <= Len(Ops) /\ InCheckStage(stage[p])
      /\ Available(CheckChannel, p, others)
      /\ stream' = Takes(stream, CheckChannel, p, others)
      /\ sums' = sums /\ values' = values /\ macs' = macs /\ vals' = vals
      /\ opened' = opened /\ input' = input
  BY DEF ReceiveTaus, At, InCheckStage
<1>2. PICK k \in DOMAIN Ops : k = pc[p]
  BY <1>1, AtACall
<1>3. /\ StreamsFlow /\ direct \in BOOLEAN /\ Shaped(stream)
      /\ DOMAIN pc = Players /\ DOMAIN stage = Players
      /\ DOMAIN sums = Players /\ DOMAIN values = Players
      /\ DOMAIN opened = Players /\ DOMAIN input = Players
  BY <1>1, <1>2, AtACall
<1>4. /\ CheckAt(k) /\ Nth(p) = ChecksBefore(k) /\ CheckChannel = CheckOn(direct)
      /\ CheckOn(direct) \in Channels
  BY <1>1, <1>2, InACheck
<1>5. \A q \in others : Heads(CheckChannel, p, others)[q] = Tau(Nth(p), q, TRUE)
  <2> TAKE q \in others
  <2>1. stream[CheckOn(direct)][q][p] # <<>> /\ q \in Players /\ q # p
    BY <1>1, <1>4 DEF Available
  <2>2. Head(stream[CheckOn(direct)][q][p]) = Tau(ChecksBefore(k), q, TRUE)
    BY <1>1, <1>2, <1>3, <1>4, <2>1, HeadInCheck
  <2> QED BY <1>1, <1>4, <2>2 DEF Heads
<1>6. values[p] = Tau(Nth(p), p, TRUE)
  <2>1. Summed(p, k, stage[p], sums[p], values[p])
    BY <1>2, Held
  <2> QED BY <1>1, <1>4, <2>1 DEF Summed
<1>7. /\ pc' = [pc EXCEPT ![p] = @ + 1] /\ stage' = [stage EXCEPT ![p] = "call"]
      /\ failed' = failed
  BY <1>5, <1>6 DEF ReceiveTaus, Return
<1>8. pc'[p] = k + 1 /\ stage'[p] = "call"
  BY <1>2, <1>3, <1>7
<1>9. Others(p)
  BY <1>1, <1>3, <1>7 DEF Others
<1>10. StreamsFlow' /\ Shaped(stream')
  <2>1. p \notin others /\ p \notin {}
    OBVIOUS
  <2>2. Streamed(stream', stream, CheckOn(direct), p, {}, others, Seed(0, p))
    BY <1>1, <1>3, <1>4, TakesAll
  <2>3. Moves(direct, CheckOn(direct), p, {}, others, Seed(0, p),
              k, "taus", sums[p], k + 1, "call", sums[p])
    BY <1>3, <1>4, CheckMoves
  <2>4. Moves(direct, CheckOn(direct), p, {}, others, Seed(0, p),
              pc[p], stage[p], sums[p], pc'[p], stage'[p], sums'[p])
    BY <1>1, <1>2, <1>8, <2>3
  <2>5. \A q \in Players : q \in others => stream[CheckOn(direct)][q][p] # <<>>
    BY <1>1, <1>4 DEF Available
  <2>6. \A q \in Players \ {p} : pc'[q] = pc[q] /\ stage'[q] = stage[q] /\ sums'[q] = sums[q]
    BY <1>9 DEF Others
  <2> QED BY <1>3, <1>4, <2>1, <2>2, <2>4, <2>5, <2>6, StreamsGoOn
<1>11. Holds(direct, p, pc'[p], stage'[p], sums'[p], values'[p], macs'[p], vals'[p],
             opened'[p], input'[p])
  <2>1. /\ Blocks(macs[p], Returns(k), Numbers)
        /\ Blocks(vals[p], Returns(k), Contents(direct, p, Ends(k)))
        /\ opened[p] = [j \in 1 .. Ends(k) |-> Complete(j)]
        /\ input[p] = [j \in 1 .. Stopped(k - 1) |-> InputOf(p, j)]
    BY <1>1, <1>2, Held
  <2>2. k + 1 - 1 = k /\ k \in 1 .. Len(Ops)
    BY OpsAssumption
  <2>3. Ops[k].op \in {"end", "check"}
    BY <1>4 DEF CheckAt, ChecksAt
  <2>4. Stopped(k) = Stopped(k - 1)
    BY <2>3, InputCounts
  <2>5. Ledger[k].upTo = Returns(k)
    <3>1. Ledger[k] = [checks |-> Append(Ledger[k - 1].checks, k), upTo |-> Returns(k)]
      BY <1>4, <2>2, LedgerFacts DEF After, CheckAt
    <3> QED BY <3>1
  <2>6. Covered(k + 1, "call") = Returns(k) /\ EndedBy(k + 1, "call") = Ends(k)
    BY <2>2, <2>5 DEF Covered, EndedBy, InCheckStage
  <2>7. Summed(p, k + 1, "call", sums[p], values[p])
    BY DEF Summed
  <2>8. Holds(direct, p, k + 1, "call", sums[p], values[p], macs[p], vals[p], opened[p], input[p])
    BY <2>1, <2>2, <2>4, <2>6, <2>7 DEF Holds
  <2> QED BY <1>1, <1>8, <2>8
<1> QED BY <1>1, <1>3, <1>7, <1>9, <1>10, <1>11, SoundGoesOn

-----------------------------------------------------------------------------
(* Inputs.                                                                 *)

(* A call that is neither begun in the tree nor ended by a check.          *)
LEMMA InputCallHolds ==
    ASSUME Inv, Sound, NEW p \in Players, pc[p] <= Len(Ops), stage[p] = "call",
           NEW k \in DOMAIN Ops, k = pc[p], Ops[k].op \in {"startinput", "stopinput"},
           NEW l, NEW v, NEW in, in = [n \in 1 .. Stopped(k) |-> InputOf(p, n)]
    PROVE  Holds(direct, p, k + 1, "call", l, v, macs[p], vals[p], opened[p], in)
<1>1. Ends(k) = Ends(k - 1) /\ ~CheckAt(k)
  <2>1. ~CheckAt(k)
    BY DEF CheckAt, ChecksAt
  <2> QED BY <2>1, CallCounts
<1>2. Settled(k + 1, "call", k)
  BY <1>1 DEF Settled
<1>3. /\ Blocks(macs[p], Ledger[k - 1].upTo, Numbers)
      /\ Blocks(vals[p], Ledger[k - 1].upTo, Contents(direct, p, Ends(k)))
      /\ opened[p] = [n \in 1 .. Ends(k) |-> Complete(n)]
  BY <1>1, HeldInTree
<1> QED BY <1>2, <1>3, HoldsSettled

LEMMA InputStartsSound ==
    ASSUME CallsInOrder, Inv, Sound, NEW p \in Players, InputStarts(p), direct' = direct
    PROVE  Sound'
<1> DEFINE to == IF Ops[pc[p]].n = p THEN Players \ {p} ELSE {}
<1>1. /\ stage[p] = "call" /\ pc[p] <= Len(Ops) /\ Ops[pc[p]].op = "startinput"
      /\ stream' = IF Ops[pc[p]].n = p
                   THEN Sends(stream, "main", p, Players \ {p}, Masked(pc[p])) ELSE stream
      /\ pc' = [pc EXCEPT ![p] = @ + 1] /\ stage' = [stage EXCEPT ![p] = "call"]
      /\ sums' = sums /\ values' = values /\ macs' = macs /\ vals' = vals
      /\ failed' = failed /\ opened' = opened /\ input' = input
  BY DEF InputStarts, At, Return, store, ghosts
<1>2. PICK k \in DOMAIN Ops : k = pc[p]
  BY <1>1, AtACall
<1>3. /\ StreamsFlow /\ direct \in BOOLEAN /\ Shaped(stream)
      /\ DOMAIN pc = Players /\ DOMAIN stage = Players
      /\ DOMAIN sums = Players /\ DOMAIN values = Players
      /\ DOMAIN opened = Players /\ DOMAIN input = Players
  BY <1>1, <1>2, AtACall
<1>4. pc'[p] = k + 1 /\ stage'[p] = "call" /\ Ops[k].op = "startinput"
  BY <1>1, <1>2, <1>3
<1>5. Others(p)
  BY <1>1, <1>3 DEF Others
<1>6. StreamsFlow' /\ Shaped(stream')
  <2>1. p \notin to /\ p \notin {} /\ "main" \in Channels
    BY DEF Channels
  <2>2. Streamed(stream', stream, "main", p, to, {}, Masked(k))
    <3>1. CASE Ops[k].n = p
      BY <1>1, <1>2, <1>3, <2>1, <3>1, SendsAll
    <3>2. CASE Ops[k].n # p
      BY <1>1, <1>2, <1>3, <3>2 DEF Streamed
    <3> QED BY <3>1, <3>2
  <2>3. \A r \in Players \ {p} : r \in to <=> Ops[k].n = p
    BY <1>2
  <2> HIDE DEF to
  <2>4. Moves(direct, "main", p, to, {}, Masked(k), k, "call", sums[p], k + 1, "call", sums[p])
    BY <1>3, <1>4, <2>3, InputMoves
  <2>5. Moves(direct, "main", p, to, {}, Masked(k),
              pc[p], stage[p], sums[p], pc'[p], stage'[p], sums'[p])
    BY <1>1, <1>2, <1>4, <2>4
  <2>6. \A q \in Players : q \in {} => stream["main"][q][p] # <<>>
    OBVIOUS
  <2>7. \A q \in Players \ {p} : pc'[q] = pc[q] /\ stage'[q] = stage[q] /\ sums'[q] = sums[q]
    BY <1>5 DEF Others
  <2> QED BY <1>3, <2>1, <2>2, <2>5, <2>6, <2>7, StreamsGoOn
<1>7. Holds(direct, p, pc'[p], stage'[p], sums'[p], values'[p], macs'[p], vals'[p],
            opened'[p], input'[p])
  <2>1. Stopped(k) = Stopped(k - 1)
    BY <1>4, InputCounts
  <2>2. input[p] = [n \in 1 .. Stopped(k) |-> InputOf(p, n)]
    BY <1>1, <1>2, <2>1, HeldInTree
  <2>3. Ops[k].op \in {"startinput", "stopinput"}
    BY <1>4
  <2>4. Holds(direct, p, k + 1, "call", sums[p], values[p], macs[p], vals[p], opened[p], input[p])
    BY <1>1, <1>2, <2>2, <2>3, InputCallHolds
  <2> QED BY <1>1, <1>4, <2>4
<1> QED BY <1>1, <1>3, <1>5, <1>6, <1>7, SoundGoesOn

(* The calls that stop an input are numbered.                              *)
LEMMA StopCallIs ==
    ASSUME NEW c \in DOMAIN Ops, Ops[c].op = "stopinput"
    PROVE  StopCall(Stopped(c)) = c
<1>1. ASSUME NEW d \in DOMAIN Ops, Ops[d].op = "stopinput", NEW e \in DOMAIN Ops,
             Ops[e].op = "stopinput", d < e
      PROVE  Stopped(d) # Stopped(e)
  <2>1. e - 1 \in Nat /\ d \in Nat /\ e \in Nat /\ d <= e - 1
    BY <1>1, OpsAssumption
  <2>2. /\ Stopped(e) = Stopped(e - 1) + 1 /\ Stopped(e - 1) \in Nat
    BY <1>1, InputCounts
  <2>3. /\ Stopped(d) = Among(CallsOf("stopinput"), d)
        /\ Stopped(e - 1) = Among(CallsOf("stopinput"), e - 1)
    BY <2>1, CountsAreAmong
  <2>4. Among(CallsOf("stopinput"), d) <= Among(CallsOf("stopinput"), e - 1)
    BY <2>1, AmongGrows
  <2>5. PICK a, b \in Nat : a = Stopped(d) /\ b = Stopped(e - 1)
    BY <2>1, <2>2, <2>3, CountAmong
  <2> QED BY <2>2, <2>3, <2>4, <2>5
<1>2. \A d \in DOMAIN Ops : Ops[d].op = "stopinput" /\ Stopped(d) = Stopped(c) => d = c
  <2> TAKE d \in DOMAIN Ops
  <2> HAVE Ops[d].op = "stopinput" /\ Stopped(d) = Stopped(c)
  <2>1. d \in Nat /\ c \in Nat
    BY OpsAssumption
  <2> QED BY <1>1, <2>1
<1> QED BY <1>2 DEF StopCall

LEMMA InputStopsSound ==
    ASSUME CallsInOrder, direct \/ ChecksApart, Inv, Sound, NEW p \in Players, InputStops(p),
           direct' = direct
    PROVE  Sound'
<1>1. /\ stage[p] = "call" /\ pc[p] <= Len(Ops) /\ Ops[pc[p]].op = "stopinput"
      /\ Available("main", p, {Ops[pc[p]].n} \ {p})
      /\ stream' = Takes(stream, "main", p, {Ops[pc[p]].n} \ {p})
      /\ input' = [input EXCEPT ![p] =
             Append(@, AddUp(EmptyBag, Heads("main", p, {Ops[pc[p]].n} \ {p})))]
      /\ pc' = [pc EXCEPT ![p] = @ + 1] /\ stage' = [stage EXCEPT ![p] = "call"]
      /\ sums' = sums /\ values' = values /\ macs' = macs /\ vals' = vals
      /\ failed' = failed /\ opened' = opened
  BY DEF InputStops, At, Return, store
<1>2. PICK k \in DOMAIN Ops : k = pc[p]
  BY <1>1, AtACall
<1>3. /\ StreamsFlow /\ direct \in BOOLEAN /\ Shaped(stream)
      /\ DOMAIN pc = Players /\ DOMAIN stage = Players
      /\ DOMAIN sums = Players /\ DOMAIN values = Players
      /\ DOMAIN opened = Players /\ DOMAIN input = Players
  BY <1>1, <1>2, AtACall
<1>4. pc'[p] = k + 1 /\ stage'[p] = "call" /\ Ops[k].op = "stopinput"
  BY <1>1, <1>2, <1>3
<1>5. PICK q \in Players : q = Ops[k].n
  BY <1>4 DEF CallsInOrder
<1> DEFINE from == {q} \ {p}
<1>6. /\ Available("main", p, from) /\ stream' = Takes(stream, "main", p, from)
      /\ input' = [input EXCEPT ![p] = Append(@, AddUp(EmptyBag, Heads("main", p, from)))]
  BY <1>1, <1>2, <1>5
<1>7. Others(p)
  BY <1>1, <1>3 DEF Others
<1>8. StreamsFlow' /\ Shaped(stream')
  <2>1. p \notin {} /\ p \notin from /\ "main" \in Channels
    BY DEF Channels
  <2>2. Streamed(stream', stream, "main", p, {}, from, Seed(0, p))
    BY <1>3, <1>6, <2>1, TakesAll
  <2>3. \A r \in Players \ {p} : r \in from <=> Ops[k].n = r
    BY <1>5
  <2>4. \A r \in Players : r \in from => stream["main"][r][p] # <<>>
    BY <1>6 DEF Available
  <2> HIDE DEF from
  <2>5. Moves(direct, "main", p, {}, from, Seed(0, p),
              k, "call", sums[p], k + 1, "call", sums[p])
    BY <1>3, <1>4, <2>3, InputMoves
  <2>6. Moves(direct, "main", p, {}, from, Seed(0, p),
              pc[p], stage[p], sums[p], pc'[p], stage'[p], sums'[p])
    BY <1>1, <1>2, <1>4, <2>5
  <2>7. \A r \in Players \ {p} : pc'[r] = pc[r] /\ stage'[r] = stage[r] /\ sums'[r] = sums[r]
    BY <1>7 DEF Others
  <2> QED BY <1>3, <2>1, <2>2, <2>4, <2>6, <2>7, StreamsGoOn
<1>9. AddUp(EmptyBag, Heads("main", p, from)) = InputOf(p, Stopped(k))
  <2>1. StopCall(Stopped(k)) = k
    BY <1>4, StopCallIs
  <2>2. CASE q = p
    <3>1. from = {}
      BY <2>2
    <3>2. DOMAIN Heads("main", p, from) = {}
      BY <3>1 DEF Heads
    <3>3. AddUp(EmptyBag, Heads("main", p, from)) = EmptyBag
      BY <3>2, AddUpNothing
    <3>4. InputOf(p, Stopped(k)) = EmptyBag
      BY <1>5, <2>1, <2>2 DEF InputOf
    <3> QED BY <3>3, <3>4
  <2>3. CASE q # p
    <3>1. from = {q} /\ stream["main"][q][p] # <<>>
      BY <1>6, <2>3 DEF Available
    <3>2. Head(stream["main"][q][p]) = Masked(StartOf(k))
      <4>1. PICK d \in BOOLEAN : d = direct
        BY <1>3
      <4>2. d \/ ChecksApart
        BY <4>1
      <4>3. Script(d, "main", q, p, ReadBy(d, "main", q, p)[k - 1] + 1) = Masked(StartOf(k))
        BY <1>4, <1>5, <4>2, ReadAtStop
      <4>4. "main" \in Channels
        BY DEF Channels
      <4>5. Read(d, "main", q, p, k, "call", sums[p]) = ReadBy(d, "main", q, p)[k - 1]
        <5>1. PICK s, r, x, y \in Nat : AtEnds(d, "main", q, p, k, s, r, x, y)
          BY <4>4, Standing
        <5> QED BY <5>1 DEF AtEnds
      <4>6. Head(stream["main"][q][p]) =
              Script(direct, "main", q, p, Read(direct, "main", q, p, pc[p], stage[p], sums[p]) + 1)
        BY <1>3, <2>3, <3>1, <4>4, HeadIs
      <4> QED BY <1>1, <1>2, <4>1, <4>3, <4>5, <4>6
    <3>3. Masked(StartOf(k)) = SetToBag({<<"input", StartOf(k), Ops[StartOf(k)].n>>})
      BY DEF Masked
    <3>4. Heads("main", p, from) =
             [r \in {q} |-> SetToBag({<<"input", StartOf(k), Ops[StartOf(k)].n>>})]
      BY <3>1, <3>2, <3>3 DEF Heads
    <3>5. AddUp(EmptyBag, Heads("main", p, from)) = Masked(StartOf(k))
      BY <3>3, <3>4, AddUpOne
    <3>6. InputOf(p, Stopped(k)) = Masked(StartOf(k))
      BY <1>5, <2>1, <2>3 DEF InputOf
    <3> QED BY <3>5, <3>6
  <2> QED BY <2>2, <2>3
<1> HIDE DEF from
<1>10. input'[p] = [n \in 1 .. Stopped(k) |-> InputOf(p, n)]
  <2>1. Stopped(k) = Stopped(k - 1) + 1 /\ Stopped(k - 1) \in Nat
    BY <1>4, InputCounts
  <2>2. PICK g : g = [n \in 1 .. Stopped(k) |-> InputOf(p, n)]
    OBVIOUS
  <2>3. Stopped(k) \in 1 .. Stopped(k) /\ \A n \in 1 .. Stopped(k - 1) : n \in 1 .. Stopped(k)
    BY <2>1
  <2>4. input[p] = [n \in 1 .. Stopped(k - 1) |-> InputOf(p, n)]
    BY <1>1, <1>2, HeldInTree
  <2>5. input[p] = [n \in 1 .. Stopped(k - 1) |-> g[n]]
    BY <2>2, <2>3, <2>4
  <2>6. g[Stopped(k)] = InputOf(p, Stopped(k))
    BY <2>2, <2>3
  <2>7. Append(input[p], g[Stopped(k)]) = [n \in 1 .. Stopped(k) |-> g[n]]
    BY <2>1, <2>5, FunctionGrows
  <2>8. [n \in 1 .. Stopped(k) |-> g[n]] = [n \in 1 .. Stopped(k) |-> InputOf(p, n)]
    BY <2>2
  <2>9. input'[p] = Append(input[p], AddUp(EmptyBag, Heads("main", p, from)))
    BY <1>3, <1>6
  <2> QED BY <1>9, <2>6, <2>7, <2>8, <2>9
<1>11. Holds(direct, p, pc'[p], stage'[p], sums'[p], values'[p], macs'[p], vals'[p],
             opened'[p], input'[p])
  <2>1. Ops[k].op \in {"startinput", "stopinput"}
    BY <1>4
  <2>2. Holds(direct, p, k + 1, "call", sums[p], values[p], macs[p], vals[p], opened[p], input'[p])
    BY <1>1, <1>2, <1>10, <2>1, InputCallHolds
  <2> QED BY <1>1, <1>4, <2>2
<1>12. DOMAIN input' = Players
  BY <1>3, <1>6
<1> QED BY <1>1, <1>3, <1>7, <1>8, <1>11, <1>12, SoundGoesOn

LEMMA NothingRead ==
    ASSUME NEW d \in BOOLEAN, NEW ch \in Channels, NEW q \in Players, NEW p \in Players, NEW l
    PROVE  Flow(<<>>, d, ch, q, p, Sent(d, ch, q, p, 1, "call", l), Read(d, ch, q, p, 1, "call", l))
<1>1. SentIn(d, ch, q, p, "call", l) = 0 /\ ReadIn(d, ch, q, p, 1, "call", l) = 0
  BY DEF SentIn, ReadIn, InCheckStage
<1>2. SentBy(d, ch, q, p)[1 - 1] = 0 /\ ReadBy(d, ch, q, p)[1 - 1] = 0
  BY MessageCounts
<1>3. Sent(d, ch, q, p, 1, "call", l) = 0 /\ Read(d, ch, q, p, 1, "call", l) = 0
  BY <1>1, <1>2 DEF Sent, Read
<1>4. <<>> = [i \in 1 .. 0 - 0 |-> Script(d, ch, q, p, 0 + i)]
  <2>1. 1 .. 0 - 0 = {}
    OBVIOUS
  <2> QED BY <2>1
<1> QED BY <1>3, <1>4 DEF Flow

LEMMA SoundInit ==
    ASSUME Init
    PROVE  Sound
<1>1. Shaped(stream)
  BY DEF Init, Shaped, Channels
<1>2. StreamsFlow
  <2> SUFFICES ASSUME NEW ch \in Channels, NEW q \in Players, NEW p \in Players
               PROVE  Flow(stream[ch][q][p], direct, ch, q, p,
                           Sent(direct, ch, q, p, pc[q], stage[q], sums[q]),
                           Read(direct, ch, q, p, pc[p], stage[p], sums[p]))
    BY DEF StreamsFlow
  <2>1. /\ stream[ch][q][p] = <<>> /\ direct \in BOOLEAN
        /\ pc[q] = 1 /\ stage[q] = "call" /\ sums[q] = NPlayers
        /\ pc[p] = 1 /\ stage[p] = "call" /\ sums[p] = NPlayers
    BY DEF Init, Channels
  <2> QED BY <2>1, NothingRead
<1>3. PartiesHold
  <2> SUFFICES ASSUME NEW p \in Players
               PROVE  Holds(direct, p, pc[p], stage[p], sums[p], values[p], macs[p], vals[p],
                            opened[p], input[p])
    BY DEF PartiesHold
  <2>1. /\ pc[p] = 1 /\ stage[p] = "call" /\ macs[p] = <<>> /\ vals[p] = <<>>
        /\ opened[p] = <<>> /\ input[p] = <<>>
    BY DEF Init
  <2>2. EndedBy(1, "call") = 0 /\ Stopped(1 - 1) = 0
    BY CountTypes, NoCalls DEF EndedBy, InCheckStage
  <2>3. \A u, content : Blocks(<<>>, u, content)
    BY DEF Blocks
  <2>4. /\ <<>> = [k \in 1 .. 0 |-> Complete(k)]
        /\ <<>> = [n \in 1 .. 0 |-> InputOf(p, n)]
    <3>1. 1 .. 0 = {}
      OBVIOUS
    <3> QED BY <3>1
  <2>5. Summed(p, 1, "call", sums[p], values[p])
    BY DEF Summed
  <2> QED BY <2>1, <2>2, <2>3, <2>4, <2>5 DEF Holds
<1>4. Domains /\ NobodyFails
  BY <1>1 DEF Init, Domains, NobodyFails
<1> QED BY <1>2, <1>3, <1>4 DEF Sound

LEMMA SoundStep ==
    ASSUME CallsInOrder, direct \/ ChecksApart, Inv, Sound, [Next]_vars
    PROVE  Sound'
<1>1. Inv'
  BY InvStep
<1>2. ASSUME NEW p \in Players, Step(p), direct' = direct PROVE Sound'
  <2>1. CASE BeginTree(p)
    BY <1>2, <2>1, BeginTreeSound
  <2>2. CASE SumUp(p)
    BY <1>2, <2>2, SumUpSound
  <2>3. CASE SpreadBase(p)
    BY <1>2, <2>3, SpreadBaseSound
  <2>4. CASE SpreadForward(p)
    BY <1>2, <2>4, SpreadForwardSound
  <2>5. CASE SpreadLeaf(p)
    BY <1>2, <2>5, SpreadLeafSound
  <2>6. CASE BeginDirect(p)
    BY <1>2, <2>6, BeginDirectSound
  <2>7. CASE EndLeaf(p)
    BY <1>1, <1>2, <2>7, EndLeafSound
  <2>8. CASE EndInner(p)
    BY <1>1, <1>2, <2>8, EndInnerSound
  <2>9. CASE EndDirect(p)
    BY <1>1, <1>2, <2>9, EndDirectSound
  <2>10. CASE CheckNothing(p) \/ CheckBegins(p)
    BY <1>1, <1>2, <2>10, CheckCallSound
  <2>11. CASE SendSeed(p)
    BY <1>2, <2>11, SendSeedSound
  <2>12. CASE ReceiveSeeds(p)
    BY <1>2, <2>12, ReceiveSeedsSound
  <2>13. CASE ReceiveTaus(p)
    BY <1>2, <2>13, ReceiveTausSound
  <2>14. CASE InputStarts(p)
    BY <1>2, <2>14, InputStartsSound
  <2>15. CASE InputStops(p)
    BY <1>2, <2>15, InputStopsSound
  <2> QED BY <1>2, <2>1, <2>2, <2>3, <2>4, <2>5, <2>6, <2>7, <2>8, <2>9, <2>10, <2>11,
             <2>12, <2>13, <2>14, <2>15 DEF Step
<1>3. CASE UNCHANGED vars
  <2>1. /\ direct' = direct /\ pc' = pc /\ stage' = stage /\ sums' = sums /\ values' = values
        /\ stream' = stream /\ macs' = macs /\ vals' = vals /\ failed' = failed
        /\ opened' = opened /\ input' = input
    BY <1>3 DEF vars, control, store, ghosts
  <2>2. Domains' /\ NobodyFails'
    BY <2>1 DEF Sound, Domains, NobodyFails
  <2>3. StreamsFlow'
    BY <2>1 DEF Sound, StreamsFlow
  <2>4. PartiesHold'
    BY <2>1 DEF Sound, PartiesHold
  <2> QED BY <2>2, <2>3, <2>4 DEF Sound
<1> QED BY <1>2, <1>3 DEF Next, Done

SoundWhenApart == Inv /\ (direct \/ ChecksApart => Sound)

LEMMA Soundness ==
    ASSUME CallsInOrder
    PROVE  Spec => []SoundWhenApart
<1>1. Init => SoundWhenApart
  BY InvInit, SoundInit DEF SoundWhenApart
<1>2. SoundWhenApart /\ [Next]_vars => SoundWhenApart'
  <2> SUFFICES ASSUME SoundWhenApart, [Next]_vars PROVE SoundWhenApart'
    OBVIOUS
  <2>1. Inv'
    BY InvStep DEF SoundWhenApart
  <2>2. direct' = direct
    BY DEF Next, Done, vars
  <2>3. ASSUME direct \/ ChecksApart PROVE Sound'
    BY <2>3, SoundStep DEF SoundWhenApart
  <2> QED BY <2>1, <2>2, <2>3 DEF SoundWhenApart
<1> QED BY <1>1, <1>2, PTL DEF Spec

(* What POpen_End returns is the sum of every party's share of the opening *)
(* that it ends, each once: for any number of parties, any width of the    *)
(* trees, any nesting of openings and any interleaving of the parties.     *)
THEOREM OpensTheSum ==
    ASSUME CallsInOrder
    PROVE  Spec => [](direct \/ ChecksApart => OpenedIsTheSum)
<1>1. ASSUME Sound PROVE OpenedIsTheSum
  <2> SUFFICES ASSUME NEW p \in Players, NEW k \in DOMAIN opened[p]
               PROVE  opened[p][k] = Complete(k)
    BY DEF OpenedIsTheSum
  <2>1. opened[p] = [n \in 1 .. EndedBy(pc[p], stage[p]) |-> Complete(n)]
    BY <1>1 DEF Sound, PartiesHold, Holds
  <2> QED BY <2>1
<1>2. SoundWhenApart => (direct \/ ChecksApart => OpenedIsTheSum)
  BY <1>1 DEF SoundWhenApart
<1> QED BY <1>2, Soundness, PTL

(* Honest parties never see a check fail, nor do they run out of stored    *)
(* values: every message that a party reads is the one that it expects.    *)
THEOREM HonestNeverFail ==
    ASSUME CallsInOrder
    PROVE  Spec => [](direct \/ ChecksApart => NobodyFails)
<1>1. SoundWhenApart => (direct \/ ChecksApart => NobodyFails)
  BY DEF SoundWhenApart, Sound
<1> QED BY <1>1, Soundness, PTL

(* An input arrives as what was input by the matching call, through the    *)
(* streams that carry openings and checks as well.                         *)
THEOREM InputsReach ==
    ASSUME CallsInOrder
    PROVE  Spec => [](direct \/ ChecksApart => InputsArrive)
<1>1. ASSUME Sound PROVE InputsArrive
  <2> SUFFICES ASSUME NEW p \in Players, NEW c \in DOMAIN Ops, Ops[c].op = "stopinput",
                      Ops[c].n # p, Stopped(c) \in DOMAIN input[p]
               PROVE  \E s \in DOMAIN Ops : Matching(s, c) /\ input[p][Stopped(c)] = Masked(s)
    BY DEF InputsArrive
  <2>1. input[p] = [n \in 1 .. Stopped(pc[p] - 1) |-> InputOf(p, n)]
    BY <1>1 DEF Sound, PartiesHold, Holds
  <2>2. input[p][Stopped(c)] = InputOf(p, Stopped(c))
    BY <2>1
  <2>3. InputOf(p, Stopped(c)) = Masked(StartOf(c))
    BY StopCallIs DEF InputOf
  <2>4. PICK q \in Players : q = Ops[c].n
    BY DEF CallsInOrder
  <2>5. StartOf(c) \in DOMAIN Ops /\ Matching(StartOf(c), c)
    BY <2>4, StartIs
  <2> QED BY <2>2, <2>3, <2>5
<1>2. SoundWhenApart => (direct \/ ChecksApart => InputsArrive)
  BY <1>1 DEF SoundWhenApart
<1> QED BY <1>2, Soundness, PTL
=============================================================================
