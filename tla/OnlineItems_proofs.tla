------------------------- MODULE OnlineItems_proofs -------------------------
(***************************************************************************)
(* Proofs about OnlineMachine: the positions that main hands out with the  *)
(* tapes give every entry of the schedule preprocessed items of its own,   *)
(* and main's position at the end counts exactly the items that were used. *)
(***************************************************************************)
EXTENDS OnlineMachine_proofs, Recursion_proofs

(* A tape that another tape starts uses no preprocessed data: what it read  *)
(* would be read again by the next one, as run_tape hands it Machine::pos,  *)
(* which only the schedule loop advances.                                   *)
StartedUseNothing ==
    \A n \in Tapes : \A k \in DOMAIN Code[n] :
        LET c == Code[n][k] IN
        c.op = "run" /\ c.tape \in Tapes =>
            \A m \in DOMAIN Code[c.tape] : Code[c.tape][m].op # "use"

(* Every tape that is started has been loaded; otherwise run_tape throws.   *)
StartedAreLoaded ==
    \A n \in Tapes : \A k \in DOMAIN Code[n] :
        Code[n][k].op = "run" => Code[n][k].tape \in Tapes

ItemsAssumptions ==
    CompiledTapes /\ StartedUseNothing /\ StartedAreLoaded /\ ~SpuriousWakeups

-----------------------------------------------------------------------------
(* The items of the entries of the current line.                           *)

(* main has started entry t, also if it throws because the use of that      *)
(* entry's tape is not known.                                               *)
Assigned(t) == Launched(t) \/ (pc[Main] \in {"catch", "rethrow"} /\ t <= i)
Tape(t) == Schedule[exec][t + 1].tape
Unknown(t) == Tape(t) \in UnknownUsage
ReadBefore(n, k) == SumTo(Uses(n))[k - 1]

(* Entry t reads the items Low(t) .. High(t) - 1.                           *)
Low(t) == IF Unknown(t) THEN pos ELSE tpos[t]
High(t) == Low(t) + UsedBy(Tape(t))
LineStart == IF Assigned(0) THEN Low(0) ELSE pos

HasRead(t, last) ==
    \A k : <<k, LineReq(exec, t)>> \in consumed <=> k \in Low(t) .. last - 1

(* Where the worker of entry t is with the items of its tape.               *)
ReaderOK(t) ==
    /\ prognum[t] \in Tapes \/ pc[t] = "seek" => tpos[t] = Low(t) /\ HasRead(t, Low(t))
    /\ pc[t] \in {"exec", "joinwait"} =>
          datapos[t] = Low(t) + ReadBefore(Tape(t), ip[t]) /\ HasRead(t, datapos[t])
    /\ pc[t] \in {"catch", "rethrow"} => datapos[t] \in Low(t) .. High(t) /\ HasRead(t, datapos[t])
    /\ pc[t] = "finish" \/ (pc[t] \in Waiting /\ prognum[t] = Idle) =>
          /\ HasRead(t, High(t))
          /\ Unknown(t) => tpos[t] = High(t)

EntryOK(t) ==
    /\ prognum[t] \in Tapes => prognum[t] = Tape(t)
    /\ pc[t] \in Busy => program[t] = Tape(t) /\ pc[t] # "undefined"
    /\ IF Assigned(t) THEN ReaderOK(t) ELSE prognum[t] = Idle /\ pc[t] \in Waiting

Started(n) == \E m \in Tapes : \E k \in DOMAIN Code[m] : Code[m][k].op = "run" /\ Code[m][k].tape = n
StarterOK(t) ==
    /\ prognum[t] \in Tapes => Started(prognum[t])
    /\ pc[t] \in Busy => Started(program[t])

(* The entries' items follow one another from the start of the line up to   *)
(* main's position.                                                         *)
Apart == \A t, u \in Threads : t < u /\ Assigned(t) /\ Assigned(u) => High(t) <= Low(u)
Covered ==
    \A k \in LineStart .. pos - 1 :
        \E t \in Threads : Assigned(t) /\ k \in Low(t) .. High(t) - 1
FromStart == LineStart \in Nat /\ \A t \in Threads : Assigned(t) => LineStart <= Low(t)
Layout == Apart /\ Covered /\ FromStart

(* main adds the use of an entry when it has started it.                    *)
Counts ==
    /\ \A t \in Threads :
          Assigned(t) /\ ~Unknown(t) /\ (pc[Main] # "increase" \/ t < i) => High(t) <= pos
    /\ pc[Main] = "increase" =>
          Low(i) = pos /\ delta = IF Unknown(i) THEN 0 ELSE UsedBy(Tape(i))

(* Only the single entry of a line may be of unknown use.                   *)
UnknownAlone ==
    /\ \A t \in Threads : Assigned(t) /\ Unknown(t) =>
          \/ usageUnknown /\ t = 0 /\ Len(Schedule[exec]) = 1
          \/ pc[Main] \in {"catch", "rethrow"} /\ t = i
    /\ usageUnknown => /\ pc[Main] \in {"increase", "join", "joinwait", "lineend"}
                       /\ Assigned(0) /\ Unknown(0)
    /\ pc[Main] \in {"catch", "rethrow"} => exec \in DOMAIN Schedule /\ i < Len(Schedule[exec])

(* What was read is what the lines before have left and what the current    *)
(* line reads.                                                              *)
OldItems ==
    /\ \A c \in consumed :
          \E k \in Nat, l \in Nat, t \in Threads :
              /\ c = <<k, LineReq(l, t)>>
              /\ (l < exec /\ k < LineStart) \/ (l = exec /\ Assigned(t))
    /\ \A k \in 0 .. LineStart - 1 : \E l \in Nat, t \in Threads :
          l < exec /\ <<k, LineReq(l, t)>> \in consumed

WorkersOK ==
    pc[Main] \in InLines => \A t \in Threads : IF Target(t) THEN StarterOK(t) ELSE EntryOK(t)

ItemInv ==
    /\ WorkersOK /\ Layout /\ Counts /\ UnknownAlone /\ OldItems /\ NoItemUsedTwice
    /\ pc[Main] = "done" => fileStart = pos

-----------------------------------------------------------------------------
(* Sums.                                                                    *)

LEMMA SumToFacts ==
    ASSUME NEW w \in Seq(Nat)
    PROVE  /\ SumTo(w) \in [0 .. Len(w) -> Nat]
           /\ SumTo(w)[0] = 0
           /\ \A k \in 1 .. Len(w) : SumTo(w)[k] = SumTo(w)[k - 1] + w[k]
<1> DEFINE n == Len(w)
           step == [k \in 1 .. n |-> [x \in Nat |-> x + w[k]]]
           IsSum(f) == f = [k \in 0 .. n |-> IF k = 0 THEN 0 ELSE f[k - 1] + w[k]]
<1>1. n \in Nat /\ \A k \in 1 .. n : w[k] \in Nat
  OBVIOUS
<1>2. step \in [1 .. n -> [Nat -> Nat]]
  BY <1>1
<1> HIDE DEF n
<1>3. ASSUME NEW f \in [0 .. n -> Nat], Follows(f, n, 0, step) PROVE IsSum(f)
  <2>1. \A k \in 0 .. n : f[k] = IF k = 0 THEN 0 ELSE step[k][f[k - 1]]
    BY <1>3 DEF Follows
  <2>2. \A k \in 1 .. n : k \in Nat /\ k - 1 \in 0 .. n
    BY <1>1
  <2>3. \A k \in 1 .. n : f[k - 1] \in Nat /\ step[k][f[k - 1]] = f[k - 1] + w[k]
    BY <1>1, <2>2
  <2>4. \A k \in 0 .. n : f[k] = IF k = 0 THEN 0 ELSE f[k - 1] + w[k]
    <3>1. \A k \in 0 .. n : k = 0 \/ k \in 1 .. n
      BY <1>1
    <3> QED
      BY <2>1, <2>3, <3>1
  <2>5. f = [k \in 0 .. n |-> f[k]]
    OBVIOUS
  <2> QED
    BY <2>4, <2>5
<1> HIDE DEF step
<1>4. PICK f \in [0 .. n -> Nat] : Follows(f, n, 0, step)
  BY <1>1, <1>2, RecursionExists
<1>5. IsSum(f)
  BY <1>3, <1>4
<1> DEFINE g == SumTo(w)
<1>6. IsSum(g)
  BY <1>5 DEF SumTo, n
<1> HIDE DEF g
<1>7. \A k \in 0 .. n : g[k] = IF k = 0 THEN 0 ELSE g[k - 1] + w[k]
  BY <1>6
<1>8. g[0] = 0 /\ \A k \in 1 .. n : g[k] = g[k - 1] + w[k]
  BY <1>1, <1>7
<1> DEFINE N == {m \in Nat : m <= n => g[m] \in Nat}
<1>9. 0 \in N
  BY <1>8
<1>10. ASSUME NEW m \in Nat, m \in N PROVE m + 1 \in N
  <2>1. CASE m + 1 > n
    BY <1>1, <2>1
  <2>2. CASE m + 1 <= n
    <3>1. m + 1 \in 1 .. n /\ g[m] \in Nat
      BY <1>1, <1>10, <2>2
    <3>2. g[m + 1] = g[(m + 1) - 1] + w[m + 1] /\ w[m + 1] \in Nat /\ (m + 1) - 1 = m
      BY <1>1, <1>8, <3>1
    <3> QED
      BY <3>1, <3>2
  <2> QED
    BY <1>1, <2>1, <2>2
<1> HIDE DEF N
<1>11. \A k \in 0 .. n : g[k] \in Nat
  <2>1. Nat \subseteq N
    BY <1>9, <1>10, Induction
  <2>2. \A k \in 0 .. n : k \in Nat /\ k <= n
    BY <1>1
  <2> QED
    BY <2>1, <2>2 DEF N
<1>12. g \in [0 .. n -> Nat]
  BY <1>6, <1>11
<1> QED
  BY <1>8, <1>12 DEF g, n

LEMMA SumToGrows ==
    ASSUME NEW w \in Seq(Nat), NEW k \in 0 .. Len(w)
    PROVE  SumTo(w)[k] <= Total(w)
<1> DEFINE n == Len(w)
           g == SumTo(w)
           N == {m \in Nat : m \in k .. n => g[k] <= g[m]}
<1>1. /\ n \in Nat /\ \A m \in 1 .. n : w[m] \in Nat
      /\ g \in [0 .. n -> Nat]
      /\ \A m \in 1 .. n : g[m] = g[m - 1] + w[m]
  BY SumToFacts
<1> HIDE DEF n, g
<1>2. k \in 0 .. n /\ k \in Nat
  BY DEF n
<1>3. 0 \in N
  BY <1>1, <1>2
<1>4. ASSUME NEW m \in Nat, m \in N PROVE m + 1 \in N
  <2>1. CASE m + 1 = k
    BY <1>1, <1>2, <2>1
  <2>2. CASE m + 1 \notin k .. n
    BY <2>2
  <2>3. CASE m + 1 # k /\ m + 1 \in k .. n
    <3>1. m \in k .. n /\ m + 1 \in 1 .. n /\ m \in 0 .. n
      BY <1>1, <1>2, <2>3
    <3>2. g[k] <= g[m] /\ g[k] \in Nat /\ g[m] \in Nat
      BY <1>1, <1>2, <1>4, <3>1
    <3>3. g[m + 1] = g[(m + 1) - 1] + w[m + 1] /\ w[m + 1] \in Nat /\ (m + 1) - 1 = m
      BY <1>1, <3>1
    <3> QED
      BY <3>2, <3>3
  <2> QED
    BY <2>1, <2>2, <2>3
<1> HIDE DEF N
<1>5. n \in N
  BY <1>1, <1>3, <1>4, Induction
<1> QED
  BY <1>1, <1>2, <1>5 DEF N, Total, n, g

LEMMA SumOfNothing ==
    ASSUME NEW w \in Seq(Nat), \A k \in 1 .. Len(w) : w[k] = 0
    PROVE  Total(w) = 0
<1> DEFINE n == Len(w)
           g == SumTo(w)
           N == {m \in Nat : m <= n => g[m] = 0}
<1>1. /\ n \in Nat /\ \A m \in 1 .. n : w[m] = 0
      /\ g[0] = 0
      /\ \A m \in 1 .. n : g[m] = g[m - 1] + w[m]
  BY SumToFacts
<1> HIDE DEF n, g
<1>2. 0 \in N
  BY <1>1
<1>3. ASSUME NEW m \in Nat, m \in N PROVE m + 1 \in N
  <2>1. CASE m + 1 > n
    BY <1>1, <2>1
  <2>2. CASE m + 1 <= n
    <3>1. m + 1 \in 1 .. n /\ g[m] = 0
      BY <1>1, <1>3, <2>2
    <3>2. g[m + 1] = g[(m + 1) - 1] + w[m + 1] /\ w[m + 1] = 0 /\ (m + 1) - 1 = m
      BY <1>1, <3>1
    <3> QED
      BY <3>1, <3>2
  <2> QED
    BY <1>1, <2>1, <2>2
<1> HIDE DEF N
<1>4. n \in N
  BY <1>1, <1>2, <1>3, Induction
<1> QED
  BY <1>1, <1>4 DEF N, Total, n, g

LEMMA SeqFromFunction ==
    ASSUME NEW S, NEW n \in Nat, NEW f \in [1 .. n -> S]
    PROVE  f \in Seq(S) /\ Len(f) = n
OBVIOUS

LEMMA UsesFacts ==
    ASSUME NEW n \in Tapes
    PROVE  /\ Len(Code[n]) \in Nat /\ Len(Uses(n)) = Len(Code[n]) /\ Uses(n) \in Seq(Nat)
           /\ \A k \in 1 .. Len(Code[n]) :
                 Uses(n)[k] = IF Code[n][k].op = "use" THEN Code[n][k].n ELSE 0
<1>1. Len(Code[n]) \in Nat
  BY CodeAssumption
<1>2. \A k \in 1 .. Len(Code[n]) : Code[n][k].n \in Nat
  BY <1>1, InstrFacts
<1>3. Uses(n) \in [1 .. Len(Code[n]) -> Nat]
  BY <1>2 DEF Uses
<1>4. Uses(n) \in Seq(Nat) /\ Len(Uses(n)) = Len(Code[n])
  BY <1>1, <1>3, SeqFromFunction
<1> QED
  BY <1>1, <1>4 DEF Uses

(* What a tape has read before its instruction k.                           *)
LEMMA ReadBeforeFacts ==
    ASSUME NEW n \in Tapes
    PROVE  /\ UsedBy(n) \in Nat
           /\ ReadBefore(n, 1) = 0
           /\ ReadBefore(n, Len(Code[n]) + 1) = UsedBy(n)
           /\ \A k \in 1 .. Len(Code[n]) + 1 :
                 ReadBefore(n, k) \in Nat /\ ReadBefore(n, k) <= UsedBy(n)
           /\ \A k \in 1 .. Len(Code[n]) :
                 ReadBefore(n, k + 1) =
                    ReadBefore(n, k) + IF Code[n][k].op = "use" THEN Code[n][k].n ELSE 0
<1> DEFINE w == Uses(n)
           m == Len(Code[n])
           g == SumTo(w)
<1>1. /\ m \in Nat /\ Len(w) = m /\ w \in Seq(Nat)
      /\ \A k \in 1 .. m : w[k] = IF Code[n][k].op = "use" THEN Code[n][k].n ELSE 0
  BY UsesFacts
<1>u. UsedBy(n) = g[m]
  BY <1>1 DEF UsedBy, Total
<1>r. \A k : ReadBefore(n, k) = g[k - 1]
  BY DEF ReadBefore
<1> HIDE DEF w, m
<1>2. /\ g \in [0 .. m -> Nat] /\ g[0] = 0
      /\ \A k \in 1 .. m : g[k] = g[k - 1] + w[k]
      /\ \A k \in 0 .. m : g[k] <= g[m]
  BY <1>1, SumToFacts, SumToGrows DEF Total
<1> HIDE DEF g
<1>3. UsedBy(n) \in Nat /\ ReadBefore(n, 1) = 0 /\ ReadBefore(n, m + 1) = UsedBy(n)
  <2>1. (m + 1) - 1 = m /\ 1 - 1 = 0
    BY <1>1
  <2>2. ReadBefore(n, 1) = g[0]
    BY <1>r, <2>1
  <2>3. ReadBefore(n, m + 1) = g[m]
    BY <1>r, <2>1
  <2> QED
    BY <1>1, <1>u, <1>2, <2>2, <2>3
<1>4. \A k \in 1 .. m + 1 : ReadBefore(n, k) \in Nat /\ ReadBefore(n, k) <= UsedBy(n)
  <2> SUFFICES ASSUME NEW k \in 1 .. m + 1 PROVE g[k - 1] \in Nat /\ g[k - 1] <= g[m]
    BY <1>u, <1>r
  <2>1. k - 1 \in 0 .. m
    BY <1>1
  <2> QED
    BY <1>2, <2>1
<1>5. \A k \in 1 .. m :
         ReadBefore(n, k + 1) =
            ReadBefore(n, k) + IF Code[n][k].op = "use" THEN Code[n][k].n ELSE 0
  <2> SUFFICES ASSUME NEW k \in 1 .. m
               PROVE  ReadBefore(n, k + 1) = ReadBefore(n, k) + w[k]
    BY <1>1
  <2>1. (k + 1) - 1 = k
    BY <1>1
  <2> QED
    BY <1>r, <1>2, <2>1
<1> QED
  BY <1>3, <1>4, <1>5 DEF m

(* A started tape uses nothing, so that what a tape declares is its own use. *)
LEMMA StartedFacts ==
    ASSUME ItemsAssumptions, NEW n \in Tapes
    PROVE  /\ Started(n) => /\ UsedBy(n) = 0
                            /\ \A k \in 1 .. Len(Code[n]) : Code[n][k].op # "use"
           /\ OfflineDataUsed(n) = UsedBy(n)
<1>1. ASSUME NEW s \in Tapes, Started(s)
      PROVE  UsedBy(s) = 0 /\ \A k \in 1 .. Len(Code[s]) : Code[s][k].op # "use"
  <2>1. \A k \in DOMAIN Code[s] : Code[s][k].op # "use"
    BY <1>1 DEF ItemsAssumptions, StartedUseNothing, Started
  <2>2. \A k \in 1 .. Len(Code[s]) : Code[s][k].op # "use"
    BY <2>1, CodeAssumption
  <2>3. Uses(s) \in Seq(Nat) /\ Len(Uses(s)) = Len(Code[s])
    BY UsesFacts
  <2>4. \A k \in 1 .. Len(Uses(s)) : Uses(s)[k] = 0
    BY <2>2, <2>3, UsesFacts
  <2>5. Total(Uses(s)) = 0
    BY <2>3, <2>4, SumOfNothing
  <2> QED
    BY <2>2, <2>5 DEF UsedBy
<1>2. \A k \in 1 .. Len(Code[n]) :
         (IF Code[n][k].op = "run" THEN UsedBy(Code[n][k].tape) ELSE Uses(n)[k]) = Uses(n)[k]
  <2> SUFFICES ASSUME NEW k \in 1 .. Len(Code[n]), Code[n][k].op = "run"
               PROVE  UsedBy(Code[n][k].tape) = Uses(n)[k]
    OBVIOUS
  <2>1. Uses(n)[k] = 0
    BY UsesFacts
  <2>2. k \in DOMAIN Code[n]
    BY CodeAssumption
  <2>3. Code[n][k].tape \in Tapes /\ Started(Code[n][k].tape)
    BY <2>2 DEF ItemsAssumptions, StartedAreLoaded, Started
  <2> QED
    BY <1>1, <2>1, <2>3
<1>3. Uses(n) = [k \in 1 .. Len(Code[n]) |-> Uses(n)[k]]
  BY DEF Uses
<1>4. OfflineDataUsed(n) = UsedBy(n)
  BY <1>2, <1>3 DEF OfflineDataUsed, UsedBy
<1> QED
  BY <1>1, <1>4

-----------------------------------------------------------------------------
(* The items of a line.                                                     *)

LEMMA AssignedFacts ==
    ASSUME TypeInv, UnknownAlone, CompiledTapes, NEW t \in Threads, Assigned(t)
    PROVE  /\ pc[Main] \in InLines \ {"fetch"}
           /\ exec \in DOMAIN Schedule /\ exec \in Nat /\ t < Len(Schedule[exec])
           /\ Tape(t) \in Tapes /\ ~Target(t)
           /\ Low(t) \in Nat /\ UsedBy(Tape(t)) \in Nat
           /\ High(t) \in Nat /\ Low(t) <= High(t)
<1> USE ProcFacts
<1>1. /\ pc[Main] \in InLines \ {"fetch"}
      /\ exec \in DOMAIN Schedule /\ t < Len(Schedule[exec])
  <2>1. CASE Launched(t)
    <3>1. exec \in DOMAIN Schedule /\ i \in Nat
      BY <2>1 DEF Launched, TypeInv, TypeOK, ControlInv
    <3>2. Len(Schedule[exec]) \in Nat
      BY <3>1, LineFacts
    <3>3. pc[Main] \in {"run", "increase"} => i < Len(Schedule[exec])
      BY DEF TypeInv, ControlInv
    <3> QED
      BY <2>1, <3>1, <3>2, <3>3 DEF Launched, InLines, InLine
  <2>2. CASE ~Launched(t)
    <3>1. pc[Main] \in {"catch", "rethrow"} /\ t <= i
      BY <2>2 DEF Assigned
    <3>2. exec \in DOMAIN Schedule /\ i < Len(Schedule[exec]) /\ i \in Nat
      BY <3>1 DEF UnknownAlone, TypeInv, TypeOK
    <3>3. Len(Schedule[exec]) \in Nat
      BY <3>2, LineFacts
    <3> QED
      BY <3>1, <3>2, <3>3 DEF InLines
  <2> QED
    BY <2>1, <2>2
<1>2. t \in 0 .. Len(Schedule[exec]) - 1
  BY <1>1, LineFacts
<1>3. Tape(t) \in Tapes /\ ~Target(t)
  BY <1>1, <1>2, EntryFacts, EntryThreads DEF Tape, CompiledTapes
<1>4. UsedBy(Tape(t)) \in Nat
  BY <1>3, ReadBeforeFacts
<1>5. Low(t) \in Nat
  BY DEF Low, TypeInv, TypeOK
<1> QED
  BY <1>1, <1>3, <1>4, <1>5, LineFacts DEF High

(* Steps that leave the places of the line's entries where they are.        *)
SameLine ==
    /\ exec' = exec /\ pos' = pos
    /\ \A t \in Threads : (Assigned(t)' <=> Assigned(t)) /\ (Assigned(t) => Low(t)' = Low(t))

LEMMA SameLineFacts ==
    ASSUME SameLine
    PROVE  /\ \A t \in Threads : Tape(t)' = Tape(t) /\ (Unknown(t)' <=> Unknown(t))
           /\ \A t \in Threads : Assigned(t) => High(t)' = High(t)
           /\ LineStart' = LineStart
           /\ Layout => Layout'
           /\ consumed' = consumed /\ OldItems /\ NoItemUsedTwice =>
                 OldItems' /\ NoItemUsedTwice'
<1> USE ProcFacts
<1>1. \A t \in Threads : Tape(t)' = Tape(t) /\ (Unknown(t)' <=> Unknown(t))
  BY DEF SameLine, Tape, Unknown
<1>2. \A t \in Threads : Assigned(t) => High(t)' = High(t)
  BY <1>1 DEF SameLine, High
<1>3. LineStart' = LineStart
  <2>1. (Assigned(0)' <=> Assigned(0)) /\ (Assigned(0) => Low(0)' = Low(0)) /\ pos' = pos
    BY DEF SameLine
  <2> QED
    BY <2>1 DEF LineStart
<1>4. ASSUME Layout PROVE Layout'
  <2>1. Apart'
    BY <1>2, <1>4 DEF SameLine, Layout, Apart
  <2>2. Covered'
    BY <1>2, <1>3, <1>4 DEF SameLine, Layout, Covered
  <2>3. FromStart'
    BY <1>3, <1>4 DEF SameLine, Layout, FromStart
  <2> QED
    BY <2>1, <2>2, <2>3 DEF Layout
<1>5. ASSUME consumed' = consumed, OldItems, NoItemUsedTwice
      PROVE  OldItems' /\ NoItemUsedTwice'
  BY <1>3, <1>5 DEF SameLine, OldItems, NoItemUsedTwice, LineReq
<1> QED
  BY <1>1, <1>2, <1>3, <1>4, <1>5

(* An entry whose worker and items are left alone.                          *)
SameReader(t) ==
    /\ pc'[t] = pc[t] /\ prognum'[t] = prognum[t] /\ program'[t] = program[t]
    /\ ip'[t] = ip[t] /\ datapos'[t] = datapos[t] /\ tpos'[t] = tpos[t]
    /\ \A k : <<k, LineReq(exec, t)>> \in consumed' <=> <<k, LineReq(exec, t)>> \in consumed

SameEntry(t) ==
    /\ exec' = exec /\ (Assigned(t)' <=> Assigned(t))
    /\ Assigned(t) => Low(t)' = Low(t)

LEMMA ReaderKept ==
    ASSUME NEW t \in Threads, SameEntry(t), SameReader(t), EntryOK(t)
    PROVE  EntryOK(t)'
<1>1. /\ Tape(t)' = Tape(t) /\ (Unknown(t)' <=> Unknown(t)) /\ exec' = exec
      /\ Assigned(t)' <=> Assigned(t)
      /\ Assigned(t) => Low(t)' = Low(t) /\ High(t)' = High(t)
  <2>1. Tape(t)' = Tape(t) /\ (Unknown(t)' <=> Unknown(t))
    BY DEF SameEntry, Tape, Unknown
  <2> QED
    BY <2>1 DEF SameEntry, High
<1>2. ASSUME Assigned(t), NEW d PROVE HasRead(t, d) => HasRead(t, d)'
  BY <1>1, <1>2 DEF HasRead, SameReader, LineReq
<1>3. ASSUME Assigned(t) PROVE ReaderOK(t)'
  <2>1. ReaderOK(t)
    BY <1>3 DEF EntryOK
  <2>2. HasRead(t, Low(t)) => HasRead(t, Low(t))'
    <3>1. PICK d : d = Low(t)
      OBVIOUS
    <3>2. d' = Low(t)'
      BY <1>1, <1>3, <3>1
    <3> QED
      BY <1>1, <1>3, <3>1 DEF HasRead, SameReader, LineReq
  <2>3. HasRead(t, High(t)) => HasRead(t, High(t))'
    BY <1>1, <1>3 DEF HasRead, SameReader, LineReq
  <2>4. HasRead(t, datapos[t]) => HasRead(t, datapos[t])'
    BY <1>1, <1>3 DEF HasRead, SameReader, LineReq
  <2>5. ReadBefore(Tape(t), ip[t])' = ReadBefore(Tape(t), ip[t])
    BY <1>1 DEF SameReader, ReadBefore, Uses
  <2> QED
    BY <1>1, <1>3, <2>1, <2>2, <2>3, <2>4, <2>5 DEF ReaderOK, SameReader
<1> QED
  BY <1>1, <1>3 DEF EntryOK, SameReader

LEMMA StarterKept ==
    ASSUME NEW t \in Threads, StarterOK(t), pc'[t] = pc[t], prognum'[t] = prognum[t],
           program'[t] = program[t]
    PROVE  StarterOK(t)'
BY DEF StarterOK, Started

(* No entry reads beyond its items.                                         *)
LEMMA ItemsWithin ==
    ASSUME TypeInv, IpInv, TInv, ItemInv, ItemsAssumptions, NEW t \in Threads, Assigned(t),
           NEW k, <<k, LineReq(exec, t)>> \in consumed
    PROVE  k \in Low(t) .. High(t) - 1
<1>1. /\ pc[Main] \in InLines /\ Tape(t) \in Tapes /\ ~Target(t)
      /\ Low(t) \in Nat /\ High(t) \in Nat /\ Low(t) <= High(t)
      /\ High(t) = Low(t) + UsedBy(Tape(t)) /\ UsedBy(Tape(t)) \in Nat
  BY AssignedFacts DEF ItemInv, ItemsAssumptions, High
<1>2. EntryOK(t) /\ ReaderOK(t) /\ WorkerOK(t)
  BY <1>1 DEF ItemInv, WorkersOK, EntryOK, TInv
<1>3. PICK d : d \in Low(t) .. High(t) /\ HasRead(t, d)
  <2>1. CASE prognum[t] \in Tapes \/ pc[t] = "seek"
    BY <1>1, <1>2, <2>1 DEF ReaderOK
  <2>2. CASE pc[t] \in {"exec", "joinwait"}
    <3>1. program[t] = Tape(t)
      BY <1>2, <2>2 DEF EntryOK, Busy
    <3>2. ip[t] \in 1 .. Len(Code[Tape(t)]) + 1
      BY <2>2, <3>1, ProgramFacts DEF IpInv
    <3>3. ReadBefore(Tape(t), ip[t]) \in Nat /\ ReadBefore(Tape(t), ip[t]) <= UsedBy(Tape(t))
      BY <1>1, <3>2, ReadBeforeFacts
    <3>4. datapos[t] = Low(t) + ReadBefore(Tape(t), ip[t]) /\ HasRead(t, datapos[t])
      BY <1>2, <2>2 DEF ReaderOK
    <3>5. datapos[t] \in Low(t) .. High(t)
      BY <1>1, <3>3, <3>4
    <3> QED
      BY <3>4, <3>5
  <2>3. CASE pc[t] \in {"catch", "rethrow"}
    BY <1>2, <2>3 DEF ReaderOK
  <2>4. CASE pc[t] = "finish" \/ (pc[t] \in Waiting /\ prognum[t] = Idle)
    BY <1>1, <1>2, <2>4 DEF ReaderOK
  <2>5. pc[t] \in Busy \cup Waiting /\ (prognum[t] # Idle => prognum[t] \in Tapes)
    BY <1>2 DEF WorkerOK
  <2> QED
    BY <1>2, <2>1, <2>2, <2>3, <2>4, <2>5 DEF Busy, EntryOK
<1>4. k \in Low(t) .. d - 1
  BY <1>3 DEF HasRead
<1> QED
  BY <1>1, <1>3, <1>4

-----------------------------------------------------------------------------
(* Steps of the workers.                                                    *)

Stays ==
    /\ UNCHANGED <<pos, usageUnknown, exec, fileStart>>
    /\ \/ pc'[Main] = pc[Main] /\ UNCHANGED <<i, delta>>
       \/ pc[Main] = "catch" /\ pc'[Main] = "rethrow" /\ UNCHANGED i
       \/ pc[Main] \in {"join", "joinwait"} /\ pc'[Main] \in {"join", "joinwait", "lineend"}

LEMMA MainStays ==
    ASSUME TypeInv, ItemInv, Stays,
           \A t \in Threads : Assigned(t) => Low(t)' = Low(t)
    PROVE  /\ SameLine /\ Layout' /\ Counts' /\ UnknownAlone'
           /\ (pc[Main] = "done" => fileStart = pos)'
<1>1. /\ exec' = exec /\ pos' = pos /\ fileStart' = fileStart
      /\ usageUnknown' = usageUnknown
      /\ pc'[Main] = "increase" => pc[Main] = "increase" /\ i' = i /\ delta' = delta
      /\ pc'[Main] = "done" => pc[Main] = "done"
      /\ pc'[Main] \in {"catch", "rethrow"} <=> pc[Main] \in {"catch", "rethrow"}
      /\ pc'[Main] \in {"catch", "rethrow"} => i' = i
      /\ pc[Main] \in {"increase", "join", "joinwait", "lineend"} =>
            pc'[Main] \in {"increase", "join", "joinwait", "lineend"}
      /\ pc[Main] = "increase" => pc'[Main] = "increase"
  BY DEF Stays
<1>2. \A t \in Threads : Assigned(t)' <=> Assigned(t)
  <2>1. CASE pc'[Main] = pc[Main] /\ i' = i
    BY <1>1, <2>1 DEF Assigned, Launched
  <2>2. CASE pc[Main] = "catch" /\ pc'[Main] = "rethrow" /\ i' = i
    BY <2>2 DEF Assigned, Launched
  <2>3. CASE pc[Main] \in {"join", "joinwait"} /\ pc'[Main] \in {"join", "joinwait", "lineend"}
    BY <1>1, <2>3 DEF Assigned, Launched
  <2> QED
    BY <2>1, <2>2, <2>3 DEF Stays
<1>3. SameLine
  BY <1>1, <1>2 DEF SameLine
<1>4. /\ \A t \in Threads : Tape(t)' = Tape(t) /\ (Unknown(t)' <=> Unknown(t))
      /\ \A t \in Threads : Assigned(t) => High(t)' = High(t)
      /\ Layout'
  BY <1>3, SameLineFacts DEF ItemInv
<1>5. Counts'
  <2>1. ASSUME pc'[Main] = "increase"
        PROVE  (Low(i) = pos /\ delta = IF Unknown(i) THEN 0 ELSE UsedBy(Tape(i)))'
    <3>1. PICK j : j = i
      OBVIOUS
    <3>2. j \in Threads /\ Assigned(j)
      BY <1>1, <2>1, <3>1, ProcFacts DEF TypeInv, TypeOK, Assigned, Launched
    <3>3. Low(j) = pos /\ delta = IF Unknown(j) THEN 0 ELSE UsedBy(Tape(j))
      BY <1>1, <2>1, <3>1 DEF ItemInv, Counts
    <3>4. Low(j)' = Low(j) /\ Tape(j)' = Tape(j) /\ (Unknown(j)' <=> Unknown(j)) /\ j = i'
      BY <1>1, <2>1, <1>4, <3>1, <3>2
    <3>5. UsedBy(Tape(j))' = UsedBy(Tape(j))
      BY <3>4 DEF UsedBy, Uses
    <3>6. Low(j)' = pos /\ delta' = IF Unknown(j)' THEN 0 ELSE UsedBy(Tape(j))'
      BY <1>1, <2>1, <3>3, <3>4, <3>5
    <3> QED
      BY <1>1, <3>4, <3>6 DEF Low, Unknown, Tape, UsedBy, Uses
  <2>2. \A t \in Threads :
           Assigned(t)' /\ ~Unknown(t)' /\ (pc'[Main] # "increase" \/ t < i') => High(t)' <= pos'
    BY <1>1, <1>2, <1>4 DEF ItemInv, Counts
  <2> QED
    BY <2>1, <2>2 DEF Counts
<1>6. UnknownAlone'
  <2>1. UnknownAlone /\ 0 \in Threads
    BY ProcFacts DEF ItemInv
  <2>2. \A t \in Threads : Assigned(t)' /\ Unknown(t)' =>
           \/ usageUnknown' /\ t = 0 /\ Len(Schedule[exec']) = 1
           \/ pc'[Main] \in {"catch", "rethrow"} /\ t = i'
    BY <1>1, <1>2, <1>4, <2>1 DEF UnknownAlone
  <2>3. usageUnknown' => /\ pc'[Main] \in {"increase", "join", "joinwait", "lineend"}
                         /\ Assigned(0)' /\ Unknown(0)'
    BY <1>1, <1>2, <1>4, <2>1 DEF UnknownAlone
  <2>4. pc'[Main] \in {"catch", "rethrow"} =>
           exec' \in DOMAIN Schedule /\ i' < Len(Schedule[exec'])
    BY <1>1, <2>1 DEF UnknownAlone
  <2> QED
    BY <2>2, <2>3, <2>4 DEF UnknownAlone
<1> QED
  BY <1>1, <1>3, <1>4, <1>5, <1>6 DEF ItemInv

(* What a step of a worker changes of the positions and the items.          *)
LEMMA WorkerData ==
    ASSUME TypeInv, NEW u \in Threads, WorkerStep(u), ~ExecRunTape(u)
    PROVE  /\ UNCHANGED mainVars
           /\ \A t \in Threads \ {u} : datapos'[t] = datapos[t] /\ tpos'[t] = tpos[t]
           /\ \/ ResetAndSeek(u) \/ UseData(u) \/ EndProgram(u)
              \/ /\ ~SeeksT(u) /\ ~UsesT(u) /\ ~EndsT(u)
                 /\ UNCHANGED <<datapos, tpos, consumed>>
<1> USE ProcFacts DEF TypeInv, TypeOK, info, workVars, ghosts
<1>1. CASE ResetAndSeek(u)
  BY <1>1 DEF ResetAndSeek
<1>2. CASE UseData(u)
  BY <1>2 DEF UseData
<1>3. CASE EndProgram(u)
  BY <1>3 DEF EndProgram
<1>4. CASE SetupDone(u)
  BY <1>4 DEF SetupDone, GoTo, SeeksT, UsesT, EndsT, AtInstr
<1>5. CASE AnnounceReady(u)
  BY <1>5 DEF AnnounceReady, GoTo, SeeksT, UsesT, EndsT, AtInstr
<1>6. CASE AwaitProgram(u)
  BY <1>6 DEF AwaitProgram, GoTo, SeeksT, UsesT, EndsT, AtInstr
<1>7. CASE TakeProgram(u)
  BY <1>7 DEF TakeProgram, SeeksT, UsesT, EndsT, AtInstr
<1>8. CASE ExecJoinWait(u)
  BY <1>8 DEF ExecJoinWait, GoTo, SeeksT, UsesT, EndsT, AtInstr
<1>9. CASE ExecJoined(u)
  <2>1. ~SeeksT(u) /\ ~UsesT(u) /\ ~EndsT(u)
    BY <1>9 DEF ExecJoined, JoinReturns, GoTo, SeeksT, UsesT, EndsT, AtInstr
  <2> QED
    BY <1>9, <2>1 DEF ExecJoined
<1>10. CASE ExecCrash(u)
  BY <1>10 DEF ExecCrash, GoTo, SeeksT, UsesT, EndsT, AtInstr
<1>11. CASE FinishProgram(u)
  BY <1>11 DEF FinishProgram, GoTo, SeeksT, UsesT, EndsT, AtInstr
<1>12. CASE AwaitRelease(u)
  BY <1>12 DEF AwaitRelease, GoTo, SeeksT, UsesT, EndsT, AtInstr
<1>13. CASE ExitThread(u)
  BY <1>13 DEF ExitThread, GoTo, SeeksT, UsesT, EndsT, AtInstr
<1> QED
  BY <1>1, <1>2, <1>3, <1>4, <1>5, <1>6, <1>7, <1>8, <1>9, <1>10, <1>11, <1>12, <1>13
     DEF WorkerStep

LEMMA LowKept ==
    ASSUME TypeInv, ItemInv, CompiledTapes, NEW u \in Threads, WorkerStep(u), ~ExecRunTape(u)
    PROVE  Stays /\ \A t \in Threads : Assigned(t) => Low(t)' = Low(t)
<1>s. Stays
  BY AloneSteps, WorkerData DEF Alone, mainVars, Stays
<1> SUFFICES ASSUME NEW t \in Threads, Assigned(t) PROVE Low(t)' = Low(t)
  BY <1>s
<1>1. pc[Main] \in InLines /\ ~Target(t)
  BY AssignedFacts DEF ItemInv
<1>2. pos' = pos /\ exec' = exec /\ (Unknown(t)' <=> Unknown(t))
  BY WorkerData DEF mainVars, Unknown, Tape
<1>3. CASE EndProgram(u) /\ t = u
  <2>1. pc[t] = "exec"
    BY <1>3 DEF EndProgram
  <2>2. program[t] = Tape(t)
    BY <1>1, <2>1 DEF ItemInv, WorkersOK, EntryOK, Busy
  <2>3. ~Unknown(t) => tpos' = tpos
    BY <1>3, <2>2 DEF EndProgram, Unknown
  <2> QED
    BY <1>2, <2>3 DEF Low
<1>4. CASE ~(EndProgram(u) /\ t = u)
  <2>1. tpos'[t] = tpos[t]
    BY <1>4, WorkerData DEF ResetAndSeek, UseData, info
  <2> QED
    BY <1>2, <2>1 DEF Low
<1> QED
  BY <1>3, <1>4

(* The worker that steps, if it runs entries of the schedule.               *)
LEMMA UnassignedStep ==
    ASSUME TypeInv, TInv, ItemInv, CompiledTapes, pc[Main] \in InLines,
           NEW u \in Threads, ~Target(u), ~Assigned(u), WorkerStep(u), ~ExecRunTape(u), SameLine
    PROVE  EntryOK(u)' /\ consumed' = consumed
<1> USE ProcFacts
<1>1. prognum[u] = Idle /\ pc[u] \in Waiting /\ WorkerOK(u)
  BY DEF ItemInv, WorkersOK, EntryOK, TInv
<1>2. AwaitsT(u)
  <2>1. AloneStep(u)
    BY AloneSteps
  <2> QED
    BY <1>1, <2>1 DEF WorkerOK, AloneStep, BeginsT, TakesT, SeeksT, UsesT,
       AwaitsJoinT, JoinsT, ThrowsT, EndsT, ReportsT, StopsT, AtInstr, JoinReturns,
       Busy, Waiting, Before, Ended
<1>3. prognum'[u] = Idle /\ pc'[u] \in Waiting /\ pc[u] = "check"
  BY <1>1, <1>2 DEF AwaitsT, Keeps, Waiting
<1>4. consumed' = consumed
  BY <1>3, WorkerData DEF ResetAndSeek, UseData, EndProgram, AtInstr, ghosts
<1>5. ~Assigned(u)'
  BY DEF SameLine
<1>6. Idle \notin Tapes /\ pc'[u] \notin Busy
  BY <1>3, TapesAssumption DEF Idle, Waiting, Busy
<1> QED
  BY <1>3, <1>4, <1>5, <1>6 DEF EntryOK

(* Reading on from a place.                                                 *)
LEMMA ReadOn ==
    ASSUME NEW t \in Threads, NEW a \in Nat, NEW b \in Nat, NEW n \in Nat, NEW r,
           NEW old, NEW new, a <= b,
           \A k : <<k, r>> \in old <=> k \in a .. b - 1,
           new = old \cup {<<k, r>> : k \in b .. b + n - 1}
    PROVE  \A k : <<k, r>> \in new <=> k \in a .. b + n - 1
<1>1. \A k : <<k, r>> \in new <=> (<<k, r>> \in old \/ k \in b .. b + n - 1)
  OBVIOUS
<1>2. \A k : k \in a .. b + n - 1 <=> (k \in a .. b - 1 \/ k \in b .. b + n - 1)
  OBVIOUS
<1> QED
  BY <1>1, <1>2

LEMMA AssignedStep ==
    ASSUME TypeInv, IpInv, TInv, RequestInv, ItemInv, ItemsAssumptions, SameLine,
           NEW u \in Threads, Assigned(u), WorkerStep(u), ~ExecRunTape(u)
    PROVE  EntryOK(u)'
<1> USE ProcFacts
<1>a. /\ pc[Main] \in InLines /\ exec \in Nat /\ Tape(u) \in Tapes /\ ~Target(u)
      /\ Low(u) \in Nat /\ High(u) \in Nat /\ UsedBy(Tape(u)) \in Nat
      /\ High(u) = Low(u) + UsedBy(Tape(u))
  BY AssignedFacts DEF ItemInv, ItemsAssumptions, High
<1>b. EntryOK(u) /\ ReaderOK(u) /\ WorkerOK(u) /\ RequestOK(u)
  BY <1>a DEF ItemInv, WorkersOK, EntryOK, TInv, RequestInv
<1>c. /\ exec' = exec /\ Assigned(u)' /\ Low(u)' = Low(u) /\ High(u)' = High(u)
      /\ Tape(u)' = Tape(u) /\ (Unknown(u)' <=> Unknown(u))
  BY SameLineFacts DEF SameLine
<1>d. AloneStep(u)
  BY AloneSteps
<1> DEFINE n == Tape(u)
           r == LineReq(exec, u)
<1>h. \A d : HasRead(u, d) <=> \A k : <<k, r>> \in consumed <=> k \in Low(u) .. d - 1
  BY DEF HasRead
<1>i. consumed' = consumed => \A d : HasRead(u, d) => \A k : <<k, r>> \in consumed' <=> k \in Low(u)' .. d - 1
  BY <1>c, <1>h
<1>p. /\ prognum'[u] \in Tapes => prognum[u] \in Tapes /\ prognum'[u] = prognum[u]
      /\ pc'[u] \in Busy => program'[u] = n /\ pc'[u] # "undefined"
  <2>1. CASE TakesT(u)
    <3>1. prognum[u] \in Tapes
      BY <1>b, <2>1 DEF WorkerOK, TakesT
    <3> QED
      BY <1>b, <2>1, <3>1, TapesAssumption DEF EntryOK, TakesT, Idle
  <2>2. CASE ~TakesT(u)
    <3>1. Keeps(u) /\ (pc'[u] \in Busy => pc[u] \in Busy /\ pc'[u] # "undefined")
      BY <1>b, <1>d, <2>2 DEF WorkerOK, AloneStep, BeginsT, AwaitsT, SeeksT, UsesT,
         AwaitsJoinT, JoinsT, ThrowsT, EndsT, ReportsT, StopsT, AtInstr, JoinReturns,
         Busy, Waiting, Before, Ended
    <3> QED
      BY <1>b, <3>1 DEF EntryOK, Keeps
  <2> QED
    BY <2>1, <2>2
<1>e. pc[u] = "exec" \/ pc[u] = "joinwait" =>
        /\ program[u] = n /\ current[u] = r /\ ip[u] \in 1 .. Len(Code[n]) + 1 /\ ip[u] \in Nat
        /\ Len(Code[n]) \in Nat
        /\ ReadBefore(n, ip[u]) \in Nat /\ ReadBefore(n, ip[u]) <= UsedBy(n)
        /\ datapos[u] = Low(u) + ReadBefore(n, ip[u]) /\ HasRead(u, datapos[u])
  <2> SUFFICES ASSUME pc[u] = "exec" \/ pc[u] = "joinwait"
               PROVE /\ program[u] = n /\ current[u] = r
                     /\ ip[u] \in 1 .. Len(Code[n]) + 1 /\ ip[u] \in Nat
                     /\ Len(Code[n]) \in Nat
                     /\ ReadBefore(n, ip[u]) \in Nat /\ ReadBefore(n, ip[u]) <= UsedBy(n)
                     /\ datapos[u] = Low(u) + ReadBefore(n, ip[u]) /\ HasRead(u, datapos[u])
    OBVIOUS
  <2>1. program[u] = n /\ current[u] = r
    BY <1>a, <1>b DEF EntryOK, RequestOK, RequestOf, Busy
  <2>2. ip[u] \in 1 .. Len(Code[n]) + 1 /\ ip[u] \in Nat /\ Len(Code[n]) \in Nat
    BY <2>1, ProgramFacts DEF IpInv
  <2> QED
    BY <1>a, <1>b, <2>1, <2>2, ReadBeforeFacts DEF ReaderOK
<1> HIDE DEF n, r
<1>g. PICK m, q, lo, hi : m = n /\ q = r /\ lo = Low(u) /\ hi = High(u)
  OBVIOUS
<1>n. /\ m \in Tapes /\ m = Tape(u) /\ q = LineReq(exec, u) /\ m = Tape(u)' /\ q = LineReq(exec', u)
      /\ lo \in Nat /\ hi \in Nat /\ UsedBy(m) \in Nat /\ hi = lo + UsedBy(m)
      /\ Low(u)' = lo /\ High(u)' = hi /\ (Unknown(u)' <=> m \in UnknownUsage)
  BY <1>a, <1>c, <1>g DEF n, r, Unknown
<1> DEFINE Was(d) == \A k : <<k, q>> \in consumed <=> k \in lo .. d - 1
           Is(d) == \A k : <<k, q>> \in consumed' <=> k \in lo .. d - 1
<1> HIDE DEF Was, Is
<1>o. /\ prognum[u] \in Tapes \/ pc[u] = "seek" => tpos[u] = lo /\ Was(lo)
      /\ pc[u] \in {"catch", "rethrow"} => datapos[u] \in lo .. hi /\ Was(datapos[u])
      /\ pc[u] = "finish" \/ (pc[u] \in Waiting /\ prognum[u] = Idle) =>
            Was(hi) /\ (m \in UnknownUsage => tpos[u] = hi)
      /\ pc[u] = "exec" \/ pc[u] = "joinwait" =>
            /\ program[u] = m /\ current[u] = q /\ ip[u] \in 1 .. Len(Code[m]) + 1
            /\ ip[u] \in Nat /\ Len(Code[m]) \in Nat
            /\ ReadBefore(m, ip[u]) \in Nat /\ ReadBefore(m, ip[u]) <= UsedBy(m)
            /\ datapos[u] = lo + ReadBefore(m, ip[u]) /\ Was(datapos[u])
  BY <1>b, <1>e, <1>g, <1>h, <1>n DEF ReaderOK, Unknown, Was
<1> DEFINE Goal ==
      /\ prognum'[u] \in Tapes \/ pc'[u] = "seek" => tpos'[u] = lo /\ Is(lo)
      /\ pc'[u] \in {"exec", "joinwait"} =>
            datapos'[u] = lo + ReadBefore(m, ip'[u]) /\ Is(datapos'[u])
      /\ pc'[u] \in {"catch", "rethrow"} => datapos'[u] \in lo .. hi /\ Is(datapos'[u])
      /\ pc'[u] = "finish" \/ (pc'[u] \in Waiting /\ prognum'[u] = Idle) =>
            Is(hi) /\ (m \in UnknownUsage => tpos'[u] = hi)
<1> HIDE DEF Goal
<1>q. ASSUME Goal PROVE EntryOK(u)'
  <2>1. \A d : HasRead(u, d)' <=> Is(d)
    BY <1>n DEF HasRead, Is
  <2>2. HasRead(u, Low(u))' <=> Is(lo)
    BY <1>n DEF HasRead, Is
  <2>3. HasRead(u, High(u))' <=> Is(hi)
    BY <1>n DEF HasRead, Is
  <2>4. HasRead(u, datapos[u])' <=> Is(datapos'[u])
    BY <1>n DEF HasRead, Is
  <2>5. ReadBefore(Tape(u), ip[u])' = ReadBefore(m, ip'[u])
    BY <1>n DEF ReadBefore, Uses
  <2>6. ReaderOK(u)'
    BY <1>q, <1>n, <2>2, <2>3, <2>4, <2>5 DEF ReaderOK, Goal
  <2>7. /\ prognum'[u] \in Tapes => prognum'[u] = m
        /\ pc'[u] \in Busy => program'[u] = m /\ pc'[u] # "undefined"
    BY <1>b, <1>g, <1>n, <1>p DEF EntryOK, n
  <2> QED
    BY <1>c, <1>n, <2>6, <2>7 DEF EntryOK
<1>w. WorkerOK(u)'
  <2>1. Alone(u)
    BY AloneSteps
  <2> QED
    BY <1>a, <1>d, <2>1, AloneKeepsWorkers
<1>s. ASSUME UNCHANGED <<datapos, tpos, consumed>>
      PROVE  tpos'[u] = tpos[u] /\ datapos'[u] = datapos[u] /\ \A d : Was(d) => Is(d)
  BY <1>s DEF Was, Is
<1>t. Idle \notin Tapes
  BY TapesAssumption DEF Idle
<1>t2. ASSUME prognum'[u] = Idle, pc'[u] = "seek", tpos'[u] = lo, Is(lo) PROVE Goal
  BY <1>t, <1>t2 DEF Goal, Waiting
<1>t3. ASSUME prognum'[u] = Idle, pc'[u] \in {"exec", "joinwait"}, Is(datapos'[u]),
             datapos'[u] = lo + ReadBefore(m, ip'[u])
      PROVE  Goal
  BY <1>t, <1>t3, Zenon DEF Goal, Waiting
<1>t4. ASSUME prognum'[u] = Idle, pc'[u] \in {"catch", "rethrow"}, datapos'[u] \in lo .. hi,
             Is(datapos'[u])
      PROVE  Goal
  BY <1>t, <1>t4, Zenon DEF Goal, Waiting
<1>t5. ASSUME prognum'[u] = Idle, pc'[u] \in {"finish"} \cup Waiting, Is(hi),
             m \in UnknownUsage => tpos'[u] = hi
      PROVE  Goal
  BY <1>t, <1>t5, Zenon DEF Goal, Waiting
<1>x. ASSUME UNCHANGED <<datapos, tpos, consumed>>, ~SeeksT(u), ~UsesT(u), ~EndsT(u) PROVE Goal
  <2>1. /\ tpos'[u] = tpos[u] /\ datapos'[u] = datapos[u]
        /\ (Was(lo) => Is(lo)) /\ (Was(hi) => Is(hi)) /\ (Was(datapos[u]) => Is(datapos[u]))
    BY <1>s, <1>x
  <2>2. ~BeginsT(u) /\ ~StopsT(u)
    BY <1>b DEF WorkerOK, BeginsT, StopsT, Busy, Waiting, Before, Ended
  <2>3. pc[u] \in Busy => prognum[u] = Idle
    BY <1>b DEF WorkerOK
  <2>4. CASE AwaitsT(u)
    <3>1. prognum[u] = Idle /\ prognum'[u] = Idle /\ pc[u] \in Waiting /\ pc'[u] \in Waiting
      BY <2>4 DEF AwaitsT, Keeps, Waiting
    <3>2. Is(hi) /\ (m \in UnknownUsage => tpos'[u] = hi)
      BY <1>o, <2>1, <3>1
    <3> QED
      BY <1>t5, <3>1, <3>2
  <2>5. CASE TakesT(u)
    <3>1. prognum[u] \in Tapes /\ pc'[u] = "seek" /\ prognum'[u] = Idle
      BY <1>b, <2>5 DEF WorkerOK, TakesT
    <3> QED
      BY <1>o, <1>t2, <2>1, <3>1
  <2>6. CASE AwaitsJoinT(u)
    <3>1. /\ pc[u] = "exec" /\ pc'[u] = "joinwait" /\ ip'[u] = ip[u] /\ prognum'[u] = Idle
      BY <2>3, <2>6 DEF AwaitsJoinT, AtInstr, Keeps, Busy
    <3> QED
      BY <1>o, <1>t3, <2>1, <3>1
  <2>7. CASE JoinsT(u)
    <3>1. /\ pc[u] \in {"exec", "joinwait"} /\ pc'[u] = "exec" /\ ip'[u] = ip[u] + 1 /\ Keeps(u)
          /\ ip[u] <= Len(Code[program[u]]) /\ Instr(u).op = "join"
      <4>1. CASE AtInstr(u, "join")
        BY <2>7, <4>1 DEF JoinsT, AtInstr
      <4>2. CASE pc[u] = "joinwait"
        BY <2>7, <4>2 DEF JoinsT, IpInv
      <4> QED
        BY <2>7, <4>1, <4>2 DEF JoinsT, JoinReturns
    <3>2. prognum'[u] = Idle
      BY <2>3, <3>1 DEF Keeps, Busy
    <3>3. ip[u] \in 1 .. Len(Code[m]) /\ Code[m][ip[u]].op = "join"
      BY <1>o, <3>1 DEF Instr
    <3>4. ReadBefore(m, ip[u] + 1) = ReadBefore(m, ip[u]) + 0
      BY <1>n, <3>3, ReadBeforeFacts
    <3>5. ReadBefore(m, ip'[u]) = ReadBefore(m, ip[u])
      BY <1>o, <3>1, <3>4
    <3> QED
      BY <1>o, <1>t3, <2>1, <3>1, <3>2, <3>5
  <2>8. CASE ThrowsT(u)
    <3>1. pc[u] \in {"exec", "catch", "rethrow"}
      BY <1>x, <2>8 DEF ThrowsT, WorkerStep, SetupDone, AnnounceReady, AwaitProgram, TakeProgram,
         ResetAndSeek, UseData, ExecRunTape, ExecJoinWait, ExecJoined, ExecCrash, EndProgram,
         FinishProgram, AwaitRelease, ExitThread, AtInstr, JoinReturns, GoTo, TypeInv, TypeOK, Busy
    <3>2. prognum'[u] = Idle /\ pc'[u] \in {"catch", "rethrow"}
      BY <2>3, <2>8 DEF ThrowsT, Keeps
    <3>3. datapos[u] \in lo .. hi /\ Was(datapos[u])
      BY <1>n, <1>o, <3>1
    <3> QED
      BY <1>t4, <2>1, <3>2, <3>3
  <2>9. CASE ReportsT(u)
    <3>1. prognum'[u] = Idle /\ pc'[u] \in Waiting /\ pc[u] = "finish"
      BY <2>3, <2>9 DEF ReportsT, Keeps, Waiting, Busy
    <3>2. Is(hi) /\ (m \in UnknownUsage => tpos'[u] = hi)
      BY <1>o, <2>1, <3>1
    <3> QED
      BY <1>t5, <3>1, <3>2
  <2> QED
    BY <1>d, <1>x, <2>2, <2>4, <2>5, <2>6, <2>7, <2>8, <2>9 DEF AloneStep
<1>1. CASE ResetAndSeek(u)
  <2>1. /\ pc[u] = "seek" /\ pc'[u] = "exec" /\ ip'[u] = 1 /\ datapos'[u] = tpos[u]
        /\ prognum' = prognum /\ consumed' = consumed
    BY <1>1 DEF ResetAndSeek, GoTo, TypeInv, TypeOK, info, ghosts
  <2>2. prognum'[u] = Idle /\ pc'[u] \in {"exec", "joinwait"}
    BY <1>b, <2>1 DEF WorkerOK, Busy
  <2>3. ReadBefore(m, 1) = 0
    BY <1>n, ReadBeforeFacts
  <2>4. Is(lo)
    BY <1>o, <2>1 DEF Was, Is
  <2>5. tpos[u] = lo /\ lo = lo + ReadBefore(m, 1)
    BY <1>n, <1>o, <2>1, <2>3
  <2>6. datapos'[u] = lo + ReadBefore(m, ip'[u]) /\ datapos'[u] = lo
    BY <2>1, <2>5
  <2>7. Is(datapos'[u])
    BY <2>4, <2>6
  <2> QED
    BY <1>q, <1>t3, <2>2, <2>6, <2>7
<1>2. CASE UseData(u)
  <2>1. /\ pc[u] = "exec" /\ pc'[u] = "exec" /\ ip'[u] = ip[u] + 1 /\ ip[u] <= Len(Code[program[u]])
        /\ Instr(u).op = "use" /\ datapos'[u] = datapos[u] + Instr(u).n /\ prognum' = prognum
        /\ consumed' = consumed \cup {<<k, current[u]>> : k \in datapos[u] .. datapos[u] + Instr(u).n - 1}
    BY <1>2 DEF UseData, AtInstr, NextInstr, TypeInv, TypeOK, info, ghosts
  <2>2. prognum'[u] = Idle /\ pc'[u] \in {"exec", "joinwait"}
    BY <1>b, <2>1 DEF WorkerOK, Busy
  <2>3. PICK c, d : c = Instr(u).n /\ d = datapos[u]
    OBVIOUS
  <2>4. ip[u] \in 1 .. Len(Code[m]) /\ Code[m][ip[u]].op = "use" /\ Code[m][ip[u]].n = c
    BY <1>o, <2>1, <2>3 DEF Instr
  <2>5. c \in Nat
    BY <1>n, <1>o, <2>4, InstrFacts
  <2>6. ReadBefore(m, ip[u] + 1) = ReadBefore(m, ip[u]) + c
    BY <1>n, <2>4, ReadBeforeFacts
  <2>7. d \in Nat /\ lo <= d /\ d + c = lo + ReadBefore(m, ip[u] + 1)
    <3>1. d = lo + ReadBefore(m, ip[u])
      BY <1>o, <2>1, <2>3
    <3>2. PICK x, y : x = ReadBefore(m, ip[u]) /\ y = ReadBefore(m, ip[u] + 1)
      OBVIOUS
    <3>3. x \in Nat
      BY <1>n, <2>4, <3>2, ReadBeforeFacts
    <3>4. d = lo + x /\ y = x + c
      BY <2>6, <3>1, <3>2
    <3>5. lo \in Nat
      BY <1>n
    <3>6. d \in Nat /\ lo <= d /\ d + c = lo + y
      BY <2>5, <3>3, <3>4, <3>5
    <3> QED
      BY <3>2, <3>6
  <2>8. \A k : <<k, q>> \in consumed <=> k \in lo .. d - 1
    BY <1>o, <2>1, <2>3 DEF Was
  <2>9. consumed' = consumed \cup {<<k, q>> : k \in d .. d + c - 1}
    BY <1>o, <2>1, <2>3
  <2>10. \A k : <<k, q>> \in consumed' <=> k \in lo .. d + c - 1
    BY <1>n, <2>5, <2>7, <2>8, <2>9, ReadOn
  <2>11. Is(d + c)
    BY <2>5, <2>7, <2>10 DEF Is
  <2>12. datapos'[u] = d + c /\ datapos'[u] = lo + ReadBefore(m, ip'[u])
    BY <2>1, <2>3, <2>7
  <2>13. Is(datapos'[u])
    BY <2>11, <2>12
  <2> QED
    BY <1>q, <1>t3, <2>2, <2>12, <2>13
<1>3. CASE EndProgram(u)
  <2>1. /\ pc[u] = "exec" /\ pc'[u] = "finish" /\ ip[u] > Len(Code[program[u]])
        /\ prognum' = prognum /\ consumed' = consumed
        /\ program[u] \in UnknownUsage => tpos'[u] = datapos[u]
    BY <1>3 DEF EndProgram, GoTo, TypeInv, TypeOK, ghosts
  <2>2. prognum'[u] = Idle /\ pc'[u] \in {"finish"} \cup Waiting
    BY <1>b, <2>1 DEF WorkerOK, Busy
  <2>3. ip[u] = Len(Code[m]) + 1
    BY <1>o, <2>1
  <2>4. datapos[u] = hi
    BY <1>n, <1>o, <2>1, <2>3, ReadBeforeFacts
  <2>5. Is(hi)
    BY <1>o, <2>1, <2>4 DEF Was, Is
  <2>6. m \in UnknownUsage => tpos'[u] = hi
    BY <1>o, <2>1, <2>4
  <2> QED
    BY <1>q, <1>t5, <2>2, <2>5, <2>6
<1> QED
  BY <1>q, <1>x, <1>1, <1>2, <1>3, WorkerData

(* The worker that steps, if it runs tapes that another tape starts: they   *)
(* read nothing.                                                            *)
LEMMA StarterStep ==
    ASSUME TypeInv, TInv, ItemsAssumptions, pc[Main] \in InLines,
           NEW u \in Threads, StarterOK(u), WorkerStep(u), ~ExecRunTape(u)
    PROVE  StarterOK(u)' /\ consumed' = consumed
<1>1. AloneStep(u) /\ WorkerOK(u)
  BY AloneSteps DEF TInv
<1>2. StarterOK(u)'
  <2>1. CASE TakesT(u)
    <3>1. prognum[u] \in Tapes
      BY <1>1, <2>1 DEF WorkerOK, TakesT
    <3>2. prognum'[u] \notin Tapes /\ program'[u] = prognum[u]
      BY <2>1, TapesAssumption DEF TakesT, Idle
    <3> QED
      BY <3>1, <3>2 DEF StarterOK, Started
  <2>2. CASE ~TakesT(u)
    <3>1. Keeps(u) /\ (pc'[u] \in Busy => pc[u] \in Busy)
      BY <1>1, <2>2 DEF WorkerOK, AloneStep, BeginsT, AwaitsT, SeeksT, UsesT, AwaitsJoinT,
         JoinsT, ThrowsT, EndsT, ReportsT, StopsT, AtInstr, JoinReturns, Busy, Waiting,
         Before, Ended
    <3> QED
      BY <3>1 DEF StarterOK, Started, Keeps
  <2> QED
    BY <2>1, <2>2
<1>3. ~UseData(u)
  <2> SUFFICES ASSUME UseData(u) PROVE FALSE
    OBVIOUS
  <2>1. pc[u] = "exec" /\ ip[u] <= Len(Code[program[u]]) /\ Code[program[u]][ip[u]].op = "use"
    BY DEF UseData, AtInstr, Instr
  <2>2. program[u] \in Tapes /\ ip[u] \in 1 .. Len(Code[program[u]]) /\ Started(program[u])
    BY <2>1, ProgramFacts DEF StarterOK, Busy
  <2> QED
    BY <2>1, <2>2, StartedFacts
<1>4. consumed' = consumed
  BY <1>3, WorkerData DEF ResetAndSeek, EndProgram, ghosts
<1> QED
  BY <1>2, <1>4

(* What is read is of the reader's own items.                               *)
LEMMA UseFacts ==
    ASSUME TypeInv, IpInv, Inv, TInv, RequestInv, ItemInv, ItemsAssumptions, SameLine,
           NEW u \in Threads, UseData(u)
    PROVE  /\ pc[Main] \in InLines /\ ~Target(u) /\ Assigned(u)
           /\ \E d \in Nat, c \in Nat :
                 /\ Low(u) <= d /\ d + c <= High(u)
                 /\ consumed' = consumed \cup {<<k, LineReq(exec, u)>> : k \in d .. d + c - 1}
<1>1. /\ pc[u] = "exec" /\ ip[u] <= Len(Code[program[u]])
      /\ Code[program[u]][ip[u]].op = "use"
      /\ consumed' = consumed \cup
            {<<k, current[u]>> : k \in datapos[u] .. datapos[u] + Code[program[u]][ip[u]].n - 1}
  BY DEF UseData, AtInstr, Instr
<1>2. pc[Main] \in InLines
  BY <1>1, TakenUndisturbed
<1>3. /\ program[u] \in Tapes /\ ip[u] \in 1 .. Len(Code[program[u]])
      /\ ip[u] \in Nat /\ Len(Code[program[u]]) \in Nat
  BY <1>1, ProgramFacts
<1>4. ~Target(u)
  <2> SUFFICES ASSUME Target(u) PROVE FALSE
    OBVIOUS
  <2>1. Started(program[u])
    BY <1>1, <1>2 DEF ItemInv, WorkersOK, StarterOK, Busy
  <2> QED
    BY <1>1, <1>3, <2>1, StartedFacts
<1>5. EntryOK(u) /\ RequestOK(u)
  BY <1>2, <1>4 DEF ItemInv, WorkersOK, RequestInv
<1>6. Assigned(u) /\ program[u] = Tape(u) /\ current[u] = LineReq(exec, u)
  BY <1>1, <1>4, <1>5 DEF EntryOK, Waiting, Busy, RequestOK, RequestOf
<1>7. PICK n, c, d, k : n = program[u] /\ c = Code[n][k].n /\ d = datapos[u] /\ k = ip[u]
  OBVIOUS
<1>8. /\ c \in Nat /\ ReadBefore(n, k + 1) = ReadBefore(n, k) + c
      /\ ReadBefore(n, k) \in Nat /\ ReadBefore(n, k + 1) <= UsedBy(n)
      /\ ReadBefore(n, k + 1) \in Nat /\ UsedBy(n) \in Nat
  <2>1. n \in Tapes /\ k \in 1 .. Len(Code[n]) /\ k \in Nat /\ Len(Code[n]) \in Nat
    BY <1>3, <1>7
  <2>2. k \in 1 .. Len(Code[n]) + 1 /\ k + 1 \in 1 .. Len(Code[n]) + 1
    BY <2>1
  <2>3. c \in Nat
    BY <1>7, <2>1, InstrFacts
  <2> QED
    BY <1>1, <1>7, <2>1, <2>2, <2>3, ReadBeforeFacts
<1>9. d = Low(u) + ReadBefore(n, k) /\ Low(u) \in Nat /\ High(u) = Low(u) + UsedBy(n)
  BY <1>1, <1>5, <1>6, <1>7, AssignedFacts DEF EntryOK, ReaderOK, High, ItemInv, ItemsAssumptions
<1>10. d \in Nat /\ Low(u) <= d /\ d + c <= High(u)
  BY <1>8, <1>9
<1>11. consumed' = consumed \cup {<<j, LineReq(exec, u)>> : j \in d .. d + c - 1}
  BY <1>1, <1>6, <1>7
<1> QED
  BY <1>2, <1>4, <1>6, <1>8, <1>10, <1>11

(* Items that belong to the reader are new and are nobody else's.           *)
LEMMA UseKeepsItems ==
    ASSUME TypeInv, IpInv, Inv, TInv, RequestInv, ItemInv, ItemsAssumptions, SameLine,
           NEW u \in Threads, UseData(u)
    PROVE  OldItems' /\ NoItemUsedTwice'
<1> USE ProcFacts
<1>1. /\ Assigned(u) /\ exec \in Nat
      /\ \E d \in Nat, c \in Nat :
            /\ Low(u) <= d /\ d + c <= High(u)
            /\ consumed' = consumed \cup {<<k, LineReq(exec, u)>> : k \in d .. d + c - 1}
  BY UseFacts DEF TypeInv, TypeOK
<1>2. \A t \in Threads : Assigned(t) => Low(t) \in Nat /\ High(t) \in Nat
  BY AssignedFacts DEF ItemInv, ItemsAssumptions
<1>3. /\ consumed \subseteq consumed'
      /\ \A c \in consumed' : c \in consumed \/ \E k \in Low(u) .. High(u) - 1 :
            c = <<k, LineReq(exec, u)>> /\ k \in Nat
  <2>1. PICK d \in Nat, c \in Nat :
            /\ Low(u) <= d /\ d + c <= High(u)
            /\ consumed' = consumed \cup {<<k, LineReq(exec, u)>> : k \in d .. d + c - 1}
    BY <1>1
  <2>2. Low(u) \in Nat /\ High(u) \in Nat
    BY <1>1, <1>2
  <2>3. \A k \in d .. d + c - 1 : k \in Low(u) .. High(u) - 1 /\ k \in Nat
    BY <2>1, <2>2
  <2> QED
    BY <2>1, <2>3
<1>4. /\ exec' = exec /\ LineStart' = LineStart
      /\ \A t \in Threads : Assigned(t)' <=> Assigned(t)
  BY SameLineFacts DEF SameLine
<1>5. OldItems /\ NoItemUsedTwice /\ Layout
  BY DEF ItemInv
<1>6. \A c \in consumed' :
         \E k \in Nat, l \in Nat, t \in Threads :
            /\ c = <<k, LineReq(l, t)>>
            /\ \/ l < exec /\ k < LineStart /\ c \in consumed
               \/ l = exec /\ Assigned(t) /\ k \in Low(t) .. High(t) - 1
  <2> SUFFICES ASSUME NEW c \in consumed'
               PROVE  \E k \in Nat, l \in Nat, t \in Threads :
                         /\ c = <<k, LineReq(l, t)>>
                         /\ \/ l < exec /\ k < LineStart /\ c \in consumed
                            \/ l = exec /\ Assigned(t) /\ k \in Low(t) .. High(t) - 1
    OBVIOUS
  <2>1. CASE c \in consumed
    <3>1. PICK k \in Nat, l \in Nat, t \in Threads :
            /\ c = <<k, LineReq(l, t)>>
            /\ (l < exec /\ k < LineStart) \/ (l = exec /\ Assigned(t))
      BY <1>5, <2>1 DEF OldItems
    <3>2. l = exec /\ Assigned(t) => k \in Low(t) .. High(t) - 1
      BY <2>1, <3>1, ItemsWithin
    <3> QED
      BY <2>1, <3>1, <3>2
  <2>2. CASE c \notin consumed
    BY <1>1, <1>3, <2>2
  <2> QED
    BY <2>1, <2>2
<1>7. OldItems'
  <2>1. \A c \in consumed' :
           \E k \in Nat, l \in Nat, t \in Threads :
              /\ c = <<k, LineReq(l, t)>>
              /\ (l < exec' /\ k < LineStart') \/ (l = exec' /\ Assigned(t)')
    BY <1>4, <1>6
  <2>2. \A k \in 0 .. LineStart' - 1 : \E l \in Nat, t \in Threads :
           l < exec' /\ <<k, LineReq(l, t)>> \in consumed'
    BY <1>3, <1>4, <1>5 DEF OldItems
  <2> QED
    BY <2>1, <2>2 DEF OldItems, LineReq
<1>8. NoItemUsedTwice'
  <2> SUFFICES ASSUME NEW c \in consumed', NEW e \in consumed', c[1] = e[1] PROVE c[2] = e[2]
    BY DEF NoItemUsedTwice
  <2>1. PICK k \in Nat, l \in Nat, t \in Threads :
            /\ c = <<k, LineReq(l, t)>>
            /\ \/ l < exec /\ k < LineStart /\ c \in consumed
               \/ l = exec /\ Assigned(t) /\ k \in Low(t) .. High(t) - 1
    BY <1>6
  <2>2. PICK m \in Nat, j \in Nat, v \in Threads :
            /\ e = <<m, LineReq(j, v)>>
            /\ \/ j < exec /\ m < LineStart /\ e \in consumed
               \/ j = exec /\ Assigned(v) /\ m \in Low(v) .. High(v) - 1
    BY <1>6
  <2>3. k = m
    BY <2>1, <2>2
  <2>4. CASE l < exec /\ j < exec
    BY <1>1, <1>5, <2>1, <2>2, <2>4 DEF NoItemUsedTwice
  <2>5. CASE l = exec /\ j = exec
    <3>1. t = v
      BY <1>1, <1>2, <1>5, <2>1, <2>2, <2>3, <2>5 DEF Layout, Apart
    <3> QED
      BY <2>1, <2>2, <2>5, <3>1
  <2>6. CASE (l = exec /\ j < exec) \/ (l < exec /\ j = exec)
    <3>1. LineStart \in Nat /\ \A w \in Threads : Assigned(w) => LineStart <= Low(w)
      BY <1>5 DEF Layout, FromStart
    <3> QED
      BY <1>1, <1>2, <2>1, <2>2, <2>3, <2>6, <3>1
  <2> QED
    BY <2>1, <2>2, <2>4, <2>5, <2>6
<1> QED
  BY <1>7, <1>8

LEMMA AloneKeepsItems ==
    ASSUME TypeInv, IpInv, Inv, TInv, RequestInv, ItemInv, ItemsAssumptions,
           NEW u \in Threads, WorkerStep(u), ~ExecRunTape(u)
    PROVE  ItemInv'
<1>1. /\ SameLine /\ Layout' /\ Counts' /\ UnknownAlone'
      /\ (pc[Main] = "done" => fileStart = pos)'
  BY LowKept, MainStays DEF ItemsAssumptions
<1>2. Alone(u)
  BY AloneSteps
<1>3. OldItems' /\ NoItemUsedTwice'
  <2>1. CASE UseData(u)
    BY <1>1, <2>1, UseKeepsItems
  <2>2. CASE ~UseData(u)
    <3>1. consumed' = consumed
      BY <2>2, WorkerData DEF ResetAndSeek, EndProgram, ghosts
    <3> QED
      BY <1>1, <3>1, SameLineFacts DEF ItemInv
  <2> QED
    BY <2>1, <2>2
<1>4. ASSUME pc[Main] \in InLines, NEW t \in Threads
      PROVE  IF Target(t) THEN StarterOK(t)' ELSE EntryOK(t)'
  <2>1. IF Target(t) THEN StarterOK(t) ELSE EntryOK(t)
    BY <1>4 DEF ItemInv, WorkersOK
  <2>2. CASE t = u /\ Target(t)
    BY <1>4, <2>1, <2>2, StarterStep
  <2>3. CASE t = u /\ ~Target(t) /\ Assigned(t)
    BY <1>1, <2>3, AssignedStep
  <2>4. CASE t = u /\ ~Target(t) /\ ~Assigned(t)
    BY <1>1, <1>4, <2>4, UnassignedStep DEF ItemsAssumptions
  <2>5. CASE t # u /\ Target(t)
    BY <1>2, <2>1, <2>5, StarterKept DEF Alone
  <2>6. CASE t # u /\ ~Target(t)
    <3>1. \A k : <<k, LineReq(exec, t)>> \in consumed' <=> <<k, LineReq(exec, t)>> \in consumed
      <4>1. CASE UseData(u)
        <5>1. PICK d \in Nat, c \in Nat :
                 consumed' = consumed \cup {<<k, LineReq(exec, u)>> : k \in d .. d + c - 1}
          BY <1>1, <4>1, UseFacts
        <5>2. LineReq(exec, t) # LineReq(exec, u)
          BY <2>6 DEF LineReq
        <5> QED
          BY <5>1, <5>2
      <4>2. CASE ~UseData(u)
        BY <4>2, WorkerData DEF ResetAndSeek, EndProgram, ghosts
      <4> QED
        BY <4>1, <4>2
    <3>2. datapos'[t] = datapos[t] /\ tpos'[t] = tpos[t]
      BY <2>6, WorkerData
    <3>3. SameReader(t)
      BY <1>2, <2>6, <3>1, <3>2 DEF Alone, SameReader
    <3>4. SameEntry(t)
      BY <1>1 DEF SameLine, SameEntry
    <3> QED
      BY <2>1, <2>6, <3>3, <3>4, ReaderKept
  <2> QED
    BY <2>2, <2>3, <2>4, <2>5, <2>6
<1>5. WorkersOK'
  BY <1>2, <1>4 DEF WorkersOK, Alone, Target
<1> QED
  BY <1>1, <1>3, <1>5 DEF ItemInv

(* RUN_TAPE moves no position that counts: the tape it starts uses nothing. *)
LEMMA RunTapeKeepsItems ==
    ASSUME TypeInv, IpInv, Inv, TInv, RequestInv, ItemInv, ItemsAssumptions,
           NEW u \in Threads, ExecRunTape(u)
    PROVE  ItemInv'
<1> USE ProcFacts
<1>a. pc[Main] \in InLines /\ CompiledTapes
  BY NoRunTape DEF ItemsAssumptions
<1>b. /\ u = 0 /\ pc[0] = "exec" /\ ip[0] <= Len(Code[program[0]]) /\ Instr(0).op = "run"
      /\ program' = program /\ pc'[Main] = pc[Main]
      /\ \A t \in Threads \ {0} : pc'[t] = pc[t] /\ ip'[t] = ip[t]
      /\ pc'[0] = "catch" \/ (pc'[0] = "exec" /\ ip'[0] = ip[0] + 1)
      /\ \/ pc'[0] = "catch" /\ UNCHANGED <<prognum, tpos>>
         \/ /\ Instr(0).th \in Threads /\ Instr(0).th # 0 /\ Instr(0).tape \in Tapes
            /\ Target(Instr(0).th)
            /\ Handing(Instr(0).th, Instr(0).tape, TapeReq(0, ip[0], current[0]))
  BY <1>a, RunTapeFacts
<1>c. /\ UNCHANGED mainVars /\ consumed' = consumed
      /\ \/ GoTo(0, "catch") /\ datapos' = datapos
         \/ /\ Instr(0).tape \in Tapes /\ pc' = pc
            /\ datapos' = [datapos EXCEPT ![0] = @ + OfflineDataUsed(Instr(0).tape)]
  BY <1>b DEF ExecRunTape, InvalidCall, info
<1>d. /\ program[0] \in Tapes /\ ip[0] \in 1 .. Len(Code[program[0]])
      /\ ip[0] \in Nat /\ Len(Code[program[0]]) \in Nat /\ ip[0] \in DOMAIN Code[program[0]]
      /\ Instr(0) = Code[program[0]][ip[0]]
  BY <1>b, ProgramFacts, InstrFacts DEF Instr
<1>e. Instr(0).tape \in Tapes => Started(Instr(0).tape) /\ OfflineDataUsed(Instr(0).tape) = 0
  <2> SUFFICES ASSUME Instr(0).tape \in Tapes
               PROVE  Started(Instr(0).tape) /\ OfflineDataUsed(Instr(0).tape) = 0
    OBVIOUS
  <2>1. PICK n : n = Instr(0).tape
    OBVIOUS
  <2>2. n \in Tapes /\ Started(n)
    BY <1>b, <1>d, <2>1 DEF Started
  <2>3. OfflineDataUsed(n) = 0
    BY <2>2, StartedFacts
  <2> QED
    BY <2>1, <2>2, <2>3
<1>f. datapos' = datapos
  <2>1. \A t \in Threads : datapos[t] \in Nat
    BY DEF TypeInv, TypeOK
  <2>2. datapos \in [Threads -> Nat]
    BY DEF TypeInv, TypeOK
  <2>3. CASE /\ Instr(0).tape \in Tapes
             /\ datapos' = [datapos EXCEPT ![0] = @ + OfflineDataUsed(Instr(0).tape)]
    <3>1. OfflineDataUsed(Instr(0).tape) = 0
      BY <1>e, <2>3
    <3>2. datapos[0] + 0 = datapos[0]
      BY <2>1
    <3>3. datapos' = [datapos EXCEPT ![0] = datapos[0]]
      BY <2>3, <3>1, <3>2
    <3> QED
      BY <2>2, <3>3
  <2> QED
    BY <1>c, <2>3
<1>g. /\ ~Target(0)
      /\ \A t \in Threads : ~Target(t) => tpos'[t] = tpos[t] /\ prognum'[t] = prognum[t]
  <2>1. ~Target(0)
    BY <1>a DEF CompiledTapes
  <2>2. CASE UNCHANGED <<prognum, tpos>>
    BY <2>1, <2>2
  <2>3. CASE /\ Instr(0).th \in Threads /\ Target(Instr(0).th)
             /\ Handing(Instr(0).th, Instr(0).tape, TapeReq(0, ip[0], current[0]))
    BY <2>1, <2>3 DEF Handing, TypeInv, TypeOK
  <2> QED
    BY <1>b, <2>2, <2>3
<1>h. \A t \in Threads : Assigned(t) => ~Target(t)
  BY <1>a, AssignedFacts DEF ItemInv
<1>1. /\ SameLine /\ Layout' /\ Counts' /\ UnknownAlone'
      /\ (pc[Main] = "done" => fileStart = pos)'
  <2>1. Stays
    BY <1>b, <1>c DEF Stays, mainVars
  <2>2. \A t \in Threads : Assigned(t) => Low(t)' = Low(t)
    BY <1>c, <1>g, <1>h DEF Low, Unknown, Tape, mainVars
  <2> QED
    BY <2>1, <2>2, MainStays
<1>2. OldItems' /\ NoItemUsedTwice'
  BY <1>1, <1>c, SameLineFacts DEF ItemInv
<1>s. \A t \in Threads : SameEntry(t)
  BY <1>1 DEF SameLine, SameEntry
<1>w. \A t \in Threads : IF Target(t) THEN StarterOK(t) ELSE EntryOK(t)
  BY <1>a DEF ItemInv, WorkersOK
<1>3. ASSUME NEW t \in Threads, t # 0, ~Target(t) PROVE EntryOK(t)'
  <2>1. SameReader(t)
    BY <1>3, <1>b, <1>c, <1>f, <1>g DEF SameReader
  <2> QED
    BY <1>3, <1>s, <1>w, <2>1, ReaderKept
<1>4. ASSUME NEW t \in Threads, Target(t) PROVE StarterOK(t)'
  <2>1. StarterOK(t) /\ t # 0
    BY <1>4, <1>g, <1>w
  <2>2. pc'[t] = pc[t] /\ program'[t] = program[t]
    BY <1>b, <2>1
  <2>3. \/ prognum'[t] = prognum[t]
        \/ prognum'[t] = Instr(0).tape /\ Instr(0).tape \in Tapes
    <3>1. CASE UNCHANGED <<prognum, tpos>>
      BY <3>1
    <3>2. CASE /\ Instr(0).th \in Threads /\ Instr(0).tape \in Tapes
               /\ Handing(Instr(0).th, Instr(0).tape, TapeReq(0, ip[0], current[0]))
      BY <3>2 DEF Handing, TypeInv, TypeOK
    <3> QED
      BY <1>b, <3>1, <3>2
  <2> QED
    BY <1>e, <2>1, <2>2, <2>3 DEF StarterOK, Started
<1>5. EntryOK(0)'
  <2>1. EntryOK(0) /\ WorkerOK(0)
    BY <1>a, <1>g, <1>w DEF TInv
  <2>2. Assigned(0) /\ program[0] = Tape(0) /\ prognum[0] = Idle
    BY <1>b, <2>1 DEF EntryOK, Waiting, Busy, WorkerOK
  <2>3. PICK n, lo, hi, d, k : /\ n = Tape(0) /\ lo = Low(0) /\ hi = High(0) /\ d = datapos[0]
                               /\ k = ip[0]
    OBVIOUS
  <2>4. /\ n \in Tapes /\ lo \in Nat /\ hi = lo + UsedBy(n) /\ UsedBy(n) \in Nat
    BY <2>2, <2>3, <1>a, AssignedFacts DEF ItemInv, High
  <2>5. d = lo + ReadBefore(n, k) /\ HasRead(0, d) /\ HasRead(0, datapos[0])
    BY <1>b, <2>1, <2>2, <2>3 DEF EntryOK, ReaderOK
  <2>6. /\ ReadBefore(n, k + 1) = ReadBefore(n, k)
        /\ ReadBefore(n, k) \in Nat /\ ReadBefore(n, k) <= UsedBy(n)
    <3>1. k \in 1 .. Len(Code[n]) /\ k \in 1 .. Len(Code[n]) + 1 /\ Code[n][k].op = "run"
      BY <1>b, <1>d, <2>2, <2>3
    <3>2. ReadBefore(n, k + 1) = ReadBefore(n, k) + 0 /\ ReadBefore(n, k) \in Nat
      BY <2>4, <3>1, ReadBeforeFacts
    <3>3. ReadBefore(n, k) <= UsedBy(n)
      BY <2>4, <3>1, ReadBeforeFacts
    <3> QED
      BY <3>2, <3>3
  <2>7. d \in lo .. hi
    BY <2>4, <2>5, <2>6
  <2>8. /\ Assigned(0)' /\ Low(0)' = lo /\ High(0)' = hi /\ Tape(0)' = n /\ exec' = exec
    BY <1>1, <2>2, <2>3, SameLineFacts DEF SameLine
  <2>9. /\ datapos'[0] = d /\ prognum'[0] = Idle /\ program'[0] = n
    BY <1>b, <1>f, <1>g, <2>2, <2>3
  <2>10. HasRead(0, datapos[0])'
    BY <1>c, <1>f, <2>3, <2>5, <2>8, <2>9 DEF HasRead
  <2>11. pc'[0] = "exec" => datapos'[0] = Low(0)' + ReadBefore(Tape(0), ip[0])'
    <3> SUFFICES ASSUME pc'[0] = "exec" PROVE datapos'[0] = Low(0)' + ReadBefore(Tape(0), ip[0])'
      OBVIOUS
    <3>1. ip'[0] = k + 1
      BY <1>b, <2>3
    <3>2. ReadBefore(Tape(0), ip[0])' = ReadBefore(n, k + 1)
      BY <2>8, <3>1 DEF ReadBefore, Uses
    <3> QED
      BY <2>5, <2>6, <2>8, <2>9, <3>2
  <2>12. pc'[0] = "catch" => datapos'[0] \in Low(0)' .. High(0)'
    BY <2>7, <2>8, <2>9
  <2>13. pc'[0] \in {"exec", "catch"} /\ Idle \notin Tapes
    BY <1>b, TapesAssumption DEF Idle
  <2>14. ReaderOK(0)'
    BY <2>9, <2>10, <2>11, <2>12, <2>13 DEF ReaderOK, Waiting
  <2> QED
    BY <2>8, <2>9, <2>13, <2>14 DEF EntryOK
<1>6. WorkersOK'
  BY <1>3, <1>4, <1>5, <1>g DEF WorkersOK, Target
<1> QED
  BY <1>1, <1>2, <1>6 DEF ItemInv

LEMMA UnwindKeepsItems ==
    ASSUME TypeInv, IpInv, Inv, TInv, ItemInv, ItemsAssumptions, NEW p \in Procs, Unwind(p)
    PROVE  ItemInv'
<1> USE ProcFacts
<1>1. /\ pc[p] \in {"catch", "rethrow"} /\ pc'[p] = "rethrow"
      /\ \A q \in Procs \ {p} : pc'[q] = pc[q]
      /\ UNCHANGED <<prognum, tpos, program, ip, datapos, consumed, mainVars>>
  BY DEF Unwind, Purge, Abort, GoTo, TypeInv, TypeOK, info, workVars, ghosts
<1>2. /\ SameLine /\ Layout' /\ Counts' /\ UnknownAlone'
      /\ (pc[Main] = "done" => fileStart = pos)'
  <2>1. Stays
    <3>1. CASE p = Main
      BY <1>1, <3>1 DEF Stays, mainVars
    <3>2. CASE p # Main
      BY <1>1, <3>2 DEF Stays, mainVars
    <3> QED
      BY <3>1, <3>2
  <2>2. \A t \in Threads : Assigned(t) => Low(t)' = Low(t)
    BY <1>1 DEF Low, Unknown, Tape, mainVars
  <2> QED
    BY <2>1, <2>2, MainStays
<1>3. OldItems' /\ NoItemUsedTwice'
  BY <1>1, <1>2, SameLineFacts DEF ItemInv
<1>4. pc'[Main] \in InLines => pc[Main] \in InLines
  BY <1>1 DEF InLines
<1>5. ASSUME pc[Main] \in InLines, NEW t \in Threads
      PROVE  IF Target(t) THEN StarterOK(t)' ELSE EntryOK(t)'
  <2>1. (IF Target(t) THEN StarterOK(t) ELSE EntryOK(t)) /\ WorkerOK(t)
    BY <1>5 DEF ItemInv, WorkersOK, TInv
  <2>2. CASE Target(t)
    BY <1>1, <2>1, <2>2 DEF StarterOK, Started, Busy
  <2>3. CASE ~Target(t) /\ t # p
    <3>1. SameReader(t) /\ SameEntry(t)
      BY <1>1, <1>2, <2>3 DEF SameReader, SameEntry, SameLine
    <3> QED
      BY <2>1, <2>3, <3>1, ReaderKept
  <2>4. CASE ~Target(t) /\ t = p
    <3>1. EntryOK(t) /\ prognum[t] = Idle /\ pc[t] \in {"catch", "rethrow"}
      BY <1>1, <2>1, <2>4 DEF WorkerOK, Busy
    <3>2. Assigned(t) /\ ReaderOK(t)
      BY <3>1 DEF EntryOK, Waiting
    <3>3. /\ Assigned(t)' /\ Low(t)' = Low(t) /\ High(t)' = High(t) /\ Tape(t)' = Tape(t)
          /\ exec' = exec /\ datapos'[t] = datapos[t] /\ prognum'[t] = Idle
          /\ program'[t] = program[t] /\ pc'[t] = "rethrow"
      BY <1>1, <1>2, <2>4, <3>1, <3>2, SameLineFacts DEF SameLine
    <3>4. datapos'[t] \in Low(t)' .. High(t)' /\ HasRead(t, datapos[t])'
      BY <1>1, <3>1, <3>2, <3>3 DEF ReaderOK, HasRead
    <3>5. Idle \notin Tapes
      BY TapesAssumption DEF Idle
    <3>6. ReaderOK(t)'
      BY <3>3, <3>4, <3>5 DEF ReaderOK, Waiting
    <3> QED
      BY <3>1, <3>3, <3>5, <3>6, <2>4 DEF EntryOK, Busy
  <2> QED
    BY <2>2, <2>3, <2>4
<1>6. WorkersOK'
  BY <1>4, <1>5 DEF WorkersOK, Target
<1> QED
  BY <1>2, <1>3, <1>6 DEF ItemInv

LEMMA StutterKeepsItems ==
    ASSUME TypeInv, ItemInv, UNCHANGED vars
    PROVE  ItemInv'
<1> USE ProcFacts
<1>1. /\ pc' = pc
      /\ UNCHANGED <<prognum, tpos, program, ip, datapos, consumed, mainVars>>
  BY DEF vars, info, workVars, ghosts
<1>2. /\ SameLine /\ Layout' /\ Counts' /\ UnknownAlone'
      /\ (pc[Main] = "done" => fileStart = pos)'
  BY <1>1, MainStays DEF Stays, Low, Unknown, Tape, mainVars
<1>3. OldItems' /\ NoItemUsedTwice'
  BY <1>1, <1>2, SameLineFacts DEF ItemInv
<1>4. WorkersOK'
  <2> SUFFICES ASSUME pc[Main] \in InLines, NEW t \in Threads
               PROVE  IF Target(t) THEN StarterOK(t)' ELSE EntryOK(t)'
    BY <1>1 DEF WorkersOK, Target
  <2>1. IF Target(t) THEN StarterOK(t) ELSE EntryOK(t)
    BY DEF ItemInv, WorkersOK
  <2>2. SameReader(t) /\ SameEntry(t)
    BY <1>1, <1>2 DEF SameReader, SameEntry, SameLine
  <2> QED
    BY <1>1, <2>1, <2>2, ReaderKept, StarterKept
<1> QED
  BY <1>2, <1>3, <1>4 DEF ItemInv

-----------------------------------------------------------------------------
(* Steps of main.                                                           *)
Outside == {"increase", "join", "joinwait", "lineend", "catch", "rethrow"}

LEMMA NoneAssigned ==
    ASSUME TypeInv, ItemInv, \A t \in Threads : ~Assigned(t) /\ ~Assigned(t)',
           UNCHANGED <<exec, pos, usageUnknown, consumed>>,
           pc'[Main] \notin Outside
    PROVE  Layout' /\ Counts' /\ UnknownAlone' /\ OldItems' /\ NoItemUsedTwice'
<1> USE ProcFacts
<1>1. LineStart = pos /\ LineStart' = pos /\ pos \in Nat
  BY DEF LineStart, TypeInv, TypeOK
<1>2. Layout'
  <2>1. Apart'
    BY DEF Apart
  <2>2. Covered'
    BY <1>1 DEF Covered
  <2>3. FromStart'
    BY <1>1 DEF FromStart
  <2> QED
    BY <2>1, <2>2, <2>3 DEF Layout
<1>3. Counts'
  BY DEF Counts, Outside
<1>4. UnknownAlone'
  BY DEF UnknownAlone, ItemInv, Outside
<1>5. OldItems' /\ NoItemUsedTwice'
  BY <1>1 DEF ItemInv, OldItems, NoItemUsedTwice, LineReq
<1> QED
  BY <1>2, <1>3, <1>4, <1>5

LEMMA FetchRests ==
    ASSUME Inv', TInv', CompiledTapes, pc'[Main] = "fetch"
    PROVE  \A t \in Threads : Resting(t)' /\ ~Assigned(t)'
<1>1. \A t \in Threads : ~Target(t) => Resting(t)'
  BY DEF Inv, EntryInv, Launched, InLine, Target
<1>2. Resting(0)'
  BY <1>1, ProcFacts DEF CompiledTapes
<1>3. \A t \in Threads : Target(t) => StartedOK(t)'
  BY DEF TInv, InLines, Target
<1>4. \A t \in Threads : Target(t) => Resting(t)'
  BY <1>2, <1>3 DEF StartedOK, Resting, Waiting
<1> QED
  BY <1>1, <1>4 DEF Assigned, Launched

(* At the start of a line every worker waits for its entry.                 *)
LEMMA FetchWorkers ==
    ASSUME Inv', TInv', CompiledTapes, pc'[Main] = "fetch"
    PROVE  WorkersOK'
<1> SUFFICES ASSUME NEW t \in Threads PROVE StarterOK(t)' /\ EntryOK(t)'
  BY DEF WorkersOK, Target
<1>1. prognum'[t] = Idle /\ pc'[t] \in Waiting /\ ~Assigned(t)'
  BY FetchRests DEF Resting
<1>2. Idle \notin Tapes /\ pc'[t] \notin Busy
  BY <1>1, TapesAssumption DEF Idle, Waiting, Busy
<1> QED
  BY <1>1, <1>2 DEF StarterOK, EntryOK

(* The constructor, the end of the schedule and the end of the machine.     *)
LEMMA OutsideLines ==
    ASSUME TypeInv, ItemInv, ItemsAssumptions, Inv', TInv',
           \/ CreateThread \/ AwaitReady \/ RetryReady \/ ThreadReady
           \/ (FetchLine /\ pc'[Main] = "kill")
           \/ KillThread \/ ReleaseThread \/ PthreadJoin \/ SeekAndPrune
    PROVE  ItemInv'
<1> USE ProcFacts DEF TypeInv, TypeOK, info, mainVars, ghosts
<1>1. /\ UNCHANGED <<exec, pos, usageUnknown, consumed>>
      /\ pc[Main] \in Starting \cup Stopping \cup {"fetch"}
      /\ pc'[Main] \in Starting \cup Stopping \cup {"fetch"}
      /\ pc'[Main] = "done" => fileStart' = pos'
  <2>1. CASE CreateThread
    BY <2>1 DEF CreateThread, Starting
  <2>2. CASE AwaitReady
    BY <2>2 DEF AwaitReady, GoTo, Starting
  <2>3. CASE RetryReady
    BY <2>3 DEF RetryReady, GoTo, Starting
  <2>4. CASE ThreadReady
    BY <2>4 DEF ThreadReady, LoopOrLeave, GoTo, Starting
  <2>5. CASE FetchLine /\ pc'[Main] = "kill"
    BY <2>5 DEF FetchLine, GoTo, Stopping
  <2>6. CASE KillThread
    BY <2>6 DEF KillThread, LoopOrLeave, GoTo, Stopping
  <2>7. CASE ReleaseThread
    BY <2>7 DEF ReleaseThread, GoTo, Stopping
  <2>8. CASE PthreadJoin
    BY <2>8 DEF PthreadJoin, LoopOrLeave, GoTo, Stopping
  <2>9. CASE SeekAndPrune
    BY <2>9 DEF SeekAndPrune, GoTo, Stopping
  <2> QED
    BY <2>1, <2>2, <2>3, <2>4, <2>5, <2>6, <2>7, <2>8, <2>9
<1>2. \A t \in Threads : ~Assigned(t) /\ ~Assigned(t)'
  BY <1>1 DEF Assigned, Launched, Starting, Stopping
<1>3. Layout' /\ Counts' /\ UnknownAlone' /\ OldItems' /\ NoItemUsedTwice'
  BY <1>1, <1>2, NoneAssigned DEF Outside, Starting, Stopping
<1>4. WorkersOK'
  <2>1. CASE pc'[Main] = "fetch"
    BY <2>1, FetchWorkers DEF ItemsAssumptions
  <2>2. CASE pc'[Main] # "fetch"
    <3>1. pc'[Main] \notin InLines
      BY <1>1, <2>2 DEF InLines, InLine, Starting, Stopping
    <3> QED
      BY <3>1 DEF WorkersOK
  <2> QED
    BY <2>1, <2>2
<1> QED
  BY <1>1, <1>3, <1>4 DEF ItemInv

(* Workers are left alone, and so are the places of the entries.            *)
LEMMA LineWorkers ==
    ASSUME ItemInv, pc[Main] \in InLines, \A t \in Threads : SameEntry(t),
           \A t \in Threads : pc'[t] = pc[t],
           UNCHANGED <<prognum, program, ip, datapos, tpos, consumed>>
    PROVE  WorkersOK'
<1> SUFFICES ASSUME NEW t \in Threads
             PROVE  IF Target(t) THEN StarterOK(t)' ELSE EntryOK(t)'
  BY DEF WorkersOK, Target
<1>1. IF Target(t) THEN StarterOK(t) ELSE EntryOK(t)
  BY DEF ItemInv, WorkersOK
<1>2. SameReader(t)
  BY DEF SameReader
<1> QED
  BY <1>1, <1>2, ReaderKept, StarterKept

LEMMA FetchKeepsItems ==
    ASSUME TypeInv, ItemInv, FetchLine, pc'[Main] = "run"
    PROVE  ItemInv'
<1> USE ProcFacts DEF TypeInv, TypeOK
<1>1. /\ pc[Main] = "fetch" /\ i' = 0 /\ \A t \in Threads : pc'[t] = pc[t]
      /\ UNCHANGED <<exec, pos, usageUnknown, consumed, prognum, program, ip, datapos, tpos>>
  BY DEF FetchLine, GoTo, info, workVars, ghosts
<1>2. \A t \in Threads : ~Assigned(t) /\ ~Assigned(t)'
  BY <1>1 DEF Assigned, Launched
<1>3. Layout' /\ Counts' /\ UnknownAlone' /\ OldItems' /\ NoItemUsedTwice'
  BY <1>1, <1>2, NoneAssigned DEF Outside
<1>4. WorkersOK'
  BY <1>1, <1>2, LineWorkers DEF InLines, SameEntry
<1> QED
  BY <1>3, <1>4 DEF ItemInv

LEMMA JoinKeepsItems ==
    ASSUME TypeInv, ItemInv, MainJoinWait \/ MainJoined
    PROVE  ItemInv'
<1> USE ProcFacts DEF TypeInv, TypeOK
<1>1. /\ pc[Main] \in {"join", "joinwait"} /\ pc'[Main] \in {"join", "joinwait", "lineend"}
      /\ \A t \in Threads : pc'[t] = pc[t]
      /\ UNCHANGED <<exec, pos, usageUnknown, fileStart, consumed, prognum, program, ip, datapos, tpos>>
  BY DEF MainJoinWait, MainJoined, JoinReturns, LoopOrLeave, GoTo, info, mainVars, workVars, ghosts
<1>2. /\ SameLine /\ Layout' /\ Counts' /\ UnknownAlone'
      /\ (pc[Main] = "done" => fileStart = pos)'
  <2>1. Stays
    BY <1>1 DEF Stays
  <2> QED
    BY <1>1, <2>1, MainStays DEF Low, Unknown, Tape
<1>3. OldItems' /\ NoItemUsedTwice'
  BY <1>1, <1>2, SameLineFacts DEF ItemInv
<1>4. WorkersOK'
  BY <1>1, <1>2, LineWorkers DEF InLines, InLine, SameEntry, SameLine
<1> QED
  BY <1>2, <1>3, <1>4 DEF ItemInv

(* main starts entry i: its items begin where those handed out so far end.  *)
LEMMA MainRunTapeKeepsItems ==
    ASSUME TypeInv, Inv, TInv, ItemInv, ItemsAssumptions, MainRunTape
    PROVE  ItemInv'
<1> USE ProcFacts
<1>0. CompiledTapes
  BY DEF ItemsAssumptions
<1>1. /\ pc[Main] = "run" /\ pc'[Main] \in {"increase", "catch"}
      /\ i \in Threads /\ exec \in DOMAIN Schedule /\ i < Len(Schedule[exec])
      /\ Entry.tape \in Tapes /\ ~Target(i) /\ Resting(i)
      /\ \A t \in Threads : pc'[t] = pc[t]
  BY <1>0, MainRunTapeFacts DEF TypeInv, ControlInv
<1>2. /\ prognum' = [prognum EXCEPT ![i] = Entry.tape] /\ tpos' = [tpos EXCEPT ![i] = pos]
      /\ UNCHANGED <<pos, exec, i, fileStart, program, ip, datapos, consumed>>
  BY DEF MainRunTape, HandOver, workVars
<1>t. /\ prognum \in [Threads -> Tapes \cup {Idle, Stop}] /\ tpos \in [Threads -> Nat]
      /\ pos \in Nat /\ exec \in Nat /\ i \in Nat
  BY DEF TypeInv, TypeOK
<1>3. PICK e : e = i
  OBVIOUS
<1>4. e \in Threads /\ e \in Nat /\ e = i' /\ Entry.tape = Tape(e)
  BY <1>1, <1>2, <1>3 DEF Entry, Tape
<1>u. /\ Unknown(e) /\ Len(Schedule[exec]) = 1 =>
            pc'[Main] = "increase" /\ delta' = 0 /\ usageUnknown' = TRUE
      /\ Unknown(e) /\ Len(Schedule[exec]) # 1 =>
            pc'[Main] = "catch" /\ usageUnknown' = usageUnknown
      /\ ~Unknown(e) => /\ pc'[Main] = "increase" /\ usageUnknown' = usageUnknown
                        /\ delta' = OfflineDataUsed(Tape(e))
  <2>1. numt = Len(Schedule[exec]) /\ numt \in 1 .. NThreads /\ numt \in Nat
    BY <1>1, NumtFacts DEF TypeInv
  <2>2. (numt > 1) <=> (Len(Schedule[exec]) # 1)
    <3>1. \A k \in Nat : k \in 1 .. NThreads => ((k > 1) <=> (k # 1))
      BY ThreadsAssumption
    <3> QED
      BY <2>1, <3>1
  <2>3. Unknown(e) <=> Entry.tape \in UnknownUsage
    BY <1>4 DEF Unknown
  <2> QED
    BY <1>4, <2>2, <2>3 DEF MainRunTape, GoTo, NoDelta, TypeInv, TypeOK
<1>5. \A t \in Threads : (Assigned(t) <=> t < e) /\ (Assigned(t)' <=> t <= e)
  BY <1>1, <1>2, <1>3 DEF Assigned, Launched
<1>6. ~usageUnknown /\ \A t \in Threads : t < e => ~Unknown(t) /\ High(t) <= pos
  <2>1. ~usageUnknown
    BY <1>1 DEF ItemInv, UnknownAlone
  <2>2. \A t \in Threads : t < e => ~Unknown(t)
    BY <1>1, <1>5, <2>1 DEF ItemInv, UnknownAlone
  <2> QED
    BY <1>1, <1>5, <2>1, <2>2 DEF ItemInv, Counts
<1>7. \A t \in Threads : /\ Tape(t)' = Tape(t) /\ (Unknown(t)' <=> Unknown(t))
                         /\ t < e => Low(t)' = Low(t) /\ High(t)' = High(t)
  <2>1. \A t \in Threads : Tape(t)' = Tape(t) /\ (Unknown(t)' <=> Unknown(t))
    BY <1>2 DEF Tape, Unknown
  <2>2. \A t \in Threads : t < e => tpos'[t] = tpos[t]
    BY <1>2, <1>3, <1>4, <1>t
  <2>3. \A t \in Threads : t < e => Low(t)' = Low(t)
    BY <1>2, <2>1, <2>2 DEF Low
  <2> QED
    BY <2>1, <2>3 DEF High
<1>8. Low(e)' = pos
  BY <1>2, <1>3, <1>4, <1>t DEF Low
<1>9. \A t \in Threads : t < e => Low(t) \in Nat /\ High(t) \in Nat /\ Low(t) <= High(t)
  BY <1>0, <1>5, AssignedFacts DEF ItemInv
<1>l. LineStart' = LineStart /\ LineStart \in Nat /\ LineStart <= pos
  <2>1. CASE e = 0
    BY <1>1, <1>2, <1>4, <1>5, <1>8, <1>t, <2>1 DEF LineStart
  <2>2. CASE e # 0
    <3>1. 0 < e /\ Assigned(0) /\ Assigned(0)'
      BY <1>4, <1>5, <2>2
    <3>2. LineStart = Low(0) /\ LineStart' = Low(0)
      BY <1>7, <3>1 DEF LineStart
    <3> QED
      BY <1>6, <1>9, <1>t, <3>1, <3>2
  <2> QED
    BY <2>1, <2>2
<1>10. Layout'
  <2>0. Layout
    BY DEF ItemInv
  <2>1. Apart'
    <3> SUFFICES ASSUME NEW t \in Threads, NEW u \in Threads, t < u, u <= e
                 PROVE  High(t)' <= Low(u)'
      BY <1>5 DEF Apart
    <3>1. t < e
      BY <1>4
    <3>2. CASE u < e
      BY <1>5, <1>7, <2>0, <3>1, <3>2 DEF Layout, Apart
    <3>3. CASE u = e
      BY <1>6, <1>7, <1>8, <3>1, <3>3
    <3> QED
      BY <1>4, <3>2, <3>3
  <2>2. Covered'
    <3> SUFFICES ASSUME NEW k \in LineStart .. pos - 1
                 PROVE  \E t \in Threads : t <= e /\ k \in Low(t)' .. High(t)' - 1
      BY <1>2, <1>5, <1>l DEF Covered
    <3>1. PICK t \in Threads : Assigned(t) /\ k \in Low(t) .. High(t) - 1
      BY <2>0 DEF Layout, Covered
    <3>2. t < e /\ t <= e
      BY <1>4, <1>5, <3>1
    <3> QED
      BY <1>7, <3>1, <3>2
  <2>3. FromStart'
    <3> SUFFICES ASSUME NEW t \in Threads, t <= e PROVE LineStart <= Low(t)'
      BY <1>5, <1>l DEF FromStart
    <3>1. CASE t < e
      BY <1>5, <1>7, <2>0, <3>1 DEF Layout, FromStart
    <3>2. CASE t = e
      BY <1>8, <1>l, <3>2
    <3> QED
      BY <1>4, <3>1, <3>2
  <2> QED
    BY <2>1, <2>2, <2>3 DEF Layout
<1>11. Counts'
  <2>1. \A t \in Threads : t < e => High(t)' <= pos'
    BY <1>2, <1>6, <1>7
  <2>2. pc'[Main] # "increase" => Unknown(e)
    BY <1>u
  <2>3. \A t \in Threads :
           Assigned(t)' /\ ~Unknown(t)' /\ (pc'[Main] # "increase" \/ t < i') => High(t)' <= pos'
    <3> SUFFICES ASSUME NEW t \in Threads, t <= e, ~Unknown(t),
                        pc'[Main] # "increase" \/ t < e
                 PROVE  High(t)' <= pos'
      BY <1>4, <1>5, <1>7
    <3>1. t < e
      BY <1>4, <2>2
    <3> QED
      BY <2>1, <3>1
  <2>4. ASSUME pc'[Main] = "increase"
        PROVE  Low(e)' = pos' /\ delta' = IF Unknown(e)' THEN 0 ELSE UsedBy(Tape(e))'
    <3>1. Low(e)' = pos'
      BY <1>2, <1>8
    <3>2. UsedBy(Tape(e))' = UsedBy(Tape(e))
      BY <1>4, <1>7 DEF UsedBy, Uses
    <3>3. PICK n : n = Tape(e)
      OBVIOUS
    <3>4. OfflineDataUsed(n) = UsedBy(n)
      BY <1>1, <1>4, <3>3, StartedFacts
    <3>5. delta' = IF Unknown(e) THEN 0 ELSE UsedBy(Tape(e))
      BY <1>u, <2>4, <3>3, <3>4
    <3> QED
      BY <1>4, <1>7, <3>1, <3>2, <3>5
  <2>5. pc'[Main] = "increase" =>
          (Low(i) = pos /\ delta = IF Unknown(i) THEN 0 ELSE UsedBy(Tape(i)))'
    BY <1>2, <1>3, <2>4 DEF Low, Unknown, Tape, UsedBy, Uses
  <2> QED
    BY <2>3, <2>5 DEF Counts
<1>12. UnknownAlone'
  <2>0. Len(Schedule[exec]) = 1 => e = 0
    BY <1>1, <1>3, <1>4
  <2>1. \A t \in Threads : Assigned(t)' /\ Unknown(t)' =>
           \/ usageUnknown' /\ t = 0 /\ Len(Schedule[exec']) = 1
           \/ pc'[Main] \in {"catch", "rethrow"} /\ t = i'
    <3> SUFFICES ASSUME NEW t \in Threads, t <= e, Unknown(t)
                 PROVE  \/ usageUnknown' /\ t = 0 /\ Len(Schedule[exec]) = 1
                        \/ pc'[Main] \in {"catch", "rethrow"} /\ t = e
      BY <1>2, <1>4, <1>5, <1>7
    <3>1. t = e
      BY <1>4, <1>6
    <3> QED
      BY <1>u, <2>0, <3>1
  <2>2. usageUnknown' => /\ pc'[Main] \in {"increase", "join", "joinwait", "lineend"}
                         /\ Assigned(0)' /\ Unknown(0)'
    <3> SUFFICES ASSUME usageUnknown'
                 PROVE  pc'[Main] = "increase" /\ Assigned(0)' /\ Unknown(0)'
      OBVIOUS
    <3>1. Unknown(e) /\ Len(Schedule[exec]) = 1 /\ pc'[Main] = "increase"
      BY <1>6, <1>u
    <3>2. e = 0 /\ Assigned(e)' /\ Unknown(e)'
      BY <1>4, <1>5, <1>7, <2>0, <3>1
    <3> QED
      BY <3>1, <3>2
  <2>3. pc'[Main] \in {"catch", "rethrow"} =>
           exec' \in DOMAIN Schedule /\ i' < Len(Schedule[exec'])
    BY <1>1, <1>2
  <2> QED
    BY <2>1, <2>2, <2>3 DEF UnknownAlone
<1>13. OldItems' /\ NoItemUsedTwice'
  <2>1. \A t \in Threads : Assigned(t) => Assigned(t)'
    BY <1>4, <1>5
  <2> QED
    BY <1>2, <1>l, <2>1 DEF ItemInv, OldItems, NoItemUsedTwice, LineReq
<1>m. pc[Main] \in InLines /\ pc'[Main] # "done"
  BY <1>1 DEF InLines, InLine
<1>w. \A t \in Threads : IF Target(t) THEN StarterOK(t) ELSE EntryOK(t)
  BY <1>m DEF ItemInv, WorkersOK
<1>14. ASSUME NEW t \in Threads, t # e, ~Target(t) PROVE EntryOK(t)'
  <2>1. SameReader(t)
    BY <1>1, <1>2, <1>3, <1>14, <1>t DEF SameReader
  <2>2. SameEntry(t)
    BY <1>2, <1>4, <1>5, <1>7, <1>14 DEF SameEntry
  <2> QED
    BY <1>14, <1>w, <2>1, <2>2, ReaderKept
<1>15. EntryOK(e)'
  <2>1. prognum'[e] = Tape(e) /\ Tape(e) \in Tapes /\ tpos'[e] = pos /\ pc'[e] \in Waiting
    BY <1>1, <1>2, <1>3, <1>4, <1>t DEF Resting
  <2>2. prognum'[e] # Idle /\ pc'[e] \notin Busy
    BY <2>1, TapesAssumption DEF Idle, Waiting, Busy
  <2>3. \A k : <<k, LineReq(exec, e)>> \notin consumed
    <3> SUFFICES ASSUME NEW k, <<k, LineReq(exec, e)>> \in consumed PROVE FALSE
      OBVIOUS
    <3>1. PICK j \in Nat, l \in Nat, t \in Threads :
              /\ <<k, LineReq(exec, e)>> = <<j, LineReq(l, t)>>
              /\ l < exec \/ (l = exec /\ Assigned(t))
      BY DEF ItemInv, OldItems
    <3>2. l = exec /\ t = e
      BY <3>1 DEF LineReq
    <3> QED
      BY <1>4, <1>5, <1>t, <3>1, <3>2
  <2>4. HasRead(e, Low(e))'
    <3>1. \A k : k \notin pos .. pos - 1
      BY <1>t
    <3> QED
      BY <1>2, <1>8, <2>3, <3>1 DEF HasRead, LineReq
  <2>5. ReaderOK(e)'
    BY <1>8, <2>1, <2>2, <2>4 DEF ReaderOK, Waiting
  <2> QED
    BY <1>4, <1>5, <1>7, <2>1, <2>2, <2>5 DEF EntryOK
<1>16. ASSUME NEW t \in Threads, Target(t) PROVE StarterOK(t)'
  <2>1. t # e
    BY <1>1, <1>3, <1>16
  <2> QED
    BY <1>1, <1>2, <1>3, <1>16, <1>t, <1>w, <2>1, StarterKept
<1>17. WorkersOK'
  BY <1>14, <1>15, <1>16, <1>1, <1>3 DEF WorkersOK, Target
<1> QED
  BY <1>10, <1>11, <1>12, <1>13, <1>17, <1>m, <1>1 DEF ItemInv

(* main adds what entry i declared, which are the items of that entry.      *)
LEMMA IncreaseKeepsItems ==
    ASSUME TypeInv, ItemInv, ItemsAssumptions, IncreasePos
    PROVE  ItemInv'
<1> USE ProcFacts
<1>t. pos \in Nat /\ exec \in Nat /\ i \in Nat /\ i \in Threads /\ TypeOK
  BY DEF TypeInv, TypeOK
<1>1. /\ pc[Main] = "increase" /\ exec \in DOMAIN Schedule /\ i < Len(Schedule[exec])
      /\ pos' = pos + delta
      /\ UNCHANGED <<exec, usageUnknown, fileStart, prognum, program, ip, datapos, tpos, consumed>>
  BY DEF IncreasePos, Increased, TypeInv, ControlInv, info, workVars, ghosts
<1>2. PICK e, m : e = i /\ m = Len(Schedule[exec])
  OBVIOUS
<1>3. /\ \A t \in Threads : pc'[t] = pc[t]
      /\ \/ i' = e + 1 /\ e + 1 < m /\ pc'[Main] = "run"
         \/ i' = 0 /\ e + 1 = m /\ pc'[Main] = "join"
      /\ m \in Nat /\ e \in Nat /\ e < m /\ e \in Threads
  <2>1. numt = m /\ numt \in 0 .. NThreads /\ m \in Nat
    BY <1>1, <1>2, NumtFacts, LineFacts, ThreadsAssumption DEF TypeInv
  <2>2. LoopOrLeave(numt, "run", "join")
    BY DEF IncreasePos
  <2>3. {"run", "join"} \subseteq MainPoints
    BY DEF MainPoints
  <2>4. PICK k : k = numt
    OBVIOUS
  <2>5. /\ \A t \in Threads : pc'[t] = pc[t]
        /\ \/ i' = i + 1 /\ i + 1 < m /\ pc'[Main] = "run"
           \/ i' = 0 /\ i + 1 >= m /\ pc'[Main] = "join"
    <3>1. LoopOrLeave(k, "run", "join") /\ k \in 0 .. NThreads
      BY <2>1, <2>2, <2>4 DEF LoopOrLeave
    <3> QED
      BY <1>t, <2>1, <2>3, <2>4, <3>1, LoopFacts
  <2> QED
    BY <1>1, <1>2, <1>t, <2>1, <2>5
<1>4. \A t \in Threads : (Assigned(t) <=> t <= e) /\ (Assigned(t)' <=> t <= e)
  <2>1. \A t \in Threads : Assigned(t) <=> t <= e
    BY <1>1, <1>2 DEF Assigned, Launched
  <2>2. CASE i' = e + 1 /\ e + 1 < m /\ pc'[Main] = "run"
    <3>1. \A t \in Threads : Assigned(t)' <=> t < e + 1
      BY <2>2 DEF Assigned, Launched
    <3> QED
      BY <1>3, <2>1, <3>1
  <2>3. CASE i' = 0 /\ e + 1 = m /\ pc'[Main] = "join"
    <3>1. \A t \in Threads : Assigned(t)' <=> t < m
      BY <1>1, <1>2, <2>3 DEF Assigned, Launched
    <3> QED
      BY <1>3, <2>1, <2>3, <3>1
  <2> QED
    BY <1>3, <2>2, <2>3
<1>5. /\ Low(e) = pos /\ delta = IF Unknown(e) THEN 0 ELSE UsedBy(Tape(e))
      /\ Layout /\ Counts /\ UnknownAlone
  BY <1>1, <1>2 DEF ItemInv, Counts
<1>6. /\ Low(e) \in Nat /\ High(e) \in Nat /\ UsedBy(Tape(e)) \in Nat /\ Low(e) <= High(e)
      /\ High(e) = Low(e) + UsedBy(Tape(e))
  BY <1>3, <1>4, AssignedFacts DEF ItemInv, ItemsAssumptions, High
<1>7. /\ pos' \in Nat /\ pos <= pos'
      /\ ~Unknown(e) => pos' = High(e)
      /\ Unknown(e) => pos' = pos
  BY <1>1, <1>5, <1>6, <1>t
<1>8. \A t \in Threads : t <= e /\ Unknown(t) => Unknown(e) /\ t = 0 /\ e = 0 /\ m = 1 /\ usageUnknown
  <2> SUFFICES ASSUME NEW t \in Threads, t <= e, Unknown(t)
               PROVE  Unknown(e) /\ t = 0 /\ e = 0 /\ m = 1 /\ usageUnknown
    OBVIOUS
  <2>1. usageUnknown /\ t = 0 /\ m = 1
    BY <1>1, <1>2, <1>4, <1>5 DEF UnknownAlone
  <2>2. e = t
    BY <1>3, <2>1
  <2> QED
    BY <2>1, <2>2
<1>9. \A t \in Threads : /\ Tape(t)' = Tape(t) /\ (Unknown(t)' <=> Unknown(t))
                         /\ t <= e => Low(t)' = Low(t) /\ High(t)' = High(t)
  <2>1. \A t \in Threads : Tape(t)' = Tape(t) /\ (Unknown(t)' <=> Unknown(t))
    BY <1>1 DEF Tape, Unknown
  <2>2. \A t \in Threads : t <= e => Low(t)' = Low(t)
    BY <1>1, <1>7, <1>8, <2>1 DEF Low
  <2> QED
    BY <2>1, <2>2 DEF High
<1>l. LineStart' = LineStart /\ 0 <= e
  BY <1>3, <1>4, <1>9 DEF LineStart
<1>10. Layout'
  <2>1. Apart'
    BY <1>4, <1>5, <1>9 DEF Layout, Apart
  <2>2. Covered'
    <3> SUFFICES ASSUME NEW k \in LineStart .. pos' - 1
                 PROVE  \E t \in Threads : t <= e /\ k \in Low(t) .. High(t) - 1
      BY <1>4, <1>9, <1>l DEF Covered
    <3>0. LineStart \in Nat
      BY <1>5 DEF Layout, FromStart
    <3>1. CASE k \in LineStart .. pos - 1
      BY <1>4, <1>5, <3>1 DEF Layout, Covered
    <3>2. CASE k \notin LineStart .. pos - 1
      <4>1. k \in pos .. pos' - 1
        <5>1. \A a \in Nat, b \in Nat, c \in Nat : \A j \in a .. c - 1 :
                 j \notin a .. b - 1 => j \in b .. c - 1
          OBVIOUS
        <5> QED
          BY <1>7, <1>t, <3>0, <3>2, <5>1
      <4>2. ~Unknown(e)
        <5>1. \A a \in Nat : a .. a - 1 = {}
          OBVIOUS
        <5> QED
          BY <1>7, <1>t, <4>1, <5>1
      <4>3. pos = Low(e) /\ pos' = High(e)
        BY <1>5, <1>7, <4>2
      <4>4. k \in Low(e) .. High(e) - 1
        BY <4>1, <4>3
      <4> QED
        BY <1>3, <4>4
    <3> QED
      BY <3>1, <3>2
  <2>3. FromStart'
    BY <1>4, <1>5, <1>9, <1>l DEF Layout, FromStart
  <2> QED
    BY <2>1, <2>2, <2>3 DEF Layout
<1>11. Counts'
  <2>1. pc'[Main] # "increase"
    BY <1>3
  <2>2. ASSUME NEW t \in Threads, t <= e, ~Unknown(t) PROVE High(t)' <= pos'
    <3>1. CASE t < e
      <4>1. High(t) <= pos /\ High(t) \in Nat
        BY <1>2, <1>4, <1>5, <2>2, <3>1, AssignedFacts DEF Counts, ItemInv, ItemsAssumptions
      <4> QED
        BY <1>7, <1>9, <1>t, <2>2, <4>1
    <3>2. CASE t = e
      BY <1>6, <1>7, <1>9, <2>2, <3>2
    <3> QED
      BY <1>3, <2>2, <3>1, <3>2
  <2> QED
    BY <1>4, <1>9, <2>1, <2>2 DEF Counts
<1>12. UnknownAlone'
  <2>1. \A t \in Threads : Assigned(t)' /\ Unknown(t)' =>
           usageUnknown' /\ t = 0 /\ Len(Schedule[exec']) = 1
    BY <1>1, <1>2, <1>4, <1>8, <1>9
  <2>2. usageUnknown' => pc'[Main] = "join" /\ Assigned(0)' /\ Unknown(0)'
    <3> SUFFICES ASSUME usageUnknown PROVE pc'[Main] = "join" /\ Assigned(0)' /\ Unknown(0)'
      BY <1>1
    <3>1. Assigned(0) /\ Unknown(0)
      BY <1>5 DEF UnknownAlone
    <3>2. m = 1 /\ e = 0
      BY <1>4, <1>8, <3>1
    <3> QED
      BY <1>3, <1>4, <1>9, <3>1, <3>2
  <2>3. pc'[Main] \notin {"catch", "rethrow"}
    BY <1>3
  <2> QED
    BY <2>1, <2>2, <2>3 DEF UnknownAlone
<1>13. OldItems' /\ NoItemUsedTwice'
  BY <1>1, <1>4, <1>l DEF ItemInv, OldItems, NoItemUsedTwice, LineReq
<1>14. WorkersOK'
  BY <1>1, <1>3, <1>4, <1>9, LineWorkers DEF InLines, InLine, SameEntry
<1> QED
  BY <1>3, <1>10, <1>11, <1>12, <1>13, <1>14 DEF ItemInv

(* At the end of a line its entries have read all their items; the next     *)
(* line begins where they end.                                              *)
LEMMA EndLineKeepsItems ==
    ASSUME TypeInv, IpInv, Inv, TInv, ItemInv, ItemsAssumptions, Inv', TInv', EndLine
    PROVE  ItemInv'
<1> USE ProcFacts
<1>0. CompiledTapes /\ Layout /\ Counts /\ UnknownAlone /\ OldItems /\ NoItemUsedTwice
  BY DEF ItemsAssumptions, ItemInv
<1>1. /\ pc[Main] = "lineend" /\ pc'[Main] = "fetch" /\ exec \in DOMAIN Schedule
      /\ exec \in Nat /\ exec' = exec + 1 /\ usageUnknown' = FALSE
      /\ pos' = IF usageUnknown THEN tpos[0] ELSE pos
      /\ consumed' = consumed /\ pos \in Nat /\ tpos[0] \in Nat
  BY DEF EndLine, LineEndPos, GoTo, TypeInv, TypeOK, ControlInv, ghosts
<1>2. \A t \in Threads : Assigned(t) <=> t < Len(Schedule[exec])
  BY <1>1 DEF Assigned, Launched
<1>3. Assigned(0) /\ LineStart = Low(0)
  <2>1. 0 < Len(Schedule[exec])
    BY <1>1, LineFacts
  <2> QED
    BY <1>2, <2>1 DEF LineStart
<1>4. ASSUME NEW t \in Threads, Assigned(t)
      PROVE  /\ Low(t) \in Nat /\ High(t) \in Nat /\ Low(t) <= High(t)
             /\ HasRead(t, High(t)) /\ (Unknown(t) => tpos[t] = High(t))
  <2>1. /\ Low(t) \in Nat /\ High(t) \in Nat /\ Low(t) <= High(t) /\ ~Target(t)
    BY <1>0, <1>4, AssignedFacts
  <2>2. finished[t] /\ Launched(t)
    BY <1>1, <1>2, <1>4 DEF Inv, JoinInv, Launched
  <2>3. Finished(t)
    BY <1>1, <2>1, <2>2 DEF Inv, EntryInv, InLine, Pending, Running
  <2>4. EntryOK(t)
    BY <1>1, <2>1 DEF ItemInv, WorkersOK, InLines, InLine
  <2>5. ReaderOK(t)
    BY <1>4, <2>4 DEF EntryOK
  <2> QED
    BY <2>1, <2>3, <2>5 DEF ReaderOK, Finished
<1>5. \A t \in Threads : Assigned(t) => High(t) <= pos'
  <2> SUFFICES ASSUME NEW t \in Threads, Assigned(t) PROVE High(t) <= pos'
    OBVIOUS
  <2>1. CASE Unknown(t)
    <3>1. usageUnknown /\ t = 0
      BY <1>0, <1>1, <2>1 DEF UnknownAlone
    <3>2. pos' = High(t) /\ High(t) \in Nat
      BY <1>1, <1>4, <2>1, <3>1
    <3> QED
      BY <3>2
  <2>2. CASE ~Unknown(t)
    <3>1. ~usageUnknown
      <4> SUFFICES ASSUME usageUnknown PROVE FALSE
        OBVIOUS
      <4>1. Unknown(0) /\ Len(Schedule[exec]) = 1
        BY <1>0, <1>1, <1>3 DEF UnknownAlone
      <4>2. t = 0
        BY <1>2, <4>1
      <4> QED
        BY <2>2, <4>1, <4>2
    <3> QED
      BY <1>0, <1>1, <2>2, <3>1 DEF Counts
  <2> QED
    BY <2>1, <2>2
<1>6. /\ pos' \in Nat /\ LineStart \in Nat /\ LineStart <= pos'
      /\ \A k \in LineStart .. pos' - 1 : \E t \in Threads :
            Assigned(t) /\ k \in Low(t) .. High(t) - 1
  <2>1. LineStart \in Nat /\ LineStart <= pos' /\ pos' \in Nat
    BY <1>1, <1>3, <1>4, <1>5
  <2>2. CASE usageUnknown
    <3>1. Unknown(0)
      BY <1>0, <2>2 DEF UnknownAlone
    <3>2. pos' = High(0)
      BY <1>1, <1>3, <1>4, <2>2, <3>1
    <3> QED
      BY <1>3, <2>1, <3>2
  <2>3. CASE ~usageUnknown
    BY <1>0, <1>1, <2>1, <2>3 DEF Layout, Covered
  <2> QED
    BY <2>1, <2>2, <2>3
<1>7. \A t \in Threads : ~Assigned(t)'
  BY <1>0, <1>1, FetchRests
<1>8. LineStart' = pos'
  BY <1>7 DEF LineStart
<1>9. Layout' /\ Counts' /\ UnknownAlone'
  <2>1. Apart' /\ FromStart'
    BY <1>6, <1>7, <1>8 DEF Apart, FromStart
  <2>2. Covered'
    <3>1. \A p \in Nat : p .. p - 1 = {}
      OBVIOUS
    <3>2. pos' .. pos' - 1 = {}
      BY <1>6, <3>1
    <3> QED
      BY <1>8, <3>2 DEF Covered
  <2>3. Counts' /\ UnknownAlone'
    BY <1>1, <1>7 DEF Counts, UnknownAlone
  <2> QED
    BY <2>1, <2>2, <2>3 DEF Layout
<1>10. OldItems'
  <2>1. ASSUME NEW c \in consumed
        PROVE  \E k \in Nat, l \in Nat, t \in Threads :
                   c = <<k, LineReq(l, t)>> /\ l < exec' /\ k < pos'
    <3>1. PICK k \in Nat, l \in Nat, t \in Threads :
             /\ c = <<k, LineReq(l, t)>>
             /\ (l < exec /\ k < LineStart) \/ (l = exec /\ Assigned(t))
      BY <1>0, <2>1 DEF OldItems
    <3>2. CASE l < exec /\ k < LineStart
      BY <1>1, <1>6, <3>1, <3>2
    <3>3. CASE l = exec /\ Assigned(t)
      <4>1. k \in Low(t) .. High(t) - 1
        BY <2>1, <3>1, <3>3, ItemsWithin
      <4>2. k < pos'
        BY <1>4, <1>5, <1>6, <3>3, <4>1
      <4> QED
        BY <1>1, <3>1, <3>3, <4>2
    <3> QED
      BY <3>1, <3>2, <3>3
  <2>2. ASSUME NEW k \in 0 .. pos' - 1
        PROVE  \E l \in Nat, t \in Threads : l < exec' /\ <<k, LineReq(l, t)>> \in consumed
    <3>1. CASE k < LineStart
      <4>1. k \in 0 .. LineStart - 1
        BY <1>6, <3>1
      <4>2. PICK l \in Nat, t \in Threads : l < exec /\ <<k, LineReq(l, t)>> \in consumed
        BY <1>0, <4>1 DEF OldItems
      <4>3. l < exec'
        BY <1>1, <4>2
      <4> QED
        BY <4>2, <4>3
    <3>2. CASE ~(k < LineStart)
      <4>1. k \in LineStart .. pos' - 1
        <5>1. \A a \in Nat, b \in Nat : \A j \in 0 .. b - 1 : ~(j < a) => j \in a .. b - 1
          OBVIOUS
        <5> QED
          BY <1>6, <3>2, <5>1
      <4>2. PICK t \in Threads : Assigned(t) /\ k \in Low(t) .. High(t) - 1
        BY <1>6, <4>1
      <4>3. <<k, LineReq(exec, t)>> \in consumed
        BY <1>4, <4>2 DEF HasRead
      <4>4. exec \in Nat /\ exec < exec'
        BY <1>1
      <4> QED
        BY <4>3, <4>4
    <3> QED
      BY <3>1, <3>2
  <2> QED
    BY <1>1, <1>8, <2>1, <2>2 DEF OldItems, LineReq
<1>11. NoItemUsedTwice'
  BY <1>0, <1>1 DEF NoItemUsedTwice
<1>12. WorkersOK'
  BY <1>0, <1>1, FetchWorkers
<1> QED
  BY <1>1, <1>9, <1>10, <1>11, <1>12 DEF ItemInv

-----------------------------------------------------------------------------
LEMMA ItemsStep ==
    ASSUME TypeInv, Inv, TInv, RequestInv, IpInv, ItemInv, ItemsAssumptions, [Next]_vars,
           Inv', TInv'
    PROVE  ItemInv'
<1>1. CASE MainStep
  <2>1. CASE FetchLine
    <3>1. pc'[Main] \in {"kill", "run"}
      BY <2>1, ProcFacts DEF FetchLine, GoTo, TypeInv, TypeOK
    <3> QED
      BY <2>1, <3>1, OutsideLines, FetchKeepsItems
  <2>2. CASE MainRunTape
    BY <2>2, MainRunTapeKeepsItems
  <2>3. CASE IncreasePos
    BY <2>3, IncreaseKeepsItems
  <2>4. CASE MainJoinWait \/ MainJoined
    BY <2>4, JoinKeepsItems
  <2>5. CASE EndLine
    BY <2>5, EndLineKeepsItems
  <2>6. CASE \/ CreateThread \/ AwaitReady \/ RetryReady \/ ThreadReady
             \/ KillThread \/ ReleaseThread \/ PthreadJoin \/ SeekAndPrune
    BY <2>6, OutsideLines
  <2> QED
    BY <1>1, <2>1, <2>2, <2>3, <2>4, <2>5, <2>6 DEF MainStep
<1>2. ASSUME NEW t \in Threads, WorkerStep(t) PROVE ItemInv'
  <2>1. CASE ExecRunTape(t)
    BY <2>1, RunTapeKeepsItems
  <2>2. CASE ~ExecRunTape(t)
    BY <1>2, <2>2, AloneKeepsItems
  <2> QED
    BY <2>1, <2>2
<1>3. ASSUME NEW t \in Threads, SpuriousWakeup(t) PROVE ItemInv'
  BY <1>3 DEF SpuriousWakeup, ItemsAssumptions
<1>4. ASSUME NEW p \in Procs, Unwind(p) PROVE ItemInv'
  BY <1>4, UnwindKeepsItems
<1>5. CASE UNCHANGED vars
  BY <1>5, StutterKeepsItems
<1> QED
  BY <1>1, <1>2, <1>3, <1>4, <1>5 DEF Next, Step

LEMMA ItemsInit == Init => ItemInv
<1> SUFFICES ASSUME Init PROVE ItemInv
  OBVIOUS
<1> USE ProcFacts
<1>1. /\ pc[Main] = "create" /\ pos = 0 /\ consumed = {} /\ usageUnknown = FALSE
  BY DEF Init
<1>2. \A t \in Threads : ~Assigned(t)
  BY <1>1 DEF Assigned, Launched
<1>3. LineStart = 0
  BY <1>1, <1>2 DEF LineStart
<1>4. Layout
  BY <1>1, <1>2, <1>3 DEF Layout, Apart, Covered, FromStart
<1>5. Counts /\ UnknownAlone /\ WorkersOK
  BY <1>1, <1>2 DEF Counts, UnknownAlone, WorkersOK, InLines, InLine
<1>6. OldItems /\ NoItemUsedTwice
  BY <1>1, <1>3 DEF OldItems, NoItemUsedTwice
<1> QED
  BY <1>1, <1>4, <1>5, <1>6 DEF ItemInv

LEMMA ItemsInvariant ==
    ASSUME ItemsAssumptions
    PROVE  Spec => [](TypeInv /\ Inv /\ TInv /\ RequestInv /\ IpInv /\ ItemInv)
<1> DEFINE J == TypeInv /\ Inv /\ TInv /\ RequestInv /\ IpInv /\ ItemInv
<1>1. Init => J
  BY TypeInvInit, InvInit, TInvInit, ItemsInit, ProcFacts
     DEF Init, IpInv, RequestInv, InLines, InLine
<1>2. J /\ [Next]_vars => J'
  <2> SUFFICES ASSUME J, [Next]_vars PROVE J'
    OBVIOUS
  <2>1. CompiledTapes /\ ~SpuriousWakeups
    BY DEF ItemsAssumptions
  <2>2. TypeInv' /\ Inv' /\ TInv'
    BY <2>1, TypeInvStep, InvStep, TInvStep DEF CompiledTapes
  <2>3. RequestInv' /\ IpInv'
    BY <2>1, RequestStep, IpInvStep
  <2> QED
    BY <2>2, <2>3, ItemsStep
<1> QED
  BY <1>1, <1>2, PTL DEF Spec

(* No preprocessed item is read for two entries of the schedule, whatever    *)
(* the lines, threads and tapes: Machine::run gives every run_tape a place   *)
(* of its own and DataF.seekg starts there.                                  *)
THEOREM ItemsUsedByOneTape ==
    ASSUME ItemsAssumptions
    PROVE  Spec => []NoItemUsedTwice
<1>1. ItemInv => NoItemUsedTwice
  BY DEF ItemInv
<1> QED
  BY <1>1, ItemsInvariant, PTL

(* When the machine is done the items in front of its position, which the    *)
(* final prune takes from the files, are exactly those that were read.       *)
THEOREM UsedAreDiscarded ==
    ASSUME ItemsAssumptions
    PROVE  Spec => []UsedItemsDiscarded
<1>1. ASSUME TypeInv, ItemInv PROVE UsedItemsDiscarded
  <2> SUFFICES ASSUME pc[Main] = "done"
               PROVE  {c[1] : c \in consumed} = 0 .. fileStart - 1
    BY DEF UsedItemsDiscarded
  <2>1. \A t \in Threads : ~Assigned(t)
    BY DEF Assigned, Launched
  <2>2. LineStart = pos /\ fileStart = pos /\ pos \in Nat
    BY <1>1, <2>1, ProcFacts DEF LineStart, ItemInv, TypeInv, TypeOK
  <2>3. \A c \in consumed : c[1] \in 0 .. fileStart - 1
    <3> SUFFICES ASSUME NEW c \in consumed PROVE c[1] \in 0 .. fileStart - 1
      OBVIOUS
    <3>1. PICK k \in Nat, l \in Nat, t \in Threads :
             c = <<k, LineReq(l, t)>> /\ k < LineStart
      BY <1>1, <2>1 DEF ItemInv, OldItems
    <3> QED
      BY <2>2, <3>1
  <2>4. \A k \in 0 .. fileStart - 1 : \E c \in consumed : c[1] = k
    <3> SUFFICES ASSUME NEW k \in 0 .. fileStart - 1 PROVE \E c \in consumed : c[1] = k
      OBVIOUS
    <3>1. PICK l \in Nat, t \in Threads : <<k, LineReq(l, t)>> \in consumed
      BY <1>1, <2>2 DEF ItemInv, OldItems
    <3> QED
      BY <3>1
  <2> QED
    BY <2>3, <2>4
<1> QED
  BY <1>1, ItemsInvariant, PTL
=============================================================================
