------------------------------ MODULE Emulator ------------------------------
(***************************************************************************)
(* What the instructions mean: the execute() methods of                    *)
(* src/Compiler/instructions.py, which emulate a program on values in the  *)
(* clear, and the docstrings of the instructions without one.  The         *)
(* instructions of a program run one after the other here, for one party   *)
(* that knows everything.                                                  *)
(*                                                                         *)
(* An instruction reads and writes its arguments by arg_format: "c" and    *)
(* "s" are clear and secret registers, "ci" integers, "i" the immediate.   *)
(***************************************************************************)
EXTENDS Processor

(* arg_format, without the w of the first argument, which is written. *)
arg_format(op) ==
  CASE op \in {"ADDC", "SUBC", "MULC", "DIVC", "MODC", "ANDC", "ORC", "XORC", "SHLC", "SHRC", "MULBITC"} -> <<"c", "c", "c">>
    [] op \in {"ADDS", "SUBS"} -> <<"s", "s", "s">>
    [] op \in {"ADDM", "SUBML", "MULM", "MULBITM"} -> <<"s", "s", "c">>
    [] op = "SUBMR" -> <<"s", "c", "s">>
    [] op \in {"ADDCI", "SUBCI", "SUBCFI", "MULCI", "DIVCI", "MODCI", "ANDCI", "XORCI", "ORCI",
               "SHLCI", "SHRCI", "NOTC"} -> <<"c", "c", "i">>
    [] op \in {"ADDSI", "SUBSI", "SUBSFI", "MULSI"} -> <<"s", "s", "i">>
    [] op \in {"LTC", "GTC", "EQC", "ADDINT", "SUBINT", "MULINT", "DIVINT"} -> <<"ci", "ci", "ci">>
    [] op \in {"EQZC", "LTZC", "MOVINT"} -> <<"ci", "ci">>
    [] op \in {"MOVC", "LEGENDREC", "DIGESTC"} -> <<"c", "c">>
    [] op = "MOVS" -> <<"s", "s">>
    [] op = "LDI"  -> <<"c", "i">>
    [] op = "LDSI" -> <<"s", "i">>
    [] op = "LDINT" -> <<"ci", "i">>
    [] op = "CONVINT"  -> <<"c", "ci">>
    [] op = "CONVMODP" -> <<"ci", "c", "i">>
    [] op = "CONVGF2N" -> <<"ci", "c">>
    [] OTHER -> <<>>

-----------------------------------------------------------------------------
(* AddBase, SubBase, MulBase, ImmediateBase and the execute() of the other *)
(* instructions, on values x and y. *)

Signed(x) == IF 2 * x < P - 1 THEN x ELSE x - P
Exactly(f, test(_)) == CHOOSE v \in (IF f = "p" THEN 0..(P - 1) ELSE SUBSET Bits(Degree)) : test(v)
FieldTimes(f, x, y) == IF f = "p" THEN (x * y) % P ELSE Product(Word, x, y)
Quotient(f, x, y) == LET Is(v) == FieldTimes(f, v, y) = x IN Exactly(f, Is)
IntToField(f, n) == IF f = "p" THEN n % P ELSE {i \in Bits(Degree) : (n \div 2^i) % 2 = 1}

SumOps     == {"ADDC", "ADDS", "ADDM", "ADDCI", "ADDSI"}
DiffOps    == {"SUBC", "SUBS", "SUBML", "SUBMR", "SUBCI", "SUBSI"}
ProductOps == {"MULC", "MULM", "MULCI", "MULSI", "MULBITC", "MULBITM"}

FieldValue(op, f, x, y) ==
  CASE op \in SumOps  -> IF f = "p" THEN (x + y) % P ELSE Xor2(x, y)
    [] op \in DiffOps -> IF f = "p" THEN (x - y) % P ELSE Xor2(x, y)
    [] op \in {"SUBCFI", "SUBSFI"} -> IF f = "p" THEN (y - x) % P ELSE Xor2(x, y)
    [] op \in ProductOps -> FieldTimes(f, x, y)
    [] op \in {"DIVC", "DIVCI"} -> Quotient(f, x, y)
    [] op \in {"MODC", "MODCI"} -> (x % y) % P
    [] op \in {"ANDC", "ANDCI"} -> IF f = "p" THEN (x & y) % P ELSE x \cap y
    [] op \in {"ORC", "ORCI"}   -> IF f = "p" THEN (x | y) % P ELSE x \cup y
    [] op \in {"XORC", "XORCI"} -> IF f = "p" THEN (x ^^ y) % P ELSE Xor2(x, y)
    [] op = "NOTC" -> IF f = "p" THEN (2^y - (x + 1)) % P ELSE Bits(Degree) \ x
    [] op \in {"SHLC", "SHLCI"} -> IF f = "p" THEN (x * 2^y) % P ELSE {i + y : i \in x} \cap Bits(Degree)
    [] op \in {"SHRC", "SHRCI"} -> IF f = "p" THEN x \div 2^y ELSE {i - y : i \in x} \cap Bits(Degree)
    [] op = "LEGENDREC" -> IF x = 0 THEN 0 ELSE IF \E v \in 1..(P - 1) : (v * v) % P = x THEN 1 ELSE P - 1

IntValue(op, x, y) ==
  CASE op = "EQZC" -> Truth(x = 0)
    [] op = "LTZC" -> Truth(x < 0)
    [] op = "LTC"  -> Truth(x < y)
    [] op = "GTC"  -> Truth(x > y)
    [] op = "EQC"  -> Truth(x = y)
    [] op = "ADDINT" -> x + y
    [] op = "SUBINT" -> x - y
    [] op = "MULINT" -> x * y
    [] op = "DIVINT" -> CHOOSE q \in -1000..1000 : LET rest == x - q * y IN
                          rest * rest < y * y /\ (rest = 0 \/ (rest < 0) = (x < 0))
    [] op = "CONVMODP" -> Signed(x)
    [] op = "CONVGF2N" -> FoldSet(LAMBDA i, s : s + 2^i, 0, x)

Copies == {"MOVC", "MOVS", "MOVINT", "DIGESTC", "LDINT"}
Computed(op, f, x, y) ==
  CASE op \in Copies -> x
    [] op \in {"LDI", "LDSI", "CONVINT"} -> IntToField(f, x)
    [] op \in {"EQZC", "LTZC", "LTC", "GTC", "EQC", "ADDINT", "SUBINT", "MULINT", "DIVINT", "CONVMODP", "CONVGF2N"} ->
         IntValue(op, x, y)
    [] OTHER -> FieldValue(op, f, x, y)
DividesByZero(in, y) == in.op \in {"DIVC", "DIVCI", "MODC", "MODCI", "DIVINT"} /\ y = Zero(in.f)

-----------------------------------------------------------------------------
(* The machine in the clear.  said is what each player has typed, private  *)
(* what each gets. *)
PlainParty(typed) ==
  [PC |-> 0, C |-> PerField(LAMBDA f : Regs(Zero(f))), S |-> PerField(LAMBDA f : Regs(Zero(f))), Ci |-> Regs(0),
   MC |-> PerField(LAMBDA f : Mem(Zero(f))), MS |-> PerField(LAMBDA f : Mem(Zero(f))), Mi |-> Mem(0),
   stack |-> <<>>, arg |-> 0, rands |-> 0, used |-> NewParty(<<>>).used, inputs |-> NewParty(<<>>).inputs, typed |-> typed, public_input |-> PublicInput,
   started |-> PerField(LAMBDA f : [q \in Player |-> <<>>]), open_queue |-> PerField(LAMBDA f : <<>>),
   outputs |-> PerField(LAMBDA f : [q \in Player |-> <<>>]),
   public |-> <<>>, private |-> [q \in Player |-> <<>>], printed |-> <<>>, file |-> <<>>, died |-> FALSE]

Read(s, f, kind, reg, n) ==
  CASE kind = "c" -> s.C[f][reg] [] kind = "s" -> s.S[f][reg] [] kind = "ci" -> s.Ci[reg] [] kind = "i" -> n
Write(s, f, kind, reg, v) ==
  CASE kind = "c" -> [s EXCEPT !.C[f][reg] = v] [] kind = "s" -> [s EXCEPT !.S[f][reg] = v]
    [] kind = "ci" -> [s EXCEPT !.Ci[reg] = v]

(* Instructions that compute a value from their arguments; immediates and  *)
(* shifts of the binary field are words and numbers.                       *)
EmulateValue(s, in, r) ==
  LET kinds == arg_format(in.op)
      shift == in.op \in {"SHLCI", "SHRCI"}
      imm(k) == IF in.f = "2" /\ k = 3 /\ ~ shift THEN IntToField("2", in.n) ELSE in.n
      Arg(k) == IF k > Len(kinds) THEN 0 ELSE Read(s, in.f, kinds[k], r[k], imm(k))
      y == IF in.op = "DIVCI" THEN IntToField(in.f, in.n) ELSE Arg(3)
  IN  IF DividesByZero(in, y) THEN [s EXCEPT !.died = TRUE]
      ELSE Write(s, in.f, kinds[1], r[1], Computed(in.op, in.f, Arg(2), y))

(* Memory by a literal or by a register, the stack and the argument. *)
EmulateMemory(s, in, r) ==
  LET f == in.f
      at == IF in.op \in {"LDMC", "LDMS", "LDMINT", "STMC", "STMS", "STMINT"} THEN in.n + (r[1] - in.r[1]) ELSE s.Ci[r[2]]
  IN  CASE in.op \in {"LDMC", "LDMCI"} -> [s EXCEPT !.C[f][r[1]] = s.MC[f][at]]
        [] in.op \in {"LDMS", "LDMSI"} -> [s EXCEPT !.S[f][r[1]] = s.MS[f][at]]
        [] in.op \in {"LDMINT", "LDMINTI"} -> [s EXCEPT !.Ci[r[1]] = s.Mi[at]]
        [] in.op \in {"STMC", "STMCI"} -> [s EXCEPT !.MC[f][at] = s.C[f][r[1]]]
        [] in.op \in {"STMS", "STMSI"} -> [s EXCEPT !.MS[f][at] = s.S[f][r[1]]]
        [] in.op \in {"STMINT", "STMINTI"} -> [s EXCEPT !.Mi[at] = s.Ci[r[1]]]
        [] in.op = "PUSHINT" -> [s EXCEPT !.stack = Append(@, s.Ci[r[1]])]
        [] in.op = "POPINT"  -> [s EXCEPT !.Ci[r[1]] = Last(s.stack), !.stack = Front(@)]
        [] in.op = "LDTN"  -> [s EXCEPT !.Ci[r[1]] = 0]
        [] in.op = "LDARG" -> [s EXCEPT !.Ci[r[1]] = s.arg]
        [] in.op = "STARG" -> [s EXCEPT !.arg = s.Ci[r[1]]]
        [] OTHER -> s

(* Preprocessed data, inputs and openings.  startopen pushes its arguments *)
(* from the last to the first, stopopen pops them.                         *)
EmulateData(s, in, r) ==
  LET f == in.f
      tuple == Tuple(f, in.op, s.used[f][in.op])
      spread == Spread(in)
  IN  CASE in.op \in TupleOps ->
             [FoldLeft(LAMBDA q, j : [q EXCEPT !.S[f][r[j]] = tuple[j]], s, [j \in DOMAIN tuple |-> j])
                EXCEPT !.used[f][in.op] = @ + 1]
        [] in.op = "INPUTMASK" ->
             LET v == Mask(f, in.n, s.inputs[f][in.n])
             IN  [s EXCEPT !.S[f][r[1]] = v, !.inputs[f][in.n] = @ + 1, !.private[in.n] = Append(@, v)]
        [] in.op = "INPUT" ->
             IF s.typed[in.n] = <<>> THEN [s EXCEPT !.died = TRUE]
             ELSE [s EXCEPT !.S[f][r[1]] = IntToField(f, Head(s.typed[in.n])), !.typed[in.n] = Tail(@), !.inputs[f][in.n] = @ + 1]
        [] in.op = "STARTINPUT" ->
             [s EXCEPT !.started[f][in.player] = SubSeq(s.typed[in.player], 1, in.n),
                       !.typed[in.player] = SubSeq(@, in.n + 1, Len(@)), !.inputs[f][in.player] = @ + in.n]
        [] in.op = "STOPINPUT" ->
             FoldLeft(LAMBDA q, i : [q EXCEPT !.S[f][in.start[i]] = IntToField(f, s.started[f][in.player][i])],
                      s, [i \in DOMAIN in.start |-> i])
        [] in.op = "STARTOPEN" ->
             [s EXCEPT !.open_queue[f] = @ \o [k \in DOMAIN spread |-> s.S[f][spread[Len(spread) + 1 - k]]]]
        [] in.op = "STOPOPEN" ->
             FoldLeft(LAMBDA q, k : [q EXCEPT !.C[f][spread[k]] = Last(q.open_queue[f]), !.open_queue[f] = Front(@)],
                      s, [k \in DOMAIN spread |-> k])

(* Outputs, public, private and printed; files of shares; the bits of      *)
(* words; public inputs and random numbers.                                *)
EmulateOther(s, in, r) ==
  LET f == in.f
      m == Len(in.start)
      at == s.Ci[r[1]]
      Shown(v) == [s EXCEPT !.printed = Append(@, v)]
  IN  CASE in.op = "CRASH"     -> [s EXCEPT !.died = TRUE]
        [] in.op = "RAWOUTPUT" -> [s EXCEPT !.public = Append(@, s.C[f][r[1]])]
        [] in.op = "PRINTMEM"  -> Shown(s.MC[f][r[1]])
        [] in.op \in {"PRINTREG", "PRINTREGPLAIN"} -> Shown(s.C[f][r[1]])
        [] in.op = "PRINTINT"  -> Shown(s.Ci[r[1]])
        [] in.op = "PRINTCHR"  -> Shown(in.n)
        [] in.op = "PRINTFLOATPLAIN" ->
             LET v(k) == s.C["p"][in.start[k]]
             IN  Shown(<<(1 - v(3)) * (1 - 2 * v(4)) * v(1), Signed(v(2))>>)
        [] in.op = "STARTPRIVATEOUTPUT" ->
             LET mask == Mask(f, in.n, s.inputs[f][in.n])
             IN  [s EXCEPT !.S[f][r[1]] = Plus(f, mask, s.S[f][r[2]]), !.inputs[f][in.n] = @ + 1,
                           !.outputs[f][in.n] = Append(@, s.S[f][r[2]])]
        [] in.op = "STOPPRIVATEOUTPUT" ->
             [s EXCEPT !.private[in.n] = Append(@, Head(s.outputs[f][in.n])), !.outputs[f][in.n] = Tail(@)]
        [] in.op = "WRITEFILESHARE" -> [s EXCEPT !.file = @ \o [j \in 1..m |-> s.S["p"][in.start[j]]]]
        [] in.op = "READFILESHARE" ->
             IF s.file = <<>> THEN [s EXCEPT !.Ci[r[2]] = -2]
             ELSE IF at + m > Len(s.file) THEN [s EXCEPT !.died = TRUE]
             ELSE [FoldLeft(LAMBDA q, j : [q EXCEPT !.S["p"][in.start[j]] = s.file[at + j]], s, [j \in 1..m |-> j])
                     EXCEPT !.Ci[r[2]] = IF at + m = Len(s.file) THEN -1 ELSE at + m]
        [] in.op = "PUBINPUT" -> [s EXCEPT !.Ci[r[1]] = Head(s.public_input), !.public_input = Tail(@)]
        [] in.op = "RAND" -> [s EXCEPT !.Ci[r[1]] = Rand[s.rands + 1] % 2^s.Ci[r[2]], !.rands = @ + 1]
        [] in.op = "BITDEC" ->
             FoldLeft(LAMBDA q, i : [q EXCEPT !.C["2"][in.start[i]] = {b \in {0} : (i - 1) * in.n \in s.C["2"][r[1]]}],
                      s, [i \in 1..m |-> i])
        [] in.op = "BITCOM" ->
             [s EXCEPT !.C["2"][r[1]] = {(i - 1) * in.n : i \in {i \in 1..m : 0 \in s.C["2"][in.start[i]]}}]
        [] OTHER -> s

(* Jumps go n + 1 instructions, from the jump. *)
Jumps(s, in) ==
  CASE in.op = "JMP"  -> in.n + 1
    [] in.op = "JMPI" -> s.Ci[in.r[1]] + 1
    [] in.op = "JMPNZ"  -> IF s.Ci[in.r[1]] = 0 THEN 1 ELSE in.n + 1
    [] in.op = "JMPEQZ" -> IF s.Ci[in.r[1]] # 0 THEN 1 ELSE in.n + 1
    [] OTHER -> 1

Emulate(s, in) ==
  LET One(q, i) ==
        LET r == Shifted(in.r, i) IN
        IF q.died THEN q
        ELSE IF arg_format(in.op) # <<>> THEN EmulateValue(q, in, r)
        ELSE IF in.op \in LoadOps THEN EmulateMemory(q, in, r)
        ELSE IF in.op \in TupleOps \cup Talking \cup {"INPUTMASK"} THEN EmulateData(q, in, r)
        ELSE EmulateOther(q, in, r)
      elements == IF in.op \in {"STARTOPEN", "STOPOPEN"} THEN 1 ELSE in.size
  IN  [FoldLeft(One, s, [i \in 1..elements |-> i - 1]) EXCEPT !.PC = s.PC + Jumps(s, in)]

-----------------------------------------------------------------------------
(* Instructions, and the expansions of the CISC instructions, with the new *)
(* registers from base on. *)
I(op, f, r, n) == [op |-> op, f |-> f, r |-> r, n |-> n, size |-> 1, start |-> <<>>, player |-> 0]
V(op, f, r, n, size) == [I(op, f, r, n) EXCEPT !.size = size]
L(op, f, r, n, start) == [I(op, f, r, n) EXCEPT !.start = start]
R(op, f, a, b, c) == I(op, f, <<a, b, c>>, 0)

asm_open(f, c, s) == <<L("STARTOPEN", f, <<0, 0, 0>>, 0, <<s>>), L("STOPOPEN", f, <<0, 0, 0>>, 0, <<c>>)>>

(* muls and g2muls: s, s1 and s2 are open as s1 - a and s2 - b. *)
BeaverSwapped(f, tuple, timesS, timesC, dest, s1, s2, s, c) ==
  <<R(tuple, f, s, s+1, s+2), R("SUBS", f, s+3, s1, s), R("SUBS", f, s+4, s2, s+1),
    L("STARTOPEN", f, <<0, 0, 0>>, 0, <<s+3, s+4>>), L("STOPOPEN", f, <<0, 0, 0>>, 0, <<c, c+1>>),
    R(timesS, f, s+5, s, c), R(timesS, f, s+6, s+1, c+1), R(timesC, f, c+2, c, c+1),
    R("ADDS", f, s+7, s+2, s+5), R("ADDS", f, s+8, s+7, s+6), R("ADDM", f, dest, s+8, c+2)>>
Beaver(f, tuple, timesS, timesC, dest, s1, s2, s, c) ==
  <<R(tuple, f, s, s+1, s+2), R("SUBS", f, s+3, s1, s), R("SUBS", f, s+4, s2, s+1),
    L("STARTOPEN", f, <<0, 0, 0>>, 0, <<s+3, s+4>>), L("STOPOPEN", f, <<0, 0, 0>>, 0, <<c, c+1>>),
    R(timesS, f, s+5, s+1, c), R(timesS, f, s+6, s, c+1), R(timesC, f, c+2, c, c+1),
    R("ADDS", f, s+7, s+2, s+5), R("ADDS", f, s+8, s+7, s+6), R("ADDM", f, dest, s+8, c+2)>>
muls(f, dest, s1, s2, s, c) == Beaver(f, "TRIPLE", "MULM", "MULC", dest, s1, s2, s, c)
g2muls(dest, s1, s2, s, c)  == Beaver("2", "BITTRIPLE", "MULBITM", "MULBITC", dest, s1, s2, s, c)

sqrs(f, dest, s1, s, c) ==
  <<R("SQUARE", f, s, s+1, 0), R("SUBS", f, s+2, s1, s)>> \o asm_open(f, c, s+2) \o
  <<R("MULC", f, c+1, c, c), R("MULM", f, s+3, s1, c), R("ADDS", f, s+4, s+3, s+3),
    R("ADDS", f, s+5, s+1, s+4), R("SUBML", f, dest, s+5, c+1)>>

-----------------------------------------------------------------------------
(* The machine in the clear runs ahead with the first of the parties:      *)
(* meant is the sequence of its states so far.                             *)
VARIABLE meant

EInit == Init /\ meant = <<PlainParty([i \in Player |-> party[i].stream])>>
ENext ==
  /\ Next
  /\ meant' = IF \A i \in Player : party'[i].steps < Len(meant) THEN meant
              ELSE Append(meant, Emulate(Last(meant), Program[Last(meant).PC + 1]))
ESpec == EInit /\ [][ENext]_<<vars, meant>>

Meant(me) == meant[party[me].steps + 1]

(* Every party's clear registers, integers, memory, stack, public output   *)
(* and program counter are, at each of its instructions, what the          *)
(* instructions mean, whatever the pace of the others                      *)
(* (Instruction.cpp:495); an instruction kills all parties or none.        *)
ClearFollowsEmulator ==
  \A me \in Player : LET p == party[me]  q == Meant(me) IN
    /\ p.died = q.died
    /\ ~ p.died =>
         /\ p.PC = q.PC /\ p.C = q.C /\ p.Ci = q.Ci /\ p.MC = q.MC /\ p.Mi = q.Mi
         /\ p.stack = Reverse(q.stack) /\ p.arg = q.arg

(* When the parties are at the same instruction their shares of a register *)
(* or a word of memory add up to its value, and the shares of its MAC to   *)
(* the value times the key (Share.h, Instruction.cpp:738).                 *)
SharedAs(f, s(_), v) ==
  LET A(i) == s(i).a  M(i) == s(i).mac
  IN  SumOver(f, Player, A) = v /\ SumOver(f, Player, M) = Times(f, Alpha[f], v)
SharesFollowEmulator ==
  (\A i, j \in Player : party[i].steps = party[j].steps) /\ ~ Meant(0).died =>
    \A f \in Field :
      /\ \A k \in 0..(NReg - 1) : LET s(i) == party[i].S[f][k] IN SharedAs(f, s, Meant(0).S[f][k])
      /\ \A k \in 0..(NMem - 1) : LET s(i) == party[i].MS[f][k] IN SharedAs(f, s, Meant(0).MS[f][k])

(* Each player gets its private outputs and masks in order, all write the  *)
(* same public output, and player 0 alone prints (PrivateOutput.cpp:12,    *)
(* Instruction.cpp:1433). *)
OutputsRight ==
  \A me \in Player : LET p == party[me]  q == Meant(me) IN
    /\ p.private = q.private[me] /\ p.public = q.public
    /\ p.printed = IF me = 0 THEN q.printed ELSE <<>>

(* The registers a program leaves for the differences of two ways to       *)
(* compute the same are zero at its end (instructions.py:1340).            *)
CONSTANT Differences    \* program names to sets of <<field, clear register>>
MacrosAgree ==
  \A me \in Player : Ended(me) /\ ~ party[me].died =>
    \A d \in Differences[prog] : party[me].C[d[1]][d[2]] = Zero(d[1])
=============================================================================
