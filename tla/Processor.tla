------------------------------ MODULE Processor ------------------------------
(***************************************************************************)
(* The virtual machine of src/Processor: one tape on every party, each     *)
(* stepping at its own pace through the same instructions                  *)
(* (Instruction::execute), with registers, memory, preprocessed data,      *)
(* inputs, openings, private outputs and files.                            *)
(*                                                                         *)
(* A field is "p", numbers modulo P, or "2", words as sets of bits, as in  *)
(* Fields; an instruction is a record of its opcode without the G of the   *)
(* binary field, the field f, the registers r[0..2], the immediate n, the  *)
(* vector size and the register list start.  How the shares of an opening  *)
(* travel is in Opening, how preprocessed data is found in DataFiles: here *)
(* a party reads the tuples one after the other, and the opened value is   *)
(* there when every party has started the opening.                         *)
(***************************************************************************)
EXTENDS Fields

CONSTANTS NPlayers,     \* num_players
          P, Degree,    \* the prime and the degree of the binary field
          Limbs,        \* 2^(64t), the first power of the limb size above P
          Alpha,        \* the MAC key of each field, shared by AlphaShare
          Programs,     \* names to sequences of instructions
          Inputs,       \* what the players type: a set of functions to sequences
          Rand,         \* the stream of the generator seeded with zero
          PublicInput,  \* the file of public inputs
          NReg, NMem    \* registers of each kind, words of memory

Player == 0..(NPlayers - 1)
Field == {"p", "2"}

ASSUME ProcessorAssumption == NPlayers \in Nat \ {0} /\ P \in Nat /\ P > 2 /\ Limbs > P

-----------------------------------------------------------------------------
(* The operations of the two fields that the instructions use. *)

Word == gf2n_init(Degree)
Zero(f) == IF f = "p" THEN 0 ELSE {}
Plus(f, x, y)  == IF f = "p" THEN (x + y) % P ELSE Xor2(x, y)
Minus(f, x, y) == IF f = "p" THEN (x - y) % P ELSE Xor2(x, y)
Times(f, x, y) == IF f = "p" THEN (x * y) % P ELSE gf2n_mul(Word, FALSE, x, y)
Invert(f, x)   == IF f = "p" THEN InvMod(x, P) ELSE gf2n_invert(Word, x)
BitSet(n)      == {i \in Bits(Degree) : (n \div 2^i) % 2 = 1}
assign(f, n)   == IF f = "p" THEN n % P ELSE BitSet(n % 2^Degree)
SumOver(f, S, v(_)) == FoldSet(LAMBDA i, s : Plus(f, v(i), s), Zero(f), S)

(* Any way to share: the others' parts follow a counter, player 0 has the  *)
(* rest.                                                                   *)
Part(f, i, salt) == assign(f, 3 * salt + 2 * i + 1)
ShareOf(f, v, i, salt) ==
  LET Other(j) == Part(f, j, salt)
  IN  IF i = 0 THEN Minus(f, v, SumOver(f, Player \ {0}, Other)) ELSE Part(f, i, salt)
AlphaShare(f, i) == ShareOf(f, Alpha[f], i, 1)
Share(f, v, i, salt) == [a |-> ShareOf(f, v, i, salt), mac |-> ShareOf(f, Times(f, Alpha[f], v), i, salt + 1)]

(* The k-th tuple of a kind, in the clear. *)
Tuple(f, kind, k) ==
  LET a == assign(f, 2 * k + 3)  b == assign(f, k + 2)  bit == assign(f, (k + 1) % 2)
  IN  CASE kind = "TRIPLE"       -> <<a, b, Times(f, a, b)>>
        [] kind = "SQUARE"       -> <<a, Times(f, a, a)>>
        [] kind = "INV"          -> <<b, Invert(f, b)>>
        [] kind = "BIT"          -> <<bit>>
        [] kind = "BITTRIPLE"    -> <<bit, assign(f, 1), bit>>
        [] kind = "BITGF2NTRIPLE" -> <<bit, b, Times(f, bit, b)>>
        [] OTHER                 -> <<a>>

-----------------------------------------------------------------------------
(* Share.h, Share.cpp: a constant is added by player 0 alone, its MAC by   *)
(* all of them.                                                            *)
ZeroShare(f) == [a |-> Zero(f), mac |-> Zero(f)]
AddShares(f, s, t) == [a |-> Plus(f, s.a, t.a), mac |-> Plus(f, s.mac, t.mac)]
SubShares(f, s, t) == [a |-> Minus(f, s.a, t.a), mac |-> Minus(f, s.mac, t.mac)]
MulShare(f, s, x)  == [a |-> Times(f, s.a, x), mac |-> Times(f, s.mac, x)]
AddConstByAll(f, me, s, x) == [a |-> Plus(f, s.a, x), mac |-> Plus(f, s.mac, Times(f, AlphaShare(f, me), x))]
AddConst(f, me, s, x) == [a   |-> IF me = 0 THEN Plus(f, s.a, x) ELSE s.a,
                          mac |-> Plus(f, s.mac, Times(f, AlphaShare(f, me), x))]
SubConst(f, me, s, x) == [a   |-> IF me = 0 THEN Minus(f, s.a, x) ELSE s.a,
                          mac |-> Minus(f, s.mac, Times(f, AlphaShare(f, me), x))]
SubFromByOne(f, me, x, s) == [a |-> IF me = 0 THEN Minus(f, x, s.a) ELSE Minus(f, Zero(f), s.a),
                              mac |-> IF me = 0 THEN Minus(f, Times(f, AlphaShare(f, me), x), s.mac) ELSE Minus(f, Zero(f), s.mac)]
SubFrom(f, me, x, s)  == [a   |-> IF me = 0 THEN Minus(f, x, s.a) ELSE Minus(f, Zero(f), s.a),
                          mac |-> Minus(f, Times(f, AlphaShare(f, me), x), s.mac)]

-----------------------------------------------------------------------------
(* The state of a party.  steps counts its instructions for the            *)
(* properties; opens and said are the shares it has sent for openings and  *)
(* the messages with its inputs, opened and heard count what it received.  *)

Filled(n, v) == FoldSet(LAMBDA k, g : (k :> v) @@ g, <<>>, 0..(n - 1))
Regs(v) == Filled(NReg, v)
Mem(v)  == Filled(NMem, v)
PerField(F(_)) == ("p" :> F("p")) @@ ("2" :> F("2"))

NewParty(stream) ==
  [PC |-> 0, steps |-> 0, C |-> PerField(LAMBDA f : Regs(Zero(f))), S |-> PerField(LAMBDA f : Regs(ZeroShare(f))),
   Ci |-> Regs(0), MC |-> PerField(LAMBDA f : Mem(Zero(f))), MS |-> PerField(LAMBDA f : Mem(ZeroShare(f))),
   Mi |-> Mem(0), stack |-> <<>>, arg |-> 0, rands |-> 0,
   used |-> PerField(LAMBDA f : [kind \in {"TRIPLE", "SQUARE", "INV", "BIT", "BITTRIPLE", "BITGF2NTRIPLE"} |-> 0]),
   inputs |-> PerField(LAMBDA f : [q \in Player |-> 0]),
   stream |-> stream, public_input |-> PublicInput, opens |-> PerField(LAMBDA f : <<>>),
   opened |-> PerField(LAMBDA f : 0), said |-> <<>>, heard |-> [q \in Player |-> 0],
   shares |-> PerField(LAMBDA f : [q \in Player |-> <<>>]), masks |-> PerField(LAMBDA f : <<>>),
   public |-> <<>>, private |-> <<>>, printed |-> <<>>, file |-> <<>>, died |-> FALSE]

SetC(p, f, k, v)  == [p EXCEPT !.C[f][k] = v]
SetS(p, f, k, s)  == [p EXCEPT !.S[f][k] = s]
SetCi(p, k, v)    == [p EXCEPT !.Ci[k] = v]
Truth(b)          == IF b THEN 1 ELSE 0
Dies(p)           == [p EXCEPT !.died = TRUE]

(* Loads, stores, moves, the stack and the argument.  Of an instruction on *)
(* a vector the registers move on by themselves, the address n only here.  *)
LoadOps == {"LDI", "LDSI", "LDMC", "LDMS", "LDMINT", "LDMCI", "LDMSI", "LDMINTI", "STMC", "STMS", "STMINT",
            "STMCI", "STMSI", "STMINTI", "MOVC", "MOVS", "MOVINT", "PROTECTMEMS", "PROTECTMEMC", "PROTECTMEMINT",
            "PUSHINT", "POPINT", "LDTN", "LDARG", "STARG"}
LoadStore(me, p, in, r, n) ==
  LET f == in.f
      address == CASE in.op \in {"LDMC", "LDMS", "LDMINT", "STMC", "STMS", "STMINT"} -> n + (r[1] - in.r[1])
                   [] OTHER -> p.Ci[r[2]]
      literal == assign(f, n)
  IN  CASE in.op = "LDI"  -> SetC(p, f, r[1], literal)
        [] in.op = "LDSI" -> SetS(p, f, r[1], [a |-> IF me = 0 THEN literal ELSE Zero(f),
                                               mac |-> Times(f, AlphaShare(f, me), literal)])
        [] in.op \in {"LDMC", "LDMCI"} -> SetC(p, f, r[1], p.MC[f][address])
        [] in.op \in {"LDMS", "LDMSI"} -> SetS(p, f, r[1], p.MS[f][address])
        [] in.op \in {"LDMINT", "LDMINTI"} -> SetCi(p, r[1], p.Mi[address])
        [] in.op \in {"STMC", "STMCI"} -> [p EXCEPT !.MC[f][address] = p.C[f][r[1]]]
        [] in.op \in {"STMS", "STMSI"} -> [p EXCEPT !.MS[f][address] = p.S[f][r[1]]]
        [] in.op \in {"STMINT", "STMINTI"} -> [p EXCEPT !.Mi[address] = p.Ci[r[1]]]
        [] in.op = "MOVC" -> SetC(p, f, r[1], p.C[f][r[2]])
        [] in.op = "MOVS" -> SetS(p, f, r[1], p.S[f][r[2]])
        [] in.op = "MOVINT"  -> SetCi(p, r[1], p.Ci[r[2]])
        [] in.op = "PUSHINT" -> [p EXCEPT !.stack = <<p.Ci[r[1]]>> \o @]
        [] in.op = "POPINT"  -> [SetCi(p, r[1], Head(p.stack)) EXCEPT !.stack = Tail(@)]
        [] in.op = "LDTN"  -> SetCi(p, r[1], 0)
        [] in.op = "LDARG" -> SetCi(p, r[1], p.arg)
        [] in.op = "STARG" -> [p EXCEPT !.arg = p.Ci[r[1]]]
        [] OTHER -> p

(* Arithmetic on registers: clear, shared and mixed. *)
ArithmeticOps == {"ADDC", "SUBC", "MULC", "ADDS", "SUBS", "ADDM", "SUBML", "SUBMR", "MULM"}
Arithmetic(me, p, in, r) ==
  LET f == in.f
      C(k) == p.C[f][r[k]]
      S(k) == p.S[f][r[k]]
  IN  CASE in.op = "ADDC" -> SetC(p, f, r[1], Plus(f, C(2), C(3)))
        [] in.op = "SUBC" -> SetC(p, f, r[1], Minus(f, C(2), C(3)))
        [] in.op = "MULC" -> SetC(p, f, r[1], Times(f, C(2), C(3)))
        [] in.op = "ADDS" -> SetS(p, f, r[1], AddShares(f, S(2), S(3)))
        [] in.op = "SUBS" -> SetS(p, f, r[1], SubShares(f, S(2), S(3)))
        [] in.op = "ADDM"  -> SetS(p, f, r[1], AddConst(f, me, S(2), C(3)))
        [] in.op = "SUBML" -> SetS(p, f, r[1], SubConst(f, me, S(2), C(3)))
        [] in.op = "SUBMR" -> SetS(p, f, r[1], SubFrom(f, me, C(2), S(3)))
        [] in.op = "MULM"  -> SetS(p, f, r[1], MulShare(f, S(2), C(3)))

(* Division: by zero the thread dies.  DIGESTC is any function: the value  *)
(* itself.  mul_by_bit multiplies words as numbers, one of them a bit.     *)
DivisionOps == {"DIVC", "MODC", "LEGENDREC", "DIGESTC", "DIVCI", "MODCI", "MULBITC", "MULBITM"}
Division(me, p, in, r, n) ==
  LET f == in.f
      x == p.C[f][r[2]]
      y == p.C[f][r[3]]
      Quotient(d) == SetC(p, f, r[1], Times(f, Invert(f, d), x))
      Bit(a, b) == IF a = {0} THEN b ELSE IF b = {0} THEN a ELSE {}
  IN  CASE in.op = "DIVC"  -> IF y = Zero(f) THEN Dies(p) ELSE Quotient(y)
        [] in.op = "DIVCI" -> IF n = 0 \/ assign(f, n) = Zero(f) THEN Dies(p) ELSE Quotient(assign(f, n))
        [] in.op = "MODC"  -> IF y = 0 THEN Dies(p) ELSE SetC(p, f, r[1], x % y)
        [] in.op = "MODCI" -> IF n = 0 THEN Dies(p) ELSE SetC(p, f, r[1], (x % n) % P)
        [] in.op = "LEGENDREC" -> SetC(p, f, r[1], Legendre(x, P))
        [] in.op = "DIGESTC"   -> SetC(p, f, r[1], x)
        [] in.op = "MULBITC"   -> SetC(p, f, r[1], Bit(x, y))
        [] in.op = "MULBITM"   -> LET s == p.S[f][r[2]] IN SetS(p, f, r[1], [a |-> Bit(s.a, y), mac |-> Bit(s.mac, y)])

(* Arithmetic with an immediate, the same for every element of a vector. *)
ImmediateOps == {"ADDCI", "SUBCI", "SUBCFI", "MULCI", "ADDSI", "SUBSI", "SUBSFI", "MULSI"}
Immediate(me, p, in, r, n) ==
  LET f == in.f
      c == p.C[f][r[2]]
      s == p.S[f][r[2]]
      v == assign(f, n)
  IN  CASE in.op = "ADDCI"  -> SetC(p, f, r[1], Plus(f, v, c))
        [] in.op = "SUBCI"  -> SetC(p, f, r[1], Minus(f, c, v))
        [] in.op = "SUBCFI" -> SetC(p, f, r[1], Minus(f, v, c))
        [] in.op = "MULCI"  -> SetC(p, f, r[1], Times(f, v, c))
        [] in.op = "ADDSI"  -> SetS(p, f, r[1], AddConst(f, me, s, v))
        [] in.op = "SUBSI"  -> SetS(p, f, r[1], SubConst(f, me, s, v))
        [] in.op = "SUBSFI" -> SetS(p, f, r[1], SubFrom(f, me, v, s))
        [] in.op = "MULSI"  -> SetS(p, f, r[1], MulShare(f, s, v))

(* The next tuple of preprocessed data, one register after the other. *)
TupleOps == {"TRIPLE", "SQUARE", "INV", "BIT", "BITTRIPLE", "BITGF2NTRIPLE"}
NextTuple(me, p, f, kind, regs) ==
  LET k == p.used[f][kind]
      t == Tuple(f, kind, k)
      Fetch(q, j) == SetS(q, f, regs[j], Share(f, t[j], me, 5 * k + j))
  IN  [FoldLeft(Fetch, p, [j \in 1..Len(t) |-> j]) EXCEPT !.used[f][kind] = k + 1]

(* get_input: the next mask of player q, shared, and in the clear for q. *)
Mask(f, q, k) == assign(f, k + q + 2)
NextMask(me, p, f, q) == Share(f, Mask(f, q, p.inputs[f][q]), me, 3 * p.inputs[f][q] + q)
UseMask(p, f, q) == [p EXCEPT !.inputs[f][q] = @ + 1]

(* Bitwise operations: on the integers of prime field elements, except NOT *)
(* which is modulo P, and inside the word on binary ones.                  *)
BitwiseOps == {"ANDC", "XORC", "ORC", "ANDCI", "XORCI", "ORCI", "NOTC"}
Bitwise2(f, op, x, y) ==
  CASE op = "AND" -> IF f = "p" THEN (x & y) % P ELSE x \cap y
    [] op = "XOR" -> IF f = "p" THEN (x ^^ y) % P ELSE Xor2(x, y)
    [] op = "OR"  -> IF f = "p" THEN (x | y) % P ELSE x \cup y
BitwiseExec(p, in, r, n) ==
  LET f == in.f
      x == p.C[f][r[2]]
      y == IF in.op \in {"ANDC", "XORC", "ORC"} THEN p.C[f][r[3]] ELSE IF f = "p" THEN n ELSE assign(f, n)
  IN  SetC(p, f, r[1],
        CASE in.op \in {"ANDC", "ANDCI"} -> Bitwise2(f, "AND", x, y)
          [] in.op \in {"XORC", "XORCI"} -> Bitwise2(f, "XOR", x, y)
          [] in.op \in {"ORC", "ORCI"}   -> Bitwise2(f, "OR", x, y)
          [] in.op = "NOTC" -> IF f = "p" THEN (-x - 1 + 2^n) % P ELSE gf2n_NOT(Word, x))

(* Shifts by a register of the prime field, by 63 at most, and by an       *)
(* immediate; what leaves the limbs or the word is lost.                   *)
ShiftOps == {"SHLC", "SHRC", "SHLCI", "SHRCI"}
Shift(p, in, r, n) ==
  LET f == in.f
      x == p.C[f][r[2]]
      by == IF in.op \in {"SHLC", "SHRC"} THEN p.C["p"][r[3]] ELSE n
      value == CASE in.op \in {"SHLC", "SHLCI"} ->
                      IF f = "p" THEN ((x * 2^by) % Limbs) % P ELSE gf2n_SHL(Word, x, by)
                 [] OTHER -> IF f = "p" THEN x \div 2^by ELSE gf2n_SHR(Word, x, by)
  IN  IF in.op \in {"SHLC", "SHRC"} /\ by > 63 THEN Dies(p) ELSE SetC(p, f, r[1], value)

(* Every n-th bit of a word, and a word of them, for whole vectors. *)
BitOps == {"BITDEC", "BITCOM"}
BitDecCom(p, in) ==
  LET Step(q, j) ==
        LET a == q.C["2"][in.r[1] + j]
            Dec(s, i) == SetC(s, "2", in.start[i] + j, Low(Shr(a, (i - 1) * in.n), 1))
            Com(s, i) == Xor2(s, Shl(q.C["2"][in.start[i] + j], (i - 1) * in.n, 64))
            is == [i \in 1..Len(in.start) |-> i]
        IN  IF in.op = "BITDEC" THEN FoldLeft(Dec, q, is) ELSE SetC(q, "2", in.r[1] + j, FoldLeft(Com, {}, is))
  IN  FoldLeft(Step, p, [j \in 1..in.size |-> j - 1])

(* Jumps are relative to the next instruction. *)
JumpOps == {"JMP", "JMPI", "JMPNZ", "JMPEQZ"}
Jump(p, in) ==
  LET c == p.Ci[in.r[1]]
      by == CASE in.op = "JMP" -> in.n
              [] in.op = "JMPI" -> c
              [] in.op = "JMPNZ" -> IF c # 0 THEN in.n ELSE 0
              [] in.op = "JMPEQZ" -> IF c = 0 THEN in.n ELSE 0
  IN  [p EXCEPT !.PC = @ + by]

(* Integers: comparisons, arithmetic with C's division, conversions. *)
IntOps == {"EQZC", "LTZC", "LTC", "GTC", "EQC", "LDINT", "ADDINT", "SUBINT", "MULINT", "DIVINT",
           "CONVINT", "CONVMODP", "CONVGF2N", "RAND"}
CDiv(x, y) == LET q == (IF x < 0 THEN -x ELSE x) \div (IF y < 0 THEN -y ELSE y)
              IN  IF (x < 0) = (y < 0) THEN q ELSE -q

(* to_signed_bigint: numbers up to (P-1)/2, without it, are positive; the  *)
(* absolute value is cut to len bits.                                      *)
to_signed_bigint(x, len) ==
  IF x < (P - 1) \div 2 THEN x % 2^len ELSE -((P - x) % 2^len)

IntExec(p, in, r, n) ==
  LET x == p.Ci[r[2]]
      y == p.Ci[r[3]]
      Result(v) == SetCi(p, r[1], v)
  IN  CASE in.op = "EQZC" -> Result(Truth(x = 0))
        [] in.op = "LTZC" -> Result(Truth(x < 0))
        [] in.op = "LTC"  -> Result(Truth(x < y))
        [] in.op = "GTC"  -> Result(Truth(x > y))
        [] in.op = "EQC"  -> Result(Truth(x = y))
        [] in.op = "LDINT"  -> Result(n)
        [] in.op = "ADDINT" -> Result(x + y)
        [] in.op = "SUBINT" -> Result(x - y)
        [] in.op = "MULINT" -> Result(x * y)
        [] in.op = "DIVINT" -> IF y = 0 THEN Dies(p) ELSE Result(CDiv(x, y))
        [] in.op = "CONVINT"  -> SetC(p, in.f, r[1], assign(in.f, x))
        [] in.op = "CONVMODP" -> Result(to_signed_bigint(p.C["p"][r[2]], n))
        [] in.op = "CONVGF2N" -> Result(FoldSet(LAMBDA i, s : s + 2^i, 0, p.C["2"][r[2]]))
        [] in.op = "RAND" -> [Result(Rand[p.rands + 1] % 2^x) EXCEPT !.rands = @ + 1]

(* Printing is player 0's; raw output is written by every player.  The     *)
(* other opcodes print, time or announce and change nothing here; the      *)
(* tapes of RUN_TAPE and JOIN_TAPE are in OnlineMachine.                   *)
OutputOps == {"PRINTMEM", "PRINTREG", "PRINTREGPLAIN", "PRINTINT", "PRINTCHR", "PRINTFLOATPLAIN",
              "RAWOUTPUT", "REQBL", "USE", "TIME", "START", "STOP", "CRASH"}
Printed2(p, in, r, n) ==
  CASE in.op = "PRINTMEM" -> p.MC[in.f][r[1]]
    [] in.op \in {"PRINTREG", "PRINTREGPLAIN"} -> p.C[in.f][r[1]]
    [] in.op = "PRINTINT" -> p.Ci[r[1]]
    [] in.op = "PRINTCHR" -> n

(* A float is its significand, exponent, zero bit and sign. *)
FloatOf(p, start) ==
  LET v == p.C["p"][start[1]]  z == p.C["p"][start[3]]  s == p.C["p"][start[4]]
  IN  <<IF z = 1 THEN 0 ELSE IF s # 0 THEN -v ELSE v, to_signed_bigint(p.C["p"][start[2]], 31 - 1)>>

Output(me, p, in, r, n) ==
  CASE in.op = "CRASH"     -> Dies(p)
    [] in.op = "RAWOUTPUT" -> [p EXCEPT !.public = Append(@, p.C[in.f][r[1]])]
    [] in.op = "PRINTFLOATPLAIN" /\ me = 0 ->
         IF p.C["p"][in.start[3]] \in {0, 1} /\ p.C["p"][in.start[4]] \in {0, 1}
         THEN [p EXCEPT !.printed = Append(@, FloatOf(p, in.start))] ELSE Dies(p)
    [] in.op \in {"PRINTMEM", "PRINTREG", "PRINTREGPLAIN", "PRINTINT", "PRINTCHR"} /\ me = 0 ->
         [p EXCEPT !.printed = Append(@, Printed2(p, in, r, n))]
    [] OTHER -> p

(* Shares appended to a party's own file, and read from a position, which  *)
(* is followed by the position after them: -1 at the end, -2 without file. *)
(* Beyond the end the thread dies.                                         *)
FileOps == {"WRITEFILESHARE", "READFILESHARE"}
FileExec(p, in, r) ==
  LET at == p.Ci[r[1]]
      m  == Len(in.start)
      Read(q, j) == SetS(q, "p", in.start[j], p.file[at + j])
  IN  IF in.op = "WRITEFILESHARE" THEN [p EXCEPT !.file = @ \o [j \in 1..m |-> p.S["p"][in.start[j]]]]
      ELSE IF p.file = <<>> THEN SetCi(p, in.r[2], -2)
      ELSE IF at + m > Len(p.file) THEN Dies(p)
      ELSE SetCi(FoldLeft(Read, p, [j \in 1..m |-> j]), in.r[2], IF at + m = Len(p.file) THEN -1 ELSE at + m)

(* Private outputs: a mask of the player is added to the share; once the   *)
(* sum is opened the player takes off the first of the masks it kept.      *)
PrivateLastMask(me, p, in, r, q) ==
  LET f == in.f
      mask == Mask(f, q, p.inputs[f][q])
      s == NextMask(me, p, f, q)
  IN  CASE in.op = "INPUTMASK" ->
             LET t == UseMask(SetS(p, f, r[1], s), f, q)
             IN  IF me = q THEN [t EXCEPT !.private = Append(@, mask)] ELSE t
        [] in.op = "STARTPRIVATEOUTPUT" ->
             LET t == UseMask(SetS(p, f, r[1], AddShares(f, s, p.S[f][r[2]])), f, q)
             IN  IF me = q THEN [t EXCEPT !.masks[f] = Append(@, mask)] ELSE t
        [] in.op = "STOPPRIVATEOUTPUT" ->
             IF me = q THEN [p EXCEPT !.private = Append(@, Minus(f, p.C[f][r[1]], Last(p.masks[f]))), !.masks[f] = Front(@)]
             ELSE p

PrivateOps == {"INPUTMASK", "STARTPRIVATEOUTPUT", "STOPPRIVATEOUTPUT"}
Private(me, p, in, r, q) ==
  LET f == in.f
      mask == Mask(f, q, p.inputs[f][q])
      s == NextMask(me, p, f, q)
  IN  CASE in.op = "INPUTMASK" ->
             LET t == UseMask(SetS(p, f, r[1], s), f, q)
             IN  IF me = q THEN [t EXCEPT !.private = Append(@, mask)] ELSE t
        [] in.op = "STARTPRIVATEOUTPUT" ->
             LET t == UseMask(SetS(p, f, r[1], AddShares(f, s, p.S[f][r[2]])), f, q)
             IN  IF me = q THEN [t EXCEPT !.masks[f] = Append(@, mask)] ELSE t
        [] in.op = "STOPPRIVATEOUTPUT" ->
             IF me = q THEN [p EXCEPT !.private = Append(@, Minus(f, p.C[f][r[1]], Head(p.masks[f]))),
                                      !.masks[f] = Tail(@)]
             ELSE p

-----------------------------------------------------------------------------
(* Inputs.  The owner takes the mask off its value and tells the others    *)
(* the difference; it alone adds that to its share, all to their MACs.     *)
adjust_mac(f, me, s, t) == [s EXCEPT !.mac = Plus(f, @, Times(f, AlphaShare(f, me), t))]
Told(f, me, p) == Minus(f, assign(f, Head(p.stream)), Mask(f, me, p.inputs[f][me]))

(* The owner's part of one input: its share, and the state after it. *)
OwnShare(f, me, p) ==
  LET s == NextMask(me, p, f, me)
      t == Told(f, me, p)
  IN  adjust_mac(f, me, [s EXCEPT !.a = Plus(f, @, t)], t)
TakeInput(f, me, p) == [UseMask(p, f, me) EXCEPT !.stream = Tail(@)]

(* INPUT: the owner sends at once, the others wait for its message. *)
(* Without a number to read Input::start throws, but INPUT goes on with     *)
(* what was in x; the runs give enough numbers, here the thread would die. *)
InputOwner(me, p, in, r) ==
  LET f == in.f
  IN  IF p.stream = <<>> THEN Dies(p)
      ELSE SetS([TakeInput(f, me, p) EXCEPT !.said = Append(@, <<Told(f, me, p)>>)], f, r[1], OwnShare(f, me, p))
InputOther(me, p, in, r, t) ==
  LET f == in.f  q == in.n
  IN  [UseMask(SetS(p, f, r[1], adjust_mac(f, me, NextMask(me, p, f, q), t)), f, q) EXCEPT !.heard[q] = @ + 1]

(* Input::start: n_inputs masks, for the owner one message with all. *)
StartInputOwner(me, p, in) ==
  LET f == in.f
      One(s, i) == [p |-> TakeInput(f, me, s.p), shares |-> Append(s.shares, OwnShare(f, me, s.p)),
                    o |-> Append(s.o, Told(f, me, s.p))]
      all == FoldLeft(One, [p |-> p, shares |-> <<>>, o |-> <<>>], [i \in 1..in.n |-> i])
  IN  IF Len(p.stream) < in.n THEN Dies(p)
      ELSE [all.p EXCEPT !.shares[f][me] = all.shares, !.said = Append(@, all.o)]
StartInputOther(me, p, in) ==
  LET f == in.f
      q == in.player
      One(s, i) == UseMask([s EXCEPT !.shares[f][q] = Append(@, NextMask(me, s, f, q))], f, q)
  IN  FoldLeft(One, [p EXCEPT !.shares[f][q] = <<>>], [i \in 1..in.n |-> i])

(* Input::stop: the shares go to the registers, the others adjust them. *)
StopInputOwner(me, p, in) ==
  LET Store(s, i) == SetS(s, in.f, in.start[i], p.shares[in.f][me][i])
  IN  FoldLeft(Store, p, [i \in 1..Len(in.start) |-> i])
StopInputOther(me, p, in, o) ==
  LET f == in.f  q == in.player
      Store(s, i) == SetS(s, f, in.start[i], adjust_mac(f, me, p.shares[f][q][i], o[i]))
  IN  [FoldLeft(Store, p, [i \in 1..Len(in.start) |-> i]) EXCEPT !.heard[q] = @ + 1]

(* Openings, of size registers from each of the list. *)
Spread(in) == [k \in 1..(Len(in.start) * in.size) |-> in.start[((k - 1) \div in.size) + 1] + ((k - 1) % in.size)]
POpen_Start(p, in) ==
  [p EXCEPT !.opens[in.f] = Append(@, [k \in DOMAIN Spread(in) |-> p.S[in.f][Spread(in)[k]].a])]
POpen_Stop(p, in, values) ==
  LET Store(s, k) == SetC(s, in.f, Spread(in)[k], values[k])
  IN  [FoldLeft(Store, p, [k \in DOMAIN Spread(in) |-> k]) EXCEPT !.opened[in.f] = @ + 1]

-----------------------------------------------------------------------------
(* Instruction::execute: the program counter first, then the elements of   *)
(* the vector in turn, with the registers moved on by one each time.       *)
VARIABLES prog,   \* the name of the program
          party   \* the state of every player
vars == <<prog, party>>

Local(me, p, in, r) ==
  CASE in.op \in LoadOps       -> LoadStore(me, p, in, r, in.n)
    [] in.op \in ArithmeticOps -> Arithmetic(me, p, in, r)
    [] in.op \in DivisionOps   -> Division(me, p, in, r, in.n)
    [] in.op \in ImmediateOps  -> Immediate(me, p, in, r, in.n)
    [] in.op \in TupleOps      -> NextTuple(me, p, in.f, in.op, r)
    [] in.op \in BitwiseOps    -> BitwiseExec(p, in, r, in.n)
    [] in.op \in ShiftOps      -> Shift(p, in, r, in.n)
    [] in.op \in BitOps        -> BitDecCom(p, in)
    [] in.op \in JumpOps       -> Jump(p, in)
    [] in.op \in IntOps        -> IntExec(p, in, r, in.n)
    [] in.op \in OutputOps     -> Output(me, p, in, r, in.n)
    [] in.op \in FileOps       -> FileExec(p, in, r)
    [] in.op \in PrivateOps    -> Private(me, p, in, r, in.n)
    [] in.op = "PUBINPUT"      -> [SetCi(p, r[1], Head(p.public_input)) EXCEPT !.public_input = Tail(@)]

Shifted(r, i) == [k \in 1..3 |-> r[k] + i]
Vector(p, in, Step(_, _)) ==
  LET Element(s, i) == IF s.died THEN s ELSE Step(s, Shifted(in.r, i))
  IN  FoldLeft(Element, [p EXCEPT !.PC = @ + 1, !.steps = @ + 1], [i \in 1..in.size |-> i - 1])
Once(p) == [p EXCEPT !.PC = @ + 1, !.steps = @ + 1]

Program == Programs[prog]
Running(me) == party[me].PC < Len(Program) /\ ~ party[me].died
Instr(me) == Program[party[me].PC + 1]
At(me, ops) == Running(me) /\ Instr(me).op \in ops
Becomes(me, p) == party' = [party EXCEPT ![me] = p] /\ UNCHANGED prog

Talking == {"INPUT", "STARTINPUT", "STOPINPUT", "STARTOPEN", "STOPOPEN"}
Execute(me) ==
  /\ Running(me) /\ Instr(me).op \notin Talking
  /\ LET in == Instr(me)
         Step(s, r) == Local(me, s, in, r)
         whole == in.op \in BitOps
     IN  Becomes(me, IF whole THEN BitDecCom(Once(party[me]), in) ELSE Vector(party[me], in, Step))

(* INPUT on a vector sends one message for each element. *)
InputNow(me) ==
  /\ At(me, {"INPUT"})
  /\ LET in == Instr(me)
         q  == in.n
         Own(s, r)  == InputOwner(me, s, in, r)
         Hear(s, r) == InputOther(me, s, in, r, party[q].said[s.heard[q] + 1][1])
     IN  \/ me = q /\ Becomes(me, Vector(party[me], in, Own))
         \/ /\ me # q /\ Len(party[q].said) >= party[me].heard[q] + in.size
            /\ Becomes(me, Vector(party[me], in, Hear))

StartInput(me) ==
  /\ At(me, {"STARTINPUT"})
  /\ LET in == Instr(me)
     IN  Becomes(me, IF me = in.player THEN StartInputOwner(me, Once(party[me]), in)
                     ELSE StartInputOther(me, Once(party[me]), in))

StopInput(me) ==
  /\ At(me, {"STOPINPUT"})
  /\ LET in == Instr(me)
         q  == in.player
     IN  \/ me = q /\ Becomes(me, StopInputOwner(me, Once(party[me]), in))
         \/ /\ me # q /\ Len(party[q].said) > party[me].heard[q]
            /\ Becomes(me, StopInputOther(me, Once(party[me]), in, party[q].said[party[me].heard[q] + 1]))

StartOpen(me) == At(me, {"STARTOPEN"}) /\ Becomes(me, POpen_Start(Once(party[me]), Instr(me)))

StopOpen(me) ==
  /\ At(me, {"STOPOPEN"})
  /\ LET in == Instr(me)
         k  == party[me].opened[in.f] + 1
         Sum(j) == LET Of(q) == party[q].opens[in.f][k][j] IN SumOver(in.f, Player, Of)
     IN  /\ \A q \in Player : Len(party[q].opens[in.f]) >= k
         /\ Becomes(me, POpen_Stop(Once(party[me]), in, [j \in DOMAIN Spread(in) |-> Sum(j)]))

Init == \E pr \in DOMAIN Programs, typed \in Inputs :
          prog = pr /\ party = [i \in Player |-> NewParty(typed[i])]

Step(me) == Execute(me) \/ InputNow(me) \/ StartInput(me) \/ StopInput(me) \/ StartOpen(me) \/ StopOpen(me)
Ended(me) == party[me].PC >= Len(Program) \/ party[me].died

(* The end of all tapes: any other state without a step is a deadlock. *)
Done == (\A me \in Player : Ended(me)) /\ UNCHANGED vars

Next == Done \/ \E me \in Player : Step(me)
Spec == Init /\ [][Next]_vars /\ \A me \in Player : WF_vars(Step(me))
=============================================================================
