----------------------------- MODULE MCProcessor -----------------------------
(* Two or three players, numbers modulo 11, words of four bits; programs   *)
(* that use every instruction of the model, on registers and on vectors.   *)
EXTENDS Emulator

MCAlpha == [f \in {"p", "2"} |-> IF f = "p" THEN 4 ELSE {1}]
MCRand == <<13, 6, 9, 2>>
MCPublicInput == <<3, 1>>
MCTyped == {[i \in 0..(NPlayers - 1) |-> IF i = 0 THEN <<5, 2, 1, 4>> ELSE t] : t \in {<<3, 10, 0, 6>>, <<0, 7, 9, 1>>}}

(* Products and squares of inputs, compared with those of the opened ones. *)
Mults(f) ==
  <<I("INPUT", f, <<0, 0, 0>>, 0), I("INPUT", f, <<1, 0, 0>>, 1)>> \o muls(f, 2, 0, 1, 4, 4)
  \o asm_open(f, 0, 2) \o <<L("STARTOPEN", f, <<0, 0, 0>>, 0, <<0, 1>>), L("STOPOPEN", f, <<0, 0, 0>>, 0, <<1, 2>>),
     R("MULC", f, 3, 1, 2), R("SUBC", f, 10, 0, 3)>>
  \o sqrs(f, 3, 1, 4, 4) \o asm_open(f, 0, 3) \o <<R("MULC", f, 3, 2, 2), R("SUBC", f, 11, 0, 3)>>

BitMults ==
  <<V("BIT", "2", <<0, 0, 0>>, 0, 2)>> \o g2muls(2, 0, 1, 4, 4)
  \o <<L("STARTOPEN", "2", <<0, 0, 0>>, 0, <<0, 1, 2>>), L("STOPOPEN", "2", <<0, 0, 0>>, 0, <<0, 1, 2>>),
       R("MULC", "2", 3, 0, 1), R("SUBC", "2", 10, 2, 3),
       R("BITGF2NTRIPLE", "2", 4, 5, 6), L("STARTOPEN", "2", <<0, 0, 0>>, 0, <<4, 5, 6>>),
       L("STOPOPEN", "2", <<0, 0, 0>>, 0, <<4, 5, 6>>), R("MULBITC", "2", 7, 4, 5), R("SUBC", "2", 11, 6, 7)>>

(* Vectors of shared and clear values, with memory and immediates. *)
Vectors(f) ==
  <<V("LDI", f, <<0, 0, 0>>, 7, 3), V("LDSI", f, <<0, 0, 0>>, -4, 2), V("INPUT", f, <<2, 0, 0>>, 1, 2),
    V("ADDM", f, <<4, 2, 0>>, 0, 2), V("SUBML", f, <<6, 4, 1>>, 0, 2), V("SUBMR", f, <<8, 0, 6>>, 0, 2),
    V("SUBS", f, <<4, 8, 2>>, 0, 2), V("ADDSI", f, <<6, 4, 0>>, 5, 2), V("SUBSI", f, <<8, 6, 0>>, 9, 2),
    V("SUBSFI", f, <<2, 8, 0>>, 6, 2), V("MULSI", f, <<4, 2, 0>>, 3, 2), V("MULM", f, <<6, 4, 1>>, 0, 2),
    V("STMS", f, <<6, 0, 0>>, 1, 2), V("LDMS", f, <<8, 0, 0>>, 0, 3), V("MOVS", f, <<2, 8, 0>>, 0, 2),
    [L("STARTOPEN", f, <<0, 0, 0>>, 0, <<2, 8>>) EXCEPT !.size = 2],
    [L("STOPOPEN", f, <<0, 0, 0>>, 0, <<3, 0>>) EXCEPT !.size = 2],
    V("STMC", f, <<3, 0, 0>>, 1, 2), V("LDMC", f, <<5, 0, 0>>, 0, 3), V("ADDC", f, <<7, 3, 5>>, 0, 2),
    I("INV", f, <<0, 1, 0>>, 0), V("SQUARE", f, <<2, 4, 0>>, 0, 2), V("TRIPLE", f, <<5, 7, 9>>, 0, 2)>>

(* Clear arithmetic of the prime field. *)
ClearP ==
  <<I("LDI", "p", <<0, 0, 0>>, 6), I("LDI", "p", <<1, 0, 0>>, -3), I("LDI", "p", <<2, 0, 0>>, 3),
    R("DIVC", "p", 3, 0, 1), R("MODC", "p", 4, 0, 2), I("ADDCI", "p", <<3, 3, 0>>, 9), I("SUBCI", "p", <<4, 3, 0>>, 7),
    I("SUBCFI", "p", <<5, 4, 0>>, 2), I("MULCI", "p", <<6, 5, 0>>, -2), I("DIVCI", "p", <<7, 6, 0>>, 4),
    I("MODCI", "p", <<8, 1, 0>>, 5), R("ANDC", "p", 3, 0, 1), R("ORC", "p", 4, 1, 2), R("XORC", "p", 5, 0, 1),
    I("ANDCI", "p", <<6, 1, 0>>, 5), I("ORCI", "p", <<7, 0, 0>>, 5), I("XORCI", "p", <<8, 0, 0>>, 9),
    I("NOTC", "p", <<9, 0, 0>>, 4), R("SHLC", "p", 3, 0, 2), R("SHRC", "p", 4, 1, 2), I("SHLCI", "p", <<5, 1, 0>>, 5),
    I("SHRCI", "p", <<6, 1, 0>>, 1), I("LEGENDREC", "p", <<7, 0, 0>>, 0), I("LEGENDREC", "p", <<8, 1, 0>>, 0),
    I("DIGESTC", "p", <<9, 1, 0>>, 1), R("MOVC", "p", 10, 9, 0)>>

Clear2 ==
  <<I("LDI", "2", <<0, 0, 0>>, 13), I("LDI", "2", <<1, 0, 0>>, 6), R("DIVC", "2", 3, 0, 1), I("DIVCI", "2", <<4, 1, 0>>, 9),
    R("ANDC", "2", 5, 0, 1), R("ORC", "2", 6, 0, 1), R("XORC", "2", 7, 0, 1), I("ANDCI", "2", <<3, 0, 0>>, 5),
    I("ORCI", "2", <<4, 1, 0>>, 9), I("XORCI", "2", <<5, 1, 0>>, 3), I("NOTC", "2", <<6, 0, 0>>, 0),
    I("SHLCI", "2", <<7, 0, 0>>, 2), I("SHRCI", "2", <<8, 0, 0>>, 2), I("SUBCFI", "2", <<9, 0, 0>>, 7),
    L("BITDEC", "2", <<0, 0, 0>>, 2, <<3, 4>>), L("BITCOM", "2", <<5, 0, 0>>, 1, <<3, 4, 4>>),
    R("CONVGF2N", "2", 0, 5, 0), R("CONVINT", "2", 6, 0, 0)>>

(* A loop that counts down, jumps, integers, the stack, memory by register.*)
Control ==
  <<I("LDINT", "p", <<0, 0, 0>>, 3), I("LDINT", "p", <<1, 0, 0>>, 1), I("LDINT", "p", <<2, 0, 0>>, -7),
    R("SUBINT", "p", 0, 0, 1), R("MULINT", "p", 2, 2, 0), I("PUSHINT", "p", <<0, 0, 0>>, 0),
    I("JMPNZ", "p", <<0, 0, 0>>, -4), I("JMPEQZ", "p", <<0, 0, 0>>, 1), I("CRASH", "p", <<0, 0, 0>>, 0),
    I("JMP", "p", <<0, 0, 0>>, 1), I("CRASH", "p", <<0, 0, 0>>, 0), I("JMPI", "p", <<1, 0, 0>>, 0),
    I("CRASH", "p", <<0, 0, 0>>, 0), I("JMPEQZ", "p", <<1, 0, 0>>, -3), I("LDINT", "p", <<2, 0, 0>>, -7), I("LDINT", "p", <<3, 0, 0>>, 2),
    R("DIVINT", "p", 4, 2, 3), R("ADDINT", "p", 5, 4, 3), R("LTC", "p", 6, 2, 3), R("GTC", "p", 7, 2, 3), R("EQC", "p", 8, 2, 2),
    R("EQZC", "p", 9, 0, 0), R("LTZC", "p", 10, 2, 0), I("POPINT", "p", <<11, 0, 0>>, 0), I("STMINT", "p", <<2, 0, 0>>, 2),
    R("LDMINTI", "p", 5, 3, 0), R("STMINTI", "p", 4, 1, 0), I("LDMINT", "p", <<6, 0, 0>>, 1), R("MOVINT", "p", 7, 6, 0),
    R("CONVINT", "p", 0, 2, 0), I("CONVMODP", "p", <<4, 0, 0>>, 8), R("STMCI", "p", 0, 3, 0), R("LDMCI", "p", 1, 3, 0),
    I("LDSI", "p", <<0, 0, 0>>, 5), R("STMSI", "p", 0, 1, 0), R("LDMSI", "p", 1, 1, 0), R("RAND", "p", 5, 3, 0), R("PUBINPUT", "p", 6, 0, 0),
    R("STARG", "p", 6, 0, 0), R("LDARG", "p", 7, 0, 0), R("LDTN", "p", 8, 0, 0), R("RAND", "p", 9, 3, 0)>>

(* Inputs of both players in batches, outputs, files. *)
Outputs(f) ==
  <<[I("STARTINPUT", f, <<0, 0, 0>>, 2) EXCEPT !.player = 0], [I("STARTINPUT", f, <<0, 0, 0>>, 1) EXCEPT !.player = 1],
    [L("STOPINPUT", f, <<0, 0, 0>>, 0, <<0, 1>>) EXCEPT !.player = 0], [L("STOPINPUT", f, <<0, 0, 0>>, 0, <<2>>) EXCEPT !.player = 1],
    I("INPUTMASK", f, <<3, 0, 0>>, 1), I("STARTPRIVATEOUTPUT", f, <<4, 0, 0>>, 1), I("STARTPRIVATEOUTPUT", f, <<5, 2, 0>>, 1),
    I("STARTPRIVATEOUTPUT", f, <<6, 1, 0>>, 0), L("STARTOPEN", f, <<0, 0, 0>>, 0, <<4, 5, 6>>),
    L("STOPOPEN", f, <<0, 0, 0>>, 0, <<4, 5, 6>>), I("STOPPRIVATEOUTPUT", f, <<4, 0, 0>>, 1),
    I("STOPPRIVATEOUTPUT", f, <<5, 0, 0>>, 1), I("STOPPRIVATEOUTPUT", f, <<6, 0, 0>>, 0), I("RAWOUTPUT", f, <<5, 0, 0>>, 0),
    I("STMC", f, <<6, 0, 0>>, 2), I("PRINTMEM", f, <<2, 0, 0>>, 0), I("PRINTREG", f, <<4, 0, 0>>, 0),
    I("PRINTCHR", f, <<0, 0, 0>>, 10), I("PRINTINT", f, <<0, 0, 0>>, 0)>>

Files ==
  <<I("LDINT", "p", <<0, 0, 0>>, 0), L("READFILESHARE", "p", <<0, 1, 0>>, 0, <<3>>), I("INPUT", "p", <<0, 0, 0>>, 1),
    I("BIT", "p", <<1, 0, 0>>, 0), L("WRITEFILESHARE", "p", <<0, 0, 0>>, 0, <<0, 1>>), L("WRITEFILESHARE", "p", <<0, 0, 0>>, 0, <<1>>),
    L("READFILESHARE", "p", <<0, 1, 0>>, 0, <<4, 5>>), L("READFILESHARE", "p", <<1, 2, 0>>, 0, <<6>>)>>
  \o asm_open("p", 0, 4) \o <<I("LDI", "p", <<1, 0, 0>>, 8), I("LDI", "p", <<2, 0, 0>>, 0), I("LDI", "p", <<3, 0, 0>>, 1),
    L("PRINTFLOATPLAIN", "p", <<0, 0, 0>>, 0, <<0, 1, 2, 3>>), I("LDINT", "p", <<0, 0, 0>>, 2), L("READFILESHARE", "p", <<0, 1, 0>>, 0, <<4, 5>>)>>

(* An input is opened and divides: when it is zero every party ends. *)
Dies1 == <<I("INPUT", "p", <<0, 0, 0>>, 1), I("LDI", "p", <<1, 0, 0>>, 6)>> \o asm_open("p", 0, 0)
         \o <<R("DIVC", "p", 2, 1, 0), I("INPUT", "p", <<1, 0, 0>>, 0)>> \o asm_open("p", 3, 1)

MCPrograms == [pr \in {"mults", "mults2", "bits", "vectors", "vectors2", "clear", "clear2", "control", "outputs",
                       "outputs2", "files", "dies"} |->
  CASE pr = "mults" -> Mults("p") [] pr = "mults2" -> Mults("2") [] pr = "bits" -> BitMults
    [] pr = "vectors" -> Vectors("p") [] pr = "vectors2" -> Vectors("2") [] pr = "clear" -> ClearP
    [] pr = "clear2" -> Clear2 [] pr = "control" -> Control [] pr = "outputs" -> Outputs("p")
    [] pr = "outputs2" -> Outputs("2") [] pr = "files" -> Files [] pr = "dies" -> Dies1]
MCDifferences == [pr \in DOMAIN MCPrograms |->
  CASE pr = "mults" -> {<<"p", 10>>, <<"p", 11>>} [] pr = "mults2" -> {<<"2", 10>>, <<"2", 11>>}
    [] pr = "bits" -> {<<"2", 10>>, <<"2", 11>>} [] OTHER -> {}]
=============================================================================
