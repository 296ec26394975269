------------------------------- MODULE Compiled -------------------------------
(***************************************************************************)
(* A tape is written statement by statement; whatever has been written is  *)
(* optimised with every set of options and run, beside the tape as it was  *)
(* written.  The machine computes with terms, but for the integers, which  *)
(* decide the jumps.                                                       *)
(***************************************************************************)
EXTENDS Optimizer

CONSTANTS Menus,    \* what programs begin with, the statements they go on with and how many, the sets of options
          StoreTwice, \* whether programs store after a store with no load between them in the block
          MaxSteps  \* how many instructions a program runs

VARIABLES menu, tape, length
vars == <<menu, tape, length>>

(* The statement can be written: the registers it takes are there. *)
Vis(tp, t, k) == OfType(tp, t)[k]
Has(tp, t, k) == Len(OfType(tp, t)) >= k
Element(r) == [r EXCEPT !.k = r.size - 1]

CanWrite(tp, st) ==
  /\ st.kind \in {"calc", "open", "print", "public", "private", "store"} => Has(tp, st.t, st.a)
  /\ st.kind = "calc" => Has(tp, st.t, st.b)
  /\ st.kind \in {"if", "push"} => Has(tp, "ci", st.a)
  /\ st.kind \in {"storei", "loadi"} => Has(tp, "ci", st.b) /\ Has(tp, st.t, st.a)
  /\ st.kind = "end" => tp.open # <<>>
  /\ st.kind = "else" => tp.open # <<>> /\ Last(tp.open).kind = "if" /\ ~ Last(tp.open).has_else
  /\ st.kind = "private" => Vis(tp, st.t, st.a).size = 1
  /\ st.kind \in {"store", "storei"} /\ ~ StoreTwice =>
       LET memory == SelectSeq(tp.blocks[tp.active].ins, LAMBDA in : in.op \in ReadMemory \cup WriteMemory)
       IN  memory # <<>> => Last(memory).op \in ReadMemory

One(tp, st) == Element(Vis(tp, st.t, st.a))
Write(tp, st) ==
  CASE st.kind = "data"  -> [EmitDef(tp, [Instr("DATA", <<>>, <<>>) EXCEPT !.f = FieldOf(st.t), !.n = tp.regs], <<st.t>>, st.a) EXCEPT !.written = @ + 1]
    [] st.kind = "calc"  -> EmitDef(tp, Instr("CALC", <<>>, <<One(tp, st), Element(Vis(tp, st.t, st.b))>>), <<st.t>>, 1)
    [] st.kind = "open"  -> asm_open(tp, Vis(tp, st.t, st.a))
    [] st.kind = "print" -> Emit(tp, Instr("PRINT", <<>>, <<One(tp, st)>>))
    [] st.kind = "public" -> Emit(tp, Instr("RAWOUTPUT", <<>>, <<One(tp, st)>>))
    [] st.kind = "private" -> reveal_to(tp, Vis(tp, st.t, st.a), st.b)
    [] st.kind = "input" -> input_from(tp, st.t, st.b)
    [] st.kind = "store" -> Emit(tp, [Instr("STORE", <<>>, <<One(tp, st)>>) EXCEPT !.n = st.b])
    [] st.kind = "load"  -> EmitDef(tp, [Instr("LOAD", <<>>, <<>>) EXCEPT !.n = st.b], <<st.t>>, 1)
    [] st.kind = "storei" -> Emit(tp, Instr("STOREI", <<>>, <<One(tp, st), Vis(tp, "ci", st.b)>>))
    [] st.kind = "loadi" -> EmitDef(tp, Instr("LOADI", <<>>, <<Vis(tp, "ci", st.b)>>), <<st.t>>, 1)
    [] st.kind = "int"   -> ldint(tp, st.a)
    [] st.kind = "push"  -> pushint(tp, Vis(tp, "ci", st.a))
    [] st.kind = "pop"   -> popint(tp)
    [] st.kind = "loop"  -> begin_loop(tp, st.a, st.b)
    [] st.kind = "if"    -> if_then(tp, Vis(tp, "ci", st.a))
    [] st.kind = "else"  -> else_then(tp)
    [] st.kind = "end"   -> IF Last(tp.open).kind = "if" THEN end_if(tp) ELSE end_loop(tp)

Init == /\ menu \in Menus
        /\ tape = Fold(Write, Tape, menu.start)
        /\ length = 0
Next == /\ length < menu.length
        /\ \E st \in menu.statements : CanWrite(tape, st) /\ tape' = Write(tape, st)
        /\ length' = length + 1
        /\ UNCHANGED menu
Spec == Init /\ [][Next]_vars

(* What is still open is closed at the end. *)
RECURSIVE ClosedTape(_)
ClosedTape(tp) == IF tp.open = <<>> THEN tp ELSE ClosedTape(Write(tp, [kind |-> "end"]))

-----------------------------------------------------------------------------
(* The machine that runs the code.  One opening of a field and one batch   *)
(* of inputs of a player wait at a time, and none while another is begun   *)
(* by the others: jammed says that this went wrong.                        *)
Started == [pc |-> 0, reg |-> <<>>, mem |-> <<>>, stack |-> <<>>, opening |-> [f \in {"p", "2"} |-> <<>>], typed |-> <<>>,
          inputs |-> <<>>, masks |-> <<>>, masked |-> 0, printed |-> <<>>, public |-> <<>>, private |-> <<>>, data |-> 0,
          jammed |-> FALSE]

Value1(m, r, e) == Get(m.reg, <<r[1], r[2] + e>>, <<"unset">>)
Values(m, in) == FlattenSeq([k \in DOMAIN in.use |-> Listed([e \in 1..in.size |-> Value1(m, in.use[k], e - 1)])])
Places(in) == FlattenSeq([k \in DOMAIN in.def |-> Listed([e \in 1..in.size |-> <<in.def[k][1], in.def[k][2] + e - 1>>])])
Assign(m, in, values) ==
  LET places == Places(in) IN
  IF Len(values) # Len(places) THEN [m EXCEPT !.jammed = TRUE]
  ELSE [m EXCEPT !.reg = [p \in Range(places) |-> values[CHOOSE k \in DOMAIN places : places[k] = p]] @@ @]

Known(vs) == \A k \in DOMAIN vs : vs[k][1] = "int"
Computes(m, in, v) ==
  CASE in.op = "CALC" -> Assign(m, in, <<<<"calc", v>>>>)
    [] in.op = "DATA" -> [Assign(m, in, [e \in 1..in.size |-> <<"data", in.n, e>>]) EXCEPT !.data = @ + in.size]
    [] in.op = "LDINT" -> Assign(m, in, <<<<"int", in.n>>>>)
    [] in.op = "ADDINT" -> Assign(m, in, <<IF Known(v) THEN <<"int", v[1][2] + v[2][2]>> ELSE <<"unset">>>>)
    [] in.op = "LTC"    -> Assign(m, in, <<IF Known(v) THEN <<"int", IF v[1][2] < v[2][2] THEN 1 ELSE 0>> ELSE <<"unset">>>>)
    [] in.op = "LOAD"   -> Assign(m, in, <<Get(m.mem, <<in.def[1][1], in.n>>, <<"empty">>)>>)
    [] in.op = "LOADI"  -> IF ~ Known(v) THEN [m EXCEPT !.jammed = TRUE]
                           ELSE Assign(m, in, <<Get(m.mem, <<in.def[1][1], v[1][2]>>, <<"empty">>)>>)
    [] in.op = "STORE"  -> [m EXCEPT !.mem = (<<in.use[1][1], in.n>> :> v[1]) @@ @]
    [] in.op = "STOREI" -> IF v[2][1] # "int" THEN [m EXCEPT !.jammed = TRUE]
                           ELSE [m EXCEPT !.mem = (<<in.use[1][1], v[2][2]>> :> v[1]) @@ @]
    [] in.op = "PUSHINT" -> [m EXCEPT !.stack = Append(@, v[1])]
    [] in.op = "POPINT" -> IF m.stack = <<>> THEN [m EXCEPT !.jammed = TRUE]
                           ELSE [Assign(m, in, <<Last(m.stack)>>) EXCEPT !.stack = Front(@)]
Talks(m, in, v) ==
  LET waiting == Get(m.inputs, <<in.f, in.player>>, <<>>)
      opens   == \E f \in {"p", "2"} : m.opening[f] # <<>>
      count   == Get(m.typed, in.player, 0)
  IN  CASE in.op = "PRINT"     -> [m EXCEPT !.printed = Append(@, v[1])]
        [] in.op = "RAWOUTPUT" -> [m EXCEPT !.public = Append(@, v[1])]
        [] in.op = "STARTOPEN" -> [m EXCEPT !.opening[in.f] = v,
                                     !.jammed = @ \/ m.opening[in.f] # <<>> \/ \E k \in DOMAIN m.inputs : m.inputs[k] # <<>>]
        [] in.op = "STOPOPEN"  -> [Assign(m, in, Listed([k \in DOMAIN m.opening[in.f] |-> <<"open", m.opening[in.f][k]>>]))
                                     EXCEPT !.opening[in.f] = <<>>]
        [] in.op = "STARTINPUT" -> [m EXCEPT !.inputs = (<<in.f, in.player>> :> Listed([k \in 1..in.n |-> <<"typed", in.player, count + k>>])) @@ @,
                                     !.typed = (in.player :> count + in.n) @@ @, !.jammed = @ \/ opens \/ waiting # <<>>]
        [] in.op = "STOPINPUT" -> [Assign(m, in, waiting) EXCEPT !.inputs = (<<in.f, in.player>> :> <<>>) @@ @]
        [] in.op = "STARTPRIVATE" -> [Assign(m, in, <<<<"masked", v[1]>>>>) EXCEPT !.masks = (in.player :> Append(Get(@, in.player, <<>>), v[1])) @@ @]
        [] in.op = "STOPPRIVATE" ->
             LET masks == Get(m.masks, in.player, <<>>) IN
             IF masks = <<>> THEN [m EXCEPT !.jammed = TRUE]
             ELSE [m EXCEPT !.private = (in.player :> Append(Get(@, in.player, <<>>), <<v[1], Head(masks)>>)) @@ @,
                            !.masks[in.player] = Tail(@)]
Jumps(m, in, v) ==
  LET taken == \/ in.op = "JMP"
               \/ in.op = "JMPNZ"  /\ v[1] # <<"int", 0>>
               \/ in.op = "JMPEQZ" /\ v[1] = <<"int", 0>>
  IN  [m EXCEPT !.pc = IF taken THEN @ + in.n ELSE @, !.jammed = @ \/ ~ Known(v)]

Talking == {"PRINT", "RAWOUTPUT", "STARTOPEN", "STOPOPEN", "STARTINPUT", "STOPINPUT", "STARTPRIVATE", "STOPPRIVATE"}
ExecuteWith(m, in, v) ==
  IF in.op \in {"JMP", "JMPNZ", "JMPEQZ"} THEN Jumps(m, in, v)
  ELSE IF in.op \in Talking THEN Talks(m, in, v) ELSE Computes(m, in, v)
Execute(m, in) == ExecuteWith([m EXCEPT !.pc = @ + 1], in, Values(m, in))
RECURSIVE RunOn(_, _, _)
RunOn(m, code, k) ==
  IF k = 0 \/ m.pc >= Len(code) \/ m.jammed THEN m ELSE RunOn(Execute(m, code[m.pc + 1]), code, k - 1)
Outcome(end, code) ==
  [mem |-> end.mem, printed |-> end.printed, public |-> end.public, private |-> end.private, typed |-> end.typed,
   jammed |-> end.jammed, stopped |-> end.pc >= Len(code), data |-> end.data, stack |-> end.stack]
Run(code) == Outcome(RunOn(Started, code, MaxSteps), code)

-----------------------------------------------------------------------------
Same(a, b) == /\ a.mem = b.mem /\ a.printed = b.printed /\ a.public = b.public /\ a.private = b.private /\ a.typed = b.typed
              /\ ~ b.jammed /\ b.stopped
Keeps(meant, o) == ~ o.broken /\ (~ o.fails => Same(meant, Run(o.code)))
AllKeep(tp, meant) == ~ meant.jammed /\ meant.stopped => \A opt \in menu.options : Keeps(meant, Optimized(tp, opt))
RunsKeep(tp) == AllKeep(tp, Run(Unoptimized(tp)))

(* Whatever the options, the optimised program stores, prints and outputs  *)
(* what the written one does, in the same order, and never begins to open  *)
(* while an opening or an input is under way (allocator.py:344). *)
OptimisationsPreserveMeaning == RunsKeep(ClosedTape(tape))

Suffices(o) == ~ o.fails => Run(o.code).data <= o.data
AllSuffice(tp) == \A opt \in menu.options : Suffices(Optimized(tp, opt))

(* A run takes no more preprocessed data than the tape declares            *)
(* (program.py:756). *)
EnoughDataDeclared == AllSuffice(ClosedTape(tape))
=============================================================================
