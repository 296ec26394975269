------------------------------ MODULE Optimizer ------------------------------
(***************************************************************************)
(* How a program writes a tape: src/Compiler/program.py and the control    *)
(* flow of src/Compiler/library.py.  A tape is a sequence of basic blocks, *)
(* a block a sequence of instructions on registers without end; a block's  *)
(* scope is the block whose registers it may read.  Instructions keep      *)
(* their kind, the registers they write and read, a number and a player;   *)
(* what they compute is left to Machine below.                             *)
(***************************************************************************)
EXTENDS Lists, FiniteSets, SequencesExt, FiniteSetsExt

(* A register is element k of the vector v of the type t. *)
Reg(t, v, size) == [t |-> t, v |-> v, k |-> 0, size |-> size]
Instr(op, def, use) == [op |-> op, f |-> "p", def |-> def, use |-> use, n |-> 0, player |-> 0, size |-> 1]
FieldOf(t)    == IF t \in {"sg", "cg"} THEN "2" ELSE "p"
ClearType(t)  == IF t = "sg" THEN "cg" ELSE "c"
get_def(in)   == Range(in.def)
get_used(in)  == Range(in.use)
Elements(in, r) == IF in.size > 1 THEN {[r EXCEPT !.k = j] : j \in 0..(r.size - 1)} ELSE {r}
Written(in) == UNION {Elements(in, r) : r \in get_def(in)}
Used(in)    == UNION {Elements(in, r) : r \in get_used(in)}

ReadMemory   == {"LOAD", "LOADI"}
WriteMemory  == {"STORE", "STOREI"}
IOInstruction == {"PRINT", "INPUT"}
PublicFileIO == {"RAWOUTPUT", "PUBINPUT"}
RawInput     == {"STARTINPUT", "STOPINPUT"}
Stack        == {"PUSHINT", "POPINT"}
DoNotEliminate == IOInstruction \cup PublicFileIO \cup RawInput

-----------------------------------------------------------------------------
(* Tape: the open statements are those of if_states and of the callers of  *)
(* do_while; a node of the tree of requirements has blocks and children, a *)
(* child has an aggregator and nodes. *)
BasicBlock(scope, pool) ==
  [ins |-> <<>>, scope |-> scope, pool |-> pool, exit |-> <<>>, exit_block |-> 0]
Tape == [blocks |-> <<BasicBlock(0, 1)>>, active |-> 1, regs |-> 0, written |-> 0, open |-> <<>>,
         node |-> 1, nodes |-> <<[blocks |-> <<1>>, children |-> <<>>]>>, children |-> <<>>]

start_new_basicblock(tp, scope) ==
  LET b == Len(tp.blocks) + 1 IN
  [tp EXCEPT !.blocks = Append(@, BasicBlock(scope, tp.blocks[scope].pool)), !.active = b,
             !.nodes[tp.node].blocks = Append(@, b)]
add_node(tp, child) ==
  [tp EXCEPT !.nodes = Append(@, [blocks |-> <<>>, children |-> <<>>]), !.node = Len(tp.nodes) + 1,
             !.children[child].nodes = Append(@, Len(tp.nodes) + 1)]
open_scope(tp, aggregator) ==
  LET child == Len(tp.children) + 1
      opened == [tp EXCEPT !.children = Append(@, [aggregator |-> aggregator, nodes |-> <<>>]),
                           !.nodes[tp.node].children = Append(@, child)]
  IN  start_new_basicblock(add_node(opened, child), tp.active)
close_scope(tp, outer, parent) == start_new_basicblock([tp EXCEPT !.node = parent], outer)

set_exit(tp, b, in, to) == [tp EXCEPT !.blocks[b].exit = <<in>>, !.blocks[b].exit_block = to]

(* The registers written in the block and in the scopes around it, the     *)
(* newest first. *)
RECURSIVE InScope(_, _)
InScope(tp, b) ==
  IF b = 0 THEN <<>> ELSE Reverse(FlattenSeq([i \in DOMAIN tp.blocks[b].ins |-> tp.blocks[b].ins[i].def])) \o InScope(tp, tp.blocks[b].scope)
OfType(tp, t) == LET Is(r) == r.t = t IN SelectSeq(InScope(tp, tp.active), Is)

Emit(tp, in)  == [tp EXCEPT !.blocks[tp.active].ins = Append(@, in)]
(* An instruction that writes new registers of these types. *)
EmitDef(tp, in, types, size) ==
  LET def == Listed([j \in DOMAIN types |-> Reg(types[j], tp.regs + j, size)])
  IN  [Emit(tp, [in EXCEPT !.def = def, !.size = size]) EXCEPT !.regs = @ + Len(types)]
NewReg(tp) == Last(Last(tp.blocks[tp.active].ins).def)

-----------------------------------------------------------------------------
(* The library's statements. *)
start_open(tp, s) == Emit(tp, [Instr("STARTOPEN", <<>>, <<s>>) EXCEPT !.f = FieldOf(s.t), !.size = s.size])
asm_open(tp, s) ==
  EmitDef(start_open(tp, s), [Instr("STOPOPEN", <<>>, <<>>) EXCEPT !.f = FieldOf(s.t)], <<ClearType(s.t)>>, s.size)

start_input(tp, t, player) ==
  Emit(tp, [Instr("STARTINPUT", <<>>, <<>>) EXCEPT !.f = FieldOf(t), !.player = player, !.n = 1])
input_from(tp, t, player) ==
  EmitDef(start_input(tp, t, player), [Instr("STOPINPUT", <<>>, <<>>) EXCEPT !.f = FieldOf(t), !.player = player], <<t>>, 1)

open_new(tp) == asm_open(tp, NewReg(tp))
stop_private(tp, player) == Emit(tp, [Instr("STOPPRIVATE", <<>>, <<NewReg(tp)>>) EXCEPT !.player = player])
reveal_to(tp, s, player) ==
  stop_private(open_new(EmitDef(tp, [Instr("STARTPRIVATE", <<>>, <<s>>) EXCEPT !.player = player], <<s.t>>, 1)), player)

(* range_loop from 0 to n: the counter goes through the integer stack.     *)
ldint(tp, n) == EmitDef(tp, [Instr("LDINT", <<>>, <<>>) EXCEPT !.n = n], <<"ci">>, 1)
pushint(tp, r) == Emit(tp, Instr("PUSHINT", <<>>, <<r>>))
popint(tp)   == EmitDef(tp, Instr("POPINT", <<>>, <<>>), <<"ci">>, 1)
IntOp(tp, op, x, y) == EmitDef(tp, Instr(op, <<>>, <<x, y>>), <<"ci">>, 1)

push_new(tp) == pushint(tp, NewReg(tp))
WithNew(tp, op, x) == IntOp(tp, op, x, NewReg(tp))

EnterLoop(tp, outer, n, step) ==
  [tp EXCEPT !.open = Append(@, [kind |-> "loop", scope |-> outer.active, parent |-> outer.node, block |-> tp.active,
                                 i |-> NewReg(tp), n |-> n, step |-> step])]
begin_loop(tp, n, step) == EnterLoop(popint(open_scope(push_new(ldint(tp, 0)), <<"times", n \div step>>)), tp, n, step)

(* The counter goes on, is pushed and compared, and popped after the loop. *)
NextRound(tp, s) == WithNew(ldint(push_new(tp), s.n), "LTC", NewReg(tp))
LeaveLoop(tp, s) ==
  popint(close_scope([set_exit(tp, tp.active, Instr("JMPNZ", <<>>, <<NewReg(tp)>>), s.block) EXCEPT !.open = Front(@)], s.scope, s.parent))
end_loop(tp) ==
  LET s == Last(tp.open) IN LeaveLoop(NextRound(WithNew(ldint(tp, s.step), "ADDINT", s.i), s), s)

(* Slip: only the first branch counts. *)
if_thenFirst(tp, condition) ==
  [open_scope(tp, <<"times", 1>>) EXCEPT !.open = Append(@, [kind |-> "if", condition |-> condition, start_block |-> tp.active,
     parent |-> tp.node, child |-> Len(tp.children) + 1, has_else |-> FALSE, else_block |-> 0, if_exit_block |-> 0])]
if_then(tp, condition) ==
  [open_scope(tp, <<"max">>) EXCEPT !.open = Append(@, [kind |-> "if", condition |-> condition, start_block |-> tp.active,
     parent |-> tp.node, child |-> Len(tp.children) + 1, has_else |-> FALSE, else_block |-> 0, if_exit_block |-> 0])]
BeginElse(tp, outer, s) ==
  [tp EXCEPT !.open[Len(tp.open)] = [s EXCEPT !.has_else = TRUE, !.if_exit_block = outer.active, !.else_block = tp.active]]
else_then(tp) ==
  LET s == Last(tp.open) IN BeginElse(start_new_basicblock(add_node(tp, s.child), s.start_block), tp, s)
EndBranches(tp, s) ==
  IF s.has_else
  THEN set_exit(set_exit(tp, s.start_block, Instr("JMPEQZ", <<>>, <<s.condition>>), s.else_block),
                s.if_exit_block, Instr("JMP", <<>>, <<>>), tp.active)
  ELSE set_exit([tp EXCEPT !.children[s.child].aggregator = <<"times", 1>>],
                s.start_block, Instr("JMPEQZ", <<>>, <<s.condition>>), tp.active)
end_if(tp) ==
  LET s == Last(tp.open) IN EndBranches(close_scope([tp EXCEPT !.open = Front(@)], s.start_block, s.parent), s)

-----------------------------------------------------------------------------
(* ReqNode.aggregate: how many items of preprocessed data a tape asks for. *)
DataInstruction == {"DATA"}
RECURSIVE aggregate(_, _)
aggregate(tp, node) ==
  LET InBlock(b) == Fold(LAMBDA n, in : n + (IF in.op \in DataInstruction THEN in.size ELSE 0), 0, tp.blocks[b].ins)
      Nums(c)  == Listed([j \in DOMAIN tp.children[c].nodes |-> aggregate(tp, tp.children[c].nodes[j])])
      Child(c) == IF tp.children[c].aggregator[1] = "max" THEN Max(Range(Nums(c)))
                  ELSE tp.children[c].aggregator[2] * aggregate(tp, tp.children[c].nodes[1])
  IN  Fold(LAMBDA n, b : n + InBlock(b), 0, tp.nodes[node].blocks)
      + Fold(LAMBDA n, c : n + Child(c), 0, tp.nodes[node].children)
-----------------------------------------------------------------------------
(***************************************************************************)
(* What the compiler does to a tape that has been written: the merging of  *)
(* openings and inputs, the elimination of dead code, the jumps and the    *)
(* allocation of registers (src/Compiler/allocator.py, graph.py and        *)
(* Tape.optimize in program.py).  Nodes of a graph are the numbers of the  *)
(* instructions of a block, 0 stands for none.  Sets of numbers are gone   *)
(* through in their order, a free register is the least one.               *)
(***************************************************************************)

Get(f, k, default) == IF k \in DOMAIN f THEN f[k] ELSE default
PutNew(s, x) == IF x \in Range(s) THEN s ELSE Append(s, x)
MaxOf(x, y) == IF x > y THEN x ELSE y
Ordered(S) == SelectSeq(Listed([k \in 1..(Max(S \cup {0}) + 1) |-> k - 1]), LAMBDA k : k \in S)

-----------------------------------------------------------------------------
(* determine_scope: the registers a block reads from the scopes around it. *)
defined_registers(tp, b) == UNION {Written(in) : in \in Range(tp.blocks[b].ins)}
RECURSIVE find_in_scope(_, _, _)
find_in_scope(tp, r, b) == b # 0 /\ (r \in defined_registers(tp, b) \/ find_in_scope(tp, r, tp.blocks[b].scope))
used_from_scope(tp, b) ==
  LET ins == tp.blocks[b].ins
      Before(n) == UNION {Written(ins[m]) : m \in 1..(n - 1)}
  IN  {r \in UNION {Used(ins[n]) \ Before(n) : n \in DOMAIN ins} : find_in_scope(tp, r, tp.blocks[b].scope)}
(* The registers whose can_eliminate is false. *)
Kept(tp) == UNION {used_from_scope(tp, b) \cup UNION {get_used(in) : in \in Range(tp.blocks[b].exit)} : b \in DOMAIN tp.blocks}

-----------------------------------------------------------------------------
(* SparseDiGraph: a sequence of successors for every node. *)
Preds(succ, n) == {m \in DOMAIN succ : n \in Range(succ[m])}
remove_node(succ, n) == Listed([m \in DOMAIN succ |-> IF m = n THEN <<>> ELSE Remove(succ[m], n)])

RECURSIVE Explore(_, _, _, _)
Explore(succ, path, s, v) ==
  IF v \in Range(s.order) THEN s ELSE IF v \in path THEN [s EXCEPT !.cycle = TRUE]
  ELSE [Fold(LAMBDA q, w : Explore(succ, path \cup {v}, q, w), s, Reverse(succ[v])) EXCEPT !.order = Append(@, v)]
topological_sort(succ, nbunch) ==
  [Fold(LAMBDA s, v : Explore(succ, {}, s, v), [order |-> <<>>, cycle |-> FALSE], nbunch) EXCEPT !.order = Reverse(@)]

-----------------------------------------------------------------------------
(* Merger.dependency_graph. *)
add_edge(g, i, j) ==
  IF i = 0 THEN g
  ELSE [g EXCEPT !.succ[i] = PutNew(@, j), !.depths[j] = MaxOf(@, g.depths[i]), !.real_depths[j] = MaxOf(@, g.real_depths[i])]
Link(g, i, j) == IF i = 0 THEN g ELSE [g EXCEPT !.succ[i] = PutNew(@, j)]
add_edges(g, from, j) == Fold(LAMBDA q, i : add_edge(q, i, j), g, from)

keep_order(g, n, key) == [add_edge(g, Get(g.last, key, 0), n) EXCEPT !.last = (key :> n) @@ @]

(* A memory access is ordered after the last accesses of the other kind;   *)
(* those of its own kind are forgotten when one of the other came between. *)
Fresh(these, those, all) ==
  these # <<>> /\ those # <<>> /\ Last(these) < (IF all THEN Last(those) ELSE Head(those))
Accessed(g, n, kind, key, these, those) ==
  [add_edges(g, those, n) EXCEPT
     !.mem = (<<kind, key>> :> Append(IF Fresh(these, those, key = <<"all">>) THEN <<>> ELSE these, n)) @@ @]
Access(g, n, mine, other, key) ==
  Accessed(g, n, mine, key, Get(g.mem, <<mine, key>>, <<>>), Get(g.mem, <<other, key>>, <<>>))
Value(in) == IF in.op \in ReadMemory THEN in.def[1] ELSE in.use[1]
mem_access(g, n, in, mine, other, opt) ==
  IF opt.preserve_mem_order THEN Access(g, n, mine, other, <<"all">>)
  ELSE IF in.op \in {"LOAD", "STORE"}
       THEN Fold(LAMBDA q, i : Access(q, n, mine, other, <<in.n + i - 1, Value(in).t>>), g, [i \in 1..in.size |-> i])
       ELSE Access(g, n, mine, other, <<"by", Last(in.use), Value(in).t>>)

(* The first depth below that of n with less than max_parallel_open        *)
(* openings; no limit when it is 0. *)
Full(g, d, opt) == opt.max_parallel_open > 0 /\ Get(g.parallel, d, 0) >= opt.max_parallel_open
OpenDepth(g, d0, opt) ==
  CHOOSE d \in d0..(d0 + Len(g.succ)) : ~ Full(g, d, opt) /\ \A e \in d0..(d - 1) : Full(g, e, opt)

Order(g, n, in, opt) ==
  CASE in.op \in ReadMemory  -> mem_access(g, n, in, "read", "write", opt)
    [] in.op \in WriteMemory -> mem_access(g, n, in, "write", "read", opt)
    [] in.op \in IOInstruction -> keep_order(g, n, <<"print">>)
    [] in.op \in PublicFileIO  -> keep_order(g, n, <<in.op>>)
    [] in.op \in RawInput ->
         [add_edge(keep_order(g, n, <<in.op, in.f, in.player>>),
                   IF in.op = "STOPINPUT" THEN Get(g.last, <<"STARTINPUT", in.f, in.player>>, 0) ELSE 0, n)
            EXCEPT !.inputs = Append(@, n)]
    [] in.op \in {"STARTPRIVATE", "STOPPRIVATE"} -> keep_order(g, n, <<in.op, in.player>>)
    [] in.op \in Stack -> keep_order(g, n, <<"stack">>)
    [] OTHER -> g

Reads(g, n, in) == add_edges(g, Ordered({Get(g.def, r, 0) : r \in Used(in)}), n)
Writes(g, n, in) == [g EXCEPT !.def = [r \in Written(in) |-> n] @@ @]
StartsAt(g, n, in, depth) ==
  [g EXCEPT !.opens = @ \cup {n}, !.queue = Append(@, n), !.real_depths[n] = @ + 1, !.depths[n] = depth,
            !.parallel = (depth :> Get(@, depth, 0) + Len(in.use) * in.size) @@ @]
Starts(g, n, in, opt) ==
  IF in.op = "STARTOPEN" THEN StartsAt(g, n, in, OpenDepth(g, g.depths[n] + 1, opt)) ELSE g
Stops(g, n, in) ==
  IF in.op # "STOPOPEN" THEN g
  ELSE [add_edge(g, Head(g.queue), n) EXCEPT !.stop[Head(g.queue)] = n, !.start[n] = TRUE, !.queue = Tail(@)]
Sourced(g, n) == IF Preds(g.succ, n) = {} THEN [g EXCEPT !.sources = Append(@, n)] ELSE g
AddNode(g, n, in, opt) ==
  Sourced(Order(Stops(Starts(Writes(Reads(g, n, in), n, in), n, in, opt), n, in), n, in, opt), n)

Everywhere(ins, v) == Listed([n \in DOMAIN ins |-> v])
NoGraph(ins, none) ==
  [succ |-> Everywhere(ins, <<>>), depths |-> none, real_depths |-> none, stop |-> none, start |-> Everywhere(ins, FALSE),
   opens |-> {}, queue |-> <<>>, inputs |-> <<>>, sources |-> <<>>, parallel |-> <<>>, def |-> <<>>, mem |-> <<>>,
   last |-> <<>>, ins |-> ins, gone |-> {}]
dependency_graph(ins, opt) ==
  Fold(LAMBDA g, n : AddNode(g, n, ins[n], opt), NoGraph(ins, Everywhere(ins, 0)), [n \in DOMAIN ins |-> n])

(* From here on a block is its graph, with its instructions ins and those  *)
(* that are gone.  eliminate_dead_code goes from the last to the first.    *)
Remove1(g, n) == [g EXCEPT !.succ = remove_node(@, n), !.gone = @ \cup {n}]
(* Slip: what other blocks or a jump read goes as well. *)
unused_resultLocal(g, n, in, kept) == g.succ[n] = <<>> /\ in.def # <<>> /\ in.op \notin DoNotEliminate
unused_result(g, n, in, kept) ==
  g.succ[n] = <<>> /\ in.def # <<>> /\ get_def(in) \cap kept = {} /\ in.op \notin DoNotEliminate
unused_startopen(g, n) == g.stop[n] # 0 /\ g.stop[n] \in g.gone
eliminate_dead_code(g, kept) ==
  Fold(LAMBDA q, n : IF unused_result(q, n, q.ins[n], kept) \/ unused_startopen(q, n)
                     THEN [Remove1(q, n) EXCEPT !.opens = @ \ {n}, !.stop[n] = 0] ELSE q,
       g, Reverse([n \in DOMAIN g.ins |-> n]))

-----------------------------------------------------------------------------
(* do_merge: the later instructions go into the first.  Vectors of         *)
(* different sizes are merged element by element.  *)
merge_nodes(succ, i, j) ==
  Listed([m \in DOMAIN succ |-> CASE m = j -> <<>>
                                  [] m = i -> Fold(PutNew, Remove(succ[i], j), Remove(succ[j], i))
                                  [] j \in Range(succ[m]) /\ m \notin {i, j} -> Remove(PutNew(succ[m], i), j)
                                  [] OTHER -> succ[m]])
Expanded(in, args) ==
  IF in.size = 1 THEN args
  ELSE FlattenSeq([a \in DOMAIN args |-> [k \in 1..args[a].size |-> [args[a] EXCEPT !.k = k - 1]]])
MergedInstr(a, b) ==
  IF a.op = "STARTINPUT" THEN [a EXCEPT !.n = @ + b.n]
  ELSE IF a.size = b.size THEN [a EXCEPT !.def = @ \o b.def, !.use = @ \o b.use]
  ELSE [a EXCEPT !.def = Expanded(a, @) \o Expanded(b, b.def), !.use = Expanded(a, @) \o Expanded(b, b.use), !.size = 1]
Merge(g, n, i) == [g EXCEPT !.ins[n] = MergedInstr(@, g.ins[i]), !.succ = merge_nodes(@, n, i), !.gone = @ \cup {i}]
do_merge(g, nodes) == IF nodes = <<>> THEN g ELSE Fold(LAMBDA q, i : Merge(q, Head(nodes), i), g, Tail(nodes))

(* The openings of one depth become one for each field, and so do their    *)
(* ends; the rounds keep their order. *)
Line(g, nodes) == Fold(LAMBDA q, k : Link(q, nodes[k], nodes[k + 1]), g, [k \in 1..(Len(nodes) - 1) |-> k])
Heads(p, q) == (IF p = <<>> THEN <<>> ELSE <<Head(p)>>) \o (IF q = <<>> THEN <<>> ELSE <<Head(q)>>)
Linked(state, g, starts, stops) ==
  [g |-> Line(Line(g, <<state.last[1]>> \o starts), <<state.last[2]>> \o stops), last |-> <<Last(starts), Last(stops)>>,
   merges |-> (state.g.depths[Last(starts)] :> Last(starts)) @@ state.merges]
MergeFields(state, p, p1, q, q1) ==
  Linked(state, Fold(do_merge, state.g, <<p, p1, q, q1>>), Heads(p, q), Heads(p1, q1))
StopsOf(g, nodes) == Listed([k \in DOMAIN nodes |-> g.stop[nodes[k]]])
Chosen(g, round, f) == Ordered({m \in round : g.ins[m].f = f})
MergeRound(state, round) ==
  LET p == Chosen(state.g, round, "p")  q == Chosen(state.g, round, "2")
  IN  MergeFields(state, p, StopsOf(state.g, p), q, StopsOf(state.g, q))

Key(g, n) == <<g.ins[n].player, g.ins[n].op, g.ins[n].f>>
Chunks(s, most) ==
  IF most = 0 THEN {s}
  ELSE {SubSeq(s, a, IF a + most - 1 < Len(s) THEN a + most - 1 ELSE Len(s)) : a \in {a \in DOMAIN s : (a - 1) % most = 0}}
MergeGroups(g, all) ==
  [FoldSet(LAMBDA s, q : do_merge(q, s), g, all) EXCEPT !.inputs = SelectSeq(@, LAMBDA n : \E s \in all : Head(s) = n)]
merge_inputs(g, opt) ==
  MergeGroups(g, UNION {Chunks(SelectSeq(g.inputs, LAMBDA m : Key(g, m) = Key(g, n)), opt.max_parallel_open) : n \in Range(g.inputs)})

Lowered(d, u, lower) == Listed([v \in DOMAIN d |-> IF v \in lower /\ d[u] < d[v] THEN d[u] ELSE d[v]])
compute_max_depths(g, depth_of) ==
  Fold(LAMBDA d, u : Lowered(d, u, Preds(g.succ, u) \ g.opens),
       Listed([n \in DOMAIN depth_of |-> IF n \in g.opens THEN depth_of[n] - 1 ELSE Max(Range(depth_of))]),
       Reverse(topological_sort(g.succ, [n \in DOMAIN g.succ |-> n]).order))

IsInput(g, n) == n \notin g.gone /\ g.ins[n].op \in RawInput
Flexible(g, rev) ==
  {n \in DOMAIN g.succ \ g.opens : g.depths[n] # rev[n] /\ g.succ[n] # <<>> /\ ~ g.start[n] /\ ~ IsInput(g, n)}
Starters(g, flex) == Ordered({n \in DOMAIN g.succ \ flex : Preds(g.succ, n) = {} /\ ~ IsInput(g, n)})
OfPlayer(g, q) == SelectSeq(g.inputs, LAMBDA n : g.ins[n].player = q)
(* The i-th inputs of the players that have so many. *)
NthOf(lists, i) ==
  LET long == SelectSeq(lists, LAMBDA s : Len(s) >= i) IN Listed([k \in DOMAIN long |-> long[k][i]])
InputsByPlayer(g, players) == Listed([k \in DOMAIN players |-> OfPlayer(g, players[k])])
Level(g, merges, flex, rev, i) ==
  <<g.stop[merges[i]]>>
  \o FlattenSeq([r \in 1..Max(Range(rev)) |-> Ordered({n \in flex : g.depths[n] = i - 1 /\ rev[n] = r})])
  \o Ordered({n \in flex : g.depths[n] = 0 /\ rev[n] = i}) \o <<merges[i]>>
PreorderOf(g, merges, rev, flex, inputs) ==
  FlattenSeq(Reverse([i \in 1..Max(DOMAIN merges) |-> Level(g, merges, flex, rev, i)]))
  \o Reverse(FlattenSeq([i \in 1..Len(g.inputs) |-> NthOf(inputs, i + 1)])) \o Starters(g, flex) \o NthOf(inputs, 1)
compute_preorder(g, merges, rev) ==
  PreorderOf(g, merges, rev, Flexible(g, rev), InputsByPlayer(g, Ordered({g.ins[n].player : n \in Range(g.inputs)})))

InRound(rev, i, s) == Reverse(SelectSeq(s, LAMBDA n : rev[n] = i))
RoundStops(g, merges, rounds) == Listed([k \in DOMAIN rounds |-> g.stop[merges[rounds[k]]]])
InputsOf(g, op) == Reverse(SelectSeq(g.inputs, LAMBDA n : g.ins[n].op = op))
ContinuousOf(g, rev, stops, last) ==
  FlattenSeq([i \in 1..last |-> InRound(rev, last + 1 - i, stops) \o InRound(rev, last + 1 - i, g.sources)])
  \o InputsOf(g, "STOPINPUT") \o InRound(rev, 0, g.sources) \o InputsOf(g, "STARTINPUT")
compute_continuous_preorder(g, merges, rev) ==
  ContinuousOf(g, rev, RoundStops(g, merges, Ordered(DOMAIN merges)), Max(Range(rev)))

(* The rounds one after the other, then the inputs; the order of the       *)
(* instructions follows.  A depth without openings between two of them is  *)
(* an error unless the order is continuous. *)
MergedRounds(g) ==
  Fold(LAMBDA s, i : MergeRound(s, {n \in g.opens : g.depths[n] = i}), [g |-> g, last |-> <<0, 0>>, merges |-> <<>>],
       Ordered({g.depths[n] : n \in g.opens}))
Plain(g, opt) == opt.continuous \/ g.opens = {}
Gap(merges) == \E i \in 1..Max(DOMAIN merges) : i \notin DOMAIN merges
Preorder(g, merges, opt) ==
  IF ~ opt.reorder THEN [n \in DOMAIN g.succ |-> n]
  ELSE IF Plain(g, opt) THEN compute_continuous_preorder(g, merges, compute_max_depths(g, g.real_depths))
  ELSE compute_preorder(g, merges, compute_max_depths(g, g.depths))
Picked(g, order) == Listed([k \in DOMAIN order |-> g.ins[order[k]]])
Instructions(g, sorted, fails) ==
  [ins |-> Picked(g, SelectSeq(sorted.order, LAMBDA n : n \notin g.gone)), cycle |-> sorted.cycle, fails |-> fails]
SortedMerge(g, merges, opt) ==
  IF opt.reorder /\ ~ Plain(g, opt) /\ Gap(merges) THEN Instructions(g, [order |-> <<>>, cycle |-> FALSE], TRUE)
  ELSE Instructions(g, topological_sort(g.succ, Preorder(g, merges, opt)), FALSE)
(* What remains of the block, in its order. *)
Unmerged(g) == Instructions(g, [order |-> [n \in DOMAIN g.ins |-> n], cycle |-> FALSE], FALSE)
InputsMerged(rounds, opt) == SortedMerge(merge_inputs(rounds.g, opt), rounds.merges, opt)
longest_paths_merge(g, opt) ==
  IF g.opens = {} /\ g.inputs = <<>> THEN Unmerged(g) ELSE InputsMerged(MergedRounds(g), opt)

-----------------------------------------------------------------------------
(* Tape.optimize.  The merging, block by block. *)
Pruned(tp, g, opt) == IF opt.dead_code THEN eliminate_dead_code(g, Kept(tp)) ELSE g
OptimizedBlock(g, opt) == IF g.ins # <<>> /\ opt.merge THEN longest_paths_merge(g, opt) ELSE Unmerged(g)
Block(tp, ins, opt) == OptimizedBlock(Pruned(tp, dependency_graph(ins, opt), opt), opt)

(* The jumps: every block ends with its exit, whose number is the distance *)
(* to the block it goes to. *)
Size(block) == Len(block.ins) + Len(block.exit)
Offset(tp, b) == Fold(LAMBDA n, block : n + Size(block), 0, SubSeq(tp.blocks, 1, b - 1))
get_offset(tp, b, next) == Offset(tp, next) - (Offset(tp, b) + Size(tp.blocks[b]))
WithJumps(tp) ==
  LET Exit(b) == [k \in DOMAIN tp.blocks[b].exit |->
                    [tp.blocks[b].exit[k] EXCEPT !.n = get_offset(tp, b, tp.blocks[b].exit_block)]]
  IN  Listed([b \in DOMAIN tp.blocks |-> tp.blocks[b].ins \o Exit(b)])

-----------------------------------------------------------------------------
(* StraightlineAllocator: from the last instruction to the first, with the *)
(* free registers of a pool by type and size.  *)
TakeReg(a, r, key, free) ==
  IF free # {} THEN [a EXCEPT !.alloc = (r.v :> Min(free)) @@ @, !.free[key] = @ \ {Min(free)}]
  ELSE [a EXCEPT !.alloc = (r.v :> Get(a.usage, r.t, 0)) @@ @, !.usage = (r.t :> Get(@, r.t, 0) + r.size) @@ @]
alloc_reg(a, r, pool) ==
  IF r.v \in DOMAIN a.alloc THEN a ELSE TakeReg(a, r, <<pool, r.t, r.size>>, Get(a.free, <<pool, r.t, r.size>>, {}))
FreeReg(a, r, in, key, all) ==
  IF in.size = 1 /\ ~ all \subseteq a.dealloc THEN a
  ELSE [a EXCEPT !.free = (key :> Get(@, key, {}) \cup {a.alloc[r.v]}) @@ @,
                 !.defined = @ \cup (IF in.size > 1 THEN all ELSE {r})]
dealloc_reg(a, r, in, pool) ==
  FreeReg([a EXCEPT !.dealloc = @ \cup {r}], r, in, <<pool, r.t, r.size>>, {[r EXCEPT !.k = j] : j \in 0..(r.size - 1)})
Defines(a, in) == [a EXCEPT !.double = @ \/ \E r \in get_def(in) : r.v \in DOMAIN a.alloc /\ r \in a.defined]
AllocArgs(a, in, pool) == Fold(LAMBDA q, r : alloc_reg(q, r, pool), a, in.def \o in.use)
FreeResults(a, in, pool) == Fold(LAMBDA q, r : dealloc_reg(q, r, in, pool), a, in.def)
process(a0, ins, pool) ==
  Fold(LAMBDA a, in : FreeResults(AllocArgs(Defines(a, in), in, pool), in, pool), a0, Reverse(ins))

(* A jump back: what the blocks in the scope of the loop, as they were     *)
(* written, read from around them is allocated before the loop is gone     *)
(* through. *)
(* Slip: a loop is allocated like any other code. *)
alloc_loopNever(tp, code, a, b) == a
RECURSIVE alloc_loop(_, _, _, _)
alloc_loop(tp, code, a, b) ==
  Fold(LAMBDA q, c : IF tp.blocks[c].scope = b /\ code[c] # <<>> THEN alloc_loop(tp, code, q, c) ELSE q,
       FoldSet(LAMBDA r, q : alloc_reg(q, r, tp.blocks[b].pool), a, tp.blocks[b].used_from_scope), [c \in DOMAIN tp.blocks |-> c])

JumpsBack(tp, code, b) ==
  tp.blocks[b].exit # <<>> /\ Last(code[b]).n < 0 /\ tp.blocks[tp.blocks[b].exit_block].scope # 0
LoopAllocated(tp, code, a, b) ==
  IF JumpsBack(tp, code, b) THEN alloc_loop(tp, code, a, tp.blocks[tp.blocks[b].exit_block].scope) ELSE a
Allocated(tp, code) ==
  Fold(LAMBDA a, b : IF code[b] = <<>> THEN a ELSE process(LoopAllocated(tp, code, a, b), code[b], tp.blocks[b].pool),
       [alloc |-> <<>>, usage |-> <<>>, free |-> <<>>, dealloc |-> {}, defined |-> {}, double |-> FALSE],
       Reverse([b \in DOMAIN code |-> b]))

Placed(code, alloc) ==
  LET Place(r) == <<r.t, alloc[r.v] + r.k>>
      All(s) == Listed([k \in DOMAIN s |-> Place(s[k])])
  IN  Listed([k \in DOMAIN code |-> [code[k] EXCEPT !.def = All(@), !.use = All(@)]])

Assembled(tp, blocks, code, all) ==
  [code |-> Placed(FlattenSeq(code), all.alloc), fails |-> \E b \in DOMAIN blocks : blocks[b].fails,
   broken |-> all.double \/ \E b \in DOMAIN blocks : blocks[b].cycle, data |-> aggregate(tp, 1)]
WithRegisters(tp, blocks, code) == Assembled(tp, blocks, code, Allocated(tp, code))
WithCode(tp, blocks) == WithRegisters(tp, blocks, WithJumps(tp))
WithBlocks(tp, blocks) == WithCode([tp EXCEPT !.blocks = Listed([b \in DOMAIN @ |-> [@[b] EXCEPT !.ins = blocks[b].ins]])], blocks)
(* The scopes are determined before any block is optimised. *)
Scoped(tp) ==
  [tp EXCEPT !.blocks = Listed([b \in DOMAIN @ |-> [used_from_scope |-> used_from_scope(tp, b)] @@ @[b]])]
Optimized(tp, opt) == WithBlocks(Scoped(tp), Listed([b \in DOMAIN tp.blocks |-> Block(tp, tp.blocks[b].ins, opt)]))

(* The tape as written, every register in a place of its own. *)
Unoptimized(tp) == Placed(FlattenSeq(WithJumps(tp)), [v \in 0..tp.regs |-> 2 * v])
=============================================================================
