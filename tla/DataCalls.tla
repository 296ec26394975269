------------------------------ MODULE DataCalls ------------------------------
(***************************************************************************)
(* Calls of the sorts, permutations, heaps, shortest paths, matchings and  *)
(* slices with every input of small sets.                                  *)
(***************************************************************************)
EXTENDS Integers, Sequences, FiniteSets, Calls

D == INSTANCE DataStructures WITH MaxDemuxBits <- 3

Listed(f) == f \o <<>>
Singles(s) == Listed([i \in 1..Len(s) |-> <<s[i]>>])
Firsts(s) == Listed([i \in 1..Len(s) |-> s[i][1]])

(* By the zero-one principle, a network that sorts zeros and ones sorts.   *)
Sorts(a) ==
  <<D!insertion_sort(a), D!chunky_odd_even_merge_sort(a), D!loopy_odd_even_merge_sort(a, 1),
    D!chunkier_odd_even_merge_sort(a, 6), D!loopy_chunkier_odd_even_merge_sort(a, 4), D!mergesort(a),
    Firsts(D!odd_even_merge_sort("list", Singles(a))),
    Firsts(D!recursive_merge("bitwise", <<Singles(SubSeq(a, 1, 1)), D!sort("bitwise", Singles(SubSeq(a, 2, 4))),
                                         D!sort("bitwise", Singles(SubSeq(a, 5, 8)))>>))>>
CallSort == \E a \in [1..8 -> 0..1] : Called("sort", [a |-> Listed(a)], Sorts(Listed(a)))

Doubled(p) == p \o Listed([i \in 1..Len(p) |-> 2 * Len(p) - 1 - p[i]])
Permuted(x, config) ==
  [there |-> D!waksman(x, config, FALSE), back |-> D!waksman(D!waksman(x, config, FALSE), config, TRUE),
   shuffled |-> Firsts(D!NotNone(D!rec_shuffle(D!Padded(SubSeq(x, 1, 6)), config, FALSE)))]
PermuteBy(p) == Called("permute", [p |-> p], Permuted(Singles([i \in 1..Len(p) |-> i]), D!configure_waksman(p)))
CallPermute == \E d \in (0..3) \X (0..2) \X (0..1) : PermuteBy(Doubled(D!random_perm(4, d)))

(* A heap gets five values, an update that is not for real among them, and *)
(* gives one up; then the priority of a value is lowered, or a value that  *)
(* has gone comes back. *)
Update(v, prio, real) == [op |-> "update", value |-> v, prio |-> prio, real |-> real]
Pop(real) == [op |-> "pop", value |-> 0, prio |-> 0, real |-> real]
HeapOps(prios, v) ==
  <<Update(0, prios[0], 1), Update(1, prios[1], 1), Update(2, prios[2], 1), Update(3, 0, 0), Update(3, prios[3], 1),
    Update(4, prios[4], 1), Pop(1), Pop(0), Update(v, 0, 1), Pop(1), Pop(1), Pop(1), Pop(1)>>
HeapStep(q, o) == IF o.op = "pop" THEN D!heap_pop(q, o.real) ELSE [value |-> 0, q |-> D!heap_update(q, o.value, o.prio, o.real)]
Later(st, got) == [q |-> got.q, popped |-> Append(st.popped, got.value)]
HeapRun(ops) == D!Fold(LAMBDA st, o : Later(st, HeapStep(st.q, o)), [q |-> D!NewHeap(8), popped |-> <<>>], ops)
CallHeap == \E prios \in [0..4 -> 0..2], v \in 0..4 : Called("heap", [ops |-> HeapOps(prios, v)], HeapRun(HeapOps(prios, v)))

(* A graph is symmetric, and connected. *)
Vertices == 0..3
Pairs == {e \in Vertices \X Vertices : e[1] < e[2]}
Weight(w) == [e \in Vertices \X Vertices |-> IF e[1] < e[2] THEN w[e] ELSE IF e[2] < e[1] THEN w[e[2], e[1]] ELSE 0]
Reached(w) ==
  LET Near(S) == S \cup {v \in Vertices : \E u \in S : w[u, v] > 0} IN Near(Near(Near({0})))
Unit(s) == Listed([i \in 1..4 |-> IF i = s + 1 THEN 1 ELSE 0])
Paths(w, s) ==
  [heap |-> D!dijkstra(s, 4, D!convert_graph(4, w)), matrix |-> D!stupid_dijkstra(D!convert_graph_to_matrix(4, w), Unit(s))]
PathsOf(w) == Reached(w) = Vertices /\ \E s \in {0, 2} : Called("paths", [w |-> w, source |-> s], Paths(w, s))
CallPaths == \E w \in [Pairs -> {0, 1, 3}] : PathsOf(Weight(w))

(* Three men and women; the women are numbered by the first man's order. *)
Orders == {p \in [0..2 -> 0..2] : {p[i] : i \in 0..2} = 0..2}
MenPrefs == {m \in [0..2 -> Orders] : \A i \in 0..2 : m[0][i] = i}
RankOf(p) == [man \in 0..2 |-> CHOOSE i \in 0..2 : p[i] = man]
Ranked(prefs) == [ranks |-> [w \in 0..2 |-> RankOf(prefs[w])], prefs |-> [w \in 0..2 |-> Listed([i \in 1..3 |-> prefs[w][i - 1]])]]
CallMatch == \E m \in MenPrefs, f \in [0..2 -> Orders] :
  Called("match", [men |-> m, women |-> f], [reverse \in BOOLEAN |-> D!match(3, m, Ranked(f), reverse)])

(* An element of slices of one and two bits, in blocks of two and four. *)
Sliced(block, new) == [old |-> D!gf2n_get_slice(block, <<1, 2>>), set |-> D!gf2n_set_slice(block, <<1, 2>>, new)]
SliceOf(in) == Called("slice", in, Sliced(D!gf2n_block(in.value, in.start, 3, in.entries), in.new))
CallSlice == \E n \in {2, 4}, v \in (0..63) \cup {2748, 4095}, new \in {<<0, 3>>, <<1, 1>>} : \E start \in 0..(n - 1) :
  SliceOf([value |-> IF n = 2 THEN v % 64 ELSE (64 * (63 - (v % 64))) + v \div 2, start |-> start, entries |-> n, new |-> new])

DataCall ==
  \/ Chosen(1) /\ CallMatch
  \/ Chosen(2) /\ (CallSort \/ CallHeap)
  \/ Chosen(3) /\ CallPaths
  \/ Chosen(4) /\ (CallPermute \/ CallSlice)

-----------------------------------------------------------------------------
(* What the functions stand for. *)
SameItems(a, b) == \A x \in {a[i] : i \in DOMAIN a} \cup {b[i] : i \in DOMAIN b} :
  Cardinality({i \in DOMAIN a : a[i] = x}) = Cardinality({i \in DOMAIN b : b[i] = x})
Sorted(a) == \A i \in 1..(Len(a) - 1) : a[i] <= a[i + 1]
SortRight(in, got) == \A k \in DOMAIN got : Sorted(got[k]) /\ SameItems(got[k], in.a)

PermuteRight(in, got) ==
  /\ \A i \in DOMAIN in.p : got.there[in.p[i] + 1] = <<i>> /\ got.back[i] = <<i>>
  /\ SameItems(got.shuffled, <<1, 2, 3, 4, 5, 6>>)

(* The priorities of the values in the heap after k calls; no value -1. *)
HeapAfter(ops, popped) ==
  LET Held[k \in 0..Len(ops)] ==
        IF k = 0 THEN [v \in 0..4 |-> -1]
        ELSE IF ops[k].real = 0 THEN Held[k - 1]
        ELSE IF ops[k].op = "pop" THEN [Held[k - 1] EXCEPT ![popped[k]] = -1]
        ELSE [Held[k - 1] EXCEPT ![ops[k].value] = ops[k].prio]
  IN  Held
Least(held, v) == held[v] >= 0 /\ \A u \in 0..4 : held[u] >= 0 => held[v] <= held[u]
Indexed(q, held) ==
  \A v \in 0..4 : IF held[v] < 0 THEN q.value_index[v] = <<>>
                  ELSE q.value_index[v] # <<>> /\ q.heap[q.value_index[v][1]] = <<held[v], v>>
HeapRightIn(ops, got, held) ==
  /\ \A k \in DOMAIN ops : ops[k].op = "pop" /\ ops[k].real = 1 => Least(held[k - 1], got.popped[k])
  /\ Indexed(got.q, held[Len(ops)])
HeapRight(in, got) == HeapRightIn(in.ops, got, HeapAfter(in.ops, got.popped))

(* The distances: none is too long, and each is that of a path.  The path  *)
(* goes through the vertex the code keeps. *)
Shortest(in, d) ==
  /\ d[in.source] = 0
  /\ \A u, v \in Vertices : in.w[u, v] > 0 => d[v] <= d[u] + in.w[u, v]
Through(in, d, v, u) == in.w[u, v] > 0 /\ d[v] = d[u] + in.w[u, v]
PathsRight(in, got) ==
  LET d == [v \in Vertices |-> got.heap[v][1]] IN
  /\ Shortest(in, d)
  /\ \A v \in Vertices \ {in.source} : Through(in, d, v, got.heap[v][2])
  /\ \A v \in Vertices : got.matrix.d[v + 1] = D!ExtInt(d[v], 0)
  /\ \A v \in Vertices \ {in.source} : \E u \in Vertices : got.matrix.P[v + 1] = Unit(u) /\ Through(in, d, v, u)

(* All are married, to each other, and no two of them would rather have    *)
(* each other. *)
Rather(prefs, x, y, z) == RankOf(prefs[x])[y] < RankOf(prefs[x])[z]
Stable(in, m) ==
  /\ \A i \in 0..2 : m.wives[i] # <<>> /\ m.husbands[m.wives[i][1]] = <<i>>
  /\ \A i, j \in 0..2 : Rather(in.men, i, j, m.wives[i][1]) => ~Rather(in.women, j, i, m.husbands[j][1])
MatchRight(in, got) == \A reverse \in BOOLEAN : Stable(in, got[reverse])

SliceRight(in, got) ==
  LET at == 2^(3 * in.start) IN
  /\ got.old = <<(in.value \div at) % 2, (in.value \div (2 * at)) % 4>>
  /\ got.set = in.value - ((in.value \div at) % 8) * at + (in.new[1] + 2 * in.new[2]) * at

(* The data structures without addresses that depend on secrets do what    *)
(* their namesakes do: every sort gives the same items in order, a network *)
(* applies its permutation and undoes it, the heap gives up a value of the *)
(* least priority and knows where each value is, both ways to find         *)
(* shortest paths find them, a matching is stable, and a slice is changed  *)
(* alone. *)
DataStructuresRight ==
  CASE call.fn = "sort" -> SortRight(call.in, call.got)
    [] call.fn = "permute" -> PermuteRight(call.in, call.got)
    [] call.fn = "heap" -> HeapRight(call.in, call.got)
    [] call.fn = "paths" -> PathsRight(call.in, call.got)
    [] call.fn = "match" -> MatchRight(call.in, call.got)
    [] call.fn = "slice" -> SliceRight(call.in, call.got)
    [] OTHER -> TRUE
=============================================================================
