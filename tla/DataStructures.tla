--------------------------- MODULE DataStructures ---------------------------
(***************************************************************************)
(* The heap and the shortest paths of dijkstra.py and the stable matching  *)
(* of gs.py, on memories that do what RandomAccess promises: a memory is a *)
(* function from addresses to lists of fields, none for an empty entry.    *)
(* And the slices of an element in a binary field (oram.py).               *)
(***************************************************************************)
EXTENDS ObliviousRAM

NewMemory(size) == Tabled([i \in 0..(size - 1) |-> None])
IsEmpty(m, i) == IF m[i] = None THEN 1 ELSE 0
Field(x, k) == IF x = None THEN 0 ELSE x[k]
(* An access that does not write may have any address. *)
Put(m, i, x, write) == IF write = 1 THEN [m EXCEPT ![i] = x] ELSE m
Bit(b) == IF b THEN 1 ELSE 0
Choose2(b, x, y) == IF b = 1 THEN x ELSE y

-----------------------------------------------------------------------------
(* A heap: entries of priority and value at places from 1, and the place   *)
(* of every value. *)
NewHeap(max_size) ==
  [levels |-> log2(max_size), heap |-> NewMemory(2^log2(max_size)), value_index |-> NewMemory(max_size), size |-> 0]
Above(x, y) == Bit(x # None /\ y # None /\ Field(x, 1) > Field(y, 1))
SettleUnindexed(q, parentpos, childpos, parent, child) ==
  LET swap == Above(parent, child) IN
  [q EXCEPT !.heap = [@ EXCEPT ![childpos] = Choose2(swap, parent, child), ![parentpos] = Choose2(swap, child, parent)],
            !.value_index = Put(@, Field(Choose2(swap, child, parent), 2), <<parentpos>>, swap)]
(* A parent that is above its child changes places with it. *)
Settle(q, parentpos, childpos, parent, child) ==
  LET swap == Above(parent, child)
      upper == Choose2(swap, child, parent)
      lower == Choose2(swap, parent, child)
  IN  [q EXCEPT !.heap = [@ EXCEPT ![childpos] = lower, ![parentpos] = upper],
                !.value_index = Put(Put(@, Field(upper, 2), <<parentpos>>, swap), Field(lower, 2), <<childpos>>, swap)]
(* From the place at the leftmost of the lowest places below. *)
RECURSIVE Leftmost(_, _)
Leftmost(place, levels) == IF place = 0 \/ place >= 2^(levels - 1) THEN place ELSE Leftmost(2 * place, levels)
bubble_up(q, start) ==
  Fold(LAMBDA st, i : LET parentpos == st.child \div 2 IN
         [child |-> parentpos, q |-> Settle(st.q, parentpos, st.child, st.q.heap[parentpos], st.q.heap[st.child])],
       [child |-> Leftmost(start, q.levels), q |-> q], Upto(q.levels - 1)).q
SiftDown(q) ==
  Fold(LAMBDA st, i :
         LET left == 2 * st.parent
             child == left + Above(st.q.heap[left], st.q.heap[left + 1])
         IN  [parent |-> child, q |-> Settle(st.q, st.parent, child, st.q.heap[st.parent], st.q.heap[child])],
       [parent |-> 1, q |-> q], Upto(q.levels - 1)).q
heap_pop(q, for_real) ==
  LET really == for_real * Bit(q.size # 0)
      entry == q.heap[1]
      last == q.heap[q.size]
      index == Put(Put(q.value_index, Field(entry, 2), None, for_real), Field(last, 2), <<1>>, for_real * Bit(q.size # 1))
      heap == Put(Put(q.heap, 1, last, really), q.size, None, for_real)
  IN  [value |-> Field(entry, 2), q |-> SiftDown([q EXCEPT !.heap = heap, !.value_index = index, !.size = @ - really])]
heap_update(q, value, prio, for_real) ==
  LET not_found == IsEmpty(q.value_index, value)
      size == q.size + not_found * for_real
      index == Choose2(not_found, size, Field(q.value_index[value], 1))
  IN  bubble_up([q EXCEPT !.size = size, !.value_index = Put(@, value, <<size>>, not_found * for_real),
                          !.heap = Put(@, index, <<prio, value>>, for_real)], index)

-----------------------------------------------------------------------------
(* A graph of n vertices has the weight of an edge or 0.  Its edges are    *)
(* listed by the vertices they start from, the last of a vertex marked. *)
Neighbours(n, w, v) == SelectSeq(Listed([u \in 1..n |-> u - 1]), LAMBDA u : w[v, u] > 0)
OutEdges(nb, w, v) == Listed([i \in 1..Len(nb) |-> <<nb[i], w[v, nb[i]], Bit(i = Len(nb))>>])
convert_graph(n, w) ==
  Fold(LAMBDA g, v : [edges |-> g.edges \o OutEdges(Neighbours(n, w, v - 1), w, v - 1), e_index |-> Append(g.e_index, Len(g.edges))],
       [edges |-> <<>>, e_index |-> <<>>], Upto(n))
(* Every round takes the next edge of the vertex u, or of the next vertex  *)
(* from the heap after a last edge. *)
Relax(st, popped, u, v, weight, last) ==
  LET alt == st.dist[u][1] + weight
      not_visited == IsEmpty(st.dist, v)
      is_shorter == Bit(alt < Field(st.dist[v], 1)) + not_visited
  IN  [last |-> last, u |-> u, dist |-> Put(st.dist, v, <<alt, u>>, is_shorter), q |-> heap_update(popped, v, alt, is_shorter)]
Follow(g, st, popped, u, i) ==
  Relax(st, popped, u, g.edges[i + 1][1], g.edges[i + 1][2], g.edges[i + 1][3]) @@ [edge |-> i + 1]
Visit(g, st, got) ==
  LET u == Choose2(st.last, got.value, st.u) IN Follow(g, st, got.q, u, IF st.last = 1 THEN g.e_index[u + 1] ELSE st.edge)
dijkstra(source, n, g) ==
  Fold(LAMBDA st, i : Visit(g, st, heap_pop(st.q, st.last)),
       [last |-> 1, u |-> 0, edge |-> 0, dist |-> Put(NewMemory(n), source, <<0, 0>>, 1), q |-> heap_update(NewHeap(n), source, 0, 1)],
       g.edges).dist

-----------------------------------------------------------------------------
(* Numbers that may be infinite, and vectors of them. *)
ExtInt(x, inf) == [x |-> x, inf |-> inf]
Infinite == ExtInt(0, 1)
Plus(a, b) == ExtInt(a.x + b.x, a.inf + b.inf)
Minus(a, b) == ExtInt(a.x - b.x, a.inf - b.inf)
Times(a, c) == ExtInt(a.x * c, a.inf * c)
Less(a, b) == (1 - a.inf) * (1 - b.inf) * Bit(a.x < b.x) + b.inf
if_else(c, a, b) == Plus(b, Times(Minus(a, b), c))
VectorPlus(a, b) == Listed([i \in 1..Len(a) |-> Plus(a[i], b[i])])
Dot(a, k) == Fold(LAMBDA s, i : Plus(s, Times(a[i], k[i])), ExtInt(0, 0), Upto(Len(a)))
updatevector(vector, index, value) ==
  Listed([i \in 1..Len(vector) |-> Plus(vector[i], Times(Minus(value, vector[i]), index[i]))])
(* The unit vector of a smallest number. *)
RECURSIVE binarymin(_)
MinOfHalf(B, i) == Listed([j \in 1..(2 * Len(B)) |-> IF j % 2 = 1 THEN B[(j + 1) \div 2] * i[(j + 1) \div 2] ELSE (1 - B[j \div 2]) * i[j \div 2]])
MinOfPairs(A, B) == MinOfHalf(B, binarymin(Listed([j \in 1..Len(B) |-> if_else(B[j], A[2 * j - 1], A[2 * j])])))
binarymin(A) == IF Len(A) = 1 THEN <<1>> ELSE MinOfPairs(A, Listed([j \in 1..Half(A) |-> Less(A[2 * j - 1], A[2 * j])]))

convert_graph_to_matrix(n, w) ==
  Listed([v \in 1..n |-> Listed([u \in 1..n |-> IF w[v - 1, u - 1] > 0 THEN ExtInt(w[v - 1, u - 1], 0) ELSE Infinite])])
Shorter(st, k, j, a) ==
  LET c == Less(a, st.d[j]) IN
  [st EXCEPT !.P[j] = Listed([i \in 1..Len(k) |-> @[i] + c * (k[i] - @[i])]), !.d[j] = Plus(@, Times(Minus(a, @), c))]
FromNearest(M, st, k) ==
  Fold(LAMBDA s, j : Shorter(s, k, j, Dot(VectorPlus(s.d, M[j]), k)), [st EXCEPT !.q = updatevector(@, k, Infinite)], Upto(Len(M)))
stupid_dijkstra(M, s) ==
  Fold(LAMBDA st, i : FromNearest(M, st, binarymin(VectorPlus(st.d, st.q))),
       [P |-> Listed([j \in 1..Len(M) |-> Zeros(Len(M))]), q |-> Listed([j \in 1..Len(M) |-> ExtInt(0, 0)]),
        d |-> updatevector(Listed([j \in 1..Len(M) |-> Infinite]), s, ExtInt(0, 0))], Upto(Len(M)))

-----------------------------------------------------------------------------
(* The matching: men propose in the order of their preferences, and a      *)
(* stack holds those who are not engaged. *)
stack_append(m, item, for_real) == [m EXCEPT !.unengaged = Put(@, m.size, <<item>>, for_real), !.size = @ + for_real]
engage(m, man, woman, for_real) ==
  [m EXCEPT !.wives = Put(@, man, <<woman>>, for_real), !.husbands = Put(@, woman, <<man>>, for_real)]
dump(m, man, woman, for_real) ==
  stack_append([m EXCEPT !.wives = Put(@, man, None, for_real), !.husbands = Put(@, woman, None, for_real)], man, for_real)
(* Ranks are in a matrix, or found in the row of the woman's preferences. *)
rank(f, woman, man, reverse) ==
  IF reverse THEN trivial_read(Listed([i \in 1..Len(f.prefs[woman]) |-> Entry(f.prefs[woman][i], <<i - 1>>, 0)]), 1, man).value[1]
  ELSE f.ranks[woman][man]
Proposed(m, man, woman, fiance, engaged, leaving) ==
  stack_append(engage(dump(m, fiance, woman, engaged * leaving), man, woman, 1 - engaged * (1 - leaving)),
               man, engaged * (1 - leaving))
propose(m, f, man, woman, reverse) ==
  LET fiance == Field(m.husbands[woman], 1)
      engaged == 1 - IsEmpty(m.husbands, woman)
  IN  Proposed(m, man, woman, fiance, engaged, Bit(rank(f, woman, man, reverse) < rank(f, woman, engaged * fiance, reverse)))
NextProposal(m, m_prefs, f, man, reverse) ==
  LET pref == Field(m.propose[man], 1) IN
  propose([m EXCEPT !.propose = Put(@, man, <<pref + 1>>, 1)], f, man, m_prefs[man][pref], reverse)
RECURSIVE MatchFrom(_, _, _, _)
MatchFrom(m, m_prefs, f, reverse) ==
  IF m.size = 0 THEN m
  ELSE MatchFrom(NextProposal([m EXCEPT !.size = @ - 1], m_prefs, f, Field(m.unengaged[m.size - 1], 1), reverse), m_prefs, f, reverse)
match(n, m_prefs, f, reverse) ==
  MatchFrom(Fold(LAMBDA m, i : stack_append(m, i - 1, 1),
                 [wives |-> NewMemory(n), husbands |-> NewMemory(n), propose |-> NewMemory(n), unengaged |-> NewMemory(n), size |-> 0],
                 Upto(n)), m_prefs, f, reverse)

-----------------------------------------------------------------------------
(* Slices of an element in a binary field, as bits: what is below, the     *)
(* element moved down to the slice, and by how much. *)
BlockOfTwo(v, start, length) ==
  LET prod == Listed([i \in 1..Len(v) |-> start * v[i]])
      anti == Listed([i \in 1..Len(v) |-> v[i] - prod[i]])
  IN  [lower |-> SubSeq(prod, 1, length), adjust |-> start * length,
       bits |-> Listed([i \in 1..length |-> anti[i] + prod[length + i]]) \o From(anti, length)]
BlockOfMany(v, start_bits, length, entries) ==
  LET start == Total([i \in 1..Len(start_bits) |-> start_bits[i] * 2^(i - 1)])
      hot == Listed([i \in 1..entries |-> Bit(i = start + 1)])
      before(i) == 1 - (Total(SubSeq(hot, 1, i)) % 2)
      lower == Listed([i \in 1..Len(v) |-> v[i] * before(((i - 1) \div length) + 1)])
  IN  [lower |-> lower, adjust |-> start * length,
       bits |-> Listed([i \in 1..Len(v) |-> IF i + start * length <= Len(v) THEN v[i + start * length] - lower[i + start * length] ELSE 0])]
gf2n_block(value, start, length, entries) ==
  IF entries = 2 THEN BlockOfTwo(bit_decompose(value, 2 * length), start, length)
  ELSE BlockOfMany(bit_decompose(value, entries * length), bit_decompose(start, log2(entries)), length, entries)
gf2n_get_slice(block, lengths) ==
  Listed([k \in 1..Len(lengths) |-> bit_compose(SubSeq(block.bits, Starts(lengths)[k] + 1, Starts(lengths)[k] + lengths[k]))])
gf2n_set_slice(block, lengths, new) ==
  bit_compose(block.lower) + Total([k \in 1..Len(lengths) |-> new[k] * 2^Starts(lengths)[k]]) * 2^block.adjust
    + bit_compose(From(block.bits, Sum(lengths))) * 2^block.adjust * 2^Sum(lengths)
=============================================================================
