------------------------------ MODULE Networks ------------------------------
(***************************************************************************)
(* Sorting and permuting without looking at the data: the networks of      *)
(* permutation.py, and the sorts of library.py, which spread the same      *)
(* comparisons over loops, chunks of memory and threads.  An element is a  *)
(* list; the empty list stands for the None that pads to a power of two.   *)
(***************************************************************************)
EXTENDS Lists, FiniteSets

None == <<>>
Half(s) == Len(s) \div 2
Every2nd(s, first) == Listed([i \in 1..Half(s) |-> s[2 * i - 2 + first]])
Lower(s) == SubSeq(s, 1, Half(s))
Upper(s) == SubSeq(s, Half(s) + 1, Len(s))
RECURSIVE PowerAbove(_)
PowerAbove(n) == IF n <= 1 THEN 1 ELSE 2 * PowerAbove((n + 1) \div 2)
Padded(s) == s \o Listed([i \in 1..(PowerAbove(Len(s)) - Len(s)) |-> None])
NotNone(s) == SelectSeq(s, LAMBDA x : x # None)

cond_swap_bit(x, y, b) == IF x = None \/ (y # None /\ b = 1) THEN <<y, x>> ELSE <<x, y>>

(* The comparators: 1 where x may stay before y. *)
Compared(comp, x, y) ==
  CASE comp = "list" -> IF x[1] < y[1] THEN 1 ELSE 0
    [] comp = "bitwise" -> (1 - x[1]) * y[1]
    [] comp = "eviction" -> x[1].empty * (x[3] - 1 + y[3]) + 1 - x[3]
cond_swap(comp, x, y) == cond_swap_bit(x, y, IF None \in {x, y} THEN 0 ELSE 1 - Compared(comp, x, y))

RECURSIVE odd_even_merge(_, _)
odd_even_merge(comp, a) ==
  IF Len(a) <= 2 THEN IF Len(a) = 2 THEN cond_swap(comp, a[1], a[2]) ELSE a
  ELSE LET even == odd_even_merge(comp, Every2nd(a, 1))
           odd == odd_even_merge(comp, Every2nd(a, 2))
           pairs == Listed([i \in 1..(Half(a) - 1) |-> cond_swap(comp, odd[i], even[i + 1])])
       IN  <<even[1]>> \o Fold(LAMBDA s, pair : s \o pair, <<>>, pairs) \o <<odd[Half(a)]>>

RECURSIVE odd_even_merge_sort(_, _)
odd_even_merge_sort(comp, a) ==
  IF Len(a) = 1 THEN a
  ELSE odd_even_merge(comp, odd_even_merge_sort(comp, Lower(a)) \o odd_even_merge_sort(comp, Upper(a)))

(* merge pads both lists, and the shorter one if it comes first. *)
merge(comp, a, b) ==
  LET x == Padded(a)  y == Padded(b)
      longer == x \o Listed([i \in 1..(IF Len(x) < Len(y) THEN Len(y) - Len(x) ELSE 0) |-> None])
  IN  NotNone(odd_even_merge(comp, longer \o y))

sort(comp, a) == SubSeq(odd_even_merge_sort(comp, Padded(a)), 1, Len(a))

(* A merged list goes before the first one that is as long. *)
RECURSIVE recursive_merge(_, _)
recursive_merge(comp, lists) ==
  IF Len(lists) = 1 THEN lists[1]
  ELSE LET t == merge(comp, lists[1], lists[2])
           shorter == SelectSeq(SubSeq(lists, 3, Len(lists)), LAMBDA c : Len(c) < Len(t))
       IN  recursive_merge(comp, shorter \o <<t>> \o SubSeq(lists, 3 + Len(shorter), Len(lists)))

-----------------------------------------------------------------------------
(* Permutations of 0..n-1 are lists: the image of i is at place i + 1. *)
Exchanged(a, i, j) == [a EXCEPT ![i] = a[j], ![j] = a[i]]
random_perm(n, draws) ==
  Fold(LAMBDA a, i : Exchanged(a, n + 1 - i, draws[i] + 1), Listed([i \in 1..n |-> i - 1]), Upto(n - 1))
inverse(perm) == Listed([p \in 1..Len(perm) |-> (CHOOSE i \in 1..Len(perm) : perm[i] = p - 1) - 1])

Flip(i) == IF i % 2 = 1 THEN i - 1 ELSE i + 1
(* From an output without a switch, the switches of inputs and outputs are *)
(* set in turn until the way is closed. *)
RECURSIVE SetSwitches(_, _, _, _, _)
SetSwitches(perm, inv, net, j, j0) ==
  LET i == inv[j + 1]
      i2 == Flip(i)
      j2 == Flip(perm[i2 + 1])
      set == [net EXCEPT !.p0[(i \div 2) + 1] = j \div 2, !.I[(i \div 2) + 1] = i % 2, !.O[(j \div 2) + 1] = j % 2,
                         !.p1[(i2 \div 2) + 1] = perm[i2 + 1] \div 2]
  IN  IF j2 = j0 THEN set ELSE SetSwitches(perm, inv, set, j2, j0)
Unset == -1
RECURSIVE AllSwitches(_, _, _)
AllSwitches(perm, inv, net) ==
  LET open == {k \in 1..Len(net.O) : net.O[k] = Unset}
      j == 2 * ((CHOOSE k \in open : \A m \in open : k <= m) - 1)
  IN  IF open = {} THEN net ELSE AllSwitches(perm, inv, SetSwitches(perm, inv, net, j, j))

RECURSIVE configure_waksman(_)
configure_waksman(perm) ==
  IF Len(perm) = 2 THEN <<<<perm[1], perm[1]>>>>
  ELSE LET unset == Listed([i \in 1..Half(perm) |-> Unset])
           net == AllSwitches(perm, inverse(perm), [I |-> unset, O |-> unset, p0 |-> unset, p1 |-> unset])
           upper == configure_waksman(net.p0)
           lower == configure_waksman(net.p1)
       IN  <<net.I \o net.O>> \o Listed([d \in 1..Len(upper) |-> upper[d] \o lower[d]])

RECURSIVE Waksman(_, _, _, _, _)
Waksman(a, config, depth, start, reverse) ==
  LET in == IF reverse THEN Half(a) ELSE 0
      swapped == Listed([i \in 1..Half(a) |-> cond_swap_bit(a[2 * i - 1], a[2 * i], config[depth][i + in + start])])
      a0 == Waksman(Listed([i \in 1..Half(a) |-> swapped[i][1]]), config, depth + 1, start, reverse)
      a1 == Waksman(Listed([i \in 1..Half(a) |-> swapped[i][2]]), config, depth + 1, start + Half(a), reverse)
  IN  IF Len(a) = 2 THEN cond_swap_bit(a[1], a[2], config[depth][start + 1])
      ELSE Fold(LAMBDA s, i : s \o cond_swap_bit(a0[i], a1[i], config[depth][i + Half(a) - in + start]), <<>>, Upto(Half(a)))
waksman(a, config, reverse) == Waksman(a, config, 1, 0, reverse)

rec_shuffle(x, config, reverse) == waksman(waksman(x, config, reverse), config, reverse)

-----------------------------------------------------------------------------
(* The sorts of library.py, on lists of numbers at addresses from 0. *)
Swapped(a, i, j) == IF a[i + 1] < a[j + 1] THEN a ELSE Exchanged(a, i + 1, j + 1)
SwapAll(a, pairs) == Fold(LAMBDA s, pair : Swapped(s, pair[1], pair[2]), a, pairs)

(* Insertion: the place after the sorted ones moves down. *)
insertion_sort(a) ==
  Fold(LAMBDA s, i : Fold(LAMBDA t, j : Swapped(t, i - 1 - j, i - j), s, Upto(i - 1)), a, Upto(Len(a)))

(* The pairs of a round: the even and odd places of a merge, all at once. *)
RECURSIVE Doubled(_, _)
Doubled(from, n) == IF from >= n THEN <<>> ELSE <<2 * from>> \o Doubled(2 * from, n)
Rounds(n, from) ==
  Fold(LAMBDA s, l : s \o Fold(LAMBDA t, k : t \o <<<<l, k>>>>, <<>>, Doubled(1, l)), <<>>, Doubled(from, n))
Bases(n, l, k) == [i \in 1..((n \div l) * (l \div k)) |-> ((i - 1) \div (l \div k)) * l + ((i - 1) % (l \div k))]
Between(k) == IF k = 2 THEN <<0>> ELSE Listed([m \in 1..((k \div 2) - 1) |-> 2 * m - 1])
RoundPairs(n, l, k) ==
  LET step == l \div k IN
  Fold(LAMBDA s, base : s \o Fold(LAMBDA t, m : t \o <<<<base + m * step, base + (m + 1) * step>>>>, <<>>, Between(k)),
       <<>>, Bases(n, l, k))
chunky_odd_even_merge_sort(a) ==
  Fold(LAMBDA s, round : SwapAll(s, RoundPairs(Len(a), round[1], round[2])), a, Rounds(Len(a), 1))

(* The same round in three loops that run in parallel, from parts that are *)
(* sorted already. *)
LoopPairs(n, l, k) ==
  LET step == l \div k
      innermost == IF k = 2 THEN 1 ELSE (k \div 2) - 1
      start == IF k = 2 THEN 0 ELSE step
  IN  Fold(LAMBDA s, i : s \o Fold(LAMBDA t, j : t \o
        Listed([m \in 1..innermost |-> LET m2 == start + (m - 1) * 2 * step + (i - 1) * l + (j - 1) IN <<m2, m2 + step>>]),
        <<>>, Upto(l \div k)), <<>>, Upto(n \div l))
loopy_odd_even_merge_sort(a, sorted_length) ==
  Fold(LAMBDA s, round : SwapAll(s, LoopPairs(Len(a), round[1], round[2])), a, Rounds(Len(a), sorted_length))

(* What a round compares is copied next to each other, sorted in chunks of *)
(* two sizes by threads, and copied back. *)
Chunks(size, max_chunk_size) ==
  LET n_chunks == (size + max_chunk_size - 1) \div max_chunk_size
      lower_size == ((size \div n_chunks) \div 2) * 2
      n_lower_size == n_chunks - ((size - n_chunks * lower_size) \div 2)
  IN  [i \in 1..n_chunks |->
         IF i <= n_lower_size THEN <<(i - 1) * lower_size, lower_size>>
         ELSE <<(i - 1) * lower_size + 2 * (i - 1 - n_lower_size), lower_size + 2>>]
swap_list(tmp, chunk) == SwapAll(tmp, [i \in 1..(chunk[2] \div 2) |-> <<chunk[1] + 2 * (i - 1), chunk[1] + 2 * i - 1>>])
run_round(tmp, size, max_chunk_size) == Fold(LAMBDA s, chunk : swap_list(s, chunk), tmp, Chunks(size, max_chunk_size))
run_setup(base, k, step) ==
  IF k = 2 THEN <<base, base + step>> ELSE [i \in 1..(k - 2) |-> base + i * step]
CopyAndSort(a, places, size, max_chunk_size) ==
  LET tmp == run_round(Listed([i \in 1..Len(places) |-> a[places[i] + 1]]), size, max_chunk_size)
  IN  Fold(LAMBDA s, i : [s EXCEPT ![places[i] + 1] = tmp[i]], a, Upto(Len(places)))
Places(n, l, k) == Fold(LAMBDA s, base : s \o run_setup(base, k, l \div k), <<>>, Bases(n, l, k))
chunkier_odd_even_merge_sort(a, max_chunk_size) ==
  Fold(LAMBDA s, round : LET places == Places(Len(a), round[1], round[2]) IN CopyAndSort(s, places, Len(places), max_chunk_size),
       a, Rounds(Len(a), 1))
(* In loops, the addresses are counted up in memory and the size is worked *)
(* out beforehand. *)
loopy_chunkier_odd_even_merge_sort(a, max_chunk_size) ==
  LET n == Len(a)
      size(k) == IF k = 2 THEN n ELSE (n \div k) * (k - 2)
  IN  Fold(LAMBDA s, round : CopyAndSort(s, Places(n, round[1], round[2]), size(round[2]), max_chunk_size), a, Rounds(n, 1))

(* Merging with the comparisons revealed. *)
MergeRuns(A, i_left, i_right, i_end) ==
  LET step(st, j) ==
        IF st.i0 < i_right /\ (st.i1 >= i_end \/ A[st.i0 + 1] <= A[st.i1 + 1])
        THEN [st EXCEPT !.B = @ \o <<A[st.i0 + 1]>>, !.i0 = @ + 1]
        ELSE [st EXCEPT !.B = @ \o <<A[st.i1 + 1]>>, !.i1 = @ + 1]
  IN  Fold(step, [i0 |-> i_left, i1 |-> i_right, B |-> <<>>], Upto(i_end - i_left)).B
mergesort(A) ==
  Fold(LAMBDA s, twice : Fold(LAMBDA B, i : B \o MergeRuns(s, (i - 1) * twice, (i - 1) * twice + (twice \div 2), i * twice),
                              <<>>, Upto(Len(A) \div twice)), A, Doubled(1, Len(A)))
=============================================================================
