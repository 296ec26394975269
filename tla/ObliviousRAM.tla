---------------------------- MODULE ObliviousRAM ----------------------------
(***************************************************************************)
(* The oblivious memories of oram.py and path_oram.py as values: linear    *)
(* and trivial memories, which look at every entry, the tree, which looks  *)
(* at one path per access, the tree with a stash of path_oram.py, and the  *)
(* index that holds the leaves of a tree's entries, several of them packed *)
(* into an element of another memory.  Operations return what the program  *)
(* computes and the memory after it; the randomness is an argument.        *)
(***************************************************************************)
EXTENDS Networks

CONSTANTS MaxDemuxBits          \* max_demux_bits, 3 in oram.py

Zeros(n) == Listed([i \in 1..n |-> 0])
From(x, skip) == SubSeq(x, skip + 1, Len(x))
RECURSIVE log2(_)
log2(x) == IF x <= 1 THEN 0 ELSE 1 + log2((x + 1) \div 2)

Entry(v, x, empty) == [empty |-> empty, v |-> v, x |-> x]
get_empty(value_length) == Entry(0, Zeros(value_length), 1)
init_mem(size, value_length) == Listed([i \in 1..size |-> get_empty(value_length)])
is_full(ram) == \A i \in 1..Len(ram) : ram[i].empty = 0

(* The bit of the first one, and none if there is no one. *)
get_first_one(bits) == [i \in 1..Len(bits) |-> IF bits[i] = 1 /\ \A j \in 1..(i - 1) : bits[j] = 0 THEN 1 ELSE 0]

-----------------------------------------------------------------------------
(* A list of entries that is searched for an index: the value is the sum   *)
(* of those found, of which there should be one at most. *)
search(ram, index) == [i \in 1..Len(ram) |-> IF ram[i].v = index THEN 1 - ram[i].empty ELSE 0]
Selected(ram, bits, value_length, skip) ==
  Listed([k \in 1..(value_length - skip) |-> Total([i \in 1..Len(ram) |-> bits[i] * ram[i].x[k + skip]])])
Replaced(ram, bits, entry) == Listed([i \in 1..Len(ram) |-> IF bits[i] = 1 THEN entry ELSE ram[i]])

trivial_read(ram, n, index) ==
  LET found == search(ram, index) IN [value |-> Selected(ram, found, n, 0), empty |-> 1 - Total(found)]
trivial_read_and_remove(ram, n, index, skip) ==
  LET found == search(ram, index) IN
  [value |-> Selected(ram, found, n, skip), empty |-> 1 - Total(found), ram |-> Replaced(ram, found, get_empty(n))]
find_first_empty(ram) == get_first_one([i \in 1..Len(ram) |-> ram[i].empty])
trivial_add(ram, new_entry) == Replaced(ram, find_first_empty(ram), new_entry)
trivial_pop(ram, n) ==
  LET here == get_first_one([i \in 1..Len(ram) |-> 1 - ram[i].empty]) IN
  [entry |-> Fold(LAMBDA e, i : IF here[i] = 1 THEN ram[i] ELSE e, get_empty(n), Upto(Len(ram))),
   ram |-> Replaced(ram, here, get_empty(n))]
(* In place, or in the first empty entry. *)
trivial_access(ram, n, index, write, new_empty, new_value) ==
  LET found == search(ram, index)
      not_found == 1 - Total(found)
      here == IF not_found = 1 THEN find_first_empty(ram) ELSE found
      written(i) == [ram[i] EXCEPT !.v = index, !.x = new_value,
                                   !.empty = @ + found[i] - (IF new_empty = 1 THEN 0 ELSE 1)]
  IN  [value |-> Selected(ram, found, n, 0), empty |-> not_found,
       ram |-> Listed([i \in 1..Len(ram) |-> IF write = 1 /\ here[i] = 1 THEN written(i) ELSE ram[i]])]

-----------------------------------------------------------------------------
(* Entries in the order of their indices; the index is taken apart into    *)
(* one bit per entry. *)
RECURSIVE demux(_)
demux(x) ==
  IF Len(x) <= 1 THEN IF x = <<>> THEN <<1>> ELSE <<1 - x[1], x[1]>>
  ELSE LET a == demux(Lower(x))  b == demux(Upper(x)) IN
       Listed([i \in 1..(Len(a) * Len(b)) |-> a[((i - 1) % Len(a)) + 1] * b[((i - 1) \div Len(a)) + 1]])
bit_decompose(a, n) == Listed([i \in 1..n |-> (a \div 2^(i - 1)) % 2])
bit_compose(bits) == Total([i \in 1..Len(bits) |-> bits[i] * 2^(i - 1)])

IndexVector(ram, index) == demux(bit_decompose(index, log2(Len(ram))))
linear_read(ram, n, index) ==
  LET here == IndexVector(ram, index) IN
  [value |-> Selected(ram, here, n, 0), empty |-> Total([i \in 1..Len(ram) |-> here[i] * ram[i].empty])]
linear_write(ram, index, new_value) ==
  LET here == IndexVector(ram, index) IN
  Listed([i \in 1..Len(ram) |-> IF here[i] = 1 THEN [ram[i] EXCEPT !.x = new_value, !.empty = 0] ELSE ram[i]])
linear_access(ram, n, index, write, new_empty, new_value) ==
  LET here == IndexVector(ram, index)
      read == linear_read(ram, n, index)
  IN  [value |-> read.value, empty |-> read.empty,
       ram |-> Listed([i \in 1..Len(ram) |->
                  IF write * here[i] = 1 THEN [ram[i] EXCEPT !.x = new_value, !.empty = new_empty] ELSE ram[i]])]

-----------------------------------------------------------------------------
(* Several entries in an element, several elements in a block; entries     *)
(* that are longer than an element take several of them. *)
Sum(s) == Total(s)
RECURSIVE FloorLog2(_, _)
FloorLog2(a, b) == IF a < b THEN FloorLog2(2 * a, b) - 1 ELSE IF a < 2 * b THEN 0 ELSE 1 + FloorLog2(a, 2 * b)
AtMost(a, b) == IF a < b THEN a ELSE b
AtLeast(a, b) == IF a > b THEN a ELSE b
split_sizes(entry_size, max_bits) ==
  Fold(LAMBDA l, s : IF Sum(l[Len(l)]) + s > max_bits THEN Append(l, <<s>>) ELSE [l EXCEPT ![Len(l)] = Append(@, s)],
       <<<<>>>>, entry_size)
Packing(size, entry_size, value_size) ==
  LET entries == AtMost(size, FloorLog2(value_size, Sum(entry_size)))
      split == split_sizes(entry_size, value_size)
      long == entries < 0
      elements == IF long THEN log2(Len(split))
                  ELSE AtLeast(0, AtMost(MaxDemuxBits, log2(size * Sum(entry_size)) - entries))
      per_element == IF long THEN -elements ELSE entries
  IN  [size |-> size, entry_size |-> entry_size, split_sizes |-> split, long |-> long,
       log_entries_per_element |-> per_element, log_elements_per_block |-> elements,
       log_entries_per_block |-> IF long THEN 0 ELSE per_element + elements,
       real_size |-> IF long THEN size ELSE -((-size) \div 2^(per_element + elements))]

translate_index(pack, index) ==
  LET rem == index % 2^pack.log_entries_per_block
      c == rem % 2^pack.log_entries_per_element
  IN  [a |-> IF pack.real_size = 1 THEN 0 ELSE (index - rem) \div 2^pack.log_entries_per_block,
       b |-> (rem - c) \div 2^pack.log_entries_per_element, c |-> c]
Address(pack, index) == IF pack.long THEN [a |-> index, b |-> 0, c |-> 0] ELSE translate_index(pack, index)
Starts(lengths) == Listed([k \in 1..Len(lengths) |-> Sum(SubSeq(lengths, 1, k - 1))])
get_slice(value, start, lengths) ==
  LET slice == (value \div 2^(start * Sum(lengths))) % 2^Sum(lengths)
      starts == Starts(lengths)
  IN  Listed([k \in 1..Len(lengths) |-> (slice \div 2^starts[k]) % 2^lengths[k]])
set_slice(value, start, lengths, new) ==
  LET shift == 2^(start * Sum(lengths))
      lower == value % shift
      upper == ((value \div shift) \div 2^Sum(lengths)) * 2^Sum(lengths) * shift
      starts == Starts(lengths)
  IN  upper + lower + Total([k \in 1..Len(lengths) |-> new[k] * 2^starts[k]]) * shift

Chosen1(bits, block) == Total([i \in 1..Len(block) |-> bits[i] * block[i]])
Slicer_read(pack, at, block) ==
  get_slice(Chosen1(demux(bit_decompose(at.b, pack.log_elements_per_block)), block), at.c, pack.entry_size)
Slicer_write(pack, at, block, new) ==
  LET here == demux(bit_decompose(at.b, pack.log_elements_per_block))
      element == set_slice(Chosen1(here, block), at.c, pack.entry_size, new)
  IN  Listed([i \in 1..Len(block) |-> IF here[i] = 1 THEN element ELSE block[i]])
(* Of a long entry, the first part is at the top of its element. *)
MultiSlicer_read(pack, block) ==
  Fold(LAMBDA res, e : res \o Listed([k \in 1..Len(pack.split_sizes[e]) |->
          (block[e] \div 2^Sum(From(pack.split_sizes[e], k))) % 2^pack.split_sizes[e][k]]), <<>>, Upto(Len(pack.split_sizes)))
MultiSlicer_write(pack, new) ==
  Fold(LAMBDA st, sizes :
         [res |-> Append(st.res, Fold(LAMBDA r, k : r * 2^sizes[k] + st.left[k], 0, Upto(Len(sizes)))), left |-> From(st.left, Len(sizes))],
       [res |-> <<>>, left |-> new], pack.split_sizes).res
BlockRead(pack, at, block) == IF pack.long THEN MultiSlicer_read(pack, block) ELSE Slicer_read(pack, at, block)
BlockWrite(pack, at, block, new) == IF pack.long THEN MultiSlicer_write(pack, new) ELSE Slicer_write(pack, at, block, new)

-----------------------------------------------------------------------------
(* A tree of buckets: bucket 1 is the root, 2b and 2b + 1 are below b.  An *)
(* entry is on the path to its leaf, the first of its values. *)
n_buckets(D) == 2^(D + 1) - 1
OnPath(D, leaf, level) == (2^D + leaf) \div 2^(D - level)
BucketAdd(o, b, entry) ==
  [o EXCEPT !.tree[b] = trivial_add(@, entry), !.overflow = @ \/ (entry.empty = 0 /\ is_full(o.tree[b]))]
evict_bucket(o, b, d) ==
  LET popped == trivial_pop(o.tree[b], o.n + 1)
      bit == IF popped.entry.empty = 1 THEN 0 ELSE (popped.entry.x[1] \div 2^(o.D - 1 - d)) % 2
      none == get_empty(o.n + 1)
      left == BucketAdd([o EXCEPT !.tree[b] = popped.ram], 2 * b, IF bit = 1 THEN none ELSE popped.entry)
  IN  BucketAdd(left, 2 * b + 1, IF bit = 1 THEN popped.entry ELSE none)
evict2(o, b1, b2, d) == evict_bucket(evict_bucket(o, b1, d), b2, d)
(* From level 2 on, two buckets of the level are drawn. *)
tree_evict(o, pairs) ==
  LET root == evict_bucket(o, 1, 0)
      upper == IF o.D > 1 THEN evict2(root, 2, 3, 1) ELSE root
  IN  Fold(LAMBDA t, i : evict2(t, pairs[i][1] + 2^(i + 1), pairs[i][2] + 2^(i + 1), i + 1), upper, Upto(o.D - 2))
tree_add(o, entry, state, pairs) ==
  tree_evict(BucketAdd(o, 1, Entry(entry.v, <<state>> \o entry.x, entry.empty)), pairs)
read_and_remove_levels(o, u, path) ==
  LET read == Listed([l \in 1..(o.D + 1) |-> trivial_read_and_remove(o.tree[OnPath(o.D, path, l - 1)], o.n + 1, u, 1)]) IN
  [value |-> Listed([k \in 1..o.n |-> Total([l \in 1..(o.D + 1) |-> read[l].value[k]])]),
   empty |-> 1 - Total([l \in 1..(o.D + 1) |-> 1 - read[l].empty]),
   o |-> [o EXCEPT !.tree = Fold(LAMBDA t, l : [t EXCEPT ![OnPath(o.D, path, l - 1)] = read[l].ram], @, Upto(o.D + 1))]]

-----------------------------------------------------------------------------
(* The tree with a stash: bucket b has 2b + 1 and 2b + 2 below it, counted *)
(* from 0, and the lowest bit of a leaf is that of the root. *)
RECURSIVE bucket_index(_, _)
bucket_index(leaf, level) ==
  IF level = 0 THEN 0 ELSE 2 * bucket_index(leaf, level - 1) + 1 + ((leaf \div 2^(level - 1)) % 2)
path_read_and_remove_levels(o, u, path) ==
  LET levels == Listed([l \in 1..(o.D + 1) |-> trivial_read_and_remove(o.tree[bucket_index(path, l - 1) + 1], o.n + 1, u, 1)])
      stash == trivial_read_and_remove(o.stash, o.n + 1, u, 1)
      read == Append(levels, stash)
  IN  [value |-> Listed([k \in 1..o.n |-> Total([l \in 1..(o.D + 2) |-> (1 - read[l].empty) * read[l].value[k]])]),
       empty |-> 1 - Total([l \in 1..(o.D + 2) |-> 1 - read[l].empty]),
       o |-> [o EXCEPT !.stash = stash.ram,
                !.tree = Fold(LAMBDA t, l : [t EXCEPT ![bucket_index(path, l - 1) + 1] = levels[l].ram], @, Upto(o.D + 1))]]

(* The deepest level on both paths, one bit per level; none of an empty    *)
(* entry. *)
compute_lca(a, b, D, not_empty) ==
  LET same(i) == \A k \in 0..(i - 1) : (a \div 2^k) % 2 = (b \div 2^k) % 2 IN
  Listed([i \in 1..(D + 1) |-> IF not_empty = 1 /\ same(i - 1) /\ (i = D + 1 \/ ~same(i)) THEN 1 ELSE 0])

(* From the deepest level that is allowed upwards, the first one that is   *)
(* not full.  A bucket's size is counted in two bits, or in three. *)
FullBit(Z) == IF Z = 4 THEN 3 ELSE 2
Counted(bits, Z) ==
  LET t == bits[1]  t2 == bits[1] * bits[2] IN
  IF Z = 4 THEN <<1 - bits[1], bits[2] + t - 2 * t2, bits[3] + t2, bits[4]>> ELSE <<1 - bits[1], bits[2] + t>>
adjust_lca(o, size_bits, lca_bits, lev, not_empty) ==
  LET upper == AtMost(lev + o.sigma, o.D)
      lower == AtLeast(lev - o.tau, 0)
      step(st, k) ==
        LET j == upper - k + 1
            try == st.try + lca_bits[j + 1]
            here == try * (1 - st.sizes[j + 1][FullBit(o.Z)])
        IN  [try |-> IF here = 1 THEN 0 ELSE try, new |-> [st.new EXCEPT ![j + 1] = here],
             sizes |-> IF here = 1 THEN [st.sizes EXCEPT ![j + 1] = Counted(@, o.Z)] ELSE st.sizes]
      done == Fold(step, [try |-> 0, new |-> Zeros(o.D + 1), sizes |-> size_bits], Upto(upper - lower + 1))
  IN  [bits |-> Append(done.new, not_empty - Total(done.new)), sizes |-> done.sizes]

(* Which places of a bucket stay empty, by its size. *)
EmptyPlaces(s, Z) ==
  LET c == s[1] * s[2] IN
  CASE Z = 2 -> <<1 - (s[1] + s[2]), 1 - s[2]>>
    [] Z = 3 -> <<1 - (s[1] + s[2] - c), 1 - s[2], 1 - c>>
    [] Z = 4 -> <<1 - (s[1] + s[2] - c + s[3]), 1 - (s[2] + s[3]), 1 - (c + s[3]), 1 - s[3]>>

(* All entries of the path and of the stash get levels; empty ones get the *)
(* places that are left; shuffled, with the levels revealed, they are put  *)
(* into the buckets of their levels. *)
NoSizes(o) == Listed([j \in 1..(o.D + 1) |-> IF o.Z = 4 THEN <<0, 0, 0, 1>> ELSE <<0, 0>>])
PathEntries(o, leaf) == Fold(LAMBDA s, l : s \o o.tree[bucket_index(leaf, l - 1) + 1], <<>>, Upto(o.D + 1))
temp_level(o, i) == IF i <= o.Z * (o.D + 1) THEN (i - 1) \div o.Z ELSE 0
AddPlaced(st, e, adjusted) ==
  [sizes |-> adjusted.sizes,
   entries |-> Append(st.entries, <<e, Total([j \in 1..Len(adjusted.bits) |-> adjusted.bits[j] * (j - 1)]), adjusted.bits[Len(adjusted.bits)]>>)]
LevelsOf(o, leaf, temp_storage) ==
  Fold(LAMBDA st, i :
         AddPlaced(st, temp_storage[i],
                   adjust_lca(o, st.sizes, compute_lca(temp_storage[i].x[1], leaf, o.D, 1 - temp_storage[i].empty),
                              temp_level(o, i), 1 - temp_storage[i].empty)),
       [sizes |-> NoSizes(o), entries |-> <<>>], Upto(Len(temp_storage)))
Empties(o, sizes) ==
  NotNone(odd_even_merge_sort("bitwise", Padded(
    Fold(LAMBDA s, j : s \o Listed([i \in 1..o.Z |-> <<EmptyPlaces(sizes[j], o.Z)[i], j - 1>>]), <<>>, Upto(o.D + 1)))))
Levelled(o, merged, empties, size) ==
  Listed([i \in 1..size |->
    <<merged[i][1], IF merged[i][1].empty = 0 THEN merged[i][2] ELSE IF i <= Len(empties) THEN empties[i][2] ELSE o.D + 1>>])
PlacedEntries(o, placed) ==
  Levelled(o, odd_even_merge_sort("eviction", Padded(placed.entries)), Empties(o, placed.sizes), Len(placed.entries))
Stored(o, temp_storage, shuffled) ==
  Fold(LAMBDA st, e : [ram |-> [st.ram EXCEPT ![e[2] * o.Z + st.sizes[e[2] + 1] + 1] = e[1]],
                       sizes |-> [st.sizes EXCEPT ![e[2] + 1] = @ + 1]],
       [ram |-> temp_storage, sizes |-> Zeros(o.D + 2)], shuffled).ram
WriteBack(o, leaf, stored) ==
  [o EXCEPT !.tree = Fold(LAMBDA t, l : [t EXCEPT ![bucket_index(leaf, l - 1) + 1] = SubSeq(stored, (l - 1) * o.Z + 1, l * o.Z)],
                          @, Upto(o.D + 1)),
            !.stash = SubSeq(stored, (o.D + 1) * o.Z + 1, Len(stored))]
Shuffled(o, leaf, temp_storage, config) ==
  WriteBack(o, leaf, Stored(o, temp_storage,
    NotNone(rec_shuffle(Padded(PlacedEntries(o, LevelsOf(o, leaf, temp_storage))), config, FALSE))))
shuffle_evict(o, leaf, config) == Shuffled(o, leaf, PathEntries(o, leaf) \o o.stash, config)
(* The leaves take turns.  The leaf of the eviction becomes the state. *)
path_evict(o, config) ==
  shuffle_evict([o EXCEPT !.eviction_count = (@ + 1) % 2^o.D, !.state = o.eviction_count], o.eviction_count, config)
path_add(o, entry, state, config) ==
  LET e == Entry(entry.v, <<state>> \o entry.x, entry.empty) IN
  path_evict([o EXCEPT !.stash = trivial_add(@, e), !.overflow = @ \/ (e.empty = 0 /\ is_full(o.stash))], config)

-----------------------------------------------------------------------------
(* One interface for all of them.  A draw of a tree holds the new leaf and *)
(* the buckets to evict, or the switches of the shuffle; the draws behind  *)
(* it are for the memory of its index. *)
RECURSIVE read_and_maybe_remove(_, _, _)
RECURSIVE add(_, _, _, _)
(* An index is read and written in one step. *)
PutBackUnchanged(p, at, got, read, new, draws) ==
  [value |-> read, p |-> [p EXCEPT !.l = add(got.o, Entry(at.a, got.value, 0), got.state, draws)]]
PutBack(p, at, got, read, new, draws) ==
  [value |-> read, p |-> [p EXCEPT !.l = add(got.o, Entry(at.a, BlockWrite(p.pack, at, got.value, new), 0), got.state, draws)]]
PackedUpdate(p, at, value, write, draws, got, read) == PutBack(p, at, got, read, IF write = 1 THEN value ELSE read, draws)
PackedFound(p, at, value, write, draws, got) ==
  PackedUpdate(p, at, value, write, draws, got, BlockRead(p.pack, at, got.value))
PackedAt(p, at, value, write, draws) == PackedFound(p, at, value, write, draws, read_and_maybe_remove(p.l, at.a, draws))
PackedAccess(p, index, value, write, draws) == PackedAt(p, Address(p.pack, index), value, write, draws)
Renewed(o, update, leaf) == [path |-> update.value[1], o |-> [o EXCEPT !.index = update.p, !.state = leaf]]
read_and_renew_index(o, u, draws) ==
  Renewed(o, PackedAccess(o.index, u, <<draws[1].leaf>>, 1, Tail(draws)), draws[1].leaf)

TrivialRemoved(o, r) == [value |-> r.value, empty |-> r.empty, o |-> [o EXCEPT !.ram = r.ram], state |-> 0]
FromPath(o, index, path) ==
  IF o.kind = "path" THEN path_read_and_remove_levels(o, index, path) ELSE read_and_remove_levels(o, index, path)
TreeRemoved(renewed, index) == FromPath(renewed.o, index, renewed.path) @@ [state |-> renewed.o.state]
read_and_maybe_remove(o, index, draws) ==
  CASE o.kind = "list" -> [value |-> o.l[index + 1], empty |-> 0, o |-> o, state |-> 0]
    [] o.kind = "linear" -> linear_read(o.ram, o.n, index) @@ [o |-> o, state |-> 0]
    [] o.kind = "trivial" -> TrivialRemoved(o, trivial_read_and_remove(o.ram, o.n, index, 0))
    [] o.kind \in {"tree", "path"} -> TreeRemoved(read_and_renew_index(o, index, draws), index)
add(o, entry, state, draws) ==
  CASE o.kind = "list" -> [o EXCEPT !.l[entry.v + 1] = entry.x]
    [] o.kind = "linear" -> [o EXCEPT !.ram = linear_write(@, entry.v, entry.x)]
    [] o.kind = "trivial" -> [o EXCEPT !.ram = trivial_add(@, entry)]
    [] o.kind = "tree" -> tree_add(o, entry, state, draws[1].evict)
    [] o.kind = "path" -> path_add(o, entry, state, draws[1].evict)

(* What is asked of a memory. *)
ToRead(index, n) == [op |-> "read", index |-> index, write |-> 0, new_empty |-> 0, new_value |-> Zeros(n)]
ToWrite(index, value) == [op |-> "write", index |-> index, write |-> 1, new_empty |-> 0, new_value |-> value]
ToAccess(index, value) == [ToWrite(index, value) EXCEPT !.op = "access"]
ToDelete(index, for_real, n) == [op |-> "access", index |-> index, write |-> for_real, new_empty |-> 1, new_value |-> Zeros(n)]

(* Trees take the entry out and add it again, changed or not. *)
Readded(got, r, draws) ==
  [value |-> got.value, empty |-> got.empty,
   o |-> add(got.o, Entry(r.index, IF r.write = 1 THEN r.new_value ELSE got.value, IF r.write = 1 THEN r.new_empty ELSE got.empty),
             got.state, draws)]
abstract_access(o, r, draws) == Readded(read_and_maybe_remove(o, r.index, draws), r, draws)
InPlace(o, got) == [value |-> got.value, empty |-> got.empty, o |-> [o EXCEPT !.ram = got.ram]]
linear(o, r) ==
  CASE r.op = "read" -> linear_read(o.ram, o.n, r.index) @@ [o |-> o]
    [] r.op = "write" -> [value |-> Zeros(o.n), empty |-> 1, o |-> [o EXCEPT !.ram = linear_write(@, r.index, r.new_value)]]
    [] r.op = "access" -> InPlace(o, linear_access(o.ram, o.n, r.index, r.write, r.new_empty, r.new_value))
trivial(o, r) ==
  IF r.op = "read" THEN trivial_read(o.ram, o.n, r.index) @@ [o |-> o]
  ELSE InPlace(o, trivial_access(o.ram, o.n, r.index, r.write, r.new_empty, r.new_value))
WithEmpty(value, o) == [value |-> Tail(value), empty |-> 1 - value[1], o |-> o]
PackedRead(o, at, block) == WithEmpty(BlockRead(o.pack, at, block.value), [o EXCEPT !.l = block.o])
PackedAccessed(got) == WithEmpty(got.value, got.p)
RECURSIVE access(_, _, _)
PackedReadAt(o, at, draws) == PackedRead(o, at, access(o.l, ToRead(at.a, 0), draws))
access(o, r, draws) ==
  CASE o.kind = "list" -> [value |-> o.l[r.index + 1], empty |-> 0, o |-> o]
    [] o.kind = "linear" -> linear(o, r)
    [] o.kind = "trivial" -> trivial(o, r)
    [] o.kind = "packed" /\ r.op = "read" -> PackedReadAt(o, Address(o.pack, r.index), draws)
    [] o.kind = "packed" /\ r.op # "read" ->
         PackedAccessed(PackedAccess(o, r.index, <<1 - r.new_empty>> \o r.new_value, r.write, draws))
    [] o.kind \in {"tree", "path"} -> abstract_access(o, r, draws)

-----------------------------------------------------------------------------
(* New memories.  An index is filled with random leaves, if it is the      *)
(* outermost one, and with zeros that stay unwritten if not. *)
NewList(size, value_length) == [kind |-> "list", l |-> Listed([i \in 1..size |-> Zeros(value_length)])]
NewLinear(size, n) == [kind |-> "linear", n |-> n, ram |-> init_mem(size, n)]
NewTrivial(size, n) == [kind |-> "trivial", n |-> n, ram |-> init_mem(size, n)]
NewTree(kind, size, n, D, Z, index) ==
  [kind |-> kind, n |-> n, D |-> D, Z |-> Z, overflow |-> FALSE, index |-> index, state |-> 0,
   tree |-> Listed([b \in 1..n_buckets(D) |-> init_mem(Z, n + 1)])]
NewPath(size, n, Z, stash_size, tau, sigma, index) ==
  NewTree("path", size, n, log2(size), Z, index)
    @@ [stash |-> init_mem(stash_size, n + 1), eviction_count |-> 0, tau |-> tau, sigma |-> sigma]
NewPacked(pack, n, storage) == [kind |-> "packed", n |-> n, pack |-> pack, l |-> storage]
=============================================================================
