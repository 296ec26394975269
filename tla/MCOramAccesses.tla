--------------------------- MODULE MCOramAccesses ---------------------------
(* Memories of every kind, small enough for TLC.  The bucket sizes and      *)
(* depths of trees are scaled down: the constructor's buckets hold all      *)
(* entries unless there are more than twenty or so. *)
EXTENDS OramAccesses

(* An index whose entries of D bits share one element, with its leaves. *)
Index(size, D, leaves) ==
  NewPacked(Packing(size, <<D>>, 16), 0, [NewList(1, 1) EXCEPT !.l = <<<<bit_compose(Fold(LAMBDA s, l : s \o bit_decompose(l, D), <<>>, leaves))>>>>])
PackedOver(storage, size, entry_size, value_size) ==
  LET pack == Packing(size, entry_size, value_size) IN NewPacked(pack, Len(entry_size) - 1, storage)
RootIndex(pack, D) == NewPacked(pack, 0, NewTree("tree", 2, 2^pack.log_elements_per_block, 1, 3, Index(2, 1, <<1, 0>>)))

Linear == NewLinear(4, 1)
Trivial == NewTrivial(2, 1)
PackedLinear == PackedOver(NewLinear(2, 2), 8, <<1, 2>>, 7)
LongEntries == PackedOver(NewLinear(2, 2), 2, <<1, 3>>, 3)
SmallTree == NewTree("tree", 2, 1, 1, 3, Index(2, 1, <<1, 0>>))
Tree2 == NewTree("tree", 4, 1, 2, 2, Index(4, 2, <<2, 0, 1, 3>>))
Tree3 == NewTree("tree", 4, 1, 3, 2, Index(4, 3, <<6, 0, 1, 3>>))
Nested == NewTree("tree", 2, 1, 1, 3, RootIndex(Packing(2, <<1>>, 1), 1))
Path2 == NewPath(4, 1, 2, 2, 20, 20, Index(4, 2, <<3, 0, 2, 1>>))
Path3 == NewPath(2, 1, 3, 2, 20, 20, Index(2, 1, <<0, 0>>))
Path4 == NewPath(2, 1, 4, 2, 0, 1, Index(2, 1, <<1, 0>>))

Init == oram \in {Linear, Trivial, PackedLinear, LongEntries, SmallTree, Tree2, Tree3, Nested, Path2, Path3, Path4}
        /\ answer = Nothing /\ contents = Contents(oram) /\ accesses = 0
Spec == Init /\ [][Next]_vars
=============================================================================
