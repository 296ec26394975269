---------------------------- MODULE OramAccesses ----------------------------
(***************************************************************************)
(* Accesses to an oblivious memory one after the other, with every choice  *)
(* of leaves and buckets to evict, and where the memory keeps the value of *)
(* an index.                                                               *)
(***************************************************************************)
EXTENDS ObliviousRAM, FiniteSets

CONSTANTS Indices,              \* the indices that are accessed
          DeepLeaves,           \* bound on the new leaves in trees of three levels
          MaxAccesses,          \* bound on the number of accesses
          MaxPermuted           \* bound on the draws of a shuffle

VARIABLES oram,                 \* the memory, as in ObliviousRAM
          answer,               \* what the last access has returned
          contents,             \* what the memory holds, by the places of its entries
          accesses              \* how many there were

vars == <<oram, answer, contents, accesses>>

Nothing == <<>>

(* The random values of an access: those of a tree, and those of the       *)
(* memory that holds its index. *)
EvictedPairs(D) ==
  IF D <= 2 THEN {<<>>} ELSE {<<pair>> : pair \in {<<0, 2>>, <<1, 3>>}}
Leaves(D) == IF D <= 2 THEN 0..(2^D - 1) ELSE DeepLeaves
Shuffles(o) ==
  LET n == PowerAbove(o.Z * (o.D + 1) + Len(o.stash)) IN
  {configure_waksman(random_perm(n, [i \in 1..(n - 1) |-> (i * k) % (n + 1 - i)])) : k \in 1..MaxPermuted}
RECURSIVE Draws(_)
Draws(o) ==
  CASE o.kind \in {"tree", "path"} ->
         {<<[leaf |-> d[1], evict |-> d[2]]>> \o d[3] :
            d \in Leaves(o.D) \X (IF o.kind = "path" THEN Shuffles(o) ELSE EvictedPairs(o.D)) \X Draws(o.index)}
    [] o.kind = "packed" -> Draws(o.l)
    [] OTHER -> {<<>>}

(* The value of an index, by the places where an entry of it is kept. *)
Misplaced == <<-1>>
OfPlaces(places, onPath, entry(_)) ==
  IF places = {} THEN Nothing
  ELSE IF Cardinality(places) = 1 /\ onPath THEN entry(CHOOSE p \in places : TRUE) ELSE Misplaced
PlacesOf(ram, u) == {i \in 1..Len(ram) : ram[i].empty = 0 /\ ram[i].v = u}
TreePlaces(o, u) == UNION {{b} \X PlacesOf(o.tree[b], u) : b \in 1..Len(o.tree)}

RECURSIVE Held(_, _)
Held(o, u) ==
  LET at == Address(o.pack, u)
      block == IF o.kind = "packed" THEN Held(o.l, at.a) ELSE <<>>
      leaf == Held(o.index, u)[1]
      path == {IF o.kind = "path" THEN bucket_index(leaf, l) + 1 ELSE OnPath(o.D, leaf, l) : l \in 0..o.D}
      stash == IF o.kind = "path" THEN {0} \X PlacesOf(o.stash, u) ELSE {}
      here == PlacesOf(o.ram, u)
      value == IF block = Nothing THEN Zeros(o.n + 1) ELSE BlockRead(o.pack, at, block)
  IN  CASE o.kind = "list" -> o.l[u + 1]
        [] o.kind = "linear" -> IF o.ram[u + 1].empty = 1 THEN Nothing ELSE o.ram[u + 1].x
        [] o.kind = "trivial" -> OfPlaces(here, TRUE, LAMBDA i : o.ram[i].x)
        [] o.kind = "packed" -> value
        [] OTHER -> OfPlaces(TreePlaces(o, u) \cup stash, \A p \in TreePlaces(o, u) : p[1] \in path,
                             LAMBDA p : Tail((IF p[1] = 0 THEN o.stash ELSE o.tree[p[1]])[p[2]].x))
Holding(o, u) ==
  LET value == Held(o, u) IN
  IF o.kind # "packed" THEN value ELSE IF value[1] = 0 THEN Nothing ELSE Tail(value)
Contents(o) == Tabled([i \in Indices |-> Holding(o, i)])

RECURSIVE Overflown(_)
Overflown(o) ==
  CASE o.kind \in {"tree", "path"} -> o.overflow \/ Overflown(o.index)
    [] o.kind = "packed" -> Overflown(o.l)
    [] OTHER -> FALSE
lost == Overflown(oram)

(* The k-th access writes k. *)
Fresh == <<accesses + 1>>
Requests(i) == {ToRead(i, oram.n), ToWrite(i, Fresh), ToAccess(i, Fresh), ToDelete(i, 1, oram.n), ToDelete(i, 0, oram.n)}
(* Writes and deletes return nothing. *)
Answer(r, got) == IF r.op = "write" \/ r.new_empty = 1 \/ got.empty = 1 THEN Nothing ELSE got.value

Access(r) ==
  /\ ~lost /\ accesses < MaxAccesses
  /\ accesses' = accesses + 1
  /\ \E draws \in Draws(oram) :
       \E got \in {access(oram, r, draws)} : oram' = got.o /\ answer' = Answer(r, got) /\ contents' = Contents(got.o)

Next == \E i \in Indices : \E r \in Requests(i) : Access(r)

-----------------------------------------------------------------------------
Values == {<<k>> : k \in 1..MaxAccesses}
Memory == INSTANCE RandomAccess
(* Every access to a memory finds what the last one of that index left     *)
(* there, and leaves all other indices alone, whichever leaves, buckets    *)
(* and shuffles are drawn; at any time an entry is in one place only, on   *)
(* the path of its leaf.  (oram.py, path_oram.py) *)
FindsWhatWasLeft == Memory!Spec
=============================================================================
