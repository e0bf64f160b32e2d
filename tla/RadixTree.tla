----------------------------- MODULE RadixTree ------------------------------
(***************************************************************************)
(* The tree of include/libpmemobj++/experimental/radix_tree.hpp.           *)
(*                                                                         *)
(* A key is a sequence of bytes, and a byte has two slices of SLNODES      *)
(* values each (16 in the code).  A pointer is Nil, a leaf or a node; info *)
(* is what never changes of a leaf or a node, mem the pointers:            *)
(*   Root               the root                                           *)
(*   <<n, -2>>          the parent of leaf or node n                       *)
(*   <<n, -1>>          the embedded entry of node n                       *)
(*   <<n, 0>>, ...      its children                                       *)
(*                                                                         *)
(* A read is a record that Step takes from one load of a pointer to the    *)
(* next.  Run takes a whole read at once, which is what the writer sees:   *)
(* nobody else changes the tree.                                           *)
(***************************************************************************)
EXTENDS Integers, SequencesExt

CONSTANT SLNODES        \* values of a slice

Nil == 0
Root == <<0, 0>>
Parent(n) == <<n, -2>>
Embedded(n) == <<n, -1>>
Child(n, i) == <<n, i>>

FIRST_NIB == 1                  \* the position of the slice that comes first
NoNib == 2                      \* behind both
slice_index(b, bit) == IF bit = FIRST_NIB THEN b \div SLNODES ELSE b % SLNODES

EmptyTree == [mem |-> [l \in {Root} |-> Nil], info |-> << >>, size |-> 0]
load(t, l) == t.mem[l]
is_leaf(t, n) == t.info[n].leaf
Key(t, n) == t.info[n].key

-----------------------------------------------------------------------------
(* Keys *)

Shorter(k1, k2) == IF Len(k1) < Len(k2) THEN Len(k1) ELSE Len(k2)

prefix_diff(lhs, rhs) ==
    CHOOSE d \in 0..Shorter(lhs, rhs) :
        /\ \A i \in 1..d : lhs[i] = rhs[i]
        /\ d < Shorter(lhs, rhs) => lhs[d + 1] # rhs[d + 1]

compare(k1, k2) ==
    LET d == prefix_diff(k1, k2)
    IN  IF d # Shorter(k1, k2) THEN k1[d + 1] - k2[d + 1] ELSE Len(k1) - Len(k2)

bit_diff(leaf_key, key, diff) ==
    IF diff = Shorter(leaf_key, key) THEN NoNib
    ELSE IF slice_index(leaf_key[diff + 1], FIRST_NIB) # slice_index(key[diff + 1], FIRST_NIB)
    THEN FIRST_NIB ELSE 0

path_length_equal(t, key, n) == t.info[n].byte = Len(key) /\ t.info[n].bit = FIRST_NIB

\* The child of n that key belongs to.
Slot(t, key, n) == Child(n, slice_index(key[t.info[n].byte + 1], t.info[n].bit))

-----------------------------------------------------------------------------
(* Reads *)

\* op    find, lower (bound), upper (bound), begin, next, prev; emplace: the
\*       writer's descent          key   what is looked for
\* pc    what the next load is for  at    where it loads from
\* n     the node it has come to, or whose place among the children it wants
\* path  of node_desc               leaf  the result
\* exact upper_bound has met the key and looks for its successor
\* broken an assertion did not hold
Read(op, key) ==
    [op |-> op, key |-> key, pc |-> "root", at |-> Root, n |-> Nil, path |-> << >>,
     leaf |-> Nil, exact |-> FALSE, broken |-> FALSE]

\* ++ and -- of an iterator at leaf.
Neighbour(t, op, leaf) ==
    [Read(op, Key(t, leaf)) EXCEPT !.pc = "up", !.at = Parent(leaf), !.n = leaf, !.leaf = leaf]

Goto(r, pc, at) == [r EXCEPT !.pc = pc, !.at = at]
Restart(r) == [Read(r.op, r.key) EXCEPT !.broken = r.broken]
Done(r, leaf) == [Restart(r) EXCEPT !.pc = "done", !.leaf = leaf]
Asserted(r, cond) == [r EXCEPT !.broken = @ \/ ~cond]
Backward(r) == r.op = "prev"

\* node::begin and operator++ of its iterators, in either direction.
First(r, n) == IF Backward(r) THEN Child(n, SLNODES - 1) ELSE Embedded(n)
AtEnd(r) == r.at[2] = IF Backward(r) THEN -1 ELSE SLNODES - 1
Second(r) == <<r.at[1], IF Backward(r) THEN r.at[2] - 1 ELSE r.at[2] + 1>>

\* Mutant: ++ tries again where it stood instead of searching from the root.
Conflict_Again(r) ==
    IF r.op = "next" THEN [r EXCEPT !.pc = "up", !.at = Parent(r.leaf), !.n = r.leaf] ELSE Restart(r)

\* A concurrent operation was in the way.
Conflict(r) ==
    Restart(IF r.op = "next" THEN [r EXCEPT !.op = "upper"] ELSE r)

\* validate_path: each node of the path is still where it was, and so is its
\* parent.
ValidateFrom(r, i) ==
    IF i > Len(r.path) THEN Done(r, r.leaf)
    ELSE Goto([r EXCEPT !.n = i], "slot", r.path[i].slot)
\* Mutant: the path is not validated.
Validate_Not(r, leaf) == Done(r, leaf)

Validate(r, leaf) == ValidateFrom([r EXCEPT !.leaf = leaf], 1)
ValidateSlot(r, v) ==
    LET d == r.path[r.n]
    IN  IF v # d.node THEN Restart(r)
        ELSE IF v = Nil THEN ValidateFrom(r, r.n + 1) ELSE Goto(r, "parent", Parent(v))
ValidateParent(r, v) ==
    IF v # r.path[r.n].prev THEN Restart(r) ELSE ValidateFrom(r, r.n + 1)

\* What find_leaf and next_leaf have found.
Result(r, leaf) ==
    IF r.op \in {"lower", "upper"} /\ ~r.exact THEN Validate(r, leaf) ELSE Done(r, leaf)

find_leaf(t, r, n) ==
    IF is_leaf(t, n) THEN Result(r, n) ELSE Goto(r, "leaf", First(r, n))
FindLeaf(t, r, v) ==
    IF v # Nil THEN find_leaf(t, r, v)
    ELSE IF AtEnd(r) THEN Conflict(r) ELSE Goto(r, "leaf", Second(r))

next_leaf(r) ==
    IF AtEnd(r) THEN Goto([r EXCEPT !.n = r.at[1]], "up", Parent(r.at[1]))
    ELSE Goto(r, "next", Second(r))
NextLeaf(t, r, v) == IF v # Nil THEN find_leaf(t, r, v) ELSE next_leaf(r)
NextUp(r, v) == IF v = Nil THEN Result(r, Nil) ELSE Goto(r, "child", First(r, v))
find_child(r, v) ==
    IF v = r.n THEN next_leaf(r)
    ELSE IF AtEnd(r) THEN Conflict(r) ELSE Goto(r, "child", Second(r))

\* try_increment and try_decrement of an iterator at leaf.
Advance(r, leaf) == Goto([r EXCEPT !.n = leaf, !.leaf = leaf], "up", Parent(leaf))

follow_path(t, path, diff, sh) ==
    path[CHOOSE i \in DOMAIN path :
           LET Passed(n) == /\ n # Nil /\ ~is_leaf(t, n)
                            /\ \/ t.info[n].byte < diff
                               \/ t.info[n].byte = diff /\ t.info[n].bit >= sh
           IN  ~Passed(path[i].node) /\ \A j \in 1..(i - 1) : Passed(path[j].node)]

\* To the right of the path's element d.
Beyond(r, d) ==
    IF d.slot = Root THEN Validate(r, Nil) ELSE next_leaf([r EXCEPT !.at = d.slot])

\* Mutant: a key that parts from the tree's is taken to be greater.
BoundAt_Greater(t, r, leaf_key, diff, d) ==
    IF d.node # Nil /\ diff = Len(r.key) THEN find_leaf(t, r, d.node) ELSE Beyond(r, d)

\* internal_bound, from the point d where the key leaves the keys of the tree.
BoundAt(t, r, leaf_key, diff, d) ==
    LET key == r.key
    IN  IF /\ d.node # Nil /\ diff < Len(leaf_key)
           /\ diff = Len(key) \/ key[diff + 1] < leaf_key[diff + 1]
        THEN find_leaf(t, r, d.node)
        ELSE Beyond(Asserted(r, d.node # Nil /\ diff = Len(leaf_key) => d.node = r.leaf), d)

Diverging(t, r, leaf_key, diff) ==
    BoundAt(t, r, leaf_key, diff, follow_path(t, r.path, diff, bit_diff(leaf_key, r.key, diff)))

\* internal_bound, with the leaf that descend has found.
internal_bound(t, r) ==
    IF Key(t, r.leaf) # r.key THEN Diverging(t, r, Key(t, r.leaf), prefix_diff(r.key, Key(t, r.leaf)))
    ELSE IF r.op = "lower" THEN Done(r, r.leaf) ELSE Advance([r EXCEPT !.exact = TRUE], r.leaf)

\* descend, from node n of the path on.
Found(r, leaf) == [r EXCEPT !.pc = "found", !.leaf = leaf]
any_leftmost_leaf(t, r, n) ==
    IF is_leaf(t, n) THEN Found(r, n) ELSE Goto([r EXCEPT !.n = n], "leftmost", Embedded(n))
Leftmost(t, r, v) ==
    IF v # Nil /\ r.at = Embedded(r.n) /\ t.info[r.n].byte >= Len(r.key) THEN Found(r, v)
    ELSE IF v # Nil /\ r.at # Embedded(r.n) THEN any_leftmost_leaf(t, r, v)
    ELSE IF AtEnd(r) THEN Restart(r) ELSE Goto(r, "leftmost", Second(r))

Descend(t, r, n) ==
    IF is_leaf(t, n) \/ t.info[n].byte >= Len(r.key) THEN any_leftmost_leaf(t, r, n)
    ELSE Goto([r EXCEPT !.n = n], "descend", Slot(t, r.key, n))
descend(t, r, v) ==
    LET s == [r EXCEPT !.path = Append(@, [slot |-> r.at, node |-> v, prev |-> r.n])]
    IN  IF v = Nil THEN any_leftmost_leaf(t, s, r.n) ELSE Descend(t, s, v)

internal_find(t, r, v) ==
    IF v = Nil THEN Done(r, Nil)
    ELSE IF is_leaf(t, v) THEN Done(r, IF Key(t, v) = r.key THEN v ELSE Nil)
    ELSE IF path_length_equal(t, r.key, v) THEN Goto(r, "find", Embedded(v))
    ELSE IF t.info[v].byte >= Len(r.key) THEN Done(r, Nil)
    ELSE Goto(r, "find", Slot(t, r.key, v))

LoadRoot(t, r, v) ==
    IF r.op = "find" THEN internal_find(t, r, v)
    ELSE IF v = Nil THEN Done(r, Nil)
    ELSE IF r.op \in {"begin", "prev"} THEN find_leaf(t, r, v)
    ELSE descend(t, r, v)

validate_bound(t, r) ==
    r.leaf = Nil \/ compare(Key(t, r.leaf), r.key) >= IF r.op = "lower" THEN 0 ELSE 1

Loaded(t, r, v) ==
    CASE r.pc = "root" -> LoadRoot(t, r, v)
      [] r.pc = "find" -> internal_find(t, r, v)
      [] r.pc = "descend" -> descend(t, r, v)
      [] r.pc = "leftmost" -> Leftmost(t, r, v)
      [] r.pc = "up" -> NextUp(r, v)
      [] r.pc = "child" -> find_child(r, v)
      [] r.pc = "next" -> NextLeaf(t, r, v)
      [] r.pc = "leaf" -> FindLeaf(t, r, v)
      [] r.pc = "slot" -> ValidateSlot(r, v)
      [] r.pc = "parent" -> ValidateParent(r, v)

Descended(t, r) ==
    IF r.pc # "found" THEN r
    ELSE IF r.op = "emplace" THEN [r EXCEPT !.pc = "done"] ELSE internal_bound(t, r)

Returned(t, r) ==
    IF r.pc = "done" /\ r.op \in {"lower", "upper"} THEN Asserted(r, validate_bound(t, r)) ELSE r

Step(t, r) == Returned(t, Descended(t, Loaded(t, r, load(t, r.at))))

RECURSIVE Run(_, _)
Run(t, r) == IF r.pc = "done" THEN r ELSE Run(t, Step(t, r))

-----------------------------------------------------------------------------
(* Writes: the tree with what the operation has allocated and initialised,   *)
(* and the stores it then makes to pointers that others may be reading       *)

Allocate(t, i, parent, entries) ==
    LET n == Len(t.info) + 1
        own == {Parent(n)} \cup (IF i.leaf THEN {} ELSE {<<n, j>> : j \in -1..(SLNODES - 1)})
        Initial(l) == IF l = Parent(n) THEN parent
                      ELSE IF l[2] \in DOMAIN entries THEN entries[l[2]] ELSE Nil
    IN  [t EXCEPT !.mem = [l \in DOMAIN @ \cup own |-> IF l \in own THEN Initial(l) ELSE @[l]],
                  !.info = Append(@, i)]

Newest(t) == Len(t.info)
NoEntries == [j \in {} |-> Nil]
LeafInfo(key) == [leaf |-> TRUE, key |-> key]
NodeInfo(byte, bit) == [leaf |-> FALSE, byte |-> byte, bit |-> bit]

\* make_leaf: a new element.
NewLeaf(t, key, parent) ==
    [Allocate(t, LeafInfo(key), parent, NoEntries) EXCEPT !.size = @ + 1]

Update(t, stores) == [tree |-> t, stores |-> stores]
Write(l, v) == [at |-> l, to |-> v]

\* A new leaf in an empty place.
Place(t, key, parent, slot) ==
    LET u == NewLeaf(t, key, parent) IN Update(u, <<Write(slot, Newest(u))>>)

\* A new node between slot and n, with n and a new leaf below it.
Split(t, key, d, byte, bit, old, new) ==
    LET node == Newest(t) + 2
        u == NewLeaf(t, key, node)
        entries == [j \in {old, new} |-> IF j = new THEN Newest(u) ELSE d.node]
        w == Allocate(u, NodeInfo(byte, bit), load(t, Parent(d.node)), entries)
    IN  Update(w, <<Write(Parent(d.node), node), Write(d.slot, node)>>)

\* With the leaf's key, the length of the prefix it shares with the new key, the
\* slice in which they differ and the place d where they part.
EmplaceAt(t, key, leaf_key, diff, sh, d) ==
    LET Nib(k, bit) == slice_index(k[diff + 1], bit)
    IN  IF d.node = Nil THEN Place(t, key, d.prev, d.slot)
        ELSE IF diff = Len(key)
        THEN IF ~is_leaf(t, d.node) /\ path_length_equal(t, key, d.node)
             THEN Place(t, key, d.node, Embedded(d.node))
             ELSE Split(t, key, d, diff, FIRST_NIB, Nib(leaf_key, FIRST_NIB), -1)
        ELSE IF diff = Len(leaf_key)
        THEN Split(t, key, d, diff, FIRST_NIB, -1, Nib(key, FIRST_NIB))
        ELSE Split(t, key, d, diff, sh, Nib(leaf_key, sh), Nib(key, sh))

EmplaceBeside(t, key, path, leaf_key, diff, sh) ==
    IF key = leaf_key THEN Update(t, << >>)
    ELSE EmplaceAt(t, key, leaf_key, diff, sh, follow_path(t, path, diff, sh))

Compared(t, key, path, leaf_key, diff) ==
    EmplaceBeside(t, key, path, leaf_key, diff, bit_diff(leaf_key, key, diff))

EmplaceFrom(t, key, r) ==
    Compared(t, key, r.path, Key(t, r.leaf), prefix_diff(key, Key(t, r.leaf)))

internal_emplace(t, key) ==
    IF load(t, Root) = Nil THEN Place(t, key, Nil, Root)
    ELSE EmplaceFrom(t, key, Run(t, Read("emplace", key)))

Entries(t, n) == {l \in {<<n, j>> : j \in -1..(SLNODES - 1)} : load(t, l) # Nil}
ChildSlot(t, parent, n) ==
    IF parent = Nil THEN Root ELSE CHOOSE l \in Entries(t, parent) : load(t, l) = n

\* replace_val: a new leaf takes the place of the old one.
replace_val(t, leaf) ==
    LET parent == load(t, Parent(leaf))
        u == Allocate(t, LeafInfo(Key(t, leaf)), parent, NoEntries)
    IN  Update(u, <<Write(ChildSlot(t, parent, leaf), Newest(u))>>)

\* erase(pos): the leaf goes, and its parent when one entry is left in it.
erase(t, leaf) ==
    LET n == load(t, Parent(leaf))
        slot == ChildSlot(t, n, leaf)
        left == Entries(t, n) \ {slot}
        only_child == load(t, CHOOSE l \in left : TRUE)
        parent == load(t, Parent(n))
        u == [t EXCEPT !.size = @ - 1]
    IN  IF n = Nil \/ Cardinality(left) > 1 THEN Update(u, <<Write(slot, Nil)>>)
        ELSE Update(u, <<Write(slot, Nil), Write(Parent(only_child), parent),
                         Write(ChildSlot(t, parent, n), only_child)>>)

Stored(t, w) == [t EXCEPT !.mem[w.at] = w.to]
Applied(u) == FoldLeft(LAMBDA t, w : Stored(t, w), u.tree, u.stores)

\* The tree after the keys were inserted.
Build(keys) ==
    FoldLeft(LAMBDA t, k : Applied(internal_emplace(t, k)), EmptyTree, keys)

=============================================================================
