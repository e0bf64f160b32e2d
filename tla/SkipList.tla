------------------------------ MODULE SkipList ------------------------------
(***************************************************************************)
(* The skip list in a pool, and the operations on it that run alone.       *)
(*                                                                         *)
(*   node           the nodes that are allocated, by id: the key and value *)
(*                  of the element and `next', the ids of its successors,  *)
(*                  one for each level the node is on.  Level 1 is the     *)
(*                  code's level 0.  Node 0 is the dummy head, which is on *)
(*                  every level.  A null pointer is None.                  *)
(*   on_init_size   the number of elements when the pool was opened        *)
(*   tls            for each thread what the threads did since then:       *)
(*                  size_diff, and the log of an insertion, ptr and        *)
(*                  in_progress                                            *)
(*   size           _size, which is not persistent                         *)
(*                                                                         *)
(* Every operation of this module is one transaction.                      *)
(***************************************************************************)
EXTENDS Integers, FiniteSets, FiniteSetsExt, Sequences, SequencesExt

CONSTANTS
    Threads,
    Keys,           \* integers, in the order of _compare
    None,
    MAX_LEVEL,
    NodeIds         \* bounds the number of elements: positive integers

ASSUME LevelAssumption == MAX_LEVEL \in Nat \ {0}
ASSUME KeyAssumption == Keys \subseteq Int /\ None \notin Keys
ASSUME NodeIdAssumption == NodeIds \subseteq Nat \ {0}

Levels == 1 .. MAX_LEVEL
dummy_head == 0

-----------------------------------------------------------------------------
(* Nodes *)

next(s, n, level) == s.node[n].next[level]

height(s, n) == Len(s.node[n].next)

set_next(s, n, level, to) == [s EXCEPT !.node[n].next[level] = to]

set_nexts(s, n, nexts) == [s EXCEPT !.node[n].next = nexts]

NewId(s) == Min(NodeIds \ DOMAIN s.node)

AddNode(s, n, key, val, nexts) ==
    [s EXCEPT !.node = [i \in DOMAIN @ \cup {n} |->
        IF i = n THEN [key |-> key, val |-> val, next |-> nexts] ELSE @[i]]]

delete_node(s, n) == [s EXCEPT !.node = [i \in DOMAIN @ \ {n} |-> @[i]]]

\* cmp(get_key(n), key), where cmp is _compare or not_greater_compare.
Before(s, n, key, or_equal) == s.node[n].key < key \/ (or_equal /\ s.node[n].key = key)

-----------------------------------------------------------------------------
(* Searches *)

\* internal_find_position(): the last node before key on the level, from prev on.
internal_find_position(s, level, prev, key, or_equal) ==
    LET steps == Cardinality(DOMAIN s.node)
        at[i \in 0 .. steps] ==
            IF i = 0 THEN prev
            ELSE LET to == next(s, at[i - 1], level)
                 IN  IF to # None /\ Before(s, to, key, or_equal) THEN to ELSE at[i - 1]
    IN  at[steps]

\* fill_prev_next_arrays(): from the top level down, each from where the level
\* above it ended.
prev_nodes(s, key, or_equal) ==
    LET prev[level \in 1 .. (MAX_LEVEL + 1)] ==
            IF level = MAX_LEVEL + 1 THEN dummy_head
            ELSE internal_find_position(s, level, prev[level + 1], key, or_equal)
    IN  [level \in Levels |-> prev[level]]

next_nodes(s, prevs) == [level \in Levels |-> next(s, prevs[level], level)]

\* internal_get_bound()
internal_get_bound(s, key, or_equal) == next(s, prev_nodes(s, key, or_equal)[1], 1)

\* The nodes on a level, in the order of the list.
OnLevel(s, level) ==
    LET steps == Cardinality(DOMAIN s.node)
        at[i \in 0 .. steps] ==
            IF i = 0 THEN dummy_head
            ELSE IF at[i - 1] = None THEN None ELSE next(s, at[i - 1], level)
    IN  SelectSeq([i \in 1 .. steps |-> at[i]], LAMBDA n : n # None)

distance(s) == Len(OnLevel(s, 1))

\* The elements, in order.
Elements(s) == [i \in 1 .. distance(s) |-> LET n == s.node[OnLevel(s, 1)[i]]
                                           IN  [key |-> n.key, val |-> n.val]]

-----------------------------------------------------------------------------
(* Construction *)

NoLog == [ptr |-> None, in_progress |-> FALSE, size_diff |-> 0]

\* clear() of tls_data: the entries that local() makes anew are zeroed.
ClearedTls == [t \in Threads |-> NoLog]

init ==
    [node |-> (dummy_head :> [key |-> None, val |-> None, next |-> [l \in Levels |-> None]]),
     on_init_size |-> 0, size |-> 0, tls |-> ClearedTls]

\* The new node is linked between prevs and their successors on all its levels.
LinkAll(s, n, prevs) ==
    FoldLeft(LAMBDA u, level : set_next(u, prevs[level], level, n), s,
             [level \in 1 .. height(s, n) |-> level])

\* internal_unsafe_emplace() of an element, on so many levels.
internal_unsafe_emplace(s, e, levels) ==
    LET prevs == prev_nodes(s, e.key, FALSE)
        nexts == next_nodes(s, prevs)
        n == NewId(s)
    IN  IF nexts[1] # None /\ s.node[nexts[1]].key = e.key THEN s
        ELSE LinkAll([AddNode(s, n, e.key, e.val, SubSeq(nexts, 1, levels))
                        EXCEPT !.on_init_size = @ + 1, !.size = @ + 1], n, prevs)

\* The ids of nodes and levels are what the code draws: `levels' has one number
\* for each element.
EmplaceAll(s, list, levels) ==
    FoldLeft(LAMBDA u, i : internal_unsafe_emplace(u, list[i], levels[i]), s,
             [i \in 1 .. Len(list) |-> i])

\* internal_copy() of elements that are sorted, to an empty list: each node is
\* appended on each of its levels.
internal_copy(s, list, levels) ==
    LET Append1(u, i) ==
            LET n == NewId(u.s)
                added == AddNode(u.s, n, list[i].key, list[i].val, [l \in 1 .. levels[i] |-> None])
            IN  [s |-> LinkAll(added, n, u.prevs),
                 prevs |-> [l \in Levels |-> IF l <= levels[i] THEN n ELSE u.prevs[l]]]
        end == FoldLeft(Append1, [s |-> s, prevs |-> [l \in Levels |-> dummy_head]],
                        [i \in 1 .. Len(list) |-> i])
    IN  [end.s EXCEPT !.on_init_size = Len(list), !.size = Len(list)]

-----------------------------------------------------------------------------
(* Erasure and assignment *)

\* internal_extract(): the node is unlinked on all its levels.
internal_extract(s, n) ==
    LET prevs == prev_nodes(s, s.node[n].key, FALSE)
    IN  FoldLeft(LAMBDA u, level : set_next(u, prevs[level], level, next(s, n, level)), s,
                 [level \in 1 .. height(s, n) |-> level])

\* internal_erase() by thread t of the element of a node.
internal_erase(s, n, t) ==
    [delete_node(internal_extract(s, n), n) EXCEPT !.tls[t].size_diff = @ - 1, !.size = @ - 1]

\* unsafe_erase() of the elements from lo to hi.
EraseFrom(s, lo, hi, t) ==
    LET first == internal_get_bound(s, lo, FALSE)
        last == internal_get_bound(s, hi, TRUE)
        all == OnLevel(s, 1)
        Index(n) == IF n = None THEN Len(all) + 1 ELSE CHOOSE i \in DOMAIN all : all[i] = n
    IN  FoldLeft(LAMBDA u, n : internal_erase(u, n, t), s,
                 SubSeq(all, Index(first), Index(last) - 1))

clear(s) ==
    LET head == s.node[dummy_head]
    IN  [s EXCEPT !.node = (dummy_head :> [head EXCEPT !.next = [l \in Levels |-> None]]),
                  !.on_init_size = 0, !.size = 0, !.tls = ClearedTls]

\* operator=() from a list of elements.
AssignList(s, list, levels) == EmplaceAll(clear(s), list, levels)

\* operator=() from another list.
AssignCopy(s, from, levels) == internal_copy(clear(s), Elements(from), levels)

\* operator=() that moves: what the source is left with has its tls and sizes.
AssignMove(s, from) ==
    [clear(s) EXCEPT !.node = from.node, !.size = from.size, !.on_init_size = from.on_init_size]

MovedFrom(s) == [s EXCEPT !.node = init.node]

\* swap(): tls stays where it was.
SwapWith(s, o) ==
    [s EXCEPT !.node = o.node, !.size = o.size, !.on_init_size = o.on_init_size]

-----------------------------------------------------------------------------
(* Recovery *)

SizeDiff(s) == FoldLeft(LAMBDA x, t : x + s.tls[t].size_diff, 0, SetToSeq(Threads))

\* Which levels of the node in a log are not linked yet.
Unlinked(s, n) ==
    LET nexts == next_nodes(s, prev_nodes(s, s.node[n].key, FALSE))
    IN  {level \in 1 .. height(s, n) : nexts[level] # n}

\* Mutant: levels are linked from the highest to the lowest.
CompleteLevel_TopDown(s, n) ==
    LET level == Max(Unlinked(s, n))
    IN  set_next(s, prev_nodes(s, s.node[n].key, FALSE)[level], level, n)

\* A step of complete_insert(): the next level is linked.
CompleteLevel(s, n) ==
    LET level == Min(Unlinked(s, n))
    IN  set_next(s, prev_nodes(s, s.node[n].key, FALSE)[level], level, n)

\* The end of tls_restore().
ClearTls(s) ==
    LET sum == s.on_init_size + SizeDiff(s)
    IN  [s EXCEPT !.tls = ClearedTls, !.on_init_size = sum, !.size = sum]
=============================================================================
