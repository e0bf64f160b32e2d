---------------------------- MODULE HashMapTable ----------------------------
(***************************************************************************)
(* The state of a concurrent_hash_map and the operations on it that a      *)
(* single thread makes, as functions from one state to the next.  A table  *)
(* is a record:                                                            *)
(*   node_list      of each bucket, the set of its nodes: no operation     *)
(*                  depends on their order, since no key is there twice    *)
(*   rehashed       the buckets whose flag `rehashed' is set               *)
(*   durable        those of them whose flag is sure to survive a crash    *)
(*   segments       the segments that are allocated (my_table)             *)
(*   my_mask        the number of buckets in use minus one                 *)
(*   my_size        the number of elements, as size() tells                *)
(*   on_init_size   the number of elements when the pool was opened        *)
(*   tls            size_diff of each thread since then                    *)
(*   consistent     FEATURE_CONSISTENT_SIZE: the two fields above are kept *)
(* A node is [id, key, val]; a node that is in no list is free memory.     *)
(* Bit operations on masks are arithmetic: h & (2^n - 1) is h % 2^n.       *)
(***************************************************************************)
EXTENDS Integers, Sequences, FiniteSets, Functions, ThreadSpecific

CONSTANTS
    Keys,
    Values,
    None,
    hasher,                 \* the hash code of each key
    NodeIds,                \* addresses of nodes
    first_block,            \* segments before this one are allocated together
    number_of_segments      \* bound on the number of segments

ASSUME HashAssumption == hasher \in [Keys -> Nat]
ASSUME NodeIdAssumption == None \notin NodeIds
ASSUME NoneAssumption == None \notin Keys \cup Values
ASSUME SegmentAssumption ==
    number_of_segments \in 1 .. 32 /\ first_block \in 1 .. number_of_segments

embedded_segments == 1
embedded_buckets == 2 ^ embedded_segments

Log2(x) == CHOOSE e \in 0 .. 32 : 2 ^ e <= x /\ x < 2 ^ (e + 1)

\* h & m, of a mask m
Masked(h, m) == h % (m + 1)

segment_index_of(index) == IF index < 2 THEN 0 ELSE Log2(index)
segment_base(k) == IF k = 0 THEN 0 ELSE 2 ^ k
segment_size(k) == 2 ^ k
Size(k) == segment_size(IF k = 0 THEN 1 ELSE k)
BucketsOf(k) == segment_base(k) .. (segment_base(k) + Size(k) - 1)

Buckets == 0 .. (2 ^ number_of_segments - 1)

is_valid(t, k) == k \in t.segments

\* get_bucket() asserts that the segment of the bucket is allocated.
get_bucket(t, h) == is_valid(t, segment_index_of(h))

-----------------------------------------------------------------------------
(* Segments *)

\* The segments that enable_segment(k) makes valid end with this one, and the
\* mask it stores covers them all.
LastEnabled(k) == IF k < first_block THEN first_block - 1 ELSE k
NewMask(k) == segment_size(LastEnabled(k) + 1) - 1

\* The new buckets are empty and not rehashed.
enable(t, k) == [t EXCEPT !.segments = @ \cup (k .. LastEnabled(k))]

\* Marks all buckets of the segments ks, and makes that durable.
mark_rehashed(t, ks) ==
    LET marked == UNION {BucketsOf(k) : k \in ks}
    IN  [t EXCEPT !.rehashed = @ \cup marked, !.durable = @ \cup marked]

disable(t, ks) ==
    LET gone == UNION {BucketsOf(k) : k \in ks}
    IN  [t EXCEPT !.segments = @ \ ks, !.rehashed = @ \ gone, !.durable = @ \ gone]

\* Mutant: the mask is not recomputed.
calculate_mask_Kept(t) == t

\* The mask after a restart: all segments that are allocated, from the first
\* on, are in use.
calculate_mask(t) ==
    LET last == CHOOSE k \in 0 .. number_of_segments :
                    /\ k + 1 \notin t.segments
                    /\ \A i \in 0 .. k : i \in t.segments
    IN  [t EXCEPT !.my_mask = segment_size(last + 1) - 1]

\* enable_segment() of one segment after the other, until there are so many
\* buckets.  Those of a map that is empty are marked at once.
reserve(t, buckets) ==
    LET first == segment_index_of(t.my_mask + 1)
        last == LastEnabled(segment_index_of(buckets - 1))
        enabled == [t EXCEPT !.segments = @ \cup (first .. last), !.my_mask = NewMask(last)]
    IN  IF buckets <= t.my_mask + 1 THEN t
        ELSE IF t.my_size = 0 THEN mark_rehashed(enabled, first .. last)
        ELSE enabled

-----------------------------------------------------------------------------
(* Nodes *)

NodesIn(t) == UNION {t.node_list[b] : b \in Buckets}

\* The nodes of the list of bucket b with the key k: what search_bucket()
\* looks for.
search_bucket(t, b, k) == {n \in t.node_list[b] : n.key = k}

\* What an iteration from begin() to end() meets.
Iterated(t) == UNION {t.node_list[b] : b \in {c \in Buckets : c <= t.my_mask}}
distance(t) == Cardinality(Iterated(t))

Contents(t) ==
    [k \in Keys |->
        IF \E n \in NodesIn(t) : n.key = k
        THEN (CHOOSE n \in NodesIn(t) : n.key = k).val ELSE None]

insert_new_node_internal(t, b, n) == [t EXCEPT !.node_list[b] = @ \cup {n}]

\* The node is removed from its list and deleted.
delete_node(t, b, id) == [t EXCEPT !.node_list[b] = {n \in @ : n.id # id}]

\* acc->second = v
StoreValue(t, id, v) ==
    [t EXCEPT !.node_list = [b \in Buckets |->
        {IF n.id = id THEN [n EXCEPT !.val = v] ELSE n : n \in @[b]}]]

\* The bucket that bucket h takes its nodes from.
Parent(h) == Masked(h, 2 ^ Log2(h) - 1)

\* The mask that tells which nodes belong to bucket h while nothing splits off it.
OwnMask(h) == IF h = 0 THEN 1 ELSE 2 ^ (Log2(h) + 1) - 1

\* The transaction of rehash_bucket(): the nodes of bucket h move from its
\* parent to a list of their own.
MoveNodes(t, h) ==
    LET mine == {n \in t.node_list[Parent(h)] : Masked(hasher[n.key], OwnMask(h)) = h}
    IN  [t EXCEPT !.node_list[h] = mine, !.node_list[Parent(h)] = @ \ mine]

set_rehashed(t, h) == [t EXCEPT !.rehashed = @ \cup {h}]
persist_rehashed(t, h) == [t EXCEPT !.durable = @ \cup ({h} \cap t.rehashed)]

\* A list that is not empty before its bucket is rehashed: the transaction
\* that moved the nodes ended, and the flag was lost in a crash.
MovedBeforeCrash(t, h) == t.node_list[h] # {}

\* rehash_bucket<true>(), when the parent is rehashed.
rehash_bucket(t, h) ==
    persist_rehashed(set_rehashed(IF MovedBeforeCrash(t, h) THEN t ELSE MoveNodes(t, h), h), h)

\* The buckets that rehash_bucket<true>() of bucket h rehashes: it goes up until
\* it finds a parent that is rehashed, or needs none.
Pending(t, h) ==
    LET way == {Masked(h, 2 ^ e - 1) : e \in 1 .. number_of_segments}
    IN  {a \in way :
            /\ a \notin t.rehashed
            /\ \A c \in way : c > a => c \notin t.rehashed /\ ~MovedBeforeCrash(t, c)}

\* rehash(sz): only the buckets of the last segment are visited.  A parent comes
\* before what splits off it.
rehash(t, sz) ==
    LET r == reserve(t, sz)
        scanned == {b \in Buckets : (r.my_mask + 1) \div 2 <= b /\ b <= r.my_mask}
        pending == UNION {Pending(r, b) : b \in scanned}
        done[n \in 0 .. 2 ^ number_of_segments] ==
            IF n = 0 THEN r
            ELSE IF n - 1 \in pending THEN rehash_bucket(done[n - 1], n - 1)
            ELSE done[n - 1]
    IN  done[2 ^ number_of_segments]

-----------------------------------------------------------------------------
(* A mask that another thread may have changed since it was read *)

\* Whether the elements with hash h may have moved, since the mask was m_old,
\* to the first of the buckets that split off the one it leads to.
check_rehashing_collision(t, h, m_old, m) ==
    /\ Masked(h, m_old) # Masked(h, m)
    /\ LET bit == CHOOSE e \in 0 .. 31 :
                    /\ 2 ^ e > m_old /\ (h \div 2 ^ e) % 2 = 1
                    /\ \A f \in 0 .. (e - 1) : 2 ^ f > m_old => (h \div 2 ^ f) % 2 = 0
       IN  Masked(h, 2 ^ (bit + 1) - 1) \in t.rehashed

\* Mutant: a changed mask is not looked for.
check_mask_race_Never(t, h, m) == FALSE

check_mask_race(t, h, m) ==
    t.my_mask # m /\ check_rehashing_collision(t, h, m, t.my_mask)

-----------------------------------------------------------------------------
(* The number of elements *)

\* Mutant: what the threads counted is added, and counted once more.
tls_restore_NotCleared(t) ==
    LET now == t.on_init_size + Total(t.tls)
    IN  [t EXCEPT !.on_init_size = now, !.my_size = now]

\* tls_restore(), in a transaction.
tls_restore(t) ==
    LET now == t.on_init_size + Total(t.tls)
    IN  [t EXCEPT !.on_init_size = now, !.tls = clear(@), !.my_size = now]

\* The pool was made by a version that did not keep the number of elements.
CountElements(t) ==
    [t EXCEPT !.my_size = distance(t), !.on_init_size = distance(t), !.tls = clear(@),
              !.consistent = TRUE]

runtime_initialize(t) ==
    LET m == calculate_mask(t)
    IN  IF m.consistent THEN tls_restore(m) ELSE CountElements(m)

-----------------------------------------------------------------------------
(* Operations that no other thread may overlap *)

\* A table that was just constructed.
Constructed ==
    [node_list |-> [b \in Buckets |-> {}], rehashed |-> BucketsOf(0), durable |-> BucketsOf(0),
     segments |-> {0}, my_mask |-> embedded_buckets - 1, my_size |-> 0,
     on_init_size |-> 0, tls |-> Construct, consistent |-> TRUE]

\* clear_segment() of the segments 0 to s: the first one stays.
clear_segments(t, s) ==
    LET emptied == UNION {BucketsOf(k) : k \in 0 .. s}
    IN  [disable(t, embedded_segments .. s) EXCEPT
            !.node_list = [b \in Buckets |-> IF b \in emptied THEN {} ELSE @[b]]]

\* Clear, in a transaction that also restores the mask and the size.
ClearTable(t) ==
    [clear_segments(t, segment_index_of(t.my_mask)) EXCEPT
        !.tls = clear(@), !.on_init_size = 0, !.my_mask = embedded_buckets - 1, !.my_size = 0]

\* The sizes that insert_new_node() counts for a thread, in a transaction of the
\* caller or outside of one.
CountNew(t, n, in_tx, thread) ==
    IF in_tx THEN [t EXCEPT !.on_init_size = @ + n, !.my_size = @ + n]
    ELSE IF n = 0 THEN t
    ELSE [t EXCEPT !.tls = Add(set_cached_size(resize(@, thread)), thread, n), !.my_size = @ + n]

\* internal_copy(): the elements of list, with the addresses ids.
internal_copy(t, list, ids, in_tx, thread) ==
    LET node(i) == [id |-> ids[i], key |-> list[i].key, val |-> list[i].val]
        of(b) == {i \in DOMAIN list : Masked(hasher[list[i].key], t.my_mask) = b}
    IN  CountNew([t EXCEPT !.node_list = [b \in Buckets |-> @[b] \cup {node(i) : i \in of(b)}]],
                 Len(list), in_tx, thread)

\* Addresses for the nodes of a list, of those that are free.
Addresses(list, free) == Injection(DOMAIN list, free)

\* The constructor from a list, and operator=.
ConstructFrom(list, ids, in_tx, thread) ==
    internal_copy(reserve(Constructed, Len(list)), list, ids, in_tx, thread)
AssignTable(t, list, ids, in_tx, thread) ==
    internal_copy(reserve(ClearTable(t), Len(list)), list, ids, in_tx, thread)

\* internal_swap(): the lists of the embedded buckets, the other segments, the
\* mask, the size and tls_ptr change places; on_init_size stays where it is.
internal_swap(a, b) ==
    [a EXCEPT !.node_list = b.node_list,
              !.rehashed = BucketsOf(0) \cup b.rehashed, !.durable = BucketsOf(0) \cup b.durable,
              !.segments = b.segments, !.my_mask = b.my_mask, !.my_size = b.my_size,
              !.tls = b.tls]

\* A swap that is undone: only the mask and the size of the map whose swap()
\* was called were added to the transaction.
SwapUndone(a, b) == [b EXCEPT !.my_mask = a.my_mask, !.my_size = a.my_size]
=============================================================================
