-------------------------- MODULE SegmentVectorOps --------------------------
(***************************************************************************)
(* The methods of include/libpmemobj++/container/segment_vector.hpp and    *)
(* the policies of container/detail/segment_vector_policies.hpp, as        *)
(* functions on the heap.  A segment_vector s is _segments_used followed   *)
(* by _data: an array of vectors, or a vector of vectors.  Elements are    *)
(* never moved to another segment's memory, except by insert and erase.    *)
(***************************************************************************)
EXTENDS TxHeap, SequencesExt

CONSTANTS
    Trivial,            \* std::is_trivially_destructible<T>
    Storage,            \* "array": array_64; "vector": pmem::obj::vector
    SegmentSize,        \* of fixed_size_policy; 0: exponential_size_policy
    MaxSegments,        \* size of the array, max_size() of the vector
    MaxAlloc            \* PMEMOBJ_MAX_ALLOC_SIZE / sizeof(T)

V == INSTANCE VectorOps WITH MaxSize <- MaxAlloc

-----------------------------------------------------------------------------
(* The policies *)

Fixed == SegmentSize > 0
Log2(n) == CHOOSE k \in 0..7 : 2 ^ k <= n /\ n < 2 ^ (k + 1)

get_segment(index) ==
    IF Fixed THEN index \div SegmentSize ELSE Log2((index + 1) - (index % 2))       \* index | 1
segment_top(k) == IF Fixed THEN k * SegmentSize ELSE 2 ^ k - ((2 ^ k) % 2)          \* & ~1
segment_size(k) == IF Fixed THEN SegmentSize ELSE IF k = 0 THEN 2 ELSE segment_top(k)
index_in_segment(index) == index - segment_top(get_segment(index))
capacity_up_to(k) ==
    IF Fixed THEN (k + 1) * SegmentSize ELSE IF k = 0 THEN 2 ELSE segment_size(k) * 2
max_size ==
    IF Fixed THEN MaxSegments * SegmentSize ELSE segment_size(get_segment(MaxAlloc) + 1)

-----------------------------------------------------------------------------
(* Layout *)

Footprint == IF Storage = "array" THEN 1 + 3 * MaxSegments ELSE 4
_segments_used(h, s) == At(h, s)
set_segments_used(h, s, n) == Assign(h, s, n)
_data(s) == Plus(s, 1)
Segments(h, s) == IF Storage = "array" THEN MaxSegments ELSE V!size(h, _data(s))
Segment(h, s, k) ==
    IF Storage = "array" THEN Plus(_data(s), 3 * k) ELSE <<V!data(h, _data(s)), 3 * k>>

size(h, s) ==
    FoldFunction(LAMBDA m, n : m + n, 0,
                 [k \in 0..(_segments_used(h, s) - 1) |-> V!size(h, Segment(h, s, k))])
capacity(h, s) ==
    IF _segments_used(h, s) = 0 THEN 0 ELSE capacity_up_to(_segments_used(h, s) - 1)

get(h, s, n) == V!Elem(h, Segment(h, s, get_segment(n)), index_in_segment(n))
Elems(h, s) == [i \in 1..size(h, s) |-> At(h, get(h, s, i - 1))]

segment_capacity_validation(h, s) ==
    \A k \in 0..(_segments_used(h, s) - 1) : V!capacity(h, Segment(h, s, k)) = segment_size(k)
Validated(h, s) == IF h.failed THEN h ELSE Asserted(h, segment_capacity_validation(h, s))

\* for (k = first; k < last; ++k), left by an exception.
ForEach(h, first, last, op(_, _)) ==
    FoldLeft(LAMBDA g, k : IF g.failed THEN g ELSE op(g, k), h,
             [i \in 1..(last - first) |-> first + i - 1])

-----------------------------------------------------------------------------
(* The storage of the segments *)

DestroySegments(h, s, first) ==
    ForEach(h, first, Segments(h, s), LAMBDA g, k : V!free_data(g, Segment(h, s, k)))

\* vector<segment>::resize
StorageShrink(h, s, n) ==
    V!set_size(DestroySegments(Snapshot(h, Cells(Segment(h, s, n), 3 * (Segments(h, s) - n))), s, n),
               _data(s), n)

StorageRealloc(h, s, n) ==
    LET d == _data(s)
        b == V!data(h, d)
        old == V!size(h, d)
        h1 == V!construct(Snapshot(h, Cells(<<b, 0>>, 3 * old)), d)
        Moving(g) == ForEach(g, 0, old, LAMBDA i, k :
                         V!construct_move(i, Segment(i, s, k), <<b, 3 * k>>))
    IN  IF n > MaxSegments THEN Throw(h1)
        ELSE Then(Alloc(V!set_capacity(h1, d, n), 3 * n),
                  LAMBDA g : Free(V!set_size(Moving(V!set_data(g, d, NewBlock(h))), d, old), b))

storage_resize(h, s, n) ==
    LET d == _data(s)
        old == V!size(h, d)
    IN  IF Storage = "array" THEN h
        ELSE IF n <= old THEN StorageShrink(h, s, n)
        ELSE Then(IF V!capacity(h, d) < n THEN StorageRealloc(h, s, n) ELSE h,
                  LAMBDA g : V!set_size(ForEach(g, old, n, LAMBDA i, k :
                                 V!construct(i, Segment(i, s, k))), d, n))

StorageFree(h, s) ==            \* the destructor of _data
    LET d == _data(s)
    IN  IF Storage = "array" THEN DestroySegments(h, s, 0)
        ELSE IF V!data(h, d) = Nil THEN h
        ELSE V!construct(Free(StorageShrink(h, s, 0), V!data(h, d)), d)

StorageMove(h, s, other) ==     \* _data = std::move(other._data)
    IF Storage = "array"
    THEN ForEach(h, 0, MaxSegments,
                 LAMBDA g, k : V!assign_move(g, Segment(g, s, k), Segment(g, other, k)))
    ELSE V!TakeOver(StorageFree(h, s), _data(s), _data(other))

StorageSwap(h, s, other) ==     \* _data.swap(other._data)
    IF Storage = "array"
    THEN ForEach(h, 0, MaxSegments, LAMBDA g, k : V!swap(g, Segment(g, s, k), Segment(g, other, k)))
    ELSE V!swap(h, _data(s), _data(other))

-----------------------------------------------------------------------------
(* Private helpers *)

snapshot_data(h, s, first, last) ==
    LET segment == get_segment(first)
        end == get_segment(last - 1)
        From(k) == IF k = segment THEN first ELSE segment_top(k)
        Count(k) == IF k = end THEN last - From(k)
                    ELSE IF k = segment THEN segment_top(k + 1) - first ELSE segment_size(k)
    IN  IF first = last THEN h
        ELSE Snapshot(h, UNION {Cells(get(h, s, From(k)), Count(k)) : k \in segment..end})

internal_reserve(h, s, new_capacity) ==
    LET old_idx == get_segment(capacity(h, s))
        new_idx == get_segment(new_capacity - 1)
        Reserving(g) == ForEach(g, old_idx, new_idx + 1, LAMBDA i, k :
                            V!reserve(i, Segment(i, s, k), segment_size(k)))
    IN  IF new_capacity > max_size THEN Throw(h)
        ELSE IF new_capacity = 0 THEN h
        ELSE Then(Then(storage_resize(h, s, new_idx + 1), Reserving),
                  LAMBDA g : Validated(set_segments_used(g, s, new_idx + 1), s))

\* construct and construct_range
construct(h, s, idx, srcs) ==
    Then(h, LAMBDA g : Validated(
        ForEach(Asserted(g, capacity(g, s) >= size(g, s) + Len(srcs)), 1, Len(srcs) + 1, LAMBDA i, j :
            V!emplace_back(i, Segment(i, s, get_segment(idx + j - 1)), srcs[j])), s))

\* Mutant: only the last segment is shortened.
shrink_LastOnly(h, s, size_new) ==
    LET end == Segment(h, s, get_segment(size_new))
        residue == index_in_segment(size_new)
    IN  IF size(h, s) = 0 THEN h
        ELSE V!erase(snapshot_data(h, s, size_new, size(h, s)), end, residue, V!size(h, end) - residue)

shrink(h, s, size_new) ==
    LET n == size(h, s)
        end == get_segment(size_new)
        last == Segment(h, s, end)
        residue == index_in_segment(size_new)
        Clearing(g) == ForEach(g, end + 1, get_segment(n - 1) + 1, LAMBDA i, k :
                           V!clear(i, Segment(i, s, k)))
    IN  IF n = 0 THEN h
        ELSE Validated(V!erase(Clearing(IF Trivial THEN h ELSE snapshot_data(h, s, size_new, n)),
                               last, residue, V!size(h, last) - residue), s)

resize(h, s, count, src) ==
    LET n == size(h, s)
    IN  IF count < n THEN shrink(h, s, count)
        ELSE construct(IF capacity(h, s) < count THEN internal_reserve(h, s, count) ELSE h,
                       s, n, V!Copies(count - n, src))

\* *to = std::move(*from), through iterators, which snapshot what they lead to.
MoveElement(h, s, to, from) ==
    V!Create(Snapshot(h, {get(h, s, to), get(h, s, from)}), get(h, s, to), V!ByMove(get(h, s, from)))

insert_gap(h, s, idx, count, default) ==
    LET n == size(h, s)
    IN  IF count = 0 THEN h
        ELSE Then(Then(IF capacity(h, s) < n + count THEN internal_reserve(h, s, n + count) ELSE h,
                       LAMBDA g : resize(snapshot_data(g, s, idx, n), s, n + count, default)),
                  LAMBDA g : Validated(ForEach(g, 0, n - idx, LAMBDA i, k :
                                 MoveElement(i, s, n + count - 1 - k, n - 1 - k)), s))

-----------------------------------------------------------------------------
(* Construction and destruction; s is memory of the running transaction *)

default_construct(h, s) ==
    Then(set_segments_used(h, s, 0), LAMBDA g :
        IF Storage = "array"
        THEN ForEach(g, 0, MaxSegments, LAMBDA i, k : V!construct(i, Segment(i, s, k)))
        ELSE V!construct(g, _data(s)))

construct_from(h, s, capacity_new, srcs) ==
    Unwind(construct(internal_reserve(default_construct(h, s), s, capacity_new), s, 0, srcs),
           LAMBDA g : StorageFree(g, s))
Refs(h, s) == [i \in 1..size(h, s) |-> V!ByRef(get(h, s, i - 1))]
construct_copy(h, s, other) == construct_from(h, s, capacity(h, other), Refs(h, other))

TakeOver(h, s, other) ==
    set_segments_used(set_segments_used(StorageMove(h, s, other), s, _segments_used(h, other)), other, 0)
construct_move(h, s, other) == TakeOver(default_construct(h, s), s, other)

free_data(h, s) ==
    set_segments_used(ForEach(h, 0, _segments_used(h, s),
                              LAMBDA g, k : V!free_data(g, Segment(g, s, k))), s, 0)

\* Mutant: the destructor relies on free_data alone.
destroy_UsedOnly(h, s) == free_data(h, s)

destroy(h, s) == StorageFree(free_data(h, s), s)

-----------------------------------------------------------------------------
(* Modifiers *)

\* part(g, v, m, n) assigns the elements m to n of what is given to segment v.
AssignParts(h, s, count, part(_, _, _, _)) ==
    LET end == get_segment(count - 1)
        Full(g) == ForEach(g, 0, end, LAMBDA i, k :
                       part(i, Segment(i, s, k), segment_top(k), segment_top(k) + segment_size(k)))
        Partial(g) == part(g, Segment(g, s, end), segment_top(end), count)
    IN  IF count > max_size THEN Throw(h)
        ELSE Then(IF count > capacity(h, s) THEN internal_reserve(h, s, count)
                  ELSE IF count < size(h, s) THEN shrink(h, s, count) ELSE h,
                  LAMBDA g : Validated(IF count = 0 THEN g
                                       ELSE set_segments_used(Partial(Full(g)), s, end + 1), s))

assign_count(h, s, count, src) ==
    AssignParts(h, s, count, LAMBDA g, v, m, n : V!assign_count(g, v, n - m, src))
assign_range(h, s, srcs) ==
    AssignParts(h, s, Len(srcs), LAMBDA g, v, m, n : V!assign_range(g, v, SubSeq(srcs, m + 1, n)))
assign_copy(h, s, other) == IF s = other THEN h ELSE assign_range(h, s, Refs(h, other))
assign_move(h, s, other) == IF s = other THEN h ELSE TakeOver(h, s, other)

reserve(h, s, capacity_new) ==
    IF capacity_new <= capacity(h, s) THEN h ELSE internal_reserve(h, s, capacity_new)

shrink_to_fit(h, s) ==
    LET used == _segments_used(h, s)
        new_last == get_segment(size(h, s) - 1)
        Freeing(g) == ForEach(g, new_last + 1, used, LAMBDA i, k : V!free_data(i, Segment(i, s, k)))
    IN  IF size(h, s) = 0 \/ used - 1 = new_last THEN h
        ELSE storage_resize(set_segments_used(Freeing(h), s, new_last + 1), s, new_last + 1)

clear(h, s) == Validated(shrink(h, s, 0), s)

insert(h, s, idx, srcs, default) ==
    ForEach(insert_gap(h, s, idx, Len(srcs), default), 1, Len(srcs) + 1,
            LAMBDA g, i : V!Create(g, get(g, s, idx + i - 1), srcs[i]))

emplace(h, s, idx, src, default) ==     \* temp_value: read before the gap is made
    insert(h, s, idx, <<IF src[1] = "ref" THEN V!ByValue(At(h, src[2])) ELSE src>>, default)

emplace_back(h, s, src) ==
    LET n == size(h, s)
    IN  Then(IF n = capacity(h, s) THEN internal_reserve(h, s, n + 1) ELSE h,
             LAMBDA g : V!emplace_back(Asserted(g, n < max_size), Segment(g, s, get_segment(n)), src))

pop_back(h, s) == IF size(h, s) = 0 THEN h ELSE shrink(h, s, size(h, s) - 1)

erase(h, s, idx, count) ==
    LET n == size(h, s)
        middle == get_segment(n - count)
        Moving(g) == ForEach(g, idx + count, n, LAMBDA i, k : MoveElement(i, s, k - count, k))
        Clearing(g) == ForEach(g, middle + 1, get_segment(n - 1) + 1, LAMBDA i, k :
                           V!clear(i, Segment(i, s, k)))
        Shrinking(g) == V!shrink(g, Segment(g, s, middle), index_in_segment(n - count))
    IN  IF count = 0 THEN h
        ELSE Validated(set_segments_used(Shrinking(Clearing(Moving(
                IF ~Trivial \/ idx + count < n THEN snapshot_data(h, s, idx, n) ELSE h))),
                s, middle + 1), s)

swap(h, s, other) ==
    set_segments_used(set_segments_used(StorageSwap(h, s, other), s, _segments_used(h, other)),
                      other, _segments_used(h, s))

-----------------------------------------------------------------------------
(* Element access: what is referred to is snapshotted *)

at(h, s, n) == get(h, s, n)                             \* operator[] too
front(h, s) == V!Elem(h, Segment(h, s, 0), 0)
back(h, s) == get(h, s, size(h, s) - 1)
range(h, s, start, n) == snapshot_data(h, s, start, start + n)

\* segment_iterator: an index that moves, and operator[] where it stands.
Advanced(index, idx) == index + idx
Deref(h, s, index) == at(h, s, index)
begin(h, s, n) == Deref(h, s, Advanced(0, n))                      \* *(begin() + n)
rbegin(h, s, n) == Deref(h, s, Advanced(size(h, s), -(n + 1)))     \* *(rbegin() + n)

=============================================================================
