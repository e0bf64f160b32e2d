----------------------------- MODULE VectorOps ------------------------------
(***************************************************************************)
(* The methods of include/libpmemobj++/container/vector.hpp, as functions  *)
(* on the heap.  A vector is the location v of its three fields; basic_    *)
(* string and segment_vector use these operators for the vectors they are  *)
(* made of.                                                                *)
(*                                                                         *)
(* What an operation inserts is a sequence of sources: a value of the      *)
(* caller's, an element of some vector read at the moment it is copied, or *)
(* one that is moved from (std::make_move_iterator).                       *)
(***************************************************************************)
EXTENDS TxHeap, SequencesExt

CONSTANTS
    Trivial,            \* std::is_trivially_destructible<T>: moving is copying
    MaxSize             \* max_size()

size(h, v) == At(h, v)
capacity(h, v) == At(h, Plus(v, 1))
data(h, v) == At(h, Plus(v, 2))
set_size(h, v, n) == Assign(h, v, n)
set_capacity(h, v, n) == Assign(h, Plus(v, 1), n)
set_data(h, v, b) == Assign(h, Plus(v, 2), b)
Elem(h, v, i) == <<data(h, v), i>>
Elems(h, v) == [i \in 1..size(h, v) |-> At(h, Elem(h, v, i - 1))]

ByValue(x) == <<"value", x>>
ByRef(l) == <<"ref", l>>
ByMove(l) == <<"move", l>>
Copies(n, src) == [i \in 1..n |-> src]
Sources(src(_), m, n) == [i \in 1..(n - m) |-> src(m + i - 1)]

MoveFrom(h, l) == IF Trivial THEN h ELSE Store(h, l, Moved)

\* Construct, or assign to, the object at l from a source.
Create(h, l, src) ==
    IF src[1] = "value" THEN Store(h, l, src[2])
    ELSE LET i == Store(h, l, At(h, src[2]))
         IN  IF src[1] = "move" THEN MoveFrom(i, src[2]) ELSE i

\* std::copy, std::move and loops of detail::create: one after the other.
CreateAll(h, l, srcs) ==
    FoldLeftDomain(LAMBDA g, i : Create(g, Plus(l, i - 1), srcs[i]), h, srcs)

destroy(h, l) == IF Trivial THEN h ELSE Store(h, l, Raw)
DestroyAll(h, b, m, n) ==
    FoldLeft(LAMBDA g, i : destroy(g, <<b, i>>), h, [i \in 1..(n - m) |-> m + i - 1])

Least(m, n) == IF m < n THEN m ELSE n
Pow2s == {1, 2, 4, 8, 16, 32, 64}
get_recommended_capacity(at_least) ==
    CHOOSE p \in Pow2s : p >= at_least /\ \A q \in Pow2s : q >= at_least => p <= q

-----------------------------------------------------------------------------
(* Private helpers *)

\* The elements are snapshotted, the memory behind them is only to be flushed.
add_data_to_tx(h, v, idx_first, num) ==
    LET initialized_num == size(h, v) - idx_first
    IN  AddNoSnapshot(
            Snapshot(Asserted(h, idx_first + num <= capacity(h, v)),
                     Cells(Elem(h, v, idx_first), Least(initialized_num, num))),
            Cells(Elem(h, v, size(h, v)), num - initialized_num))

alloc(h, v, capacity_new) ==
    LET h1 == Asserted(h, data(h, v) = Nil /\ size(h, v) = 0)
    IN  IF capacity_new > MaxSize THEN Throw(h1)        \* std::length_error
        ELSE IF capacity_new = 0 THEN set_capacity(h1, v, 0)
        ELSE set_data(Alloc(set_capacity(h1, v, capacity_new), capacity_new), v, NewBlock(h))

construct_at_end(h, v, srcs) ==
    LET n == size(h, v)
    IN  set_size(CreateAll(Asserted(h, capacity(h, v) >= Len(srcs) + n), Elem(h, v, n), srcs),
                 v, n + Len(srcs))

\* Mutant: the elements are destroyed without a snapshot.
shrink_NoSnapshot(h, v, size_new) ==
    set_size(DestroyAll(h, data(h, v), size_new, size(h, v)), v, size_new)

shrink(h, v, size_new) ==
    LET n == size(h, v)
        h1 == Asserted(h, size_new <= n)
    IN  set_size(DestroyAll(IF Trivial THEN h1 ELSE add_data_to_tx(h1, v, size_new, n - size_new),
                            data(h, v), size_new, n), v, size_new)

dealloc(h, v) ==
    IF data(h, v) = Nil THEN h
    ELSE set_capacity(set_data(Free(shrink(h, v, 0), data(h, v)), v, Nil), v, 0)

\* An empty vector: the default constructor, and what is left of a moved one.
construct(h, v) ==
    set_capacity(set_size(set_data(h, v, Nil), v, 0), v, 0)

\* The elements before and from idx on go to a new block, srcs between them.
MoveToNewBlock(h, v, capacity_new, idx, end, srcs) ==
    LET b == data(h, v)
        n == size(h, v)
        Old(m, k) == Sources(LAMBDA i : ByMove(<<b, i>>), m, k)
    IN  Then(alloc(construct(add_data_to_tx(h, v, 0, n), v), v, capacity_new),
             LAMBDA g : Free(DestroyAll(
                 construct_at_end(construct_at_end(construct_at_end(g, v, Old(0, idx)), v, srcs),
                                  v, Old(idx, end)), b, 0, n), b))

realloc(h, v, capacity_new) ==
    IF data(h, v) = Nil THEN alloc(h, v, capacity_new)
    ELSE MoveToNewBlock(h, v, capacity_new, 0, Least(capacity_new, size(h, v)), << >>)

\* Mutant: std::move instead of std::move_backward.
move_elements_forward(h, v, first, last, d_last) ==
    FoldLeft(LAMBDA g, k : Create(g, Elem(h, v, d_last - k), ByMove(Elem(h, v, last - k))),
             h, [k \in 1..(last - first) |-> last - first + 1 - k])

move_elements_backward(h, v, first, last, d_last) ==
    FoldLeft(LAMBDA g, k : Create(g, Elem(h, v, d_last - k), ByMove(Elem(h, v, last - k))),
             h, [k \in 1..(last - first) |-> k])

construct_or_assign(h, v, idx, srcs) ==
    set_size(CreateAll(h, Elem(h, v, idx), srcs), v, size(h, v) + Len(srcs))

internal_insert(h, v, idx, srcs) ==
    LET n == size(h, v)
        count == Len(srcs)
    IN  IF capacity(h, v) >= n + count
        THEN construct_or_assign(
                move_elements_backward(add_data_to_tx(h, v, idx, n - idx + count),
                                       v, idx, n, n + count), v, idx, srcs)
        ELSE MoveToNewBlock(h, v, get_recommended_capacity(n + count), idx, n, srcs)

-----------------------------------------------------------------------------
(* Construction and destruction; v is memory of the running transaction *)

construct_from(h, v, capacity_new, srcs) ==
    Then(alloc(set_size(set_data(h, v, Nil), v, 0), v, capacity_new),
         LAMBDA g : construct_at_end(g, v, srcs))

construct_copy(h, v, other) ==
    construct_from(h, v, capacity(h, other),
                   Sources(LAMBDA i : ByRef(Elem(h, other, i)), 0, size(h, other)))

TakeOver(h, v, other) ==
    construct(set_size(set_capacity(set_data(h, v, data(h, other)), v, capacity(h, other)),
                       v, size(h, other)), other)

construct_move(h, v, other) == TakeOver(h, v, other)

free_data(h, v) == IF data(h, v) = Nil THEN h ELSE dealloc(h, v)

-----------------------------------------------------------------------------
(* Modifiers *)

assign_count(h, v, count, src) ==
    LET n == size(h, v)
        Overwrite(g) == CreateAll(g, Elem(h, v, 0), Copies(Least(count, n), src))
        h1 == Overwrite(add_data_to_tx(h, v, 0, n))
    IN  IF count > capacity(h, v)
        THEN Then(alloc(dealloc(h, v), v, count),
                  LAMBDA g : construct_at_end(g, v, Copies(count, src)))
        ELSE IF count > n
        THEN construct_at_end(add_data_to_tx(h1, v, n, count - n), v, Copies(count - n, src))
        ELSE shrink(h1, v, count)

assign_range(h, v, srcs) ==
    LET n == size(h, v)
        size_new == Len(srcs)
        h1 == add_data_to_tx(h, v, 0, n)
        Overwrite(g) == CreateAll(g, Elem(h, v, 0), SubSeq(srcs, 1, Least(n, size_new)))
    IN  IF size_new > capacity(h, v)
        THEN Then(alloc(dealloc(h, v), v, size_new), LAMBDA g : construct_at_end(g, v, srcs))
        ELSE IF size_new > n
        THEN construct_at_end(Overwrite(add_data_to_tx(h1, v, n, size_new - n)),
                              v, SubSeq(srcs, n + 1, size_new))
        ELSE shrink(Overwrite(h1), v, size_new)

assign_copy(h, v, other) ==
    IF v = other THEN h
    ELSE assign_range(h, v, Sources(LAMBDA i : ByRef(Elem(h, other, i)), 0, size(h, other)))

assign_move(h, v, other) ==
    IF v = other THEN h ELSE TakeOver(dealloc(h, v), v, other)

reserve(h, v, capacity_new) ==
    IF capacity_new <= capacity(h, v) THEN h ELSE realloc(h, v, capacity_new)

shrink_to_fit(h, v) ==
    IF capacity(h, v) = size(h, v) THEN h ELSE realloc(h, v, size(h, v))

clear(h, v) == shrink(h, v, 0)

insert(h, v, idx, srcs) == internal_insert(h, v, idx, srcs)

\* temp_value: the argument is read before anything is moved.
emplace(h, v, idx, src) ==
    internal_insert(h, v, idx, <<IF src[1] = "ref" THEN ByValue(At(h, src[2])) ELSE src>>)

emplace_back(h, v, src) ==
    Then(IF size(h, v) = capacity(h, v)
         THEN realloc(h, v, get_recommended_capacity(size(h, v) + 1))
         ELSE add_data_to_tx(h, v, size(h, v), 1),
         LAMBDA g : construct_at_end(g, v, <<src>>))

pop_back(h, v) == IF size(h, v) = 0 THEN h ELSE shrink(h, v, size(h, v) - 1)

erase(h, v, idx, count) ==
    LET n == size(h, v)
        h1 == IF ~Trivial \/ idx + count < n THEN add_data_to_tx(h, v, idx, n - idx) ELSE h
    IN  IF count = 0 THEN h
        ELSE set_size(CreateAll(h1, Elem(h, v, idx),
                                Sources(LAMBDA i : ByMove(Elem(h, v, i)), idx + count, n)),
                      v, n - count)

resize(h, v, count, src) ==
    IF count <= size(h, v) THEN shrink(h, v, count)
    ELSE Then(IF capacity(h, v) < count THEN realloc(h, v, count) ELSE h,
              LAMBDA g : construct_at_end(g, v, Copies(count - size(h, v), src)))

resize_value(h, v, count, src) ==
    IF capacity(h, v) = count THEN h ELSE resize(h, v, count, src)

swap(h, v, w) ==
    LET Exchange(g, set(_, _, _), x, y) == set(set(g, v, y), w, x)
    IN  Exchange(Exchange(Exchange(h, set_data, data(h, v), data(h, w)),
                          set_size, size(h, v), size(h, w)),
                 set_capacity, capacity(h, v), capacity(h, w))

-----------------------------------------------------------------------------
(* Element access: what is referred to is snapshotted before the caller can  *)
(* store to it                                                               *)

at(h, v, n) == Elem(h, v, n)                            \* operator[] too
front(h, v) == Elem(h, v, 0)
back(h, v) == Elem(h, v, size(h, v) - 1)
begin(h, v, i) == Elem(h, v, i)                         \* *(begin() + i)
rbegin(h, v, i) == Elem(h, v, size(h, v) - 1 - i)

add_element(h, l) == Snapshot(h, {l})
\* data(), range(start, n): all that is returned is snapshotted at once.
add_elements(h, v, start, n) == Snapshot(h, Cells(Elem(h, v, start), n))

=============================================================================
