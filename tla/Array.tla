-------------------------------- MODULE Array -------------------------------
(***************************************************************************)
(* Two persistent arrays (include/libpmemobj++/container/array.hpp) in the *)
(* transactions of TxContainer, their slices (slice.hpp) and the iterators *)
(* that take snapshots while they move                                     *)
(* (container/detail/contiguous_iterator.hpp).  An array is N cells.       *)
(***************************************************************************)
EXTENDS TxContainer

CONSTANTS
    N,                  \* the arrays' size
    Values,             \* of T
    SizeType            \* 2^digits of size_type

Forms == {"wrap"}       \* range() is given sizes whose sum wraps

VARIABLE it             \* an iterator of range(start, n, snapshot_size): where the
                        \* slice begins, its size, and the position in it

R == INSTANCE Relational

NoIterator == [data |-> <<0, 0>>, size |-> -1, snapshot_size |-> 0, pos |-> 0]

Arr(x) == Obj(heap, x)
Elem(v, n) == Plus(v, n)
Elems(h, v) == [i \in 1..N |-> At(h, Elem(v, i - 1))]
Contents(h) == [x \in Names |-> IF Exists(h, x) THEN Elems(h, Obj(h, x)) ELSE Absent]
Same(y) == [i \in 1..N |-> y]

Init ==                 \* the root is an array that was constructed and zeroed
    /\ heap = NewHeap([o \in 0..N |-> 0])
    /\ ops = -1
    /\ cur = [x \in Names |-> IF x = "a" THEN Same(0) ELSE Absent]
    /\ committed = cur
    /\ shrunk = {}
    /\ spoilt = FALSE
    /\ it = NoIterator

-----------------------------------------------------------------------------
(* What the methods do to the heap *)

StoreAll(h, v, s) == StoreCells(h, [l \in Cells(v, N) |-> s[l[2] - v[2] + 1]])
add_array(h, v) == Snapshot(h, Cells(v, N))      \* conditional_add_to_tx(this, 1)

construct(h, v) == StoreAll(h, v, Same(0))
assign_copy(h, v, w) == IF v = w THEN h ELSE StoreAll(add_array(h, v), v, Elems(h, w))
assign_move(h, v, w) ==
    IF v = w THEN h ELSE StoreAll(add_array(add_array(h, v), w), v, Elems(h, w))
fill(h, v, y) == StoreAll(add_array(h, v), v, Same(y))

\* Mutant: only the array that swap() is called on is in the transaction.
swap_OneSided(h, v, w) ==
    IF v = w THEN h ELSE StoreAll(StoreAll(add_array(h, v), v, Elems(h, w)), w, Elems(h, v))

swap(h, v, w) ==
    IF v = w THEN h
    ELSE StoreAll(StoreAll(add_array(add_array(h, v), w), v, Elems(h, w)), w, Elems(h, v))

\* References: the heap in which the element may be written.
at(h, v, n) == Snapshot(h, {Elem(v, n)})
front(h, v) == Snapshot(h, {Elem(v, 0)})
back(h, v) == Snapshot(h, {Elem(v, N - 1)})
data(h, v) == add_array(h, v)
deref(h, v, n) == Snapshot(h, {Elem(v, n)})      \* * and -> of begin() + n

\* range(): which slices there are.
InRange(start, n) == (start + n) % SizeType <= N
range(h, v, start, n) == Snapshot(h, Cells(Elem(v, start), n))

-----------------------------------------------------------------------------
(* range_snapshotting_iterator: d is where the slice begins, n its size, ss *)
(* its snapshot_size and p a position in it                                 *)

\* Mutant: the snapshot begins at the iterator, not at a multiple of ss.
snapshot_range_Unaligned(h, d, n, ss, p) ==
    Snapshot(h, Cells(Plus(d, p), IF p + ss > n THEN n - p ELSE ss))

snapshot_range(h, d, n, ss, p) ==
    LET first == p - (p % ss)
        len == IF first + ss > n THEN n - first ELSE ss
        verified == first >= 0 /\ first % ss = 0 /\ ((first + len) % ss = 0 \/ first + len = n)
    IN  Snapshot(Asserted(h, verified), Cells(Plus(d, first), len))

new_iterator(h, d, n, ss, p) == IF ss = 0 THEN h ELSE snapshot_range(h, d, n, ss, p)

conditional_snapshot_range(h, i, diff) ==
    LET new == i.pos + diff
    IN  IF i.snapshot_size = 0 \/ new < 0 \/ new >= i.size
           \/ i.pos \div i.snapshot_size = new \div i.snapshot_size
        THEN h ELSE snapshot_range(h, i.data, i.size, i.snapshot_size, new)

change_by(i, diff) == [i EXCEPT !.pos = @ + diff]

\* range(start, n, snapshot_size) makes both of the slice's iterators.
range_snapshot_size(n, ss) == IF ss > n THEN n ELSE ss
range_slice(h, v, start, n, ss) ==
    new_iterator(new_iterator(h, Elem(v, start), n, ss, 0), Elem(v, start), n, ss, n)

-----------------------------------------------------------------------------
(* Actions *)

Call(h, std) == Method(h, std) /\ it' = NoIterator
Put(s, i, y) == [s EXCEPT ![i + 1] = y]

MakeArray == Make(N, construct, SetCur("b", Same(0))) /\ it' = NoIterator
DeleteArray == Delete(LAMBDA h, v : h) /\ it' = NoIterator

AssignCopy ==
    \E x, y \in Names : Usable(x) /\ Usable(y) /\
        Call(assign_copy(heap, Arr(x), Arr(y)), SetCur(x, cur[y]))
AssignMove ==
    \E x, y \in Names : Usable(x) /\ Usable(y) /\
        Call(assign_move(heap, Arr(x), Arr(y)), SetCur(x, cur[y]))
Swap ==
    \E x, y \in Names : Usable(x) /\ Usable(y) /\
        Call(swap(heap, Arr(x), Arr(y)), [cur EXCEPT ![x] = cur[y], ![y] = cur[x]])
Fill == \E x \in Names, y \in Values : Usable(x) /\ Call(fill(heap, Arr(x), y), SetCur(x, Same(y)))

\* A store through a reference, data(), an iterator of begin(), or a slice.
Write ==
    \E x \in Names, i \in 0..(N - 1), y \in Values :
        /\ Usable(x)
        /\ \E h \in {at(heap, Arr(x), i), data(heap, Arr(x)), deref(heap, Arr(x), i)}
                     \cup (IF i = 0 THEN {front(heap, Arr(x))} ELSE {})
                     \cup (IF i = N - 1 THEN {back(heap, Arr(x))} ELSE {})
                     \cup {range(heap, Arr(x), start, n) : start \in {i}, n \in 1..(N - i)} :
              Call(Store(h, Elem(Arr(x), i), y), SetCur(x, Put(cur[x], i, y)))

\* The application makes a slice and keeps its begin() or its end().
Slice ==
    \E x \in Names, start \in 0..N, n \in 0..N, ss \in 1..(N + 1) :
        /\ Usable(x) /\ InRange(start, n)
        /\ LET size == range_snapshot_size(n, ss)
               h == range_slice(heap, Arr(x), start, n, size)
           IN  /\ Method(h, cur)
               /\ \E p \in {0, n} :
                    it' = [data |-> Elem(Arr(x), start), size |-> n, snapshot_size |-> size, pos |-> p]

\* ++, --, += and -= within the slice.
Advance ==
    /\ ops >= 0
    /\ \E diff \in -it.size..it.size :
          /\ it.pos + diff \in 0..it.size
          /\ heap' = conditional_snapshot_range(heap, it, diff)
          /\ it' = change_by(it, diff)
    /\ UNCHANGED <<ops, cur, committed, shrunk, spoilt>>

Owner == CHOOSE x \in Names : Exists(heap, x) /\ Arr(x)[1] = it.data[1]
Offset == it.data[2] - Arr(Owner)[2]

\* A store through *it: the iterator has taken its snapshots before.
WriteIt ==
    /\ it.pos \in 0..(it.size - 1)
    /\ \E y \in Values :
          Method(Store(heap, Plus(it.data, it.pos), y),
                 SetCur(Owner, Put(cur[Owner], Offset + it.pos, y)))
    /\ UNCHANGED it

\* A store through it[n], which takes its own.
WriteIndexed ==
    /\ \E n \in -it.pos..(it.size - it.pos - 1), y \in Values :
          LET l == Plus(it.data, it.pos + n)
          IN  Method(Store(Snapshot(heap, {l}), l, y),
                     SetCur(Owner, Put(cur[Owner], Offset + it.pos + n, y)))
    /\ UNCHANGED it

\* A store through at(idx) of the slice that the iterator begins, or std::out_of_range.
WriteSlice ==
    /\ it.size >= 0 /\ it.pos = 0
    /\ \E idx \in 0..it.size, y \in Values :
          \/ /\ idx >= it.size
             /\ Call(Throw(heap), cur)
          \/ LET l == Plus(it.data, idx)
             IN  /\ idx < it.size
                 /\ Method(Store(Snapshot(heap, {l}), l, y), SetCur(Owner, Put(cur[Owner], Offset + idx, y)))
                 /\ UNCHANGED it

Next ==
    \/ Transactions /\ it' = NoIterator
    \/ MakeArray \/ DeleteArray \/ AssignCopy \/ AssignMove \/ Swap \/ Fill \/ Write
    \/ Slice \/ Advance \/ WriteIt \/ WriteIndexed \/ WriteSlice

Spec == Init /\ [][Next]_<<vars, it>>

-----------------------------------------------------------------------------
(* Properties *)

\* Inside a transaction the arrays hold what a std::array holds after the same
\* calls, and no assertion of verify_range() has failed.
SameAsStd == ~heap.broken /\ (ops >= 0 => Contents(heap) = cur)

\* Outside one, what they held after the last commit: also what was written
\* through an iterator, wherever it went before, is undone and is durable.
AtomicAndDurable == ops = -1 => Contents(heap) = committed

\* Whichever way an iterator took to where it is, the element it points at is in
\* the transaction.
Covered == it.pos < it.size => Plus(it.data, it.pos) \in heap.range

\* range() accepts the slices of the array and no others.
RangeThrows ==
    \A start, n \in 0..(IF "wrap" \in Misuse THEN SizeType - 1 ELSE N + 1) :
        InRange(start, n) <=> start + n <= N

\* Between transactions two arrays compare as their contents do.
ComparesAsStd ==
    ops = -1 => \A x, y \in Names : Exists(heap, x) /\ Exists(heap, y) =>
        R!array_array(cur[x], cur[y]) = R!StdRelations(cur[x], cur[y])

=============================================================================
