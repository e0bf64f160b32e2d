---------------------------- MODULE SegmentVector ---------------------------
(***************************************************************************)
(* Two segment_vectors (include/libpmemobj++/container/segment_vector.hpp) *)
(* in the transactions of TxContainer.                                     *)
(***************************************************************************)
EXTENDS SegmentVectorOps, TxContainer

CONSTANTS
    Values,             \* of T
    MaxSource           \* bound on the elements passed to one call

Forms == {"reuse",      \* appends to a container it has shrunk in this transaction
          "own"}        \* inserts a reference to an element

Default == 0            \* T()

Contents(h) == [x \in Names |-> IF Exists(h, x) THEN Elems(h, Obj(h, x)) ELSE Absent]

\* The root is a segment_vector that was constructed empty.
Init == InitWith([o \in 0..Footprint |-> 0])

-----------------------------------------------------------------------------
(* What a call is given *)

Seqs == UNION {[1..n -> Values] : n \in 0..MaxSource}
Given(s) == [i \in 1..Len(s) |-> V!ByValue(s[i])]
Counts == 0..(max_size + 1)

OneSource(x) ==         \* const value_type &value
    {V!ByValue(y) : y \in Values} \cup
    (IF "own" \in Misuse
     THEN {V!ByRef(get(heap, Obj(heap, x), i)) : i \in 0..(Len(cur[x]) - 1)} ELSE {})
Meant(src) == IF src[1] = "value" THEN src[2] ELSE At(heap, src[2])

MayAppend(x) == "reuse" \in Misuse \/ ~Trivial \/ x \notin shrunk
Room(x) == Len(cur[x]) < max_size

-----------------------------------------------------------------------------
(* Methods *)

MakeDefault == Make(Footprint, default_construct, SetCur("b", << >>))
MakeFrom ==             \* count copies, a range, an initializer list, a std::vector
    \E s \in Seqs :
        Make(Footprint, LAMBDA h, v : construct_from(h, v, Len(s), Given(s)), SetCur("b", s))
MakeCopy ==
    Make(Footprint, LAMBDA h, v : construct_copy(h, v, Obj(h, "a")), SetCur("b", cur["a"]))
MakeMove ==
    Make(Footprint, LAMBDA h, v : construct_move(h, v, Obj(h, "a")), [a |-> << >>, b |-> cur["a"]])
DeleteContainer == Delete(destroy)

AssignCount(x) ==
    \E n \in Counts, y \in Values :
        /\ n > Len(cur[x]) => MayAppend(x)
        /\ Method(assign_count(heap, Obj(heap, x), n, V!ByValue(y)), SetCur(x, V!Copies(n, y)))
AssignRange(x) ==
    \E s \in Seqs :
        /\ Len(s) > Len(cur[x]) => MayAppend(x)
        /\ Method(assign_range(heap, Obj(heap, x), Given(s)), SetCur(x, s))
AssignCopy(x) ==
    \E y \in Names :
        /\ Exists(heap, y)
        /\ Len(cur[y]) > Len(cur[x]) => MayAppend(x)
        /\ Method(assign_copy(heap, Obj(heap, x), Obj(heap, y)), SetCur(x, cur[y]))
AssignMove(x) ==
    \E y \in Names :
        /\ Exists(heap, y)
        /\ Method(assign_move(heap, Obj(heap, x), Obj(heap, y)),
                  IF x = y THEN cur ELSE [cur EXCEPT ![x] = cur[y], ![y] = << >>])
Swap == Usable("b") /\ Method(swap(heap, Obj(heap, "a"), Obj(heap, "b")),
                              [a |-> cur["b"], b |-> cur["a"]])

Reserve(x) == \E n \in Counts : Method(reserve(heap, Obj(heap, x), n), cur)
ShrinkToFit(x) == Method(shrink_to_fit(heap, Obj(heap, x)), cur)
FreeData(x) == Method(free_data(heap, Obj(heap, x)), SetCur(x, << >>))
Clear(x) == Method(clear(heap, Obj(heap, x)), SetCur(x, << >>))

InsertCount(x) ==
    \E i \in 0..Len(cur[x]), n \in 0..MaxSource, src \in OneSource(x) :
        /\ MayAppend(x)
        /\ Method(insert(heap, Obj(heap, x), i, V!Copies(n, src), V!ByValue(Default)),
                  SetCur(x, Inserted(cur[x], i, V!Copies(n, Meant(src)))))
InsertRange(x) ==
    \E i \in 0..Len(cur[x]), s \in Seqs :
        /\ MayAppend(x)
        /\ Method(insert(heap, Obj(heap, x), i, Given(s), V!ByValue(Default)),
                  SetCur(x, Inserted(cur[x], i, s)))
Emplace(x) ==
    \E i \in 0..Len(cur[x]), src \in OneSource(x) :
        /\ MayAppend(x)
        /\ Method(emplace(heap, Obj(heap, x), i, src, V!ByValue(Default)),
                  SetCur(x, Inserted(cur[x], i, <<Meant(src)>>)))
EmplaceBack(x) ==       \* push_back too
    \E src \in OneSource(x) :
        /\ MayAppend(x) /\ Room(x)
        /\ Method(emplace_back(heap, Obj(heap, x), src), SetCur(x, Append(cur[x], Meant(src))))
PopBack(x) ==
    Method(pop_back(heap, Obj(heap, x)), SetCur(x, SubSeq(cur[x], 1, Len(cur[x]) - 1)))
Erase(x) ==
    \E i \in 0..Len(cur[x]) : \E n \in 0..(Len(cur[x]) - i) :
        Method(erase(heap, Obj(heap, x), i, n), SetCur(x, Erased(cur[x], i, n)))
Resize(x) ==            \* with T() and with a value
    \E n \in Counts, y \in Values :
        /\ n > Len(cur[x]) => MayAppend(x)
        /\ Method(resize(heap, Obj(heap, x), n, V!ByValue(y)), SetCur(x, Resized(cur[x], n, y)))

\* A store to an element that a reference, an iterator or a slice leads to.
Write(x) ==
    LET s == Obj(heap, x)
        n == Len(cur[x])
    IN  \E i \in 0..(n - 1), y \in Values :
            \E l \in {at(heap, s, i), begin(heap, s, i), rbegin(heap, s, n - 1 - i)}
                      \cup (IF i = 0 THEN {front(heap, s)} ELSE {})
                      \cup (IF i = n - 1 THEN {back(heap, s)} ELSE {}) :
                \E h \in {Snapshot(heap, {l})} \cup {range(heap, s, j, n - j) : j \in 0..i} :
                    Method(Store(h, l, y), [cur EXCEPT ![x][i + 1] = y])

\* Container b is only made, copied, moved, swapped and deleted.
OneContainer(x) ==
    \/ AssignCount(x) \/ AssignRange(x)
    \/ Reserve(x) \/ ShrinkToFit(x) \/ FreeData(x) \/ Clear(x)
    \/ InsertCount(x) \/ InsertRange(x) \/ Emplace(x) \/ EmplaceBack(x)
    \/ PopBack(x) \/ Erase(x) \/ Resize(x) \/ Write(x)

Next ==
    \/ Transactions
    \/ MakeDefault \/ MakeFrom \/ MakeCopy \/ MakeMove \/ DeleteContainer \/ Swap
    \/ Usable("a") /\ OneContainer("a")
    \/ \E x \in Names : Usable(x) /\ (AssignCopy(x) \/ AssignMove(x))

-----------------------------------------------------------------------------
(* Properties *)

\* The elements fill the used segments from the first on, as get() takes for
\* granted; a segment that is not used is empty, whatever memory it kept.
Packed(h, s) ==
    \A k \in 0..(Segments(h, s) - 1) :
        LET rest == size(h, s) - segment_top(k)
            n == V!size(h, Segment(h, s, k))
        IN  IF k >= _segments_used(h, s) \/ rest <= 0 THEN n = 0
            ELSE n = V!Least(rest, segment_size(k))

\* Every container is packed into segments of the size its policy computes, and
\* no assertion of segment_vector.hpp has failed.
Consistent ==
    /\ ~heap.broken
    /\ ~spoilt => \A x \in Names : Exists(heap, x) => Packed(heap, Obj(heap, x))

SameAsStd == ops >= 0 /\ ~spoilt => Contents(heap) = cur
AtomicAndDurable == ops = -1 => Contents(heap) = committed

\* Between transactions every block is a segment's or the storage's, of a
\* container that still exists.
Owned(h) ==
    LET live == {Obj(h, x) : x \in {y \in Names : Exists(h, y)}}
    IN  UNION {{V!data(h, Segment(h, s, k)) : k \in 0..(Segments(h, s) - 1)} : s \in live}
          \cup (IF Storage = "vector" THEN {V!data(h, _data(s)) : s \in live} ELSE {})
          \cup {At(h, RootB)}
NothingLeaked == ops = -1 => DOMAIN heap.mem = {0} \cup Owned(heap)


\* Between transactions two containers, and a container and a std::vector on
\* either side, compare as their contents do.
R == INSTANCE Relational
ComparesAsStd ==
    ops = -1 => \A x \in Names : Exists(heap, x) =>
        LET v == Contents(heap)[x]
        IN  /\ \A t \in Seqs : /\ R!segment_std(v, t) = R!StdRelations(v, t)
                              /\ R!std_segment(t, v) = R!StdRelations(t, v)
            /\ \A y \in Names : Exists(heap, y) =>
                 R!segment_segment(v, Contents(heap)[y]) = R!StdRelations(v, Contents(heap)[y])

=============================================================================
