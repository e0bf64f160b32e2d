------------------------------- MODULE Vector -------------------------------
(***************************************************************************)
(* Two persistent vectors (include/libpmemobj++/container/vector.hpp) in   *)
(* the transactions of TxContainer.                                        *)
(***************************************************************************)
EXTENDS VectorOps, TxContainer

CONSTANTS
    Values,             \* of T
    MaxSource           \* bound on the elements passed to one call

Forms == {"reuse",      \* appends to a vector it has shrunk in this transaction
          "grow",       \* grows a vector with resize within its capacity
          "exact",      \* resizes with a value to exactly the capacity
          "own",        \* passes a reference to an element of the vector
          "none"}       \* inserts nothing before an element

Default == 0            \* T()

Contents(h) == [x \in Names |-> IF Exists(h, x) THEN Elems(h, Obj(h, x)) ELSE Absent]

Init == InitWith([o \in 0..3 |-> 0])

-----------------------------------------------------------------------------
(* What a call is given *)

Seqs == UNION {[1..n -> Values] : n \in 0..MaxSource}
Given(s) == [i \in 1..Len(s) |-> ByValue(s[i])]
Counts == 0..MaxSize

\* const value_type &value
OneSource(x) ==
    {ByValue(y) : y \in Values} \cup
    (IF "own" \in Misuse
     THEN {ByRef(Elem(heap, Obj(heap, x), i)) : i \in 0..(Len(cur[x]) - 1)} ELSE {})
Meant(src) == IF src[1] = "value" THEN src[2] ELSE At(heap, src[2])

MayAppend(x) == "reuse" \in Misuse \/ ~Trivial \/ x \notin shrunk
MayInsert(x, i, n) == n > 0 \/ Trivial \/ i = Len(cur[x]) \/ "none" \in Misuse

-----------------------------------------------------------------------------
(* Methods *)

MakeDefault == Make(3, construct, SetCur("b", << >>))
MakeCount ==
    \E n \in Counts, y \in Values :
        Make(3, LAMBDA h, v : construct_from(h, v, n, Copies(n, ByValue(y))), SetCur("b", Copies(n, y)))
MakeRange ==
    \E s \in Seqs :
        Make(3, LAMBDA h, v : construct_from(h, v, Len(s), Given(s)), SetCur("b", s))
MakeCopy == Make(3, LAMBDA h, v : construct_copy(h, v, Obj(h, "a")), SetCur("b", cur["a"]))
MakeMove == Make(3, LAMBDA h, v : construct_move(h, v, Obj(h, "a")), [a |-> << >>, b |-> cur["a"]])

DeleteVector == Delete(free_data)

AssignCount(x) ==
    \E n \in Counts, src \in OneSource(x) :
        /\ n > Len(cur[x]) => MayAppend(x)
        /\ Method(assign_count(heap, Obj(heap, x), n, src), SetCur(x, Copies(n, Meant(src))))

AssignRange(x) ==
    \E s \in Seqs :
        /\ Len(s) > Len(cur[x]) => MayAppend(x)
        /\ Method(assign_range(heap, Obj(heap, x), Given(s)), SetCur(x, s))

AssignCopy(x) ==
    \E y \in Names :
        /\ Exists(heap, y)
        /\ Len(cur[y]) > Len(cur[x]) => MayAppend(x)
        /\ Method(assign_copy(heap, Obj(heap, x), Obj(heap, y)), SetCur(x, cur[y]))

AssignMove(x) ==
    \E y \in Names :
        /\ Exists(heap, y)
        /\ Method(assign_move(heap, Obj(heap, x), Obj(heap, y)),
                  IF x = y THEN cur ELSE [cur EXCEPT ![x] = cur[y], ![y] = << >>])

Swap == Usable("b") /\ Method(swap(heap, Obj(heap, "a"), Obj(heap, "b")),
                              [a |-> cur["b"], b |-> cur["a"]])

Reserve(x) == \E n \in Counts \cup {MaxSize + 1} :
                 Method(reserve(heap, Obj(heap, x), n), cur)
ShrinkToFit(x) == Method(shrink_to_fit(heap, Obj(heap, x)), cur)
FreeData(x) == Method(free_data(heap, Obj(heap, x)), SetCur(x, << >>))
Clear(x) == Method(clear(heap, Obj(heap, x)), SetCur(x, << >>))

InsertCount(x) ==
    \E i \in 0..Len(cur[x]), n \in 0..MaxSource, src \in OneSource(x) :
        /\ MayAppend(x) /\ MayInsert(x, i, n)
        /\ Method(insert(heap, Obj(heap, x), i, Copies(n, src)),
                  SetCur(x, Inserted(cur[x], i, Copies(n, Meant(src)))))

InsertRange(x) ==
    \E i \in 0..Len(cur[x]), s \in Seqs :
        /\ MayAppend(x) /\ MayInsert(x, i, Len(s))
        /\ Method(insert(heap, Obj(heap, x), i, Given(s)), SetCur(x, Inserted(cur[x], i, s)))

Emplace(x) ==
    \E i \in 0..Len(cur[x]), src \in OneSource(x) :
        /\ MayAppend(x)
        /\ Method(emplace(heap, Obj(heap, x), i, src),
                  SetCur(x, Inserted(cur[x], i, <<Meant(src)>>)))

EmplaceBack(x) ==       \* push_back too
    \E src \in OneSource(x) :
        /\ MayAppend(x)
        /\ Method(emplace_back(heap, Obj(heap, x), src), SetCur(x, Append(cur[x], Meant(src))))

PopBack(x) ==
    Method(pop_back(heap, Obj(heap, x)),
           SetCur(x, SubSeq(cur[x], 1, Len(cur[x]) - 1)))

Erase(x) ==
    \E i \in 0..Len(cur[x]) : \E n \in 0..(Len(cur[x]) - i) :
        Method(erase(heap, Obj(heap, x), i, n), SetCur(x, Erased(cur[x], i, n)))

InCapacity(x, n) == n > Len(cur[x]) /\ n <= capacity(heap, Obj(heap, x))

Resize(x) ==
    \E n \in Counts :
        /\ InCapacity(x, n) => "grow" \in Misuse /\ MayAppend(x)
        /\ Method(resize(heap, Obj(heap, x), n, ByValue(Default)),
                  SetCur(x, Resized(cur[x], n, Default)))

ResizeValue(x) ==
    \E n \in Counts, src \in OneSource(x) :
        /\ InCapacity(x, n) => "grow" \in Misuse /\ MayAppend(x)
        /\ n = capacity(heap, Obj(heap, x)) => n = Len(cur[x]) \/ "exact" \in Misuse
        /\ Method(resize_value(heap, Obj(heap, x), n, src),
                  SetCur(x, Resized(cur[x], n, Meant(src))))

\* A store to an element that a reference or an iterator leads to.
Write(x) ==
    LET v == Obj(heap, x)
        n == size(heap, v)
        refs == UNION {{at(heap, v, i), begin(heap, v, i), rbegin(heap, v, i)} : i \in 0..(n - 1)}
                  \cup (IF n > 0 THEN {front(heap, v), back(heap, v)} ELSE {})
    IN  \E l \in refs, y \in Values :
            Method(Store(add_element(heap, l), l, y), [cur EXCEPT ![x][l[2] + 1] = y])

\* A store through data() or a slice.
WriteData(x) ==
    LET v == Obj(heap, x)
    IN  \E i \in 0..(Len(cur[x]) - 1), y \in Values :
            \E j \in 0..i : \E n \in (i - j + 1)..(Len(cur[x]) - j) :
                Method(Store(add_elements(heap, v, j, n), Elem(heap, v, i), y),
                       [cur EXCEPT ![x][i + 1] = y])

\* Vector b is only made, copied, moved, swapped and deleted.
OneVector(x) ==
    \/ AssignCount(x) \/ AssignRange(x)
    \/ Reserve(x) \/ ShrinkToFit(x) \/ FreeData(x) \/ Clear(x)
    \/ InsertCount(x) \/ InsertRange(x) \/ Emplace(x) \/ EmplaceBack(x)
    \/ PopBack(x) \/ Erase(x) \/ Resize(x) \/ ResizeValue(x)
    \/ Write(x) \/ WriteData(x)

Next ==
    \/ Transactions
    \/ MakeDefault \/ MakeCount \/ MakeRange \/ MakeCopy \/ MakeMove \/ DeleteVector \/ Swap
    \/ Usable("a") /\ OneVector("a")
    \/ \E x \in Names : Usable(x) /\ (AssignCopy(x) \/ AssignMove(x))

Spec == Init /\ [][Next]_vars

-----------------------------------------------------------------------------
(* Properties *)

\* The blocks the vectors' fields and sizes describe: used for the type.
VectorOK(h, v) ==
    /\ size(h, v) \in 0..capacity(h, v)
    /\ IF data(h, v) = Nil THEN capacity(h, v) = 0
       ELSE DOMAIN h.mem[data(h, v)] = 0..(capacity(h, v) - 1)

\* The three fields of each vector agree with each other and with the block
\* they describe, and no assertion of vector.hpp has failed on the way.
Consistent ==
    /\ ~heap.broken
    /\ ~spoilt => \A x \in Names : Exists(heap, x) => VectorOK(heap, Obj(heap, x))

\* Inside a transaction a vector holds what a std::vector holds after the same
\* calls, whatever was reallocated, moved or taken over on the way; also after a
\* method that threw before it had changed anything.
SameAsStd == ops >= 0 /\ ~spoilt => Contents(heap) = cur

\* Outside, the vectors hold what they held when the last transaction that
\* committed did: an abort, an exception that ends the transaction, one that was
\* caught in a transaction that then ends without a commit, and a power failure
\* leave nothing of an unfinished transaction and lose nothing of a finished
\* one, however far a method got before its allocation failed.
AtomicAndDurable == ops = -1 => Contents(heap) = committed

\* Between transactions every block of the pool belongs to a vector: dealloc,
\* realloc, insert and the moves free each old block once and lose none.
Owned(h) ==
    {data(h, Obj(h, x)) : x \in {y \in Names : Exists(h, y)}} \cup {At(h, RootB)}
NothingLeaked == ops = -1 => DOMAIN heap.mem = {0} \cup Owned(heap)


\* Between transactions two containers, and a container and a std::vector on
\* either side, compare as their contents do.
R == INSTANCE Relational
ComparesAsStd ==
    ops = -1 => \A x \in Names : Exists(heap, x) =>
        LET v == Contents(heap)[x]
        IN  /\ \A t \in Seqs : /\ R!vector_std(v, t) = R!StdRelations(v, t)
                              /\ R!std_vector(t, v) = R!StdRelations(t, v)
            /\ \A y \in Names : Exists(heap, y) =>
                 R!vector_vector(v, Contents(heap)[y]) = R!StdRelations(v, Contents(heap)[y])

=============================================================================
