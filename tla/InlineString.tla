---------------------------- MODULE InlineString ----------------------------
(***************************************************************************)
(* Persistent inline strings                                               *)
(* (include/libpmemobj++/experimental/inline_string.hpp) in the            *)
(* transactions of TxContainer: size, capacity and, behind the object,     *)
(* capacity + 1 characters.  String a has MaxCapacity, b what its          *)
(* constructor was given.                                                  *)
(***************************************************************************)
EXTENDS TxContainer

CONSTANTS
    MaxCapacity,
    Letters

Forms == {"reuse"}      \* a string is made longer after it was made shorter in
                        \* the same transaction

SV == INSTANCE StringView
R == INSTANCE Relational
Nul == 0
Least(m, n) == IF m < n THEN m ELSE n

Str(x) == Obj(heap, x)
size_(s) == s
capacity_(s) == Plus(s, 1)
size(h, s) == At(h, size_(s))
capacity(h, s) == At(h, capacity_(s))
cdata(s) == Plus(s, 2)
Char(s, i) == Plus(cdata(s), i)

\* operator basic_string_view: all of the memory behind data(), size() of it.
view(h, s) ==
    [mem |-> [i \in 1..(capacity(h, s) + 1) |-> At(h, Char(s, i - 1))], size |-> size(h, s)]
Chars(h, s) == SV!Text(view(h, s))
Contents(h) == [x \in Names |-> IF Exists(h, x) THEN Chars(h, Obj(h, x)) ELSE Absent]

Init == InitWith([o \in 0..(MaxCapacity + 3) |->
                    IF o = 2 THEN MaxCapacity ELSE IF o <= 3 THEN 0 ELSE Raw])

-----------------------------------------------------------------------------
(* Methods.  Characters are given by value, or as a part of a string. *)

Given(str) == [i \in 1..Len(str) |-> <<"value", str[i]>>]
Part(s, m, n) == [i \in 1..(n - m) |-> <<"ref", Char(s, m + i - 1)>>]
Read(h, src) == IF src[1] = "value" THEN src[2] ELSE At(h, src[2])

\* std::copy, first character first
Copy(h, s, srcs) ==
    LET upto[n \in 0..Len(srcs)] ==
          IF n = 0 THEN h ELSE Store(upto[n - 1], Char(s, n - 1), Read(upto[n - 1], srcs[n]))
    IN  upto[Len(srcs)]

snapshotted_data(h, s, p, n) ==
    Snapshot(Asserted(h, p + n <= size(h, s)), Cells(Char(s, p), n))
data(h, s) == snapshotted_data(h, s, 0, size(h, s))
Terminate(h, s) == Store(data(h, s), Char(s, size(h, s)), Nul)

construct(h, s, n, srcs) ==             \* with capacity n
    LET h1 == Store(Store(h, size_(s), Len(srcs)), capacity_(s), n)
    IN  Terminate(Copy(data(h1, s), s, srcs), s)
construct_view(h, s, srcs) == construct(h, s, Len(srcs), srcs)
construct_capacity(h, s, n) == construct(h, s, n, << >>)
construct_copy(h, s, rhs) ==
    construct(h, s, capacity(h, rhs), Part(rhs, 0, size(h, rhs)))

assign(h, s, srcs) ==
    LET n == Len(srcs)
        initialized_mem == Least(n, size(h, s)) + 1
        h1 == Snapshot(data(h, s), Cells(Char(s, 0), initialized_mem))
        h2 == IF n > size(h, s)
              THEN AddNoSnapshot(h1, Cells(Char(s, initialized_mem), n - initialized_mem + 1))
              ELSE h1
        h3 == Copy(h2, s, srcs)
    IN  IF n > capacity(h, s) THEN Throw(h)     \* std::out_of_range
        ELSE Terminate(Assign(h3, size_(s), n), s)

assign_copy(h, s, rhs) == IF s = rhs THEN h ELSE assign(h, s, Part(rhs, 0, size(h, rhs)))

at(h, s, p) == IF p >= size(h, s) THEN Throw(h) ELSE snapshotted_data(h, s, p, 1)
range(h, s, start, n) ==
    IF start + n > size(h, s) THEN Throw(h) ELSE snapshotted_data(h, s, start, n)

compare(h, s, rhs) == SV!compare(view(h, s), rhs)

-----------------------------------------------------------------------------
(* Actions *)

Strs == UNION {[1..n -> Letters] : n \in 0..(MaxCapacity + 1)}
Positions(x) == 0..Len(cur[x])
Fits(x, n) == n > Len(cur[x]) => "reuse" \in Misuse \/ x \notin shrunk

MakeView ==
    \E str \in {s \in Strs : Len(s) <= MaxCapacity} :
        Make(Len(str) + 3, LAMBDA h, s : construct_view(h, s, Given(str)), SetCur("b", str))
MakeCapacity ==
    \E n \in 0..MaxCapacity :
        Make(n + 3, LAMBDA h, s : construct_capacity(h, s, n), SetCur("b", << >>))
MakeCopy ==
    Make(MaxCapacity + 3, LAMBDA h, s : construct_copy(h, s, Obj(h, "a")), SetCur("b", cur["a"]))
DeleteString == Delete(LAMBDA h, s : h)

AssignView ==
    \E x \in Names, str \in Strs : Usable(x) /\ Fits(x, Len(str)) /\
        Method(assign(heap, Str(x), Given(str)), SetCur(x, str))

\* A part of a string is assigned, maybe to the string itself.
AssignPart ==
    \E x, y \in Names : Usable(x) /\ Usable(y) /\
        \E m, n \in Positions(y) : m <= n /\ Fits(x, n - m) /\
            Method(assign(heap, Str(x), Part(Str(y), m, n)), SetCur(x, SubSeq(cur[y], m + 1, n)))

AssignCopy ==
    \E x, y \in Names : Usable(x) /\ Usable(y) /\ Fits(x, Len(cur[y])) /\
        Method(assign_copy(heap, Str(x), Str(y)), SetCur(x, cur[y]))

Write ==
    \E x \in Names : Usable(x) /\
        \E i \in Positions(x), ch \in Letters :
            \E h \in {at(heap, Str(x), i), data(heap, Str(x)), range(heap, Str(x), i, 1)} :
                /\ i < Len(cur[x]) \/ h.failed
                /\ Method(Store(h, Char(Str(x), i), ch),
                          IF h.failed THEN cur ELSE [cur EXCEPT ![x][i + 1] = ch])

Next ==
    \/ Transactions
    \/ MakeView \/ MakeCapacity \/ MakeCopy \/ DeleteString
    \/ AssignView \/ AssignPart \/ AssignCopy \/ Write

Spec == Init /\ [][Next]_vars

-----------------------------------------------------------------------------
(* Properties *)

\* Inside a transaction the strings hold what a std::string holds after the same
\* calls, also when a string is assigned a part of itself, and
\* snapshotted_data() never reached behind size().
SameAsStd == ~heap.broken /\ (ops >= 0 => Contents(heap) = cur)

AtomicAndDurable == ops = -1 => Contents(heap) = committed

\* The character behind the last one is '\0', after an abort and a power failure
\* too.
Terminated == \A x \in Names : Exists(heap, x) => At(heap, Char(Str(x), size(heap, Str(x)))) = Nul

\* Between transactions a search in a string, and any search but find() in a
\* part of it, gives what the same search in a std::string_view gives, whatever
\* the memory behind the view holds.
Needles == UNION {[1..n -> Letters] : n \in 0..2}
SearchPositions == 0..(MaxCapacity + 1) \cup {SV!npos}
Agree(v, str, pos, Kept) ==
    \A f \in Kept : SV!Found(v, str, pos)[f] = SV!StdFound(SV!Text(v), str, pos)[f]
Searches == {"find", "rfind", "find_first_of", "find_first_not_of", "find_last_of", "find_last_not_of"}
SearchesAsStd ==
    ops = -1 => \A x \in Names : Exists(heap, x) =>
        LET whole == view(heap, Str(x))
        IN  \A str \in Needles, pos \in SearchPositions :
              /\ Agree(whole, str, pos, Searches)
              /\ \A m \in 0..(whole.size), n \in 0..2 :
                   Agree(SV!substr(whole, m, n), str, pos, Searches \ {"find"})

\* Between transactions find() gives, in any part of a string, what it gives in a
\* std::string_view of the same characters.
FindsAsStd ==
    ops = -1 => \A x \in Names : Exists(heap, x) =>
        LET whole == view(heap, Str(x))
        IN  \A str \in Needles, pos \in SearchPositions, m \in 0..(whole.size), n \in 0..2 :
               Agree(SV!substr(whole, m, n), str, pos, {"find"})

\* Between transactions a string compares with a view, and a part of it, as the
\* texts do.
ComparesAsStd ==
    ops = -1 => \A x \in Names : Exists(heap, x) => \A str \in Needles :
        LET v == view(heap, Str(x))
            w == SV!Whole(str)
            sign(t) == IF t = str THEN 0 ELSE IF R!Below(t, str) THEN -1 ELSE 1
        IN  /\ compare(heap, Str(x), w) = sign(cur[x])
            /\ SV!view_view(v, w) = R!StdRelations(cur[x], str)
            /\ \A p \in 0..v.size : SV!at(v, p) = IF p < v.size THEN cur[x][p + 1] ELSE SV!OutOfRange
            /\ \A m, n \in 0..v.size : m + n <= v.size =>
                 /\ SV!Text(SV!remove_suffix(SV!remove_prefix(v, m), n)) = SubSeq(cur[x], m + 1, v.size - n)
                 /\ SV!copy(v, n, m) = SubSeq(cur[x], m + 1, m + n)
            /\ \A m \in 0..(v.size + 1), n \in 0..2 :
                 SV!compare_part(v, m, n, w) =
                   IF m > v.size THEN SV!OutOfRange ELSE sign(SV!Text(SV!substr(v, m, n)))

=============================================================================
