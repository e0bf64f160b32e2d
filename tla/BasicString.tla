---------------------------- MODULE BasicString -----------------------------
(***************************************************************************)
(* Two persistent strings (include/libpmemobj++/container/basic_string.hpp)*)
(* in the transactions of TxContainer.                                     *)
(***************************************************************************)
EXTENDS BasicStringSearch, TxContainer

CONSTANTS
    Letters,            \* CharT
    MaxSource           \* bound on the characters passed to one call

Forms == {"reuse",      \* makes a string longer after it has made it shorter in
                        \* the same transaction
          "own",        \* inserts a part of the string into the string itself
          "short",      \* moves from a large string of few characters
          "refill",     \* frees, or moves into, a large string that was moved from
          "hollow"}     \* goes on using one in any way

Contents(h) == [x \in Names |-> IF Exists(h, x) THEN Chars(h, Obj(h, x)) ELSE Absent]

\* The root is a string that was constructed empty.
Init == InitWith([o \in 0..4 |-> IF o = 1 THEN _sso_mask ELSE 0])

-----------------------------------------------------------------------------
(* What a call is given *)

Strs == UNION {[1..n -> Letters] : n \in 0..MaxSource}
Lengths == 0..max_size
Str(x) == Obj(heap, x)
Positions(x) == 0..Len(cur[x])
Counts(x, i) == 0..(Len(cur[x]) - i + 1)        \* one more than there is, like npos

\* A range of characters: the caller's, or a part of string y.
Sources == {<<Given(s), s>> : s \in Strs} \cup
    UNION {{<<Part(heap, Str(y), m, n), SubSeq(cur[y], m + 1, n)>> :
              m \in Positions(y), n \in Positions(y)} : y \in {z \in Names : Exists(heap, z)}}
SelfSource(x, src) == \E m, n \in Positions(x) : m < n /\ src[1] = Part(heap, Str(x), m, n)

Fits(x, n) == n <= max_size /\ (n > Len(cur[x]) => "reuse" \in Misuse \/ x \notin shrunk)
Hollow(x) == ~is_sso_used(heap, Str(x)) /\ V!size(heap, Str(x)) = 0
Ready(x) == Usable(x) /\ (Hollow(x) => "hollow" \in Misuse)
Refillable(x) == Usable(x) /\ (Hollow(x) => Misuse \cap {"refill", "hollow"} # {})
MovedFrom(x) == Exists(heap, x) /\
    ("short" \in Misuse \/ is_sso_used(heap, Str(x)) \/ Len(cur[x]) > sso_capacity)

-----------------------------------------------------------------------------
(* Methods *)

MakeFrom ==             \* count copies, a range, (a part of) another string
    \E src \in Sources : Make(4, LAMBDA h, s : construct(h, s, src[1]), SetCur("b", src[2]))

MakeMove ==
    /\ MovedFrom("a")
    /\ Make(4, LAMBDA h, s : construct_move(h, s, Obj(h, "a")), [a |-> << >>, b |-> cur["a"]])

DeleteString == Delete(free_data)

AssignRange(x) ==
    /\ Usable(x)
    /\ \E src \in Sources :
          /\ Fits(x, Len(src[2]))
          /\ Method(assign(heap, Str(x), src[1]), SetCur(x, src[2]))

AssignMove(x) ==
    /\ Refillable(x)
    /\ \E y \in Names :
          /\ MovedFrom(y) /\ Fits(x, Len(cur[y]))
          /\ Method(assign_move(heap, Str(x), Str(y)),
                    IF x = y THEN cur ELSE [cur EXCEPT ![x] = cur[y], ![y] = << >>])

Swap ==
    /\ Ready("a") /\ Ready("b")
    /\ Fits("a", Len(cur["b"])) /\ Fits("b", Len(cur["a"]))
    /\ Method(swap(heap, Str("a"), Str("b")), [a |-> cur["b"], b |-> cur["a"]])

Erase(x) ==
    /\ Ready(x)
    /\ \E i \in Positions(x) : \E n \in Counts(x, i) :
          Method(erase(heap, Str(x), i, n), SetCur(x, Erased(cur[x], i, n)))

PopBack(x) ==
    /\ Ready(x) /\ cur[x] # << >>
    /\ Method(pop_back(heap, Str(x)), SetCur(x, SubSeq(cur[x], 1, Len(cur[x]) - 1)))

Clear(x) == Ready(x) /\ Method(clear(heap, Str(x)), SetCur(x, << >>))
FreeData(x) == Refillable(x) /\ Method(free_data(heap, Str(x)), SetCur(x, << >>))

CopiesOf(ch, n) == Given(V!Copies(n, ch))

AppendCount(x) ==
    /\ Ready(x)
    /\ \E ch \in Letters, n \in Lengths :
          /\ Fits(x, Len(cur[x]) + n)
          /\ Method(append(heap, Str(x), CopiesOf(ch, n)), SetCur(x, cur[x] \o V!Copies(n, ch)))

PushBack(x) ==
    /\ Ready(x) /\ Fits(x, Len(cur[x]) + 1)
    /\ \E ch \in Letters :
          Method(append(heap, Str(x), CopiesOf(ch, 1)), SetCur(x, Append(cur[x], ch)))

AppendRange(x) ==
    /\ Ready(x)
    /\ \E src \in Sources :
          /\ Fits(x, Len(cur[x]) + Len(src[2]))
          /\ Method(append(heap, Str(x), src[1]), SetCur(x, cur[x] \o src[2]))

InsertCount(x) ==
    /\ Ready(x)
    /\ \E i \in Positions(x), ch \in Letters, n \in Lengths :
          /\ Fits(x, Len(cur[x]) + n)
          /\ Method(insert(heap, Str(x), i, CopiesOf(ch, n)),
                    SetCur(x, Inserted(cur[x], i, V!Copies(n, ch))))

InsertRange(x) ==
    /\ Ready(x)
    /\ \E i \in Positions(x), src \in Sources :
          /\ Fits(x, Len(cur[x]) + Len(src[2]))
          /\ SelfSource(x, src) => "own" \in Misuse
          /\ Method(insert(heap, Str(x), i, src[1]), SetCur(x, Inserted(cur[x], i, src[2])))

Replaced(s, i, n, t) == Inserted(Erased(s, i, n), i, t)

ReplaceCount(x) ==
    /\ Ready(x)
    /\ \E i \in Positions(x) : \E n \in Counts(x, i), ch \in Letters, n2 \in Lengths :
          LET new == Replaced(cur[x], i, n, V!Copies(n2, ch))
          IN  Fits(x, Len(new)) /\ Method(replace(heap, Str(x), i, n, CopiesOf(ch, n2)), SetCur(x, new))

ReplaceRange(x) ==
    /\ Ready(x)
    /\ \E i \in Positions(x) : \E n \in Counts(x, i), src \in Sources :
          LET new == Replaced(cur[x], i, n, src[2])
          IN  /\ Fits(x, Len(new))
              /\ SelfSource(x, src) => "own" \in Misuse
              /\ Method(replace(heap, Str(x), i, n, src[1]), SetCur(x, new))

Resize(x) ==
    /\ Ready(x)
    /\ \E n \in Lengths, ch \in Letters :
          Fits(x, n) /\ Method(resize(heap, Str(x), n, ch), SetCur(x, Resized(cur[x], n, ch)))

Reserve(x) ==
    /\ Ready(x)
    /\ \E n \in Lengths :
          (n > sso_capacity => Fits(x, n)) /\ Method(reserve(heap, Str(x), n), cur)

ShrinkToFit(x) == Ready(x) /\ Method(shrink_to_fit(heap, Str(x)), cur)

\* A store to a character that a reference or an iterator leads to.
Write(x) ==
    /\ Ready(x) /\ cur[x] # << >>
    /\ LET s == Str(x)
           n == size(heap, s)
           refs == UNION {{at(heap, s, i), begin(heap, s, i), rbegin(heap, s, i)} : i \in 0..(n - 1)}
                     \cup {front(heap, s), back(heap, s)}
       IN  \E l \in refs, ch \in Letters :
              Method(Assign(heap, l, ch), [cur EXCEPT ![x][l[2] - cdata(heap, s)[2] + 1] = ch])

\* A store through data() or a slice.
WriteData(x) ==
    /\ Ready(x)
    /\ \E i \in 0..(Len(cur[x]) - 1), ch \in Letters :
          \E added \in {data(heap, Str(x))} \cup
                        {range(heap, Str(x), i, n) : n \in 1..(Len(cur[x]) - i)} :
             Method(Store(Snapshot(heap, added), at(heap, Str(x), i), ch),
                    [cur EXCEPT ![x][i + 1] = ch])

OneString(x) ==
    \/ Erase(x) \/ PopBack(x) \/ Clear(x) \/ FreeData(x)
    \/ AppendCount(x) \/ PushBack(x) \/ AppendRange(x)
    \/ InsertCount(x) \/ InsertRange(x) \/ ReplaceCount(x) \/ ReplaceRange(x)
    \/ Resize(x) \/ Reserve(x) \/ ShrinkToFit(x) \/ Write(x) \/ WriteData(x)

\* String b is only made, assigned, moved, swapped and deleted.
Next ==
    \/ Transactions
    \/ MakeFrom \/ MakeMove \/ DeleteString \/ Swap
    \/ OneString("a")
    \/ \E x \in Names : AssignRange(x) \/ AssignMove(x)

Spec == Init /\ [][Next]_vars

-----------------------------------------------------------------------------
(* Properties *)

\* A string in either form is consistent: its size fits its array, or its
\* vector fits its block, no assertion of the code has failed, and c_str() ends
\* in '\0' right behind the last character.
Terminated ==
    /\ ~heap.broken
    /\ \A x \in Names : Exists(heap, x) =>
         LET s == Str(x)
         IN  IF is_sso_used(heap, s)
             THEN size(heap, s) <= sso_capacity /\ At(heap, Char(heap, s, size(heap, s))) = Nul
             ELSE /\ V!size(heap, s) <= V!capacity(heap, s)
                  /\ V!capacity(heap, s) = 0 <=> V!data(heap, s) = Nil
                  /\ V!capacity(heap, s) > 0 =>
                       /\ DOMAIN heap.mem[V!data(heap, s)] = 0..(V!capacity(heap, s) - 1)
                       /\ V!size(heap, s) > 0 => At(heap, V!back(heap, s)) = Nul

\* Inside a transaction a string holds what a std::string holds after the same
\* calls, on whichever side of the switch between array and vector it is.
SameAsStd == ops >= 0 /\ ~spoilt => Contents(heap) = cur /\ Terminated

\* Outside, the strings hold, and c_str() shows, what they held after the last
\* commit: an abort, an exception that ends the transaction, one that was caught
\* in a transaction that then ends without a commit, and a power failure also
\* undo the switch from one form to the other, whose fields lie over each other,
\* however far it got before its allocation failed.
AtomicAndDurable == ops = -1 => Contents(heap) = committed /\ Terminated

\* Between transactions every block belongs to a large string.
Owned(h) == {V!data(h, Obj(h, x)) : x \in {y \in Names : Exists(h, y) /\ ~is_sso_used(h, Obj(h, y))}}
              \cup {At(h, RootB)}
NothingLeaked == ops = -1 => DOMAIN heap.mem = {0} \cup Owned(heap)


\* Between transactions every search and every comparison answers as a
\* std::string with the same text does, in whichever form the string is and
\* whatever an earlier text has left behind its terminator.
Needles == UNION {[1..n -> Letters] : n \in 0..2}
QueriesAsStd ==
    ops = -1 => \A x \in Names : Exists(heap, x) =>
        \A str \in Needles :
           /\ RelatesAsStd(heap, Str(x), cur[x], str)
           /\ \A pos \in 0..(Len(cur[x]) + 1) \cup {SV!npos} :
                 /\ FindsAsStd(heap, Str(x), cur[x], str, pos)
                 /\ \A n \in 0..2 \cup {SV!npos} : PartsAsStd(heap, Str(x), cur[x], str, pos, n)

=============================================================================
