----------------------------- MODULE StringView -----------------------------
(***************************************************************************)
(* include/libpmemobj++/string_view.hpp (the library's own string_view, in *)
(* use before C++17).  A view v is                                         *)
(*   mem    the characters from data() on, as far as the memory goes: a    *)
(*          view may be shorter than what lies behind data()               *)
(*   size   how many of them it covers                                     *)
(* A needle is a sequence of characters.  size_type has four bits.         *)
(***************************************************************************)
EXTENDS Integers, Sequences

SizeMax == 15           \* std::numeric_limits<size_type>::max()
npos == SizeMax
OutOfRange == -2        \* std::out_of_range was thrown, instead of a result
LOCAL Lesser(m, n) == IF m < n THEN m ELSE n

\* The view's own characters.
Text(v) == SubSeq(v.mem, 1, v.size)

\* A view of a whole sequence.
Whole(s) == [mem |-> s, size |-> Len(s)]

substr(v, pos, count) ==
    IF pos > v.size THEN [mem |-> << >>, size |-> OutOfRange]
    ELSE [mem |-> SubSeq(v.mem, pos + 1, Len(v.mem)), size |-> Lesser(count, v.size - pos)]

remove_prefix(v, n) == [mem |-> SubSeq(v.mem, n + 1, Len(v.mem)), size |-> v.size - n]
remove_suffix(v, n) == [v EXCEPT !.size = @ - n]

copy(v, count, pos) ==
    IF pos > v.size THEN <<OutOfRange>>
    ELSE SubSeq(v.mem, pos + 1, pos + Lesser(count, v.size - pos))

at(v, pos) == IF pos >= v.size THEN OutOfRange ELSE v.mem[pos + 1]

-----------------------------------------------------------------------------
(* Traits *)

\* traits_type::find: the first ch in [from, to), or npos
TraitsFind(mem, from, to, ch) ==
    LET next[i \in from..to] == IF i = to THEN npos ELSE IF mem[i + 1] = ch THEN i ELSE next[i + 1]
    IN  next[from]

\* traits_type::compare of the needle with the memory at pos, which may end
\* before it does: what lies behind the memory matches nothing
Matches(v, pos, s) == \A i \in 1..Len(s) : pos + i <= Len(v.mem) /\ v.mem[pos + i] = s[i]

-----------------------------------------------------------------------------
(* Searching *)

\* The end of the view is compared with where the search for the first character
\* starts, not with where it finds it.
find(v, s, pos) ==
    IF pos > v.size THEN npos
    ELSE IF s = << >> THEN pos
    ELSE LET from[p \in 0..(v.size + 1)] ==
               IF p + Len(s) > v.size THEN npos
               ELSE LET found == TraitsFind(v.mem, p, v.size, s[1])
                    IN  IF found = npos \/ Matches(v, found, s) THEN found ELSE from[found + 1]
         IN  from[pos]

\* Mutant: the loop ends one position early.
rfind_NotFirst(v, s, pos) ==
    IF Len(s) > v.size THEN npos
    ELSE LET from[p \in 0..v.size] ==
               IF Matches(v, p, s) THEN p ELSE IF p <= 1 THEN npos ELSE from[p - 1]
         IN  from[Lesser(v.size - Len(s), pos)]

rfind(v, s, pos) ==
    IF Len(s) > v.size THEN npos
    ELSE LET from[p \in 0..v.size] ==
               IF Matches(v, p, s) THEN p ELSE IF p = 0 THEN npos ELSE from[p - 1]
         IN  from[Lesser(v.size - Len(s), pos)]

find_first_of(v, s, pos) ==
    LET best[i \in 0..Len(s)] ==        \* over the first i characters of s
          IF i = 0 THEN npos
          ELSE LET found == find(v, <<s[i]>>, pos)
               IN  IF found # npos /\ found < best[i - 1] THEN found ELSE best[i - 1]
    IN  best[Len(s)]

find_first_not_of(v, s, pos) ==
    IF pos >= v.size THEN npos
    ELSE LET from[p \in 0..v.size] ==
               IF p = v.size THEN npos
               ELSE IF TraitsFind(s, 0, Len(s), v.mem[p + 1]) = npos THEN p ELSE from[p + 1]
         IN  from[pos]

find_last_of(v, s, pos) ==
    IF v.size = 0 \/ s = << >> THEN npos
    ELSE LET best[i \in 0..Len(s)] ==
               IF i = 0 THEN [found |-> FALSE, last_of |-> 0]
               ELSE LET position == rfind(v, <<s[i]>>, pos)
                    IN  IF position = npos THEN best[i - 1]
                        ELSE [found |-> TRUE,
                              last_of |-> IF position > best[i - 1].last_of THEN position
                                          ELSE best[i - 1].last_of]
         IN  IF best[Len(s)].found THEN best[Len(s)].last_of ELSE npos

find_last_not_of(v, s, pos) ==
    IF v.size = 0 THEN npos
    ELSE LET from[p \in 0..v.size] ==
               IF TraitsFind(s, 0, Len(s), v.mem[p + 1]) = npos THEN p
               ELSE IF p = 0 THEN npos ELSE from[p - 1]
         IN  from[Lesser(pos, v.size - 1)]

-----------------------------------------------------------------------------
(* Comparing *)

\* The sign of traits_type::compare over the first n characters.
TraitsCompare(a, b, n) ==
    LET from[i \in 1..(n + 1)] ==
          IF i > n THEN 0 ELSE IF a[i] < b[i] THEN -1 ELSE IF a[i] > b[i] THEN 1 ELSE from[i + 1]
    IN  from[1]

compare(v, w) ==
    LET ret == TraitsCompare(v.mem, w.mem, Lesser(v.size, w.size))
    IN  IF ret # 0 THEN ret
        ELSE IF v.size < w.size THEN -1 ELSE IF v.size > w.size THEN 1 ELSE 0

compare_part(v, pos1, n1, w) ==
    LET u == substr(v, pos1, n1) IN IF u.size = OutOfRange THEN OutOfRange ELSE compare(u, w)

view_eq(v, w) == IF v.size # w.size THEN FALSE ELSE compare(v, w) = 0
view_ne(v, w) == IF v.size # w.size THEN TRUE ELSE compare(v, w) # 0
view_lt(v, w) == compare(v, w) < 0
view_le(v, w) == compare(v, w) <= 0
view_gt(v, w) == compare(v, w) > 0
view_ge(v, w) == compare(v, w) >= 0
view_view(v, w) ==
    [eq |-> view_eq(v, w), ne |-> view_ne(v, w), lt |-> view_lt(v, w), le |-> view_le(v, w),
     gt |-> view_gt(v, w), ge |-> view_ge(v, w)]

-----------------------------------------------------------------------------
(* What a std::string_view computes, by its definition: the first or the    *)
(* last of the positions at which something is                              *)

LOCAL FirstOf(S) == IF S = {} THEN npos ELSE CHOOSE p \in S : \A q \in S : p <= q
LOCAL LastOf(S) == IF S = {} THEN npos ELSE CHOOSE p \in S : \A q \in S : p >= q
LOCAL Occurrences(t, s) == {p \in 0..Len(t) : p + Len(s) <= Len(t) /\ SubSeq(t, p + 1, p + Len(s)) = s}
LOCAL Among(t, s) == {p \in 0..(Len(t) - 1) : \E i \in 1..Len(s) : s[i] = t[p + 1]}
LOCAL NotAmong(t, s) == (0..(Len(t) - 1)) \ Among(t, s)

Found(v, s, pos) ==
    [find |-> find(v, s, pos), rfind |-> rfind(v, s, pos),
     find_first_of |-> find_first_of(v, s, pos), find_first_not_of |-> find_first_not_of(v, s, pos),
     find_last_of |-> find_last_of(v, s, pos), find_last_not_of |-> find_last_not_of(v, s, pos)]

StdFound(t, s, pos) ==
    [find |-> FirstOf({p \in Occurrences(t, s) : p >= pos}),
     rfind |-> LastOf({p \in Occurrences(t, s) : p <= pos}),
     find_first_of |-> FirstOf({p \in Among(t, s) : p >= pos}),
     find_first_not_of |-> FirstOf({p \in NotAmong(t, s) : p >= pos}),
     find_last_of |-> LastOf({p \in Among(t, s) : p <= pos}),
     find_last_not_of |-> LastOf({p \in NotAmong(t, s) : p <= pos})]

=============================================================================
