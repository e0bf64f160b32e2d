-------------------------- MODULE BasicStringSearch -------------------------
(***************************************************************************)
(* The queries of include/libpmemobj++/container/basic_string.hpp: the     *)
(* searches go through the string's conversion to a basic_string_view, the *)
(* comparisons read its characters themselves.                             *)
(***************************************************************************)
EXTENDS BasicStringOps

SV == INSTANCE StringView
R == INSTANCE Relational

\* operator basic_string_view: data() and size(), over the array or the block
view(h, s) ==
    LET from == cdata(h, s)
        n == IF is_sso_used(h, s) THEN sso_capacity + 1 ELSE V!capacity(h, s)
    IN  [mem |-> [i \in 1..n |-> At(h, Plus(from, i - 1))], size |-> size(h, s)]

find(h, s, str, pos) == SV!find(view(h, s), str, pos)
rfind(h, s, str, pos) == SV!rfind(view(h, s), str, pos)
find_first_of(h, s, str, pos) == SV!find_first_of(view(h, s), str, pos)
find_first_not_of(h, s, str, pos) == SV!find_first_not_of(view(h, s), str, pos)
find_last_of(h, s, str, pos) == SV!find_last_of(view(h, s), str, pos)
find_last_not_of(h, s, str, pos) == SV!find_last_not_of(view(h, s), str, pos)

copy(h, s, count, index) == SV!copy(view(h, s), count, index)

\* Mutant: the length of the part that is compared is not cut to the string.
compare_Uncut(h, s, pos, count1, str) ==
    IF pos > size(h, s) THEN SV!OutOfRange
    ELSE LET n == V!Least(V!Least(count1, size(h, s) - pos), Len(str))
             ret == SV!TraitsCompare(SV!remove_prefix(view(h, s), pos).mem, str, n)
         IN  IF ret # 0 THEN ret
             ELSE IF count1 < Len(str) THEN -1 ELSE IF count1 = Len(str) THEN 0 ELSE 1

compare(h, s, pos, count1, str) ==
    IF pos > size(h, s) THEN SV!OutOfRange
    ELSE LET count == V!Least(count1, size(h, s) - pos)
             ret == SV!TraitsCompare(SV!remove_prefix(view(h, s), pos).mem, str,
                                     V!Least(count, Len(str)))
         IN  IF ret # 0 THEN ret
             ELSE IF count < Len(str) THEN -1 ELSE IF count = Len(str) THEN 0 ELSE 1

compare_string(h, s, str) == compare(h, s, 0, size(h, s), str)
compare_parts(h, s, pos1, count1, str, pos2, count2) ==
    IF pos2 > Len(str) THEN SV!OutOfRange
    ELSE compare(h, s, pos1, count1, SubSeq(str, pos2 + 1, pos2 + V!Least(count2, Len(str) - pos2)))

\* string and string, or string and characters
string_string(h, s, str) ==
    LET c == compare_string(h, s, str)
    IN  [eq |-> c = 0, ne |-> c # 0, lt |-> c < 0, le |-> c <= 0, gt |-> c > 0, ge |-> c >= 0]

\* const CharT * and string
chars_string(h, str, s) ==
    LET c == compare_string(h, s, str)
    IN  [eq |-> c = 0, ne |-> c # 0, lt |-> c > 0, le |-> c >= 0, gt |-> c < 0, ge |-> c <= 0]

\* std::basic_string and string
std_string(h, str, s) ==
    LET c == compare_string(h, s, str)
    IN  [eq |-> c = 0, ne |-> c # 0, lt |-> c > 0, le |-> c >= 0, gt |-> c < 0, ge |-> c <= 0]

\* string and const CharT *, string and std::basic_string
string_chars(h, s, str) == string_string(h, s, str)
string_std(h, s, str) == string_string(h, s, str)

-----------------------------------------------------------------------------
(* All answers of a string, and what they are to be for text t *)

StdCompare(t, str) == IF t = str THEN 0 ELSE IF R!Below(t, str) THEN -1 ELSE 1

FindsAsStd(h, s, t, str, pos) ==
    [find |-> find(h, s, str, pos), rfind |-> rfind(h, s, str, pos),
     find_first_of |-> find_first_of(h, s, str, pos),
     find_first_not_of |-> find_first_not_of(h, s, str, pos),
     find_last_of |-> find_last_of(h, s, str, pos),
     find_last_not_of |-> find_last_not_of(h, s, str, pos)] = SV!StdFound(t, str, pos)

PartsAsStd(h, s, t, str, pos, n) ==
    LET part == SubSeq(t, pos + 1, V!Least(pos + n, Len(t)))
    IN  IF pos > Len(t)
        THEN /\ compare(h, s, pos, n, str) = SV!OutOfRange
             /\ copy(h, s, n, pos) = <<SV!OutOfRange>>
        ELSE /\ compare(h, s, pos, n, str) = StdCompare(part, str)
             /\ compare_parts(h, s, 0, SV!npos, t, pos, n) = StdCompare(t, part)
             /\ copy(h, s, n, pos) = part

RelatesAsStd(h, s, t, str) ==
    /\ string_string(h, s, str) = R!StdRelations(t, str)
    /\ string_chars(h, s, str) = R!StdRelations(t, str)
    /\ string_std(h, s, str) = R!StdRelations(t, str)
    /\ chars_string(h, str, s) = R!StdRelations(str, t)
    /\ std_string(h, str, s) = R!StdRelations(str, t)

=============================================================================
