--------------------------- MODULE BasicStringOps ---------------------------
(***************************************************************************)
(* The methods of include/libpmemobj++/container/basic_string.hpp as       *)
(* functions on the heap.  A string s is a union of four cells: its size   *)
(* with the _sso_mask bit and sso_capacity + 1 characters, or a vector of  *)
(* characters, which shares the size and lays its capacity and its pointer *)
(* over the first two characters.  Characters are numbers, '\0' is 0.      *)
(***************************************************************************)
EXTENDS TxHeap

CONSTANT MaxSize        \* max_size() of the vector

V == INSTANCE VectorOps WITH Trivial <- TRUE

sso_capacity == 2
SizeType == 16          \* 2^digits, for a size_type of four bits
_sso_mask == 8          \* 1 << (digits - 1)
Nul == 0
max_size == MaxSize - 1

is_sso_used(h, s) == At(h, s) >= _sso_mask
get_sso_size(h, s) == At(h, s) % _sso_mask
sso_data(s) == Plus(s, 1)
set_sso_size(h, s, n) == Assign(h, s, n + _sso_mask)
enable_sso(h, s) == set_sso_size(h, s, get_sso_size(h, s))
disable_sso(h, s) == Assign(h, s, get_sso_size(h, s))

size(h, s) ==
    IF is_sso_used(h, s) THEN get_sso_size(h, s)
    ELSE IF V!size(h, s) = 0 THEN 0 ELSE V!size(h, s) - 1
capacity(h, s) ==
    IF is_sso_used(h, s) THEN sso_capacity ELSE (V!capacity(h, s) - 1) % SizeType

cdata(h, s) == IF is_sso_used(h, s) THEN sso_data(s) ELSE <<V!data(h, s), 0>>
Char(h, s, i) == Plus(cdata(h, s), i)
Chars(h, s) == [i \in 1..size(h, s) |-> At(h, Char(h, s, i - 1))]

Given(str) == [i \in 1..Len(str) |-> V!ByValue(str[i])]
Part(h, s, m, n) == V!Sources(LAMBDA i : V!ByRef(Char(h, s, i)), m, n)
\* A copy made before anything is moved: std::vector<value_type> str(first, last).
Cached(h, srcs) == [i \in DOMAIN srcs |->
    IF srcs[i][1] = "value" THEN srcs[i] ELSE V!ByValue(At(h, srcs[i][2]))]

-----------------------------------------------------------------------------
(* Private helpers *)

\* Mutant: only what is added is flushed, the old characters are not kept.
add_sso_to_tx_NoSnapshot(h, s, idx_first, num) ==
    AddNoSnapshot(h, Cells(Plus(sso_data(s), idx_first), num))

add_sso_to_tx(h, s, idx_first, num) ==
    LET initialized_num == get_sso_size(h, s) + 1 - idx_first
    IN  AddNoSnapshot(
            Snapshot(Asserted(h, idx_first + num <= sso_capacity + 1 /\ is_sso_used(h, s)),
                     Cells(Plus(sso_data(s), idx_first), V!Least(initialized_num, num))),
            Cells(Plus(sso_data(s), get_sso_size(h, s) + 1), num - initialized_num))

\* Mutant: the vector of a large string is forgotten.
destroy_data_NoFree(h, s) ==
    IF is_sso_used(h, s) THEN add_sso_to_tx(h, s, 0, get_sso_size(h, s) + 1) ELSE h

destroy_data(h, s) ==
    IF is_sso_used(h, s) THEN add_sso_to_tx(h, s, 0, get_sso_size(h, s) + 1)
    ELSE V!free_data(h, s)

\* The union becomes an array or an empty vector.
NewVector(h, s) == V!construct(AddNoSnapshot(disable_sso(h, s), Cells(s, 3)), s)
allocate(h, s, n) ==
    IF n <= sso_capacity THEN enable_sso(h, s) ELSE V!reserve(NewVector(h, s), s, n + 1)

assign_sso_data(h, s, srcs) ==
    LET n == Len(srcs)
        h1 == Asserted(add_sso_to_tx(h, s, 0, n + 1), n <= sso_capacity)
    IN  set_sso_size(Store(V!CreateAll(h1, sso_data(s), srcs), Plus(sso_data(s), n), Nul), s, n)

assign_large_data(h, s, srcs) ==
    Then(V!reserve(h, s, Len(srcs) + 1),
         LAMBDA g : V!emplace_back(V!assign_range(g, s, srcs), s, V!ByValue(Nul)))

initialize(h, s, srcs) ==
    Then(h, LAMBDA g : IF is_sso_used(g, s) THEN assign_sso_data(g, s, srcs)
                       ELSE assign_large_data(g, s, srcs))

replace_content(h, s, srcs) ==
    IF ~is_sso_used(h, s) /\ Len(srcs) <= capacity(h, s)
    THEN assign_large_data(h, s, srcs)
    ELSE initialize(allocate(destroy_data(h, s), s, Len(srcs)), s, srcs)

sso_to_large(h, s, new_capacity) ==
    LET h1 == Asserted(h, new_capacity > sso_capacity /\ is_sso_used(h, s))
    IN  initialize(allocate(destroy_data(h1, s), s, new_capacity), s, Given(Chars(h, s)))

large_to_sso(h, s) ==
    LET h1 == Asserted(h, ~is_sso_used(h, s) /\ size(h, s) <= sso_capacity)
    IN  initialize(allocate(destroy_data(h1, s), s, size(h, s)), s, Given(Chars(h, s)))

move_data(h, s, other) ==
    Then(IF size(h, other) <= sso_capacity
         THEN assign_sso_data(enable_sso(h, s), s, Part(h, other, 0, size(h, other)))
         ELSE V!assign_move(NewVector(Asserted(h, ~is_sso_used(h, other)), s), s, other),
         LAMBDA g : IF is_sso_used(h, other) THEN initialize(g, other, << >>) ELSE g)

-----------------------------------------------------------------------------
(* Construction and destruction *)

construct(h, s, srcs) == initialize(allocate(Assign(h, s, 0), s, Len(srcs)), s, srcs)
construct_move(h, s, other) == move_data(Assign(h, s, 0), s, other)

-----------------------------------------------------------------------------
(* Element access: what is returned was snapshotted                          *)

at(h, s, n) == Char(h, s, n)                            \* operator[] too
front(h, s) == Char(h, s, 0)
back(h, s) == Char(h, s, size(h, s) - 1)
begin(h, s, i) == Char(h, s, i)                         \* *(begin() + i)
rbegin(h, s, i) == Char(h, s, size(h, s) - 1 - i)
range(h, s, start, n) == Cells(Char(h, s, start), n)
data(h, s) == range(h, s, 0, size(h, s) + 1)

-----------------------------------------------------------------------------
(* Modifiers *)

assign(h, s, srcs) == replace_content(h, s, srcs)
assign_move(h, s, other) ==
    IF s = other THEN h ELSE move_data(destroy_data(h, s), s, other)

\* traits_type::move within the array
MoveChars(h, s, to, from, n) ==
    V!CreateAll(h, Plus(sso_data(s), to), Cached(h, V!Sources(LAMBDA i :
        V!ByRef(Plus(sso_data(s), i)), from, from + n)))

erase(h, s, index, n) ==
    LET sz == size(h, s)
        count == V!Least(n, sz - index)
        move_len == sz - index - count
        h1 == IF move_len > 0 THEN Snapshot(h, Cells(Plus(sso_data(s), index), move_len + 1)) ELSE h
    IN  IF is_sso_used(h, s)
        THEN set_sso_size(Assign(MoveChars(h1, s, index, index + count, move_len),
                                 Plus(sso_data(s), index + move_len), Nul), s, sz - count)
        ELSE V!erase(h, s, index, count)

pop_back(h, s) == erase(h, s, size(h, s) - 1, 1)
clear(h, s) == erase(h, s, 0, size(h, s))

free_data(h, s) ==
    IF is_sso_used(h, s) THEN clear(add_sso_to_tx(h, s, 0, get_sso_size(h, s) + 1), s)
    ELSE enable_sso(V!free_data(h, s), s)

append(h, s, srcs) ==
    LET sz == size(h, s)
        new_size == sz + Len(srcs)
    IN  IF ~is_sso_used(h, s) THEN V!insert(h, s, sz, srcs)
        ELSE IF new_size <= sso_capacity
        THEN Store(set_sso_size(V!CreateAll(add_sso_to_tx(h, s, sz, Len(srcs) + 1), Char(h, s, sz), srcs),
                                s, new_size), Char(h, s, new_size), Nul)
        ELSE Then(sso_to_large(h, s, new_size), LAMBDA g : V!insert(g, s, sz, Cached(h, srcs)))

insert(h, s, index, srcs) ==
    LET sz == size(h, s)
        count == Len(srcs)
        new_size == sz + count
        h1 == add_sso_to_tx(h, s, index, sz - index + count + 1)
    IN  IF ~is_sso_used(h, s) THEN V!insert(h, s, index, srcs)
        ELSE IF new_size <= sso_capacity
        THEN Store(set_sso_size(V!CreateAll(MoveChars(h1, s, index + count, index, sz - index),
                                            Char(h, s, index), srcs), s, new_size),
                   Char(h, s, new_size), Nul)
        ELSE Then(sso_to_large(h, s, new_size), LAMBDA g : V!insert(g, s, index, Cached(h, srcs)))

replace(h, s, index, n, srcs) ==
    LET sz == size(h, s)
        count == V!Least(n, sz - index)
        count2 == Len(srcs)
        new_size == sz - count + count2
        h1 == add_sso_to_tx(h, s, index, new_size - index + 1)
    IN  IF is_sso_used(h, s) /\ new_size <= sso_capacity
        THEN Store(set_sso_size(V!CreateAll(
                        MoveChars(h1, s, index + count2, index + count, sz - index - count),
                        Char(h, s, index), srcs), s, new_size),
                   Char(h, s, new_size), Nul)
        ELSE Then(Then(IF is_sso_used(h, s) THEN sso_to_large(h, s, new_size) ELSE h,
                       LAMBDA g : V!insert(V!erase(g, s, index, count), s, index, Cached(h, srcs))),
                  LAMBDA g : IF new_size > sso_capacity THEN g ELSE large_to_sso(g, s))

\* Mutant: a large string keeps its last character instead of a terminator.
resize_NoNul(h, s, count, ch) ==
    LET sz == size(h, s)
    IN  IF count > sz THEN append(h, s, Given(V!Copies(count - sz, ch)))
        ELSE IF is_sso_used(h, s)
        THEN Assign(set_sso_size(h, s, count), Char(h, s, count), Nul)
        ELSE V!resize_value(h, s, count + 1, V!ByValue(ch))

resize(h, s, count, ch) ==
    LET sz == size(h, s)
    IN  IF count > sz THEN append(h, s, Given(V!Copies(count - sz, ch)))
        ELSE IF is_sso_used(h, s)
        THEN Assign(set_sso_size(h, s, count), Char(h, s, count), Nul)
        ELSE Then(V!resize_value(h, s, count + 1, V!ByValue(ch)),
                  LAMBDA g : Assign(g, V!back(g, s), Nul))

reserve(h, s, new_cap) ==
    IF new_cap < capacity(h, s) \/ new_cap <= sso_capacity THEN h
    ELSE IF is_sso_used(h, s) THEN sso_to_large(h, s, new_cap)
    ELSE V!reserve(h, s, new_cap + 1)

shrink_to_fit(h, s) ==
    IF is_sso_used(h, s) THEN h
    ELSE IF size(h, s) <= sso_capacity THEN large_to_sso(h, s)
    ELSE V!shrink_to_fit(h, s)

swap(h, s, other) ==
    LET Both == {s, other}
        chars == [x \in Both |-> [i \in 0..sso_capacity |-> At(h, Plus(sso_data(x), i))]]
        Put(g, x, y) == Store(V!CreateAll(g, sso_data(x),
                            [i \in 1..(sso_capacity + 1) |-> V!ByValue(chars[y][i - 1])]), x, At(h, y))
        short == IF size(h, s) > size(h, other) THEN other ELSE s
        long == IF short = s THEN other ELSE s
    IN  IF is_sso_used(h, s) /\ is_sso_used(h, other)
        THEN Put(Put(Snapshot(h, UNION {Cells(x, sso_capacity + 2) : x \in Both}), s, other), other, s)
        ELSE IF ~is_sso_used(h, s) /\ ~is_sso_used(h, other) THEN V!swap(h, s, other)
        ELSE LET tmp == Given(Chars(h, short))
             IN  Then(assign(h, short, Part(h, long, 0, size(h, long))),
                      LAMBDA g : assign(g, long, tmp))

=============================================================================
