----------------------------- MODULE MCStrings ------------------------------
(***************************************************************************)
(* Instances for TLC of the strings and of the containers that never       *)
(* allocate, one of which a behaviour is about:                            *)
(*   one       a string over two letters, one method in a transaction      *)
(*   two       two strings over one letter, one created and deleted        *)
(*   inline    an inline string                                            *)
(*   inlines   two inline strings, one of which is created and deleted     *)
(*   array     an array and its slices                                     *)
(*   arrays    two arrays, one of which is created and deleted             *)
(* States between transactions that differ in the numbers of blocks or in  *)
(* what lies behind a string's terminator are one state, and so are states *)
(* in which no method is called before the transaction ends that differ in *)
(* what would limit or fail one.                                           *)
(***************************************************************************)
EXTENDS Integers, FiniteSets

CONSTANTS
    Kinds,              \* the instances of this run
    MaxOps,
    Misuse

VARIABLES heap, ops, cur, committed, shrunk, spoilt, it, kind

One == INSTANCE BasicString
    WITH Names <- {"a"}, MaxSize <- 5, Letters <- {1, 2}, MaxSource <- 2, MaxOps <- 1,
         Ooms <- {0, 1}
Two == INSTANCE BasicString
    WITH Names <- {"a", "b"}, MaxSize <- 4, Letters <- {1}, MaxSource <- 2, Ooms <- {0}
Inline == INSTANCE InlineString
    WITH Names <- {"a"}, MaxCapacity <- 3, Letters <- {1, 2}, Ooms <- {0}
Inlines == INSTANCE InlineString
    WITH Names <- {"a", "b"}, MaxCapacity <- 2, Letters <- {1}, Ooms <- {0}
OneArray == INSTANCE Array
    WITH Names <- {"a"}, N <- 4, Values <- {0, 1}, SizeType <- 16, Ooms <- {0}
Arrays == INSTANCE Array
    WITH Names <- {"a", "b"}, N <- 2, Values <- {0, 1}, SizeType <- 16, Ooms <- {0, 1}

Init ==
    /\ kind \in Kinds
    /\ \/ kind = "array" /\ OneArray!Init
       \/ kind = "arrays" /\ Arrays!Init
       \/ /\ it = Arrays!NoIterator
          /\ \/ kind = "one" /\ One!Init
             \/ kind = "two" /\ Two!Init
             \/ kind = "inline" /\ Inline!Init
             \/ kind = "inlines" /\ Inlines!Init

Next ==
    /\ UNCHANGED kind
    /\ \/ kind = "array" /\ OneArray!Next
       \/ kind = "arrays" /\ Arrays!Next
       \/ kind = "one" /\ One!Next /\ UNCHANGED it
       \/ kind = "two" /\ Two!Next /\ UNCHANGED it
       \/ kind = "inline" /\ Inline!Next /\ UNCHANGED it
       \/ kind = "inlines" /\ Inlines!Next /\ UNCHANGED it

Spec == Init /\ [][Next]_<<heap, ops, cur, committed, shrunk, spoilt, it, kind>>

-----------------------------------------------------------------------------
(* Properties of the strings: see BasicString *)

OfThisString(one, two) ==
    CASE kind = "one" -> one [] kind = "two" -> two [] OTHER -> TRUE

\* Inside a transaction a string holds what a std::string holds after the same
\* calls, on whichever side of the switch between array and vector it is, and
\* also after a method that threw before it had changed anything; its size fits
\* its array or its block, c_str() ends in '\0' right behind the last character,
\* and no assertion of the code has failed.
StringSameAsStd == OfThisString(One!SameAsStd, Two!SameAsStd)

\* Outside one, it holds, and c_str() shows, what it held after the last commit:
\* an abort, an exception that ends the transaction, one that was caught in a
\* transaction that then ends without a commit, and a power failure also undo the
\* switch from one form to the other, whose fields lie over each other, however
\* far it got before its allocation failed.
StringAtomic == OfThisString(One!AtomicAndDurable, Two!AtomicAndDurable)

\* Between transactions every block belongs to a large string.
NoStringLeaked == OfThisString(One!NothingLeaked, Two!NothingLeaked)

\* Between transactions every search and every comparison answers as a
\* std::string with the same text does, in whichever form the string is and
\* whatever an earlier text has left behind its terminator.
QueriesAsStd == OfThisString(One!QueriesAsStd, Two!QueriesAsStd)

-----------------------------------------------------------------------------
(* Properties of the others: see Array and InlineString *)

OfThisKind(array, arrays, inline, inlines) ==
    CASE kind = "array" -> array [] kind = "arrays" -> arrays
      [] kind = "inline" -> inline [] kind = "inlines" -> inlines [] OTHER -> TRUE

\* Inside a transaction the container holds what one of the standard library
\* holds after the same calls, also after one that threw std::out_of_range, and
\* no assertion of the code has failed; whichever way a snapshotting iterator of
\* an array took to where it is, the element it points at is in the transaction.
FixedSameAsStd ==
    OfThisKind(OneArray!SameAsStd /\ OneArray!Covered, Arrays!SameAsStd /\ Arrays!Covered,
               Inline!SameAsStd, Inlines!SameAsStd)

\* Outside one, it holds what it held after the last commit; and the character
\* behind the last one of an inline string is '\0', after an abort and a power
\* failure too.
FixedAtomic ==
    OfThisKind(OneArray!AtomicAndDurable, Arrays!AtomicAndDurable,
               Inline!AtomicAndDurable /\ Inline!Terminated,
               Inlines!AtomicAndDurable /\ Inlines!Terminated)

\* range() of an array accepts its slices and no others.
RangeThrows == kind = "array" => OneArray!RangeThrows

\* Searches in a string and, but for find(), in a part of it give what they give
\* in a std::string_view, whatever the memory behind the view holds; arrays, and
\* strings and views of parts of them, compare as their contents do.
FixedQueriesAsStd ==
    OfThisKind(OneArray!ComparesAsStd, Arrays!ComparesAsStd,
               Inline!SearchesAsStd /\ Inline!ComparesAsStd,
               Inlines!SearchesAsStd /\ Inlines!ComparesAsStd)

\* find() in a part of a string gives what it gives in a std::string_view.
FindsAsStd == kind = "inline" => Inline!FindsAsStd

-----------------------------------------------------------------------------
(* The view *)

Seen(l) == <<One!At(heap, l), IF l \in DOMAIN heap.dirty THEN heap.dirty[l] ELSE One!At(heap, l)>>
Shape(s) ==
    IF One!is_sso_used(heap, s)
    THEN [size |-> One!At(heap, s),
          data |-> [i \in 0..One!size(heap, s) |-> Seen(One!Char(heap, s, i))]]
    ELSE [size |-> One!At(heap, s), capacity |-> One!V!capacity(heap, s),
          null |-> One!V!data(heap, s) = 0,
          data |-> [i \in 0..(One!V!size(heap, s) - 1) |-> Seen(One!Char(heap, s, i))]]

View ==
    IF Two!Callable THEN <<heap, ops, cur, committed, shrunk, spoilt, it, kind>>
    ELSE IF ops >= 0 THEN <<[heap EXCEPT !.oom = 0], cur, committed, spoilt, it, kind>>
    ELSE IF kind \in {"one", "two"}
    THEN <<kind, Cardinality(DOMAIN heap.mem), heap.broken, cur, committed,
           {<<x, Shape(Two!Obj(heap, x))>> : x \in {y \in DOMAIN cur : Two!Exists(heap, y)}}>>
    ELSE <<kind, heap.mem, heap.dirty, heap.broken, cur, committed>>

=============================================================================
