------------------------------ MODULE MCVectors -----------------------------
(***************************************************************************)
(* Instances of Vector and SegmentVector for TLC, one of which a behaviour *)
(* is about:                                                               *)
(*   objects   a vector of a type with a destructor                        *)
(*   pods      a vector of a trivially destructible type                   *)
(*   pair      two vectors, one of which is created and deleted            *)
(*   segments  a segment_vector with the exponential policy in an array    *)
(*   shelves   two segment_vectors with the fixed policy in vectors        *)
(* Which number a block got matters to no operation, and no operation      *)
(* reads the memory behind the elements before it has written it: states   *)
(* between transactions that differ in these only are one state, and so    *)
(* are states in which no method is called before the transaction ends     *)
(* that differ in what would limit or fail one.                            *)
(***************************************************************************)
EXTENDS Integers, FiniteSets

CONSTANTS
    Kinds,              \* the instances of this run
    Values,
    MaxOps,
    Misuse

VARIABLES heap, ops, cur, committed, shrunk, spoilt, kind

Objects == INSTANCE Vector
    WITH Names <- {"a"}, Trivial <- FALSE, MaxSize <- 4, MaxSource <- 2, Ooms <- {0, 1}
Pods == INSTANCE Vector
    WITH Names <- {"a"}, Trivial <- TRUE, MaxSize <- 4, MaxSource <- 2, Ooms <- {0}
Pair == INSTANCE Vector
    WITH Names <- {"a", "b"}, Trivial <- FALSE, MaxSize <- 2, MaxSource <- 1, Ooms <- {0, 2}
Segs == INSTANCE SegmentVector
    WITH Names <- {"a"}, Trivial <- TRUE, MaxSource <- 2,
         Storage <- "array", SegmentSize <- 0, MaxSegments <- 2, MaxAlloc <- 2,
         Ooms <- {0}
Shelves == INSTANCE SegmentVector
    WITH Names <- {"a", "b"}, Trivial <- FALSE, MaxSource <- 1, Values <- {1},
         Storage <- "vector", SegmentSize <- 1, MaxSegments <- 2, MaxAlloc <- 1,
         Ooms <- {0, 2}

Init ==
    /\ kind \in Kinds
    /\ \/ kind = "objects" /\ Objects!Init
       \/ kind = "pods" /\ Pods!Init
       \/ kind = "pair" /\ Pair!Init
       \/ kind = "segments" /\ Segs!Init
       \/ kind = "shelves" /\ Shelves!Init

Next ==
    /\ UNCHANGED kind
    /\ \/ kind = "objects" /\ Objects!Next
       \/ kind = "pods" /\ Pods!Next
       \/ kind = "pair" /\ Pair!Next
       \/ kind = "segments" /\ Segs!Next
       \/ kind = "shelves" /\ Shelves!Next

Spec == Init /\ [][Next]_<<heap, ops, cur, committed, shrunk, spoilt, kind>>

-----------------------------------------------------------------------------
(* Properties: see Vector and SegmentVector *)

OfThisKind(objects, pods, pair, segments, shelves) ==
    CASE kind = "objects" -> objects [] kind = "pods" -> pods [] kind = "pair" -> pair
      [] kind = "segments" -> segments [] kind = "shelves" -> shelves

\* The fields of every container agree with each other and with its blocks, and
\* no assertion of the code has failed.
Consistent ==
    OfThisKind(Objects!Consistent, Pods!Consistent, Pair!Consistent,
               Segs!Consistent, Shelves!Consistent)

\* Inside a transaction a container holds what a std::vector holds after the
\* same calls, whatever was reallocated, moved or taken over on the way, and also
\* after a method that threw before it had changed anything; between
\* transactions two containers, and a container and a std::vector on either
\* side, compare as their contents do.
SameAsStd ==
    /\ OfThisKind(Objects!SameAsStd, Pods!SameAsStd, Pair!SameAsStd,
                  Segs!SameAsStd, Shelves!SameAsStd)
    /\ OfThisKind(Objects!ComparesAsStd, Pods!ComparesAsStd, Pair!ComparesAsStd,
                  Segs!ComparesAsStd, Shelves!ComparesAsStd)

\* Outside one, it holds what it held after the last commit: an abort, an
\* exception that ends the transaction, one that was caught in a transaction that
\* then ends without a commit, and a power failure leave nothing of an unfinished
\* transaction and lose nothing of a finished one, however far a method got
\* before its allocation failed.
AtomicAndDurable ==
    OfThisKind(Objects!AtomicAndDurable, Pods!AtomicAndDurable, Pair!AtomicAndDurable,
               Segs!AtomicAndDurable, Shelves!AtomicAndDurable)

\* Between transactions every block of the pool belongs to a container.
NothingLeaked ==
    OfThisKind(Objects!NothingLeaked, Pods!NothingLeaked, Pair!NothingLeaked,
               Segs!NothingLeaked, Shelves!NothingLeaked)

-----------------------------------------------------------------------------
(* The view *)

Seen(l) == <<heap.mem[l[1]][l[2]],
             IF l \in DOMAIN heap.dirty THEN heap.dirty[l] ELSE heap.mem[l[1]][l[2]]>>
Shape(v) ==             \* of a vector
    [size |-> Objects!size(heap, v), capacity |-> Objects!capacity(heap, v),
     data |-> [i \in 0..(Objects!size(heap, v) - 1) |-> Seen(Objects!Elem(heap, v, i))]]
SegsShape(s) ==
    <<heap.mem[s[1]][s[2]], [k \in 0..(Segs!Segments(heap, s) - 1) |-> Shape(Segs!Segment(heap, s, k))]>>
ShelvesShape(s) ==
    <<heap.mem[s[1]][s[2]], heap.mem[s[1]][s[2] + 2],
      [k \in 0..(Shelves!Segments(heap, s) - 1) |-> Shape(Shelves!Segment(heap, s, k))]>>

View ==
    IF ops = -1
    THEN <<kind, Cardinality(DOMAIN heap.mem), heap.broken, cur, committed,
           {<<x, LET v == Pair!Obj(heap, x)
                 IN  IF kind = "segments" THEN SegsShape(v)
                     ELSE IF kind = "shelves" THEN ShelvesShape(v) ELSE Shape(v)>> :
               x \in {y \in DOMAIN cur : Pair!Exists(heap, y)}}>>
    ELSE IF Pair!Callable THEN <<heap, ops, cur, committed, shrunk, spoilt, kind>>
    ELSE <<[heap EXCEPT !.oom = 0], cur, committed, spoilt, kind>>

=============================================================================
