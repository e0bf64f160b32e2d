----------------------------- MODULE Relational -----------------------------
(***************************************************************************)
(* The relational operators of the containers, on their contents.  Each    *)
(* family is the record of the six answers that the operators give for a   *)
(* left and a right operand, computed the way the code does: some from     *)
(* std::equal and std::lexicographical_compare, the others from those, with*)
(* the operands in the order in which the code passes them on.             *)
(***************************************************************************)
EXTENDS Integers, Sequences

\* std::equal over the length of the left operand
equal(l, r) == \A i \in 1..Len(l) : l[i] = r[i]

\* std::lexicographical_compare: at the first difference, or at the end of the
\* shorter one
lexicographical_compare(l, r) ==
    LET less[i \in 1..(Len(l) + 1)] ==
          /\ i <= Len(r)
          /\ \/ i > Len(l)
             \/ l[i] < r[i]
             \/ l[i] = r[i] /\ less[i + 1]
    IN  less[1]

-----------------------------------------------------------------------------
(* vector and vector, vector and std::vector, std::vector and vector *)

vector_vector(l, r) ==
    LET lt == lexicographical_compare(l, r)
        gt == lexicographical_compare(r, l)
        eq == Len(l) = Len(r) /\ equal(l, r)
    IN  [eq |-> eq, ne |-> ~eq, lt |-> lt, le |-> ~gt, gt |-> gt, ge |-> ~lt]

vector_std(l, r) ==
    LET lt == lexicographical_compare(l, r)
        le == ~lexicographical_compare(r, l)
        eq == Len(l) = Len(r) /\ equal(l, r)
    IN  [eq |-> eq, ne |-> ~eq, lt |-> lt, le |-> le, gt |-> ~le, ge |-> ~lt]

std_vector(l, r) ==
    LET eq == vector_std(r, l).eq
        lt == vector_std(r, l).gt
    IN  [eq |-> eq, ne |-> ~eq, lt |-> lt, le |-> ~vector_std(r, l).lt,
         gt |-> vector_std(r, l).lt, ge |-> ~lt]

-----------------------------------------------------------------------------
(* The same for a segment_vector *)

segment_segment(l, r) ==
    LET lt == lexicographical_compare(l, r)
        gt == lexicographical_compare(r, l)
        eq == Len(l) = Len(r) /\ equal(l, r)
    IN  [eq |-> eq, ne |-> ~eq, lt |-> lt, le |-> ~gt, gt |-> gt, ge |-> ~lt]

segment_std(l, r) ==
    LET lt == lexicographical_compare(l, r)
        le == ~lexicographical_compare(r, l)
        eq == Len(l) = Len(r) /\ equal(l, r)
    IN  [eq |-> eq, ne |-> ~eq, lt |-> lt, le |-> le, gt |-> ~le, ge |-> ~lt]

std_segment(l, r) ==
    LET eq == segment_std(r, l).eq
        lt == segment_std(r, l).gt
    IN  [eq |-> eq, ne |-> ~eq, lt |-> lt, le |-> ~segment_std(r, l).lt,
         gt |-> segment_std(r, l).lt, ge |-> ~lt]

-----------------------------------------------------------------------------
(* Two arrays have the same size *)

array_array(l, r) ==
    LET lt == lexicographical_compare(l, r)
        gt == lexicographical_compare(r, l)
    IN  [eq |-> equal(l, r), ne |-> ~equal(l, r), lt |-> lt, gt |-> gt, ge |-> ~lt, le |-> ~gt]

-----------------------------------------------------------------------------
(* What they are to compute: the order of sequences, by its definition *)

Below(l, r) ==
    \E k \in 0..Len(l) :
        /\ k < Len(r) /\ \A i \in 1..k : l[i] = r[i]
        /\ k = Len(l) \/ l[k + 1] < r[k + 1]

StdRelations(l, r) ==
    [eq |-> l = r, ne |-> l # r, lt |-> Below(l, r), gt |-> Below(r, l),
     le |-> Below(l, r) \/ l = r, ge |-> Below(r, l) \/ l = r]

=============================================================================
