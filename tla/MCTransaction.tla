--------------------------- MODULE MCTransaction ---------------------------
(***************************************************************************)
(* Instances of Transaction for TLC.                                       *)
(***************************************************************************)
EXTENDS Transaction, TLC

Symmetry == Permutations(Cells)

=============================================================================
