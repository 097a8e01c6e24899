-------------------------- MODULE MCOperationService --------------------------
(* OperationService for TLC. *)
EXTENDS OperationService, TLC

\* Operations are interchangeable: identifiers are random.
Symmetry == Permutations(Op)
=============================================================================
