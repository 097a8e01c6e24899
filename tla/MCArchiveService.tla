--------------------------- MODULE MCArchiveService ---------------------------
(* Instances of ArchiveService small enough for TLC. *)
EXTENDS ArchiveService, TLC

\* Tasks are interchangeable; sound for the runs without liveness properties.
Symmetry == Permutations(Task)
=============================================================================
