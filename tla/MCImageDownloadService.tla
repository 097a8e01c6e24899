------------------------ MODULE MCImageDownloadService ------------------------
(* Instances of ImageDownloadService small enough for TLC. *)
EXTENDS ImageDownloadService, TLC

\* Tasks are interchangeable; sound for the runs without liveness properties.
Symmetry == Permutations(Task)
=============================================================================
