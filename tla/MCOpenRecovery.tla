--------------------------- MODULE MCOpenRecovery ---------------------------
(* A database with the files of a few processes. *)
EXTENDS OpenRecovery, TLC

MCSymmetry == Permutations(File) \cup Permutations(Gen)
=============================================================================
