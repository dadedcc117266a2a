--------------------------- MODULE MCRecoveryGate ---------------------------
(* A few processes at the gate of one database. *)
EXTENDS RecoveryGate
=============================================================================
