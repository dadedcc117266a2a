-------------------------- MODULE MCHistoryReplay --------------------------
(* A few edits, replays and faults. *)
EXTENDS HistoryReplay
=============================================================================
