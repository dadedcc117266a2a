--------------------------- MODULE MCViewRefresh ---------------------------
(* Two panels of one file. *)
EXTENDS ViewRefresh
=============================================================================
