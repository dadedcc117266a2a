--------------------------- MODULE MCPanelSession ---------------------------
(* A panel whose page is loaded a few times. *)
EXTENDS PanelSession
=============================================================================
