---------------------------- MODULE MCGuiSession ----------------------------
(* GuiSession with interchangeable process ids. *)
EXTENDS GuiSession, TLC

CONSTANTS p1, p2

MCPids == {p1, p2}
=============================================================================
