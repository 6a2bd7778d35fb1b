--------------------------- MODULE MCEdgeCommands ---------------------------
(* Instance of EdgeCommands for TLC. *)
EXTENDS EdgeCommands

CONSTANTS k1, k2, p1, p2

MCCommands == {k1, k2}
MCPulls == {p1, p2}
=============================================================================
