--------------------------- MODULE MCEdgeDelivery ---------------------------
(* Instance of EdgeDelivery for TLC. *)
EXTENDS EdgeDelivery

CONSTANTS c1, c2

MCCalls == {c1, c2}
=============================================================================
