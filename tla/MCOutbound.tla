----------------------------- MODULE MCOutbound -----------------------------
(* Instance of Outbound for TLC. *)
EXTENDS Outbound

CONSTANTS w1, w2

MCWorkers == {w1, w2}
=============================================================================
