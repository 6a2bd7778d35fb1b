----------------------------- MODULE MCEventBus -----------------------------
(* Instance of EventBus for TLC. *)
EXTENDS EventBus

CONSTANTS w1, w2, erp, mail

MCWorkers == {w1, w2}
MCContracts == {erp, mail}
=============================================================================
