---------------------------- MODULE MCInventory ----------------------------
(* Instance of Inventory for TLC: bulk screws and one serial-traced motor,  *)
(* a storage slot and a slot of an exclusive location.                      *)
EXTENDS Inventory, TLC

CONSTANTS w1, w2

MCWorkers == {w1, w2}
MCMaterialOf == [i \in Items |-> i]
MCLocationOf == [s \in Slots |-> s]
MCLineItem == [l \in Lines |-> IF l = "screws_line" THEN "screws" ELSE "motor1"]
MCLineSlot == [l \in Lines |-> "dock"]
MCExpected == [l \in Lines |-> IF l = "screws_line" THEN 2 ELSE 1]
WorkerSymmetry == Permutations(MCWorkers)
=============================================================================
