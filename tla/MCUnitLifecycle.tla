-------------------------- MODULE MCUnitLifecycle --------------------------
(* Instance of UnitLifecycle for TLC. *)
EXTENDS UnitLifecycle, TLC

CONSTANTS g1, g2, r1, r2

MCSteps == {1, 2}
MCGated == {1}
MCGateIds == {g1, g2}
MCReworkIds == {r1, r2}
RowSymmetry == Permutations(MCGateIds) \union Permutations(MCReworkIds)
=============================================================================
