SPECIFICATION Spec
CONSTANTS
  g1 = g1
  g2 = g2
  r1 = r1
  r2 = r2
  NoGate = NoGate
  Steps <- MCSteps
  Gated <- MCGated
  Required = {"torque"}
  Fallible = {"torque"}
  Lateness = {TRUE, FALSE}
  Codes = {"default"}
  GateIds <- MCGateIds
  ReworkIds <- MCReworkIds
SYMMETRY RowSymmetry
INVARIANTS
  TypeOK
  RouteOrder
  ReleasedSettled
  ReinspectionSync
PROPERTY
  ReleaseUndoneByNewOrderOnly
