SPECIFICATION Spec
CONSTANTS
  g1 = g1
  g2 = g2
  r1 = r1
  r2 = r2
  NoGate = NoGate
  Steps <- MCSteps
  Gated <- MCGated
  Required = {"torque"}
  Fallible = {"torque"}
  Lateness = {FALSE}
  Codes = {"default"}
  GateIds <- MCGateIds
  ReworkIds <- MCReworkIds
INVARIANT ReleasedRouteComplete
