SPECIFICATION Spec
CONSTANTS
  c1 = c1
  c2 = c2
  NoCall = NoCall
  Calls <- MCCalls
  MaxReadings = 3
  BatchSize = 2
  Invalid = {3}
  Unstorable = {2}
  Doubtful = {1}
  PowerCuts = FALSE
INVARIANT SurvivesNetwork
