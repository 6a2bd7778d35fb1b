SPECIFICATION FairSpec
CONSTANTS
  c1 = c1
  c2 = c2
  NoCall = NoCall
  Calls <- MCCalls
  MaxReadings = 5
  BatchSize = 2
  Invalid = {4}
  Unstorable = {3}
  Doubtful = {1}
  PowerCuts = TRUE
INVARIANTS
  NothingLost
  InterpretedOnce
PROPERTIES
  Delivered
  EventuallyStored
