SPECIFICATION FairSpec
CONSTANTS
  w1 = w1
  w2 = w2
  erp = erp
  mail = mail
  NoDelivery = NoDelivery
  Workers <- MCWorkers
  Contracts <- MCContracts
  MaxEvents = 1
  Subscriptions = {1, 2}
  Forwarding = {1}
  Fallible = {2}
  MaxAttempts = 2
  Limit = 2
  MaxRuns = 2
INVARIANTS
  DeliveredMeansQueued
PROPERTY EventuallySettled
CHECK_DEADLOCK FALSE
