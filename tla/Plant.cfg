SPECIFICATION PlantSpec
CONSTANTS
  r1 = r1  r2 = r2  p1 = p1  c1 = c1  c2 = c2
  o1 = o1  q1 = q1  a1 = a1
  l1 = l1  l2 = l2  t1 = t1  t2 = t2  t3 = t3  m1 = m1  m2 = m2  m3 = m3  s1 = s1
  x1 = x1  x2 = x2  u1 = u1  u2 = u2  admin = admin  own = own
  g1 = g1  v1 = v1  v2 = v2
  FactRequests <- MCRequests
  Readings <- MCReadings
  Moves <- MCMoves
  MaxMeasured = 2
  NoFact = NoFact
  Posts = {1, 2, 3}
  MaxSeconds = 3
  PlannedUnits = 2
  ShiftSeconds = 5
  PlanRequests <- MCRequests
  MixRequests <- MCRequests
  FloorRequests <- MCRequests
  IntakeRequests <- MCRequests
  FeedRequests <- MCRequests
  ScanRequests <- MCRequests
  TenantRequests <- MCRequests
  Plans <- MCPlans
  Units = {1, 2}
  Target = 2
  FormNumbers = {2}
  NoPlan = NoPlan
  Items = {1, 2, 3}
  MixOf <- MCMixOf
  VersionOf <- MCVersionOf
  CodeOf <- MCCodeOf
  NoMixPlan = NoMixPlan
  Refs <- MCRefs
  SourceOf <- MCSourceOf
  TypeOf <- MCTypeOf
  MaxRecorded = 2
  NoRef = NoRef
  Lines <- MCLines
  Tasks <- MCTasks
  LineOf <- MCLineOf
  MissionOf <- MCMissionOf
  Missions <- MCMissions
  Signals <- MCSignals
  NoKitLine = NoKitLine
  NoMission = NoMission
  Scans <- MCScans
  Required = 1
  MaxStock = 2
  MaxByHand = 1
  Users <- MCUsers
  Elsewhere <- MCElsewhere
  BaseRoles <- MCBaseRoles
  AdminRole = admin
  OwnRoles <- MCOwnRoles
  Caps = {1, 2}
  NoMember = NoMember
  Entrances <- MCEntrances
  MaxRevoked = 1
INVARIANTS
  TypeOK
  MoveRepairs
  NumbersDistinct
  ClosedWithEvidence
  RecordedOnce
  CompletedWasRecorded
  ReadyIsPicked
  FulfilledWasMoved
  ScanOnce
  PlanOfUniqueCode
  ScansWithinRequired
  CompanyIsManaged
  EverybodyHasRole
  LinkIsAdmitted
  NormalizedHasFact
  DeliveredWasCounted
  Redistributed
SYMMETRY RequestSymmetry
CHECK_DEADLOCK FALSE
