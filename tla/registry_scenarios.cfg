SPECIFICATION Spec
CONSTANTS
  s1 = s1
  s2 = s2
  s3 = s3
  p1 = p1
  p2 = p2
  p3 = p3
  lan = lan
  code = code
  None = None
  Socket = {s1, s2, s3}
  Room = {lan, code}
  Peer = {p1, p2, p3}
  IpRoom <- OneAddress
  Ids <- IdsOfBoth
  Pipelined = TRUE
  Serial = TRUE
  MaxJoins = 2
  MaxLanes = 2
  MaxBusy = 3
  MaxFaults = 1
  Faults = {"fail", "expire", "restart"}
CONSTRAINT
  EitherScenario
CHECK_DEADLOCK FALSE
INVARIANTS
  CompleteViews
  SoundViews
  ExactRegistry
  Inv
