SPECIFICATION Spec
CONSTANTS
  s1 = s1
  s2 = s2
  s3 = s3
  p1 = p1
  p2 = p2
  p3 = p3
  lan = lan
  code = code
  None = None
  Socket = {s1, s2, s3}
  Room = {lan}
  Peer = {p1, p2, p3}
  IpRoom <- OneAddress
  Ids <- OnePeerEach
  Pipelined = TRUE
  Serial = TRUE
  MaxJoins = 1
  MaxLanes = 1
  MaxBusy = 2
  MaxFaults = 0
  Faults = {}
CHECK_DEADLOCK FALSE
INVARIANT
  DepartedUnlisted
