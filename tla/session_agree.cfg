SPECIFICATION Spec
CONSTANTS
  a = a
  Lan = Lan
  None = None
  Code = {a}
  MaxChoices = 2
  MaxDrops = 1
  MaxBounces = 1
  MaxJoins = 2
CHECK_DEADLOCK FALSE
INVARIANTS
  PageAgrees
  RoomAgrees
  DialogSound
