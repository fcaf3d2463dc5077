SPECIFICATION FairSpec
CONSTANTS
  a = a
  Lan = Lan
  None = None
  Code = {a}
  MaxChoices = 1
  MaxDrops = 0
  MaxBounces = 0
  MaxJoins = 2
CHECK_DEADLOCK FALSE
PROPERTY
  ComesToRest
