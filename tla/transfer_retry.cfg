SPECIFICATION Spec
CONSTANTS
  t1 = t1
  c1 = c1
  c2 = c2
  None = None
  Bare = Bare
  Target = {t1}
  Conn = {c1, c2}
  Message = {}
  Sizes = {2}
  MaxAttempts = 2
  MaxRetries = 2
  MaxRounds = 2
  MaxUpsets = 1
SYMMETRY Alike
CHECK_DEADLOCK FALSE
INVARIANTS
  EndsWhole
  DeliveredOnce
  ActiveExact
PROPERTY
  ShownWhileSent
