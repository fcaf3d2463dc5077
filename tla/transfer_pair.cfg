SPECIFICATION Spec
CONSTANTS
  t1 = t1
  t2 = t2
  c1 = c1
  m1 = m1
  None = None
  Bare = Bare
  Target = {t1, t2}
  Conn = {c1}
  Message = {m1}
  Sizes = {1}
  MaxAttempts = 1
  MaxRetries = 2
  MaxRounds = 1
  MaxUpsets = 2
SYMMETRY Alike
CHECK_DEADLOCK FALSE
INVARIANTS
  SendingExplained
