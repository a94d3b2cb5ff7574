CONSTANTS
  c1 = c1
  c2 = c2
  None = None
  Calls = {c1, c2}
  Workloads <- MCWorkloads
  SIGN_IN_ADMISSIONS = 2
  SIGN_IN_WINDOW = 4
  SIGN_IN_LOCK = 4
  SIGN_IN_CLEANUP_EVERY = 2
  LIMIT = 2
  WINDOW = 4
  PRUNE = 4
  Lag = 1
  MaxTime = 8
SPECIFICATION Spec
SYMMETRY Symmetry
INVARIANTS TypeOK AttemptsBounded RefusalsEarned
PROPERTY LockHolds
CHECK_DEADLOCK FALSE
