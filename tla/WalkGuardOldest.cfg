SPECIFICATION Spec
CONSTANTS
  Request = {r1, r2, r3}
  Permits = 2
  None = None
INVARIANT OldestIsSetWhileRunning
CHECK_DEADLOCK FALSE
