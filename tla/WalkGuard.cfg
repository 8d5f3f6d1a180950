SPECIFICATION Spec
CONSTANTS
  Request = {r1, r2, r3}
  Permits = 2
  None = None
INVARIANTS PermitConservation RunningAreCounted QuietMetrics
PROPERTIES PoolSpec PoolDrains EveryRequestEnds
CHECK_DEADLOCK FALSE
