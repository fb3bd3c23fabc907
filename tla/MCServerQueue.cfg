SPECIFICATION Spec
CONSTANTS
  Requests = {r1, r2}
  Workers = {w1}
  Nobody = Nobody
  ActiveLimit = 2
  MaxAborts = 0
  Healthy = TRUE
INVARIANTS CancelIsLocal
CHECK_DEADLOCK FALSE
