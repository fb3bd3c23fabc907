SPECIFICATION FairSpec
CONSTANTS
  Requests = {r1, r2}
  Workers = {w1, w2}
  Nobody = Nobody
  ActiveLimit = 2
  MaxAborts = 1
  Healthy = FALSE
INVARIANTS ServerInv NativeIsReleased
PROPERTIES EveryFetchIsTold StopReachesTheProgram
CHECK_DEADLOCK FALSE
