SPECIFICATION FairSpec
CONSTANTS
  MaxOps = 2
  MaxItems = 2
  MaxLines = 2
  MaxRequests = 2
  MaxInputs = 2
INVARIANTS ReactorInv ItemsAreKept NoWakeIsLost
PROPERTIES DeadlocksAreReal StopEndsTheRun
CHECK_DEADLOCK FALSE
