SPECIFICATION Spec
CONSTANTS
  MaxOps = 2
  MaxItems = 0
  MaxLines = 1
  MaxRequests = 0
  MaxInputs = 1
PROPERTY AbortedReadsLoseNoInput
CHECK_DEADLOCK FALSE
