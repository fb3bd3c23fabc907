SPECIFICATION FairSpec
CONSTANTS
  Slots = {s1}
  RestartLimit = 0
  MaxRequests = 1
  MaxGenerations = 1
PROPERTIES StopCompletes
