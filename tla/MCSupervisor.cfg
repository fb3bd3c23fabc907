SPECIFICATION FairSpec
CONSTANTS
  Slots = {s1}
  RestartLimit = 2
  MaxRequests = 2
  MaxGenerations = 3
INVARIANTS SupervisorInv CompletionJoins
PROPERTIES StopIsFinal ImplementsRequestPool EveryRequestIsTold StopEnds
