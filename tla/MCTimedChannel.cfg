SPECIFICATION FairChannelSpec
CONSTANTS
  Senders = {s1, s2}
  Receivers = {c1, c2, c3}
  Bounded = {c1, c2}
  Cancelled = {c2, c3}
  Capacity = 1
  Limit = 1
  CleanupBound = 2
  MaxSends = 2
INVARIANTS NoSleeperCouldGoOn DeadlineIsFixed
PROPERTY EveryoneEnds
CHECK_DEADLOCK FALSE
