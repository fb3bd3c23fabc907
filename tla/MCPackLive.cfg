SPECIFICATION FairSpec
CONSTANTS
  Procs = {p1, p2}
  Keys = {1}
  Batches <- One
  MaxPacks = 1
  MaxClock = 3
  MaxFaults = 0
  MarkAge = 0
  MaxHandles = 1
  Caps = {5}
  FrameSize = 2
  Header = 1
  Row = 0
  Nobody = Nobody
  Corrupt = Corrupt
  Unread = Unread
  Miss = Miss
PROPERTIES MarksGrow OrphansAreRemoved
