SPECIFICATION Spec
CONSTANTS
  Procs = {p1, p2}
  Keys = {1, 2}
  Batches <- Some
  MaxPacks = 2
  MaxClock = 1
  MaxFaults = 1
  MarkAge = 0
  MaxHandles = 1
  Caps = {4, 5}
  FrameSize = 2
  Header = 1
  Row = 0
  Nobody = Nobody
  Corrupt = Corrupt
  Unread = Unread
  Miss = Miss
SYMMETRY Symmetry
INVARIANTS CacheInv IndexedIsComplete LiveLeaseStays
PROPERTIES CollectionsSweep ImplementsCacheMap
