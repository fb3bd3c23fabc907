SPECIFICATION FairSpec
CONSTANTS
  Gap = Gap
  Objects = {o1, o2, o3}
  Cyclic = {o1, o2}
  Frames = {o1}
  Holders = {o1}
  Targets = {o1}
  First = 2
  Sweep = 1
  Word = 4
  MaxRefs = 1
  MaxLocals = 1
INVARIANTS HeapInv RoomsFollowHolders NoLeak
PROPERTIES ImplementsManagedHeap GarbageIsFreed
