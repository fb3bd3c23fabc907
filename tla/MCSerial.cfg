CONSTANTS
  Tasks = {t1, t2, t3}
  Nobody = Nobody
  Slices = {0, 1, 2}
  MaxCopies = 2
SPECIFICATION FairSpec
INVARIANTS SerialInv OneLateBody
PROPERTIES ImplementsOrderedRun CallsReturn
