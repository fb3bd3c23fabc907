CONSTANTS
  Tasks = {t1, t2, t3}
  Nobody = Nobody
  MaxCopies = 2
SPECIFICATION FairSpec
INVARIANTS TypeOK TargetNotStarted WaitsForSomething NothingLeft
PROPERTIES ImplementsOrderedRun ReadyTasksRun
