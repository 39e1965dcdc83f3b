SPECIFICATION FairSpec
CONSTANTS
  Main = Main
  WorkerCount = 2
  Tasks = {t1, t2}
  Nested = {t1}
  Ranges = 3
  Plans = {{"parallel"}, {"each"}}
INVARIANT ContinuationKept
INVARIANT ParallelDone
PROPERTY WaitMeansDone
PROPERTY CallsReturn
CHECK_DEADLOCK FALSE
