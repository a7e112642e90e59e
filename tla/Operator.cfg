SPECIFICATION FairSpec
CONSTANTS
  Clients = {c1}
  c1 = c1
  Wal <- Copied
  FlushSize = 1
  FeedbackCap = 1
  CheckEvery = 2
  Env = {"setup"}
PROPERTIES TerminationIrrevocable DrainEmptiesChannel TerminationTakesEffect LockedForGood EventuallyApplied
CHECK_DEADLOCK FALSE
