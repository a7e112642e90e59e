SPECIFICATION FairSpec
CONSTANTS
  Clients = {c1}
  c1 = c1
  Wal <- Overlapping
  FlushSize = 2
  FeedbackCap = 1
  CheckEvery = 1
  Env = {"stream", "crash"}
INVARIANT AtLeastOnce
PROPERTIES KeepsPromise FeedsBatches EventuallyApplied CheckpointCatchesUp PauseFlushesBatch
