SPECIFICATION FairSpec
CONSTANTS
  Clients = {}
  Wal <- Long
  FlushSize = 1
  FeedbackCap = 1
  CheckEvery = 2
  Env = {}
PROPERTY BackpressureReleases
CHECK_DEADLOCK FALSE
