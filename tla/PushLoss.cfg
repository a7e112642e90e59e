SPECIFICATION Spec
CONSTANTS
  Clients = {}
  Wal <- Serial
  FlushSize = 1
  FeedbackCap = 2
  CheckEvery = 2
  Env = {"sink"}
INVARIANT AtLeastOnce
