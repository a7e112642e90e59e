SPECIFICATION Spec
CONSTANTS
  Clients = {}
  Wal <- Serial
  FlushSize = 2
  FeedbackCap = 2
  CheckEvery = 2
  Env = {"reply", "crash"}
INVARIANT AtLeastOnce
