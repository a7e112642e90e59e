SPECIFICATION Spec
CONSTANTS
  Clients = {}
  Wal <- Interleaved
  FlushSize = 2
  FeedbackCap = 2
  CheckEvery = 2
  Env = {"sink", "store", "stream", "reply", "setup", "crash"}
INVARIANTS TypeOK AccountedFor
