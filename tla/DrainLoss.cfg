SPECIFICATION Spec
CONSTANTS
  Clients = {c1}
  c1 = c1
  Wal <- Short
  FlushSize = 2
  FeedbackCap = 2
  CheckEvery = 2
  Env = {}
PROPERTY DrainDelivers
