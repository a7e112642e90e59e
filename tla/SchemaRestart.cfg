SPECIFICATION Spec
CONSTANTS
  Changes <- GrowingOnce
  Null = Null
  FlushSize = 2
  Env = {"crash"}
INVARIANT NewColumnsReplicated
