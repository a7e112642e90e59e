SPECIFICATION Spec
CONSTANTS
  Changes <- Growing
  Null = Null
  FlushSize = 3
  Env = {"ddl", "load", "crash"}
INVARIANTS TypeOK ShowsColumns ColumnsAccountedFor
