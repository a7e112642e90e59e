SPECIFICATION Spec
CONSTANTS
  Log <- Mixed
  Keys = {1, 2, 3}
  Columns <- MCColumns
  Null = Null
  BitmapWidth = 2
  MaxBatch = 2
  MaxLate = 2
  MaxRetries = 2
  FilterRatio = 2
  Env = {"load", "late", "filter", "crash"}
INVARIANTS TypeOK ShowsPrefix
