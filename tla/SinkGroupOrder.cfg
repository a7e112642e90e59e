SPECIFICATION Spec
CONSTANTS
  Log <- ToastTogether
  Keys = {1, 2}
  Columns <- MCColumns
  Null = Null
  BitmapWidth = 64
  FilterRatio = 5
  MaxBatch = 2
  MaxLate = 1
  MaxRetries = 2
  Env = {}
INVARIANT ShowsPrefix
