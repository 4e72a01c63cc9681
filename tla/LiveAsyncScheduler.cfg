SPECIFICATION LiveSpec
CONSTANTS
  Future = {f1, f2, f3}
  Null = Null
  Value = {v}
  None = None
  MaxDrives = 2
  MaxRuns = 1
PROPERTY RunnableRuns
