SPECIFICATION Spec
CONSTANTS
  Future = {f1, f2}
  Null = Null
  Value = {v}
  None = None
  MaxDrives = 1
  MaxRuns = 1
PROPERTY ExitStopsTheProgram
