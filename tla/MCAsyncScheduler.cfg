SPECIFICATION Spec
CONSTANTS
  Future = {f1, f2, f3}
  Null = Null
  Value = {v}
  None = None
  MaxDrives = 2
  MaxRuns = 2
SYMMETRY Futures
INVARIANTS TypeOK Inv NothingForgotten
 ResumesWithAwaitedValue
PROPERTIES GivesUpOnlyWhenStuck ImplementsContract
