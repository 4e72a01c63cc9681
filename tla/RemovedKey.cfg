SPECIFICATION Spec
SYMMETRY Symmetry
CONSTANTS
  s1 = s1
  v1 = v1
  v2 = v2
  None = None
  Strings <- MCStrings
  Values <- MCValues
  ArrayInit = 1
  MaxGap = 2
  MaxIndex = 4
INVARIANT RemovedIsAbsent
