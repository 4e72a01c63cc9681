SPECIFICATION Spec
CONSTANTS
  Coroutine = {c1, c2}
  Null = Null
  Site = {s1, s2}
  MaxDepth = 2
  MaxLoops = 2
  MaxRuns = 1
  DeepSwitch = TRUE
INVARIANT ReturnsToCaller
