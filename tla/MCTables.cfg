SPECIFICATION TablesSpec
SYMMETRY Symmetry
CONSTANTS
  s1 = s1
  v1 = v1
  v2 = v2
  None = None
  Strings <- MCStrings
  Values <- MCValues
  ArrayInit = 1
  MaxGap = 2
  MaxIndex = 4
  k1 = k1
  k2 = k2
  k3 = k3
  e1 = e1
  e2 = e2
  e3 = e3
  NULL = NULL
  HashKeys <- MCHashKeys
  CachedKeys <- MCCached
  Entries <- MCEntries
  Hash <- MCHash
  InitCapacity = 2
  MaxCapacity = 8
  MaxGeneration = 4
INVARIANTS TablesTypeOK ReadsLastSet DenseTableIsAMap PointersAreLive LoopVisitsOnce
