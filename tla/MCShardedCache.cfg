SPECIFICATION Spec
CONSTANTS
  k1 = k1
  k2 = k2
  k3 = k3
  k4 = k4
  k5 = k5
  Keys = {k1, k2, k3, k4, k5}
  Values <- MCValues
  None = None
  Hash <- MCHash
  HashBits = 3
  ShardBits = 1
  InitBits = 1
  PerLock = 2
INVARIANTS TypeOK ElemsExact VisitedOnce IsMap
PROPERTIES WalkEnds
