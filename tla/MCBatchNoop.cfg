SPECIFICATION Spec
CONSTANTS
  b1 = b1
  b2 = b2
  Batches = {b1, b2}
  CFs = {0, 1}
  TsSize <- MCTsSize
  Null = null
  Callers <- LeadingNoop
INVARIANT HasIsExact
