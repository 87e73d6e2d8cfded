SPECIFICATION Spec
CONSTANTS
  Threads = {t1, t2}
  Instances = {i1, i2}
  Ptrs = {p1, p2}
  Null = null
  InUse = in_use
  Obsolete = obsolete
  None = None
SYMMETRY MCSymmetry
INVARIANTS TypeOK Conserved FreeIdsClear HandlersMatch ScrapeSweeps
