SPECIFICATION Spec
CONSTANTS
  CFs = {1, 2}
  Null = null
  t1 = t1
  t2 = t2
  Databases <- Policies
INVARIANTS TypeOK NoCorruption BatchCountAgrees RecoveryExact TransactionsRecovered RecoverySucceeds
