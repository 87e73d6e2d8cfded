SPECIFICATION Spec
CONSTANTS
  Logs <- MCLogs
  MaxPrep = 2
  None = None
INVARIANT TypeOK
PROPERTY FindIsExact
