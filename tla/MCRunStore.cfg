SPECIFICATION Spec
CONSTANTS
  MaxRecords = 3
  MaxEpoch = 2
  Capacity = 1
  High = 2
  Low = 1
  OpenResume = FALSE
  Torn = Torn
  None = None
INVARIANTS
  TypeOK
  CertifiedKept
  
  LossTold
PROPERTIES
  SealedStaysSealed
  EpochAdvances
CHECK_DEADLOCK FALSE
