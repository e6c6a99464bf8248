SPECIFICATION Spec
CONSTANTS
  Sessions = {s1}
  Callers = {c1, c2, c3}
  Capacity = 1
  None = None
INVARIANTS
  TypeOK
  StopOkIsFinal
  SoleTeardown
PROPERTIES
  EveryCallReturns
  ClosingActorExits
