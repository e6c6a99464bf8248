SPECIFICATION Spec
CONSTANTS
  Clients = {c1, c2}
  Sessions = {s1}
  Runs = {r1, r2, r3}
  MaxEpoch = 1
  MaxNested = 2
  NoClient = NoClient
  None = None
  Ops = {"scenario", "new"}
  Faults = {}
PROPERTY
  EveryCallReturns
CHECK_DEADLOCK FALSE
