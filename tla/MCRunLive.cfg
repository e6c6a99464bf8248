SPECIFICATION Spec
CONSTANTS
  Clients = {c1, c2}
  Sessions = {s1}
  Runs = {r1, r2, r3}
  MaxEpoch = 1
  MaxNested = 2
  NoClient = NoClient
  None = None
  Ops = {"act", "start", "verify", "lease", "restart", "new", "kill"}
  Faults = {}
PROPERTY
  EveryCallReturns
