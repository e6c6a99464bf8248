SPECIFICATION Safety
CONSTANTS
  Clients = {c1, c2}
  Sessions = {s1}
  Runs = {r1, r2, r3}
  MaxEpoch = 2
  MaxNested = 2
  NoClient = NoClient
  None = None
  Ops = {"act", "start", "lease", "stop", "scenario", "persist", "new", "discard", "kill", "resume", "detach", "resumeLive"}
  Faults = {"flush", "reopen"}
SYMMETRY Perms
INVARIANTS
  TypeOK
  Exclusion
  EpochStable
  AdmittedStable
  SessionsHeld
  
PROPERTIES
  GateSpec
  AdmissionAtomic
  ReopenedGoesLive
CHECK_DEADLOCK FALSE
