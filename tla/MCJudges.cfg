SPECIFICATION Spec
CONSTANTS
  Ring = 3
  Sweep = 4
  MaxFaults = 1
  Letters = {"esc", "[", "P", "X", "st", "bel", "h", "l", "1", ";", "(", "lead", "cont"}
  MaxTail = 3
  Queries = {"cpr", "color", "sync"}
  MaxAsked = 2
  MaxGen = 2
  MaxProbes = 1
  MaxFrames = 3
  Cols = 20
  Rows = 12
  CacheCap = 2
  MaxPaints = 2
  MaxText = 2
  MaxRow = 4
  MaxHops = 3
  MaxStates = 3
  CutAt = 2
  MaxMishaps = 1
  Calls = {"c1", "c2"}
  Docs = {"panel", "modal"}
  Looks = {"good", "bad"}
  Primary = "s1"
  MaxCalls = 3
  MaxRuns = 2
  Drafts = {"d1", "d2", "d3", "d4"}
  Readable = {"a.yaml", "a.json"}
  Idle = Idle
INVARIANTS
  VerdictsHonest
  
  
CHECK_DEADLOCK FALSE
