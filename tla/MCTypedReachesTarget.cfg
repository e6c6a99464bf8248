SPECIFICATION Spec
CONSTANTS
  Tapes = {a, b}
  Names = {n}
  MaxSteps = 2
  MaxRecs = 2
  MaxRuns = 2
  MaxTroubles = 1
  Defects <- FewDefects
  Invasive = {"keyboard"}
  MaxCalls = 2
  MaxChanges = 1
  Room = 2
  Limits = {1, 9}
  MaxWrites = 2
  MaxNatives = 1
  MaxProbes = 1
  MaxLooks = 1
  Controls <- FewControls
  KindOf <- FewKinds
  Focusable = {"ok", "log", "name"}
  Homes <- FewHomes
  Labels = {"save", "quit"}
  Holds <- FewHolds
  Destructive = {"quit"}
  External = {}
  Targets <- FewTargets
  Verbs = {"activate", "type"}
  Sessions = {s1}
  PlanCap = 1
  MaxHops = 2
  MaxPlans = 2
  MaxDrifts = 1
  MaxTabs = 1
  Nowhere = Nowhere
  Places = 3
  Fenced = 1
  Disabled = 1
  StepsPer = 3
  Clicks = 2
  BurstKeys = 2
  WindowOps = 3
  MaxOps = 4
  MaxMoves = 1
  States <- FewStates
  Elements = {"ok", "no"}
  Hints <- FewHints
  Declared = {"q", "up"}
  Typed = {"q", "esc"}
  Order <- FewOrder
  MaxActs = 2
  MaxCrashes = 1
  Given = {"a b", "a_b", "cp-2"}
  FileOf <- FewFiles
  Hashes = {"h1", "h2"}
  MaxSeq = 3
  MaxTrouble = 2
  Parts = {"intents"}
  Idle = Idle
INVARIANT TypedReachesTarget
CHECK_DEADLOCK FALSE
