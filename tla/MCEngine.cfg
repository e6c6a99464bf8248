SPECIFICATION Spec
CONSTANTS
  Screens = {s0, s1}
  Blank = s0
  Bell = Bell
  Done = Done
  Wanted = s1
  None = None
  Policies = {"StableScreen", "AnyObservableChange", "MayBeSilent", "CommandDone", "Event", "TextAppears", "NoWait"}
  CommandWaits = TRUE
  EngineErrs = TRUE
  Quiet = 1
  Budget = 2
  Grace = 1
  MaxChunks = 2
  MaxActs = 1
  MaxGen = 2
  Ring = 2
  Compact = 2
  MaxFrames = 3
INVARIANTS
  ActHonest
  NativeFaithful
PROPERTY EveryActEnds
CHECK_DEADLOCK FALSE
