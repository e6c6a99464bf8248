SPECIFICATION Spec
CONSTANTS
  Screens = {s0, s1}
  Blank = s0
  Bell = Bell
  Done = Done
  Wanted = s1
  None = None
  Policies = {"StableScreen", "AnyObservableChange", "MayBeSilent", "CommandDone", "Event", "TextAppears", "NoWait"}
  CommandWaits = FALSE
  EngineErrs = FALSE
  Quiet = 1
  Budget = 2
  Grace = 1
  MaxChunks = 2
  MaxActs = 1
  MaxGen = 2
  Ring = 2
  Compact = 2
  MaxFrames = 3
INVARIANT SentIsRecorded
CHECK_DEADLOCK FALSE
