SPECIFICATION Spec
CONSTANTS
  Repeats = {1, 2}
  Target = Target
  Other = Other
  MaxRev = 2
  Contract = "contract"
  Asked = {"full", "mouse", "color", "contract", "lifecycle_exit"}
  Controls = 3
  MaxTabs = 4
  MaxOps = 3
  RingOps = 2
  Keys = {"a", "b", "c", "s", "q"}
  Mutating = {"b", "s"}
  Unread = {"s"}
  Quits = {"q"}
  MaxActions = 4
  MaxRelaunches = 2
  MaxStates = 4
  Ring = 2
  MaxEvents = 5
  MaxResumes = 1
  Readers = {watcher}
  Persistence = Persistence
  Coverage = Coverage
  Rows = 2
  MaxLines = 2
  SnapCap = 2
  MaxBytes = 3
  MaxGen = 2
  Titles = {"t"}
  NoTitle = "none"
  Signals = {"9"}
  NoSignal = "none"
  MaxPaints = 2
  Kinds = {"portable", "pipe", "line", "tmux"}
  MaxUnread = 1
  Idle = Idle
INVARIANT PromotedKept
CHECK_DEADLOCK FALSE
