CONSTANTS
  None = None
  Names = {n1}
  Push = {p1, p2}
  Play = {}
  Flv = {}
  Gb = {}
  Addrs = {a1, a2}
  MaxSessions = 3
  NumWorkers = 2
  MaxTasks = 1
  InfoLogged = TRUE
SPECIFICATION Spec
SYMMETRY Symmetry
CHECK_DEADLOCK FALSE
INVARIANTS AttachedIsReachable Isolation
PROPERTY ImplementsDirectory
