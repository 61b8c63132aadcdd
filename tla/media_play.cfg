CONSTANTS
  None = None
  Names = {n1}
  Push = {}
  Play = {c1, c2}
  Flv = {f1}
  Gb = {}
  Addrs = {a1, a2}
  MaxSessions = 2
  NumWorkers = 1
  MaxTasks = 1
  InfoLogged = TRUE
SPECIFICATION Spec
SYMMETRY Symmetry
CHECK_DEADLOCK FALSE
INVARIANTS AttachedIsReachable ReachableIsAttached TimerArmed
PROPERTY LeftForGood
