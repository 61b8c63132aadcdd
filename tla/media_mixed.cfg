CONSTANTS
  None = None
  Names = {n1, n2}
  Push = {}
  Play = {c1}
  Flv = {f1}
  Gb = {g1, g2}
  Addrs = {a1}
  MaxSessions = 2
  NumWorkers = 2
  MaxTasks = 1
  InfoLogged = FALSE
SPECIFICATION Spec
CHECK_DEADLOCK FALSE
INVARIANT TypeOK
PROPERTY ImplementsDirectory
