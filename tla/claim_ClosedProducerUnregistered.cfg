CONSTANTS
  None = None
  Names = {n1}
  Push = {p1, p2}
  Play = {c1}
  Flv = {}
  Gb = {}
  Addrs = {a1, a2}
  MaxSessions = 1
  NumWorkers = 1
  MaxTasks = 1
  InfoLogged = TRUE
SPECIFICATION Spec
CHECK_DEADLOCK FALSE
INVARIANT ClosedProducerUnregistered
