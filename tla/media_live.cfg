CONSTANTS
  None = None
  Names = {n1}
  Push = {p1}
  Play = {c1}
  Flv = {}
  Gb = {}
  Addrs = {a1}
  MaxSessions = 1
  NumWorkers = 1
  MaxTasks = 1
  InfoLogged = TRUE
  Viewers = {v1, v2}
  KeyForms <- MCKeyForms
  OtherForms <- MCOtherForms
  Versions = {1, 2}
  NoSet = NoSet
  MaxWork = 1
  MaxFaults = 1
SPECIFICATION MCSpec
CHECK_DEADLOCK FALSE
INVARIANT RelayTypeOK
PROPERTIES SilentPeersLeave FramesGoWhole PictureComes
