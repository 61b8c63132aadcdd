CONSTANTS
  Conns = {c1, c2}
  MaxSubs = 1
  None = None
SPECIFICATION Spec
CHECK_DEADLOCK FALSE

PROPERTY StopCompletes
