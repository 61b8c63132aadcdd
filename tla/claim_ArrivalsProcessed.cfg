CONSTANTS
  Wrap = 6
  MaxNackAge = 4
  MaxNackRetries = 2
  Cooldown = 2
  ProcessInterval = 1
  MaxPendingSeq = 1
  MaxReorder = 2
  TaskSafetyAlive = FALSE
  FirstSeqs = {4}
  Span = 4
  MaxTime = 6
  MaxTasks = 1
  SeqWrap = 8
  Wrap32 = 64
  kMaxVideoPacketSize = 3
  FirstSeq = 1
  MaxPackets = 20
  Frames = 4
  Start <- MCStart
  Byte <- MCByte
  Base = 4
  Half = 8
  MaxChunk = 14
  MaxReconnects = 2
SPECIFICATION MCSpec
CHECK_DEADLOCK FALSE
PROPERTY ArrivalsProcessed
