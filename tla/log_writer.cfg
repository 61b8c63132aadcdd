CONSTANTS
  Threads = {t1, t2}
  MaxMessages = 3
  Lengths = {1, 2}
  Configs <- MCConfigs
  DefaultCap = 2
  MaxLines = 2
  RetentionDays = 1
  MaxDay = 1
  NoFile = NoFile
SPECIFICATION FairSpec
CHECK_DEADLOCK FALSE
INVARIANTS TypeOK InOrder RightDay
PROPERTIES DropsMakeRoom NothingLeft Delivered
