SPECIFICATION ChainSpec
CONSTANTS
  w1 = w1
  w2 = w2
  Writers = {w1, w2}
  NoWriter = NoWriter
  MaxRow = 4
  Legacy = 1
  MaxAge = 2
  RetentionDays = 1
CHECK_DEADLOCK FALSE
INVARIANTS
  ChainNeverForks
