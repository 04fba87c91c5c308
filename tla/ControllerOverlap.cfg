CONSTANTS
  MIN_SPEED = 10
  MAX_SPEED = 30
  OneMbps = 10
  START_SPEED = 10
  BURST_SIZE = 4
  INTERVAL_SIZE = 0
  INTERVAL_TIME = 2
  INSTANT_BURST = FALSE
  Android = FALSE
  Speeds = {5, 30}
  StaleReplies = 1
  DataQueue = 1
  ServerQueue = 1
  MaxSeq = 9
CHECK_DEADLOCK FALSE
SPECIFICATION Spec
INVARIANTS NoExit CursorsLinked
PROPERTIES RaisesAreEarned
