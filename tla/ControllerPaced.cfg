SPECIFICATION FairSpec
CONSTANTS
  MIN_SPEED = 10
  MAX_SPEED = 20
  OneMbps = 10
  START_SPEED = 10
  BURST_SIZE = 5
  INTERVAL_SIZE = 6
  INTERVAL_TIME = 0
  INSTANT_BURST = FALSE
  Android = FALSE
  Speeds = {5, 40}
  StaleReplies = 0
  DataQueue = 1
  ServerQueue = 1
  MaxSeq = 13
INVARIANTS TypeOK BufferIsBurst SendBehindRecv GeneratorTold
PROPERTIES RefinesRelay BurstCompletes StopReturns
CHECK_DEADLOCK FALSE
