SPECIFICATION ServerSpec
CONSTANTS
  QueueSize = 1
  StopsEarly = FALSE
  UpPeers = {}
  DownPeers = {}
  Capacity = 1
  MaxFd = 8
  Junk = {}
INVARIANTS AcceptsAgain
CHECK_DEADLOCK FALSE
