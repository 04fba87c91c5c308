SPECIFICATION ServerFairSpec
CONSTANTS
  QueueSize = 2
  StopsEarly = TRUE
  UpPeers = {p1, p2}
  DownPeers = {p1}
  Capacity = 1
  MaxFd = 8
  Junk = {0, 3, 4, 5, 99}
INVARIANTS ServerTypeOK NoIpcError NeverBothBlocked AcceptsUnlessTaken NoStandoff
CHECK_DEADLOCK FALSE
PROPERTIES NothingLeft SessionEnds ClientStops
