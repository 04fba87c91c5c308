SPECIFICATION Spec
CONSTANTS
  c1 = c1
  c2 = c2
  Clients <- MCClients
  NoOne = NoOne
  MaxLosses = 0
  MayDuplicate = FALSE
  MayQuit = FALSE
  MaxStarts = 1
CHECK_DEADLOCK FALSE
PROPERTIES ConnectedWhenRunning
