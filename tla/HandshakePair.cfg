SPECIFICATION Spec
CONSTANTS
  c1 = c1
  c2 = c2
  Clients <- MCClients
  NoOne = NoOne
  MaxLosses = 0
  MayDuplicate = FALSE
  MayQuit = TRUE
  MaxStarts = 1
SYMMETRY MCSymmetry
INVARIANTS TurnedAwayForAnother
CHECK_DEADLOCK FALSE
