SPECIFICATION FairSpec
CONSTANTS
  Clients = {c1}
  NoOne = NoOne
  MaxLosses = 2
  MayDuplicate = TRUE
  MayQuit = TRUE
  MaxStarts = 2
INVARIANTS TypeOK NotBeforeSession
PROPERTIES ParametersAreAskedFor AskerIsAnswered ServerIsFreed
CHECK_DEADLOCK FALSE
