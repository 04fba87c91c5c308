CONSTANTS
  BURST_SIZE = 3
  GRACE_PERIOD = 2
  pred_mode = 1
  android = TRUE
  Rates = {1}
  MinInterval = 4
  SendsEcho = TRUE
  LateReplies = FALSE
  MaySignal = FALSE
  MayLose = FALSE
  MayDuplicate = FALSE
  MayReorder = FALSE
  NetSize = 2
  MaxSeq = 5
CHECK_DEADLOCK FALSE
SPECIFICATION Spec
PROPERTIES BurstIsKept
