CONSTANTS
  BURST_SIZE = 3
  GRACE_PERIOD = 2
  pred_mode = 1
  android = FALSE
  Rates = {1, 2}
  MinInterval = 3
  SendsEcho = FALSE
  LateReplies = FALSE
  MaySignal = FALSE
  MayLose = TRUE
  MayDuplicate = FALSE
  MayReorder = FALSE
  NetSize = 1
  MaxSeq = 10
CHECK_DEADLOCK FALSE
SPECIFICATION Spec
INVARIANTS TypeOK MeasuredAtOneRate BurstIsOver ReceivedIsTrue MeasuresOneBurst
PROPERTIES InOrderIsKept
