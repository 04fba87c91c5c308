CONSTANTS
  BURST_SIZE = 2
  GRACE_PERIOD = 2
  pred_mode = 0
  android = TRUE
  Rates = {1}
  MinInterval = 2
  SendsEcho = TRUE
  LateReplies = TRUE
  MaySignal = TRUE
  MayLose = TRUE
  MayDuplicate = TRUE
  MayReorder = TRUE
  NetSize = 2
  MaxSeq = 5
CHECK_DEADLOCK FALSE
SPECIFICATION Spec
INVARIANTS IndicesSafe SpanIsTrue
