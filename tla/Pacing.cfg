SPECIFICATION Spec
CONSTANTS
  SECOND = 4
  Intervals = {1, 2, 3}
  MaxLate = 7
  MaxTime = 16
INVARIANTS OnSchedule NoNegativeTime TimevalsAgree
PROPERTIES NeverEarly
