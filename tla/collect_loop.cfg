SPECIFICATION Spec
CONSTANTS
  Period = 3
  Slack = 1
  MaxLag = 2
  MaxTime = 14
INVARIANTS TypeOK NoBurst NoExtraWait NoDrift
CHECK_DEADLOCK FALSE
