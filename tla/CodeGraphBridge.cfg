CONSTANTS
  Repos = {r1}
  Jobs = {1, 2}
  MaxRestarts = 1
SPECIFICATION Spec
INVARIANT GraphsHold
PROPERTY TasksSettle
CHECK_DEADLOCK FALSE
