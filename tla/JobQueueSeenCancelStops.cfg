\* One worker process: the smallest instance in which a cancel can be lost.
SPECIFICATION Spec
CONSTANTS
  MaxJobs = 2
  Workers = {w1}
  Clients = {c1}
  Kinds <- MCKinds
  InLoop <- MCInLoop
  Direct <- MCDirect
  Structural <- MCStructural
  FollowUps <- MCFollowUps
  MaxCalls = 2
  MaxCrashes = 0
  MaxFaults = 0
PROPERTY SeenCancelStops
CHECK_DEADLOCK FALSE
