\* docker-compose: one worker process, restarted when it dies.
SPECIFICATION FairSpec
CONSTANTS
  MaxJobs = 3
  Workers = {w1}
  Clients = {c1}
  Kinds <- MCKinds2
  InLoop <- MCInLoop2
  Direct <- MCDirect
  Structural <- MCStructural
  FollowUps <- MCFollowUps2
  MaxCalls = 1
  MaxCrashes = 1
  MaxFaults = 0
INVARIANTS ActiveIsOwned SettledRowAgrees
PROPERTIES LifecycleSpec EveryJobSettles
CHECK_DEADLOCK FALSE
