\* Two worker processes at once (all-in-one replicas, rolling restarts), with
\* database failures.
SPECIFICATION Spec
CONSTANTS
  MaxJobs = 2
  Workers = {w1, w2}
  Clients = {c1}
  Kinds <- MCKinds
  InLoop <- MCInLoop
  Direct <- MCDirect
  Structural <- MCStructural
  FollowUps <- MCFollowUps
  MaxCalls = 1
  MaxCrashes = 1
  MaxFaults = 1
INVARIANTS NoSharedJob
PROPERTIES WithdrawnNeverRuns OnlyOwnerRewrites
CHECK_DEADLOCK FALSE
