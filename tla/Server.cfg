\* Two servers, three requests of two keys, one user, one tool call.
SPECIFICATION MCSpec
CONSTANTS
  Parts = {"boot", "login", "mcp", "tool"}
  None = None
  Processes = {p1, p2}
  MaxAttempts = 2
  MaxDeadlocks = 2
  MaxCrashes = 1
  MaxUses = 2
  Throttle = 1
  Gap = 2
  MaxHour = 3
  MaxEdits = 2
  MaxMisses = 1
  McpIds = {s1}
  Keys = {k1, k2}
  Requests = {q1, q2, q3}
  MaxFaults = 1
  MaxRestarts = 1
  Calls = {c}
  Roles = {"user", "guest"}
  Ttl = 2
  MaxTime = 4
  MaxChanges = 1
  MaxLosses = 2
SYMMETRY MCSymmetry
INVARIANTS StartsAreSafe LoginsAreResumptions SessionsHold CallsHold
CHECK_DEADLOCK FALSE
