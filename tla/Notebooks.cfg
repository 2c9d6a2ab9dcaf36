\* An owner, one other user, three requests; six lists of four rows; four notifications.
SPECIFICATION MCSpec
CONSTANTS
  Parts = {"access", "pages", "feed"}
  None = None
  Owner = o
  Others = {u}
  Requests = {c1, c2, c3}
  Plans <- MCPlans
  Lists = {"notebooks", "renditions", "memories", "users", "items", "timeline"}
  MaxRows = 4
  MaxTime = 3
  Limit = 2
  Notes = {n1, n2, n3, n4}
  MaxDay = 3
SYMMETRY MCSymmetry
INVARIANTS AnswersAreTrue VersionsInTurn PagesCover ToldOnce
PROPERTY WritersHadAccess
CHECK_DEADLOCK FALSE
