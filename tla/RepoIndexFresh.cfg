\* Two files, one commit after the first, two failures of any sort.
SPECIFICATION FairSpec
CONSTANTS
  Files = {f1, f2}
  MaxCommits = 2
  UserKinds = {"index", "ast"}
  MaxSubmits = 1
  MaxFailures = 2
INVARIANT StaleIsPending
PROPERTIES EventuallyFresh
CHECK_DEADLOCK FALSE
