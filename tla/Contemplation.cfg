\* One run among edits, or three runs of two workers that may fail, and crash.
SPECIFICATION MCSpec
CONSTANTS
  N = 5
  DomainNodes = {1}
  TitleOf <- MCTitle
  Fact <- MCFact
  Supersedes <- MCSupersedes
  Unlike <- MCUnlike
  EdgeTypes = {"k"}
  MaxWeight = 2
  Workspaces = {"u", "v"}
  Hops = 5
  MaxAffected = 3
  Seeds <- MCSeeds
  Workers = {w1, w2}
  Editors = {e1}
  MaxRuns = 3
  MaxEdits = 1
  MaxFaults = 2
SYMMETRY MCSymmetry
INVARIANT ReportsHold
PROPERTIES Undoable LinksSurvive FactsSurvive ScopesApart
CHECK_DEADLOCK FALSE
