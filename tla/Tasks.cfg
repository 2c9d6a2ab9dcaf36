\* Two runners and two reviewers; a user's two windows and another user's;
\* two workspaces.
SPECIFICATION MCSpec
CONSTANTS
  Tasks = {"t"}
  Runners = {r1, r2}
  People = {p1, p2}
  Writable = {"ready", "review", "human-review"}
  Plans <- MCPlans
  Entries = {e1, e2}
  Rank <- MCRank
  Parts = {"claims", "days", "spaces"}
  Users = {"ann", "bob"}
  Items = {"i1"}
  Tabs = {1, 2, 3}
  UserOf <- MCUserOf
  Owner <- MCOwner
  Week <- MCWeek
  LastDay = 2
  FirstWeekday = 4
  Horizon = 4
  MaxAsked = 4
  Spaces = {w1, w2}
  Numbered = {t1, t2}
  Sessions = {"s"}
  Providers = {p, q}
  MaxDraws = 3
SYMMETRY MCSymmetry
INVARIANTS OneRunner RunsKept RollsToAnOpenDay NumbersNameOneTask ResolvesToLast
CHECK_DEADLOCK FALSE
