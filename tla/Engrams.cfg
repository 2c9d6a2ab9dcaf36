\* Two editors of one notebook, one of whom looks before writing.
SPECIFICATION Spec
CONSTANTS
  Items = {i1, i2}
  Clients = {c1, c2}
  Readers = {c1}
  MaxRevision = 5
INVARIANTS DecidedAsSeen EditedAsSeen TimelineCounts NeverCurrentAgain
CHECK_DEADLOCK FALSE
