\* Three events, two agents, two summaries of which one may rest on the other,
\* pages of one event.
SPECIFICATION Spec
CONSTANTS
  Agents = {a1, a2}
  MaxEvents = 3
  MaxCompactions = 2
  PageLimit = 1
SYMMETRY Symmetric
INVARIANTS NothingMissed ToldOnce CountedAll
CHECK_DEADLOCK FALSE
