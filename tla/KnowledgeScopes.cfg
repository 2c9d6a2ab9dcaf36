\* Two administrators, one user who may create, one guest.
SPECIFICATION MCSpec
CONSTANTS
  d1 = d1
  d2 = d2
  n1 = n1
  n2 = n2
  w1 = w1
  w2 = w2
  Domains = {d1, d2}
  Plain = {n1, n2}
  Users = {"root", "eve", "ann", "guest"}
  Admins = {"root", "eve"}
  Guests = {"guest"}
  Spaces = {w1, w2}
  Title <- MCTitle
  MaxDepth = 2
  PageSize = 2
  NoEdge = TRUE
  Plans <- MCPlans
SYMMETRY MCSymmetry
INVARIANTS LinksHold HungInScope ViewsAgree
CHECK_DEADLOCK FALSE
