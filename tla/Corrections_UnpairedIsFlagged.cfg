\* What the docstring of the scan promises, against what it does.
CONSTANTS
  e1 = e1
  e2 = e2
  p1 = p1
  p2 = p2
  Employees = {e1, e2}
  Punches = {p1, p2}
  EmpOf <- OnePunchEach
  Ids = {c1, c2}
  Proposals <- FiveProposals
  LastDay = 2
  None = None
  MaxCrashes = 0
  MaxApprovals = 2
SPECIFICATION Spec
SYMMETRY AnyId
PROPERTIES
  UnpairedIsFlagged
CHECK_DEADLOCK FALSE
