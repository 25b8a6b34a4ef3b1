\* Two employees with a punch each, two days, corrections of either origin, one crash.
CONSTANTS
  e1 = e1
  e2 = e2
  p1 = p1
  p2 = p2
  Employees = {e1, e2}
  Punches = {p1, p2}
  EmpOf <- OnePunchEach
  Ids = {c1, c2}
  Proposals <- FiveProposals
  LastDay = 2
  None = None
  MaxCrashes = 1
  MaxApprovals = 2
SPECIFICATION Spec
SYMMETRY AnyId
INVARIANTS
  TypeOK
  PunchShowsLatestApproval
  FlaggedTwiceNeedsCrash
PROPERTIES
  ScanFlagsAllOrNobody
CHECK_DEADLOCK FALSE
