\* A ctx in which the sweep of retry_failed_punches can enqueue: two sweeps may
\* overlap with each other and with the jobs of the API.
CONSTANTS
  e1 = e1  e2 = e2  p1 = p1  p2 = p2  j1 = j1  j2 = j2  j3 = j3  s1 = s1  s2 = s2
  Punches = {p1}
  Employees = {e1}
  EmpOf <- SinglePunch
  Jobs = {j1, j2}
  Sweeps = {s1, s2}
  CtxKeys <- CtxWithPool
  MaxTries = 2
  DeadLetterAt = 2
  SweepLimit = 1
  MaxCrashes = 1
  MaxSweeps = 3
SYMMETRY JobSymmetry
SPECIFICATION Spec
INVARIANTS
  SyncedIsAccounted
  DeadLetterIsHonest
