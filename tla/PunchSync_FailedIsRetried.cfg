\* What the documentation promises of FailedIsRetried, against the worker as configured.
CONSTANTS
  e1 = e1  e2 = e2  p1 = p1  p2 = p2  j1 = j1  j2 = j2  j3 = j3  s1 = s1  s2 = s2
  Punches = {p1}
  Employees = {e1}
  EmpOf <- SinglePunch
  Jobs = {j1}
  Sweeps = {s1}
  CtxKeys <- ArqCtx
  MaxTries = 2
  DeadLetterAt = 2
  SweepLimit = 1
  MaxCrashes = 0
  MaxSweeps = 1
SPECIFICATION FairSpec
PROPERTIES
  FailedIsRetried
