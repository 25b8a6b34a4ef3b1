\* The worker as configured: ARQ's own ctx, retries cut to 2 tries and the dead
\* letter to 2 failures so that both limits are met; crashes up to the number of tries.
CONSTANTS
  e1 = e1  e2 = e2  p1 = p1  p2 = p2  j1 = j1  j2 = j2  j3 = j3  s1 = s1  s2 = s2
  Punches = {p1, p2}
  Employees = {e1}
  EmpOf <- OneEmployee
  Jobs = {j1, j2}
  Sweeps = {s1}
  CtxKeys <- ArqCtx
  MaxTries = 2
  DeadLetterAt = 2
  SweepLimit = 1
  MaxCrashes = 2
  MaxSweeps = 1
SPECIFICATION FairSpec
INVARIANTS
  TypeOK
  PendingIsExplained
  RetryIsExact
  DuplicatesNeedCrashes
PROPERTIES
  ImplementsLedger
