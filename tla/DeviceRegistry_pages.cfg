\* Every page, two devices of one employee with a maximum of one: two admin requests
\* at once, and the expiry of cached entries as the only fairness.
SPECIFICATION FairSpec
CONSTANTS
  Devices = {d1, d2}
  Employees = {e1}
  NoEmployee = none
  Keys = {k1, k2}
  Sites = {s1}
  Requests = {r1}
  Admins = {a1, a2}
  MaxDevices = 1
  MaxEdits = 2
INVARIANTS
  TypeOK
  StaleIsExplained
  UnboundKeyIsRevoked
PROPERTIES
  SuspensionTakesEffect
CHECK_DEADLOCK FALSE
