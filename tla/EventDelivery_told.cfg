\* Two events of any kind, two clients, one webhook for leaves, one leave, one crash.
CONSTANTS
  Events = {o1, o2}
  Clients = {c1, c2}
  Webhooks = {w1}
  Leaves = {l1}
  Wants <- LeavesOnly
  None = None
  MaxCrashes = 1
SPECIFICATION Spec
SYMMETRY AnyNames
INVARIANTS
  TypeOK
  StreamIsComplete
  HookIsAccounted
  PostedOnce
CHECK_DEADLOCK FALSE
