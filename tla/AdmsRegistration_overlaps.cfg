\* One employee, two tasks and a late post, every overlap of two posts; or two employees,
\* a bulk sync of two chunks and one task besides.
CONSTANTS
  a1 = a1  a2 = a2  n1 = n1  n2 = n2  t1 = t1  t2 = t2  l1 = l1
  NoName = NoName
  MobileUser = MobileUser
  Employees = {a1, a2}
  Names = {n1, n2}
  Tasks = {t1, t2}
  Late = {l1}
  ChunkSize = 1
  MaxEdits = 3
SYMMETRY RegistrationSymmetry
CONSTRAINT OneEmployeeOrOneTask
SPECIFICATION Spec
CHECK_DEADLOCK FALSE
INVARIANTS
  TypeOK
  TrackedIsKnownUnlessErased
  DiscardsAreExplained
  NamesAlignAtRest
