\* One employee, three days, two of each kind of shift: every page after every other.
CONSTANTS
  Employees = {e1}
  Shifts = {s1, s2}
  Groups = {g1}
  Branches = {b1}
  Companies = {c1}
  Devices = {v1}
  LastDay = 3
  None = None
  BuiltIn = BuiltIn
  MaxEdits = 3
SYMMETRY ShiftSymmetry
SPECIFICATION Spec
INVARIANTS
  TypeOK
  OneRowPerDate
PROPERTIES
  PastIsKept
  CreationLeavesNoGap
  RosterShields
  DeletionIsLocal
CHECK_DEADLOCK FALSE
