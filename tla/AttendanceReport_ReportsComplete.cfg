\* A report on preloaded tables.
CONSTANTS
  LastDay = 4
  DayTicks = 2
  MonthOf <- TwoMonths
  Shifts <- ThreeShifts
SPECIFICATION Spec
INVARIANTS
  ReportsComplete
CHECK_DEADLOCK FALSE
