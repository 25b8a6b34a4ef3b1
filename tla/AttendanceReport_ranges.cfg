\* Four days in two months, every combination of punches in a day of four ticks, three
\* shifts with different caps, and the reports that begin on each of the days.
CONSTANTS
  LastDay = 4
  DayTicks = 4
  MonthOf <- TwoMonths
  Shifts <- ThreeShifts
SPECIFICATION Spec
INVARIANTS
  TypeOK
  CapHolds
  LongerRangeCreditsLess
  FullMonthsAgree
CHECK_DEADLOCK FALSE
