\* Both endpoints: a batch and single requests that overlap, slow clocks, a device that
\* is moved to another employee, accepted and refused forms; a UTC day that begins at 0 and
\* a local day that ends at 1, with two punches a day and a third.
CONSTANTS
  d1 = d1  d2 = d2  i1 = i1  i2 = i2  i3 = i3  i4 = i4  nobody = nobody  r1 = r1  r2 = r2
  NoEmployee = nobody
  TzOffset = 1
  Ids = {i1, i2, i3}
  Devices = {d1}
  Bindings <- MovedBindings
  Forms <- MixedForms
  ActiveTypes = {"In", "Out", "break"}
  Skews <- SlowClock
  DayLength = 3
  GracePeriod = 1
  DupWindow = 1
  MaxDeviation = 1
  MaxDaily = 2
  Requests = {r1}
  MaxBatch = 2
  MaxTime = 2
SYMMETRY RequestSymmetry
CONSTRAINT ThirdIsOfOneEmployee
SPECIFICATION Spec
INVARIANTS
  TypeOK
  OneRowPerClientId
  AckedIsRecorded
  DailyLimitByArrival
  SameTypeSpaced
PROPERTIES
  RefusedIsNotRecorded
