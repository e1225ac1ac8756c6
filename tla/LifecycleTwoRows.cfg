CONSTANTS
  n1 = n1
  n2 = n2
  Row = {r1, r2}
  Name = {n1, n2}
  NameOf <- SplitNameOf
  Request = {q1}
  Pass = {c1}
  Existing = {{r1, r2}}
  MaxOps = 1
  Disturbances = 1
  CrashAllowed = FALSE
SPECIFICATION Spec
PROPERTY TerminatedIsKept
PROPERTY NoAlarmDuringDelete
CHECK_DEADLOCK FALSE
