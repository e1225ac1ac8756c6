CONSTANTS
  n1 = n1
  n2 = n2
  Row = {r1}
  Name = {n1}
  NameOf <- SharedNameOf
  Request = {q1}
  Pass = {c1}
  Existing = {{}}
  MaxOps = 1
  Disturbances = 0
  CrashAllowed = FALSE
SPECIFICATION Spec
PROPERTY TerminatedIsTerminal
CHECK_DEADLOCK FALSE
