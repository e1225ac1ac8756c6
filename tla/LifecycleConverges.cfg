CONSTANTS
  n1 = n1
  n2 = n2
  Row = {r1}
  Name = {n1}
  NameOf <- SharedNameOf
  Request = {q1}
  Pass = {c1}
  Existing = {{r1}, {}}
  MaxOps = 1
  Disturbances = 1
  CrashAllowed = TRUE
SPECIFICATION FairSpec
PROPERTY LaunchBelongsToJob
PROPERTY EventuallyAgrees
CHECK_DEADLOCK FALSE
