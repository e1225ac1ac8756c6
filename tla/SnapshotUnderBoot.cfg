CONSTANTS
  Instance = {i1}
  Volume = {v1}
  Snapshot = {s1}
  Nobody = Nobody
  Request = {q1, q2}
  MaxRequests = 2
  Failures = 0
SPECIFICATION Spec
INVARIANT NotUnderAGuest
CHECK_DEADLOCK FALSE
