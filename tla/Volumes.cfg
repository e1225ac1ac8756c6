CONSTANTS
  Instance = {i1, i2}
  Volume = {v1, v2}
  Snapshot = {s1}
  Nobody = Nobody
  Request = {q1, q2}
  MaxRequests = 3
  Failures = 1
SPECIFICATION Spec
INVARIANT TypeOK
INVARIANT EngineFollowsRows
INVARIANT OneWriter
INVARIANT NoDeadEnd
INVARIANT FilesFollowRows
INVARIANT SnapshotsAreThere
INVARIANT NoSnapshotLeft
SYMMETRY Symmetry
CHECK_DEADLOCK FALSE
