CONSTANTS
  User = {u1, u2}
  Caller = {q1, q2}
  Vm = {v1}
  Limit = 2
  MaxIssued = 3
  MaxPhrase = 2
  MaxBegun = 4
  Asker = {q1, q2}
  Version = {w1, w2}
  Revision = {c1, c2}
  Unread = Unread
  Untold = Untold
  MaxChanges = 3
  Starter = {backend, admin}
  Backend = backend
  Columns = 2
  Retention = 2
  Record = {r1}
  Legacy = Legacy
  Default = Default
  NoLogin = NoLogin
  MaxStarts = 3
  Path = {pipx, venv}
  NoPath = NoPath
  MaxCommands = 4
  MaxReleases = 1
SPECIFICATION ControlSpec
INVARIANT ControlTypeOK
INVARIANT OutIsOut
 
INVARIANT MeasuredOnce
INVARIANT ServesMigrated
INVARIANT RestorePointKept
INVARIANT InstallTakesEffect
SYMMETRY ControlSymmetry
CHECK_DEADLOCK FALSE
