CONSTANTS
  Name = {n1, n2}
  Pid = {p1, p2}
  Port = {1, 2}
  Public = {9}
  Thread = {q1, q2}
  NoPid = NoPid
  Nobody = Nobody
  Stranger = Stranger
  MaxCalls = 3
  MaxFaults = 1
  Slot = {n1, n2}
  Image = {b, g}
  Builtin = b
  NoImage = NoImage
  Project = {d, side}
  DefaultProject = d
  Key = {k1}
  side = side
  k1 = k1
  Wish <- Wishes
  Client = {q1, q2}
  Room = 1
  NoReading = NoReading
  MaxAsked = 3
  MaxMishaps = 1
SPECIFICATION HostSpec
INVARIANT HostTypeOK
INVARIANT PortsOnce
INVARIANT GuestsAreOnRecord
 
INVARIANT ClonesAreWhole
INVARIANT BackingIsWhole
 
 
PROPERTY KeepsContract
SYMMETRY HostSymmetry
CHECK_DEADLOCK FALSE
