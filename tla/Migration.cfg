CONSTANTS
  Guest = {g1, g2}
  Faults = {"crash", "open", "checkpoint", "copy", "delete", "rewrite", "relocate"}
  MaxFaults = 3
  Obedient = TRUE
SPECIFICATION FairSpec
INVARIANT TypeOK
INVARIANT NothingLost
INVARIANT ServesHistoryUncut
INVARIANT PathsFollow
PROPERTY RetrySucceeds
