CONSTANTS
  Guest = {g1}
  Faults = {"crash"}
  MaxFaults = 1
  Obedient = FALSE
SPECIFICATION Spec
INVARIANT ServesHistory
