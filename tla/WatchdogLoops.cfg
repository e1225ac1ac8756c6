CONSTANTS
  Instance = {i1}
  StuckFor = 2
  Cooldown = 6
  Interventions = 0
  Glitches = 0
SPECIFICATION Spec
PROPERTY AtMostOnePerCooldown
