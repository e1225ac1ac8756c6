CONSTANTS
  Instance = {i1, i2}
  StuckFor = 1
  Cooldown = 3
  Interventions = 2
  Glitches = 1
SPECIFICATION FairSpec
INVARIANT TypeOK
PROPERTY RestartsNeedAStuckGuest
PROPERTY GivesUpAfterARestart
PROPERTY HungGuestIsRestarted
