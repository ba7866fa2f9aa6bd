SPECIFICATION LiveSpec
INVARIANTS
  TypeOK
  ConfinedBeforeStart
  LandlockSparesUclamp
  ClampOutOfReach
PROPERTIES
  StartupEnds
