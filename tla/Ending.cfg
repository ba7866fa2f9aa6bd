SPECIFICATION LiveSpec
INVARIANTS
  TypeOK
PROPERTIES
  StopPrecedesClose
  HeldUntilToken
  InhibitionLifted
