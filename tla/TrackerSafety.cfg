SPECIFICATION Spec
CONSTANTS
  Req = {r1, r2, r3}
  First = r1
  SpawnCap = 1
  CountCap = 2
  UsizeMax = 3
SYMMETRY Symmetry
INVARIANTS
  TypeOK
  CountIsTracked
  NoLeakedCount
  NoneStranded
  NoneLeftBehind
PROPERTIES
  StoppingIsFinal
  SessionKept
  ClosesUncounted
