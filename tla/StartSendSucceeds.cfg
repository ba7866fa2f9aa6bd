SPECIFICATION Spec
CONSTANTS
  Req = {r1, r2}
  First = r1
  SpawnCap = 1
  CountCap = 1
  UsizeMax = 2
INVARIANT StartSendSucceeds
