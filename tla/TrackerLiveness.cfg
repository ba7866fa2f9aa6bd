SPECIFICATION LiveSpec
CONSTANTS
  Req = {r1, r2}
  First = r1
  SpawnCap = 2
  CountCap = 1
  UsizeMax = 2
PROPERTIES
  CancelEnds
  QuietEnds
  AcceptedStarts
