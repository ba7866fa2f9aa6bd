SPECIFICATION LiveSpec
CONSTANTS
  Req = {r1, r2}
  First = r1
  SpawnCap = 1
  CountCap = 1
  UsizeMax = 2
  a = a
  b = b
  Path = {a, b}
  Cap = 1
  ConfArgs <- WordsOfConf
  FileMap <- MapOfFiles
  Extra <- Maps
  Arguments <- Words
INVARIANTS
  StartedAsAsked
PROPERTIES
  TrackerKept
  ReplacerKept
  ReplacerNeverEnds
  AcceptedStarts
