SPECIFICATION LiveSpec
CONSTANTS
  a = a
  b = b
  w = w
  Path = {a, b, w}
  Req = {r1, r2, r3}
  First = r1
  Cap = 2
  ConfArgs <- WordsOfConf
  FileMap <- MapOfFiles
  Extra <- Maps
  Arguments <- Words
INVARIANTS
  TypeOK
  OwnFilesReplaced
PROPERTIES
  RewriteReturns
  AtomicMapKept
