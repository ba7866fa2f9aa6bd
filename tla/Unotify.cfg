SPECIFICATION LiveSpec
CONSTANTS
  Caller = {t1, t2, i1}
  InitThread = {i1}
  Made = {"fs_op", "reboot", "debug", "setfsuid", "65535"}
  InitCall = {"fs_op"}
  Nobody = Nobody
INVARIANTS
  TypeOK
  RefusedNeverRuns
  PermittedIsDirect
PROPERTIES
  NotifiedReturns
  EndsDespiteFilter
