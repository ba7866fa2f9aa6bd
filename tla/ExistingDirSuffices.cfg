SPECIFICATION Spec
CONSTANTS
  f = f
  g = g
  n = n
  File = {f, g}
  Name = {n}
  NameOf <- Names
  Request = {r1, r2}
  NoName = NoName
  NoEntry = NoEntry
  Own = Own
  NoRequest = NoRequest
INVARIANT ExistingDirSuffices
