SPECIFICATION Spec
CONSTANTS
  k1 = k1
  d1 = d1
  d2 = d2
  NoName = NoName
  Key = {k1}
  Download = {d1, d2}
  Requested <- MCRequested
  Minimum = 0
  Default = 2
  Length = {2}
  MaxVersion = 1
  MaxMemory = 2
INVARIANTS DownloadIsComplete
CHECK_DEADLOCK FALSE
