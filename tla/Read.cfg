SPECIFICATION ClientSpec
CONSTANTS
  k1 = k1
  d1 = d1
  d2 = d2
  NoName = NoName
  Key = {k1}
  Download = {d1, d2}
  Requested = {1}
  Minimum = 0
  Default = 2
  Length = {2}
  MaxVersion = 2
  MaxMemory = 2
  Helper = {d1}
  HelperChunk = 1
INVARIANTS TypeOK FreshUnlessLate ChunksMatchData MemorySizeCovers ResolvedHasFile
CHECK_DEADLOCK FALSE
