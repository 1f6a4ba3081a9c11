SPECIFICATION StartupSpec
CONSTANTS
  k1 = k1
  s1 = s1
  s2 = s2
  Null = Null
  Key = {k1}
  MaxMemory = 2
  Save = {s1, s2}
  Load = {}
  Read = {}
  ChunkSize = {0, 1}
  MaxSent = 1
  MaxCrash = 1
  Overlap = "never"
INVARIANTS ServingIsIndexed
PROPERTIES UploadsAnswered TmpDataCollected IndexedLeavesDisk ServingReached
CHECK_DEADLOCK FALSE
