SPECIFICATION Spec
CONSTANTS
  k1 = k1
  k2 = k2
  s1 = s1
  s2 = s2
  s3 = s3
  l1 = l1
  r1 = r1
  Null = Null
  Key = {k1}
  MaxMemory = 2
  Save = {s1, s2}
  Load = {}
  Read = {}
  ChunkSize = {1}
  MaxSent = 2
  MaxCrash = 0
  Overlap = "answered"
INVARIANTS WholeFiles
CHECK_DEADLOCK FALSE
