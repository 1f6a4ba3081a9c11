SPECIFICATION Spec
CONSTANTS
  k1 = k1
  k2 = k2
  s1 = s1
  s2 = s2
  s3 = s3
  l1 = l1
  r1 = r1
  Null = Null
  Key = {k1}
  MaxMemory = 2
  Save = {s1, s2}
  Load = {l1}
  Read = {}
  ChunkSize = {0, 1, 2}
  MaxSent = 2
  MaxCrash = 1
  Overlap = "never"
SYMMETRY PairSymmetry
INVARIANTS TypeOK WholeFiles LoadsCommitted IndexedIsOnDisk OnDiskIsIndexed
PROPERTIES SavedIsVisible Implements
CHECK_DEADLOCK FALSE
