SPECIFICATION Spec
CONSTANTS
  k1 = k1
  k2 = k2
  s1 = s1
  s2 = s2
  s3 = s3
  l1 = l1
  r1 = r1
  Null = Null
  Key = {k1, k2}
  MaxMemory = 3
  Save = {s1, s2, s3}
  Load = {}
  Read = {r1}
  ChunkSize = {1}
  MaxSent = 2
  MaxCrash = 0
  Overlap = "never"
SYMMETRY MCSymmetry
INVARIANTS IndexedFilesFit ReadsWhole
CHECK_DEADLOCK FALSE
