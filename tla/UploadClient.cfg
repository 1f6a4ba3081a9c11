SPECIFICATION ClientSpec
CONSTANTS
  u1 = u1
  u2 = u2
  i1 = i1
  i2 = i2
  Null = Null
  Upload = {u1, u2}
  Id = {i1, i2}
  MaxChunk = 1
  Helper = {u1}
INVARIANTS ClientToldTruth
PROPERTIES UploadsSettle EntriesLeave UploadResolves
CHECK_DEADLOCK FALSE
