SPECIFICATION Spec
CONSTANTS
  u1 = u1
  u2 = u2
  i1 = i1
  i2 = i2
  Null = Null
  Upload = {u1, u2}
  Id = {i1, i2}
  MaxChunk = 2
SYMMETRY MCSymmetry
INVARIANTS TypeOK MappedIsOpen OneOutcome SavedIsSent SavedAfterAcks RegisteredIsKnown
CHECK_DEADLOCK FALSE
