SPECIFICATION Spec
CONSTANTS
  m1 = m1
  m2 = m2
  m3 = m3
  Models = {m1, m2, m3}
  Order <- MCOrder
  Chunks <- MCChunks
  BatchSize = 1
  NoField = {}
  Faults = {"batch"}
  MaxPointId = 4
CHECK_DEADLOCK FALSE
INVARIANT VectorIsOfItsText
