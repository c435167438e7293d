SPECIFICATION FairSpec
CONSTANTS
  m1 = m1
  m2 = m2
  m3 = m3
  Models = {m1, m2, m3}
  Order <- MCOrder
  Chunks <- MCChunks
  BatchSize = 1
  NoField = {m1}
  Faults = {"kill", "interrupt", "batch", "flush", "mark", "close", "remove"}
  MaxPointId = 3
CHECK_DEADLOCK FALSE
INVARIANTS IdsUnique IdsStable MarkedIsWritten EndedRunsAreReadable IInv
PROPERTY RunEnds
