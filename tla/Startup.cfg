SPECIFICATION FairSpec
CONSTANTS
  r1 = r1
  r2 = r2
  Requests = {r1, r2}
  Query <- MCQuery
  Workers = 2
  NoCall = NoCall
CHECK_DEADLOCK FALSE
INVARIANTS WarmedMeansWarm SearchDegrades IInv
PROPERTIES LockedAreOnce NothingSubmittedAfterShutdown CallsEnd
