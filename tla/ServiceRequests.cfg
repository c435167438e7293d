SPECIFICATION FairSpec
CONSTANTS
  Requests = {r1, r2}
  MaxTurns = 1
  MaxBatch = 2
  MaxPieces = 1
  NoRequest = NoRequest
CHECK_DEADLOCK FALSE
INVARIANTS LogIsWellFormed TraceIsComplete LinesCarryOwnId AnswerMatchesEnd IInv
PROPERTIES ImplementsLifecycle EveryRequestEnds
