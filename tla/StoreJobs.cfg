SPECIFICATION FairSpec
CONSTANTS
  upload = upload
  upload2 = upload2
  init = init
  init2 = init2
  enrich = enrich
  backfill = backfill
  NoFile = NoFile
  Models = {1, 2}
  Files <- TwoFiles
  Jobs = {init, init2}
  Scripts <- Together
  Forced = {init}
  Sized = {1, 2}
  BatchSize = 2
INVARIANTS LoadsAreWhole IInv
PROPERTY EveryJobEnds
