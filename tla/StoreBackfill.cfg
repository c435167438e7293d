SPECIFICATION Spec
CONSTANTS
  upload = upload
  upload2 = upload2
  init = init
  init2 = init2
  enrich = enrich
  backfill = backfill
  NoFile = NoFile
  Models = {1, 2}
  Files <- OneFile
  Jobs = {init, backfill}
  Scripts <- Apart
  Forced = {}
  Sized = {1, 2}
  BatchSize = 2
PROPERTY ExactCountsKept
