SPECIFICATION Spec
CONSTANTS
  Ids = {"original", "mirror", "gguf", "other", "tiny"}
  Family <- MCFamily
  Quantized = {"gguf"}
  Artifacts = {"tiny"}
  SparseTag = 2
  MaxRows = 3
  Keys = {"qwen", "qwen-coder", "qwen-coder-7b", "qwen-coder-1b", "fp16/fp8"}
  Accepted = {"qwen", "qwen-coder", "qwen-coder-7b", "qwen-coder-1b"}
  Extends <- MCExtends
  Discount <- MCDiscount
  Unit = 12
  MaxPoints = 3
  PointScores = {1, 2}
  MaxResults = 2
  MetadataTables <- MCMetadata
  Tables <- MCTables
  Questions <- MCQuestions
  MaxLines = 6
  MaxTokens = 9
  MaxRetries = 4
  MaxMentions = 4
  Golds <- MCGolds
  MaxK = 3
  Differences <- MCDifferences
  PValues = {1, 2, 3, 6, 12}
  MaxSamples = 4
  Share = 6
  Asked = 2
  Replies <- MCReplies
  BatchRuns <- MCBatchRuns
  MaxRuns = 3
  PageSize = 3
  Overfetch = 1
  Chunks <- MCChunks
  MaxChunks = 4
CHECK_DEADLOCK FALSE
INVARIANTS FamiliesAreRepresented FilterKeepsItsPromise IntakeKeepsTitledText ScoresFollowTheAnswer TestsAreExact RescoreIsEvaluation PooledBatchIsWhole CliListsTheBest
