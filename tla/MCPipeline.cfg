\* A compilation ends with its artifact or an error.
CHECK_DEADLOCK FALSE
SPECIFICATION PipelineSpec
CONSTANTS
  Bits <- MCBits
  LowBits <- MCLowBits
  Tokens <- MCTokens
  Contexts <- MCContexts
  HashOf <- MCHashOf
  SignatureOf <- MCSignatureOf
  Corpora <- MCCorpora
  Configs <- MCConfigs
  MaxContext = 2
  MaxRouteDepth = 3
  MaxMemberships = 12
  MaxActive = 2
  Limits <- MCLimits
  MaxFrontier = 2
  MaxEvidence = 2
  MaxPredictive = 1
  MaxExportToken = 3
  KeyBytes <- MCKeyBytes
  HeldOut <- MCHeldOut
  Thresholds <- MCThresholds
  OutputCapacity = 2
  ScoreMin <- MCScoreMin
  ScoreMax = 20
INVARIANTS
  PipelineTypeOK
  ExportFailsOnlyAtItsLimits
  RoutesToCoveringRegions
  ResidualsAddUp
  PredictiveEdgesAreTheBest
  ReplayDecides
  CanonicalForgetsOrder
  PathsFormATree
  WrittenIsReadBack
  TrainingIsNeverNovel
  ExactLaneIsPerfect
  LanesKeepApart
PROPERTY
  PassesNeverWorsen
