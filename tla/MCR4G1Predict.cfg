SPECIFICATION Spec
CONSTANTS
  WordBits <- MCWordBits
  Tokens <- MCTokens
  OutputCapacity = 2
  ScoreMin <- MCScoreMin
  ScoreMax = 20
  Graphs <- MCGraphs
  CandidateLists <- MCCandidateLists
INVARIANTS
  ScoresAreChainSums
PROPERTY
  PredictReturns
