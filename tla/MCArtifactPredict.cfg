SPECIFICATION CompatibilitySpec
CONSTANTS
  Bits <- MCBits
  LowBits <- MCLowBits
  Tokens <- MCTokens
  Contexts <- MCContexts
  Questions <- MCQuestions
  HashOf <- MCHashOf
  SignatureOf <- MCSignatureOf
  Artifacts <- MCArtifacts
  MaxContext = 2
  MaxActive = 3
  TargetCapacity = 1
  OutputCapacity = 2
  ScoreMin <- MCScoreMin
  ScoreMax = 6
INVARIANTS
  EvidenceReplays
  GraphAnswerIsTheEvidence
  ScoresSumTheLatest
  IndexLosesNoRegion
  LongestSuffixServes
  AnswersDependOnQuestionOnly
