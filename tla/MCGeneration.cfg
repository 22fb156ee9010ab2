\* An evaluation ends with its report or an error.
CHECK_DEADLOCK FALSE
SPECIFICATION RolloutsSpec
CONSTANTS
  Tokens <- MCTokens
  ContextCapacity = 2
  Artifacts <- MCArtifacts
  Prompts <- MCPrompts
  MaxHistory = 5
  RolloutFiles <- MCRolloutFiles
  MaxContextTokens = 2
  MaxRolloutTokens = 3
INVARIANT
  RolloutsJudgedAlone
PROPERTY
  CallsReportTheirSteps
