SPECIFICATION Spec
CONSTANTS
  a = a
  b = b
  train = train
  test = test
  NoCorpus = NoCorpus
  Absent = Absent
  Partial = Partial
  Revisions <- MCRevisions
  Corpora <- MCCorpora
  Runs <- MCRuns
  RequestOf <- MCRequests
  MaxRunning = 1
INVARIANTS
  WorkIsOneRuns
  BuildsCaptureTheirRevision
  DoneIsConsistent
PROPERTIES
  FinishedOutputsStay
\* Every invocation ends, and then nothing is left to do.
CHECK_DEADLOCK FALSE
