SPECIFICATION Spec
CONSTANTS
  a = a
  b = b
  train = train
  test = test
  NoCorpus = NoCorpus
  Absent = Absent
  Partial = Partial
  Revisions <- MCRevisions
  Corpora <- MCCorpora
  Runs <- MCDownloadRuns
  RequestOf <- MCDownloads
  MaxRunning = 1
PROPERTIES
  DownloadGivesTheRevision
\* Every invocation ends, and then nothing is left to do.
CHECK_DEADLOCK FALSE
