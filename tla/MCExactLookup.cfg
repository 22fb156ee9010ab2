SPECIFICATION Spec
CONSTANTS
  Contexts <- MCContexts
  HashOf <- MCHashOf
  RecordTables <- MCRecordTables
INVARIANTS
  TypeOK
  FoundIsFirstMatch
PROPERTY
  LookupReturns
