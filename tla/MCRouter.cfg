SPECIFICATION Spec
CONSTANTS
  Bits <- MCBits
  Codes <- MCCodes
  Slices <- MCSlices
  MaxActive = 2
  MaxCandidates = 3
  Words = 1
INVARIANTS
  TypeOK
  CloudIsTopK
  CensusBounded
PROPERTIES
  ImplementsPromise
