SPECIFICATION Spec
CONSTANTS
  WordBits <- MCWordBits
  Graphs <- MCHalting
  Signatures <- MCSignatures
  RouteCapacity = 2
INVARIANTS
  TypeOK
  ProgramStaysInBounds
  ShortlistInTable
  RetainsTheShortlist
