SPECIFICATION Spec
CONSTANTS
  Slots <- MCSlots
  Margins <- MCMargins
  MaxPaths = 3
  MaxDepth = 2
INVARIANT
  PathsAreDistinct
