CONSTANTS
  NRows = 3
  NCols = 3
  NConss = 1
  Type = "packing"
  HasHandler <- AllHandlers
  Matrices <- PlainMatrices
  Submatrices <- ColourSubs
  Symmetric <- ColourSymmetric
  Points <- Colourings
  Path <- Straight
  MaxList = 2
  MaxRounds <- Limits
SPECIFICATION SpecKind
INVARIANTS
  RepresentativesKeptOfKind
PROPERTIES
  NodeFinishes
  LeavesFixpoint
