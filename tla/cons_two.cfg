CONSTANTS
  NRows = 2
  NCols = 2
  NConss = 2
  Type = "packing"
  HasHandler <- NoHandler
  Matrices <- PlainMatrices
  Submatrices <- ColourSubs
  Symmetric <- ColourSymmetric
  Points <- Colourings
  Path <- Straight
  MaxList = 2
  MaxRounds <- Limits
SPECIFICATION SpecKind
INVARIANTS
  ReductionsAreTold
