CONSTANTS
  NRows = 5
  NCols = 3
  NConss = 1
  Type = "packing"
  HasHandler <- AllHandlers
  Matrices <- SomeDecided
  Submatrices <- ColourSubs
  Symmetric <- ColourSymmetric
  Points <- Colourings
  Path <- Bent
  MaxList = 1
  MaxRounds <- Limits
SPECIFICATION SpecKind
INVARIANTS
  RepresentativesKeptOfKind
