CONSTANTS
  NRows = 3
  NCols = 3
  Types <- BothTypes
  Submatrix = FALSE
  Matrices <- AllMatrices
SPECIFICATION SpecKind
INVARIANTS
  Sound
  FrontierInBar
  ConflictExplains
  Complete
  CountExact
  ResultsRight
PROPERTIES
  ImplementsPromise
