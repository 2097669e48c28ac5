CONSTANTS
  NRows = 3
  NCols = 3
  Types <- BothTypes
  Submatrix = FALSE
  Matrices <- AllMatrices
SPECIFICATION Spec
INVARIANTS
  VerdictKept
