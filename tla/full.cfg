CONSTANTS
  NRows = 3
  NCols = 3
  Dynamic = FALSE
  HasHandler = TRUE
  Roots <- AnyRoot
  Submatrices <- UnitSubs
  Symmetric <- UnitsSymmetric
  Points <- Schedules
  MaxList = 2
  MaxNodes = 1
SPECIFICATION SpecKind
INVARIANTS
  RepresentativesKeptOfKind
  CountTellsChange
  StrengthenedRight
PROPERTY FixesExactlyOfKind
CHECK_DEADLOCK FALSE
