\* A resolution, and a callback, is the end of a behaviour.
CONSTANTS
  NRows = 4
  NCols = 3
  Types = {"packing", "partitioning"}
  Matrices <- LowerBounds
  Problems <- AllProblems
  SepaFull = TRUE
SPECIFICATION SpecKind
INVARIANTS
  AlwaysResolvedInTable
  ReasonRight
  WholeReasonImplies
  CutsValid
  CutsViolated
  CheckExact
  FeasibleIsOrbitope
CHECK_DEADLOCK FALSE
