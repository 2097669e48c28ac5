\* A resolution is the end of a behaviour.
CONSTANTS
  NRows = 5
  NCols = 3
  Types = {"packing"}
  Matrices <- LateBounds
  Problems = {}
  SepaFull = TRUE
SPECIFICATION SpecPacking
INVARIANTS
  ReasonImplies
CHECK_DEADLOCK FALSE
