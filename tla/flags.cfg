CONSTANTS
  forceconscopy = FALSE
  MaxConss = 3
  MaxDepth = 2
SPECIFICATION Spec
INVARIANT StayModelConss
CHECK_DEADLOCK FALSE
