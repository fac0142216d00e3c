SPECIFICATION Spec
CONSTANTS
  MaxDepth = 1
  MaxLoads = 1
INVARIANT EscGoesBack
CHECK_DEADLOCK FALSE
