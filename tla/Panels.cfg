SPECIFICATION Spec
CONSTANTS
  MaxDepth = 1
  MaxLoads = 1
INVARIANT TypeOK
PROPERTIES  UpSelectsParent
CHECK_DEADLOCK FALSE
