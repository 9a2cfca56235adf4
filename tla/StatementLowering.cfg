SPECIFICATION Spec
CONSTANTS
  Bodies <- MCBodies
  MaxTrue = 2
INVARIANTS
  WellFormed
  MeaningPreserved
  DefersNest
PROPERTY Returns
CHECK_DEADLOCK FALSE
