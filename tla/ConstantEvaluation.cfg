SPECIFICATION Spec
CONSTANTS
  Units <- MCUnits
  Names <- MCNames
  NONE = NONE
  Programs <- MCPrograms
INVARIANTS
  ConstantsFold
  CyclesReported
PROPERTIES
  EvaluatedOnce
  CheckingEnds
