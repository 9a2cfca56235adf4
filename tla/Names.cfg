SPECIFICATION Spec
CONSTANTS
  NONE = NONE
  Names = {"x", "y", "a", "b"}
  Units <- MCUnits
  Programs <- MCPrograms
INVARIANTS
  BoundAsWritten
  GeneratedAsBound
PROPERTY LookupsEnd
CHECK_DEADLOCK FALSE
