SPECIFICATION Spec
CONSTANTS
  Functions <- MCFunctions
  Methods <- MCMethods
  Programs <- MCPrograms
INVARIANTS
  CheckedAsWritten
  CallsWellTyped
CHECK_DEADLOCK FALSE
