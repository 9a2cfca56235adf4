SPECIFICATION Spec
CONSTANTS
  Names <- MCNames
  Trees <- MCTrees
  Entry <- MCEntry
  StdlibDir <- MCStdlib
  MaxDepth = 256
  NULL = NULL
INVARIANTS
  UnambiguousImportsBind
  UndeclaredOnlyInCycle
  CopiesAreTyped
  PrivateStaysPrivate
CHECK_DEADLOCK FALSE
