\* every import graph over five files; up to two imports in a row are allowed, so
\* that most trees have more files than the longest chain may
SPECIFICATION LoaderSpec
CONSTANTS
  Names <- MCNames
  Trees <- MCTrees
  Entry <- MCEntry
  StdlibDir <- MCStdlib
  MaxDepth = 2
  NULL = NULL
INVARIANTS
  LoaderTypeOK
  UnitsAccounted
PROPERTIES
  ImplementsDependencyOrder
  LoadTerminates
CHECK_DEADLOCK FALSE
