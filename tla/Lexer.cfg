SPECIFICATION Spec
CONSTANTS
  NULL = NULL
  MapCapacity0 = 2
  ArrayCapacity0 = 1
  Keywords <- MCKeywords
  Programs <- MCPrograms
INVARIANTS
  TokensTile
  LongestMatch
  NamesAgree
CHECK_DEADLOCK FALSE
