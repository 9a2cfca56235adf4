SPECIFICATION Spec
CONSTANTS
  k1 = k1
  k2 = k2
  k3 = k3
  k4 = k4
  Keys <- MCKeys
  Values = {v1, v2}
  hash <- MCHash
  Capacity0 = 2
  MaxCapacity = 8
  NULL = NULL
  TOMBSTONE = TOMBSTONE
INVARIANTS
  KeysFindable
  CountersExact
  RefusedOnlyWhenStarved
PROPERTIES
  GrowthEnds
  ImplementsStore
CHECK_DEADLOCK FALSE
