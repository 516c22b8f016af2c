CONSTANTS
  MAXIMUM_SIZE = 4
  Values = {v1, v2}
  MovedFrom = MovedFrom
SPECIFICATION PoolSpec
INVARIANTS PoolTypeOK FreelistCoversFreeCells AbortsOnlyWhenAllLive
PROPERTIES StoredValuesStay
CHECK_DEADLOCK FALSE
