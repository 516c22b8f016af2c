CONSTANTS
  MAXIMUM_SIZE = 2
  BUCKET_COUNT = 2
  DIST_INC = 2
  MAX_NUM_BUCKETS = 3
  k1 = k1
  k2 = k2
  k3 = k3
  k4 = k4
  x0 = x0
  x1 = x1
  e10 = e10
  e11 = e11
  e20 = e20
  e21 = e21
  e30 = e30
  e31 = e31
  e40 = e40
  Keys = {k1, k2}
  Mapped = {x0, x1}
  Default = x0
  Values <- MCEntries
  KeyOf <- MCKeyOf
  MappedOf <- MCMappedOf
  MovedFrom = MovedFrom
  HashFunctions <- OneHomeHashFunction
  Objects = {a, b}
  NoObject = NoObject
  NoLoop = NoLoop
  Predicates <- NoPredicates
  ClearMovedFrom = FALSE
SPECIFICATION Spec
INVARIANTS TypeOK EqualityIsExact
PROPERTY RefinesDictionaries
CHECK_DEADLOCK FALSE
