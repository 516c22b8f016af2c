CONSTANTS
  MAXIMUM_SIZE = 3
  BUCKET_COUNT = 3
  DIST_INC = 2
  MAX_NUM_BUCKETS = 3
  k1 = k1
  k2 = k2
  k3 = k3
  k4 = k4
  x0 = x0
  x1 = x1
  e10 = e10
  e11 = e11
  e20 = e20
  e21 = e21
  e30 = e30
  e31 = e31
  e40 = e40
  Keys = {k1, k2, k3, k4}
  Mapped = {x0}
  Default = x0
  Values <- MCEntries
  KeyOf <- MCKeyOf
  MappedOf <- MCMappedOf
  MovedFrom = MovedFrom
  HashFunctions <- CollidingHashFunctions
  Objects = {a}
  NoObject = NoObject
  NoLoop = NoLoop
  Predicates <- SomePredicates
  ClearMovedFrom = FALSE
SPECIFICATION Spec
INVARIANTS BucketsMatchEntries LookupsAreExact ProbingEnds RangeErasesExistingKeys
PROPERTIES LoopsEnd RefinesDictionaries
CHECK_DEADLOCK FALSE
