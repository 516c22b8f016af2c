SPECIFICATION Spec
CONSTANTS
  MAXIMUM_SIZE = 2
  Values = {v1, v2}
  MovedFrom = MovedFrom
  Raw = Raw
  Objects = {a}
  NoObject = NoObject
  Builds <- RunTimeBuild
  MaxRange = 1
  EmptyRanges = TRUE
  AliasMovedElements = FALSE
INVARIANT LifetimesRespected
