SPECIFICATION Spec
CONSTANTS
  MAXIMUM_SIZE = 3
  Values = {v1, v2}
  MovedFrom = MovedFrom
  Raw = Raw
  Objects = {a, b}
  NoObject = NoObject
  Builds <- AllBuilds
  MaxRange = 4
  EmptyRanges = FALSE
  AliasMovedElements = FALSE
INVARIANTS LifetimesRespected LiveCellsAreElements
PROPERTY RefinesSequences
VIEW WithoutCall
