SPECIFICATION CircularSpec
CONSTANTS
  MAXIMUM_SIZE = 3
  Values = {v1, v2}
  MovedFrom = MovedFrom
  Raw = Raw
  Objects = {a}
  NoObject = NoObject
  Builds <- RunTimeBuild
  MaxRange = 4
  EmptyRanges = FALSE
  AliasMovedElements = FALSE
  STARTING_OFFSET = 7
  MaxDrift = 4
  InsertAtBeginWhenFull = FALSE
  AliasDroppedElements = FALSE
INVARIANTS LifetimesRespected LiveCellsAreElements
PROPERTY RefinesCircularSequences
VIEW WithoutCall
