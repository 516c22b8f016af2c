SPECIFICATION Spec
CONSTANTS
  MAXIMUM_SIZE = 3
  Values = {v1}
  MovedFrom = MovedFrom
  Raw = Raw
  Objects = {a, b}
  NoObject = NoObject
  Builds <- RunTimeBuild
  MaxRange = 2
  EmptyRanges = FALSE
  AliasMovedElements = FALSE
  STARTING_OFFSET = 7
  MaxDrift = 3
  InsertAtBeginWhenFull = FALSE
  AliasDroppedElements = FALSE
INVARIANTS LifetimesRespected LiveCellsAreElements IndexingAgrees
PROPERTY RefinesSequences
VIEW WithoutCall
