SPECIFICATION StringSpec
CONSTANTS
  MAXIMUM_SIZE = 4
  Values = {0, 1, 2}
  NUL = 0
  Spaces = {1}
  npos = 9
  MovedFrom = MovedFrom
  Raw = Raw
  Objects = {a}
  NoObject = NoObject
  Builds <- CharBuild
  MaxRange = 4
  EmptyRanges = TRUE
  AliasMovedElements = FALSE
  MaxStream = 5
  Streams <- ShortStreams
INVARIANT StringsAreTerminated
PROPERTY RefinesStrings
VIEW WithoutCall
