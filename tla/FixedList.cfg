CONSTANTS
  MAXIMUM_SIZE = 2
  Values = {v1, v2}
  MovedFrom = MovedFrom
  Objects = {a, b}
  NoObject = NoObject
  NoLoop = NoLoop
  MaxRange = 3
SPECIFICATION ListSpec
INVARIANTS ListsWellFormed LoopStaysInItsList NothingLeaks OperationsAreExact
PROPERTIES LoopsEnd RefinesSequences
CHECK_DEADLOCK FALSE
