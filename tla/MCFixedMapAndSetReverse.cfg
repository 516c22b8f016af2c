CONSTANTS
  MAXIMUM_SIZE = 10
  MASK = 128
  Values <- KeysOfMC
  Predicates <- PredicatesOfMC
  MovedFrom = MovedFrom
  Mapped = {v1, v2}
  DefaultValue = v1
  NoValue = NoValue
  NoTree = NoTree
  Ranges <- RangesOfMC
  SingleKeys <- SingleKeysOfMC
  Instantiations <- InstantiationsOfMC
  End = End
  Unspecified = Unspecified
SPECIFICATION Spec
VIEW View
INVARIANT SetReverseIterationEnds
CHECK_DEADLOCK FALSE
