CONSTANTS
  NARROW = 2
  ULONG_BITS = 4
  Values = {v1, v2}
  MovedFrom = MovedFrom
  Raw = Raw
  Nothing = Nothing
  NoMap = NoMap
  End = End
  Unspecified = Unspecified
  IntegersFit = TRUE
  Instantiations <- InstantiationsOfMC
  AllOrdinals = {0, 1, 2, 3, 4}
  KeyRanges <- KeyRangesOfMC
  Strings <- StringsOfMC
SPECIFICATION Spec
INVARIANTS BitsetsAreExact EnumMapsWellFormed EqualityIsExact
PROPERTY RefinesSortedDictionary
VIEW View
CHECK_DEADLOCK FALSE
