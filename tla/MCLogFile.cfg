SPECIFICATION Spec
CONSTANTS
  maxFileFrag = 2
  Options <- MCOptions
  UnitBits = 2
  Half = 128
  MaxLine = 2
  MaxLines = 8
  MaxStops = 3
INVARIANTS
  FragmentsBounded
  FragmentsAreWhole
  KeepsTheLatest
CHECK_DEADLOCK FALSE
