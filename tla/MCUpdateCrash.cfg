SPECIFICATION Spec
CONSTANTS
  Plans = {1, 2}
  Target <- MCRepeated
  First = 1
  None = None
  Torn = Torn
  h1 = h1
  h2 = h2
  Helpers = {h1, h2}
  MaxFaults = 1
  MaxCrashes = 1
  MaxManual = 1
INVARIANTS
  NeverLost
  OnlyVerified
  LaunchedOnce
SYMMETRY Interchangeable
CHECK_DEADLOCK FALSE
