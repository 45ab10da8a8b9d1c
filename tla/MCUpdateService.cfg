SPECIFICATION FairSpec
CONSTANTS
  Plans = {1, 2}
  Target <- MCSuccessive
  First = 1
  None = None
  Torn = Torn
  h1 = h1
  h2 = h2
  Helpers = {h1, h2}
  MaxFaults = 1
  MaxCrashes = 0
  MaxManual = 0
PROPERTIES
  UpdatesForward
  ServiceReturns
CHECK_DEADLOCK FALSE
