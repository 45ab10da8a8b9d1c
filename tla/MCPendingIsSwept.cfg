SPECIFICATION Spec
CONSTANTS
  Certs <- MCCerts
  InitialCerts <- MCInitialCerts
  Filter <- MCFilter
  Records <- MCRecords
  RefreshWindow = 2
  KeepBridge = TRUE
  MaxNow = 2
  MaxTurns = 2
  MaxFaults = 1
  MaxStarts = 2
PROPERTY PendingIsSwept
CHECK_DEADLOCK FALSE
