SPECIFICATION Spec
CONSTANTS
  Certs <- MCCerts
  InitialCerts <- MCInitialCerts
  Filter <- MCFilter
  Records <- MCRecords
  RefreshWindow = 2
  KeepBridge = TRUE
  MaxNow = 2
  MaxTurns = 2
  MaxFaults = 1
  MaxStarts = 2
INVARIANTS TypeOK IdentityBound HandlesBounded
PROPERTIES Reconciles
CHECK_DEADLOCK FALSE
