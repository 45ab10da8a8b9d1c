SPECIFICATION FairSpec
CONSTANTS
  None = None
  Corrupt = Corrupt
  MaxIssued = 3
  MaxCrashes = 2
  MaxFaults = 2
INVARIANTS
  ConfirmedIsStored
  StrandedOnlyByMisread
PROPERTIES
  BlobOnlyRenewed
  Recovers
CHECK_DEADLOCK FALSE
