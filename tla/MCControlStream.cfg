SPECIFICATION FairSpec
CONSTANTS
  None = None
  BackoffMin = 1
  BackoffMax = 3
  FirstHeartbeatDeadline = 3
  HeartbeatMissFactor = 2
  MinInterval = 1
  MaxInterval = 2
  Milli = 1
  Width = 8
  Announced <- MCAnnounced
  Seqs <- MCSeqs
INVARIANTS
  StreamDiscipline
PROPERTIES
  SilentStreamEnds
  Reconnects
