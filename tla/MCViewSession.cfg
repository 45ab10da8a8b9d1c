SPECIFICATION SessionSpec
CONSTANTS
  Cap = 2
  MaxOffers = 4
INVARIANTS
  EveryFrameAccounted
  GateCloseFlushes
  FreshestSurvives
