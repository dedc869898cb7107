SPECIFICATION Spec
CONSTANTS
  Last = 4
  Value <- MCValue
  Word = 1000
  Batches <- MCBatches
  FinestraMinuti = 2
  MinRequests = 3
  ErrorRatePct = 30
  ApdexMin = 70
  P95MS = 50
  ApdexT = 15
  MaxLosses = 2
  MaxLostWindows = 1
INVARIANTS
  AlarmsAreTrue
  LossesReportedOnce
PROPERTY LossesSurface
