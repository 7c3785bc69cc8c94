SPECIFICATION Spec
CONSTANTS
  offline = offline
  degraded = degraded
  recovered = recovered
  w1 = w1
  w2 = w2
  Delivery = {offline, recovered}
  OfflineAlert = {offline}
  DegradedAlert = {}
  Worker <- BothWorkers
  MaxAttempts = 2
  ClaimLimit = 2
  MaxFailures = 0
SYMMETRY WorkerSymmetry
INVARIANTS
  CancelledOfflineAlertsAreSettled
PROPERTIES
  NoFirstSendAfterRecovery
