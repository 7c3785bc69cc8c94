SPECIFICATION Spec
CONSTANTS
  offline = offline
  degraded = degraded
  recovered = recovered
  w1 = w1
  w2 = w2
  Delivery = {offline}
  OfflineAlert = {offline}
  DegradedAlert = {}
  Worker = {w1}
  MaxAttempts = 2
  ClaimLimit = 1
  MaxFailures = 0
PROPERTIES
  NoRetryAfterRecovery
