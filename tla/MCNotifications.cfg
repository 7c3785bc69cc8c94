SPECIFICATION Spec
CONSTANTS
  offline = offline
  degraded = degraded
  recovered = recovered
  w1 = w1
  w2 = w2
  Delivery = {degraded}
  OfflineAlert = {}
  DegradedAlert = {degraded}
  Worker <- BothWorkers
  MaxAttempts = 2
  ClaimLimit = 1
  MaxFailures = 1
INVARIANTS
  TypeOK
  MessagesBounded
  HistoryMatchesDelivery
  SuccessIsReal
PROPERTIES
  OutcomesAreFinal
  FinishedIsFinal
  EveryDeliveryEnds
