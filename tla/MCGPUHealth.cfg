SPECIFICATION Spec
CONSTANTS
  d1 = d1
  g1 = g1
  g2 = g2
  Device = {d1}
  GPU = {g1, g2}
  Policies <- MCPolicies
  Reports <- MCReports
  ConfirmationGap = 1
  OfflineAfter = 3
  MaxIncidents = 3
INVARIANTS
  ConfirmedStateMatchesIncident
  ConfirmedFailureIsOpen
  ConfirmedRecoveryIsClosed
  QueuedAlertIsCurrent
PROPERTIES
  ChangesNeedTwoFreshSamples
  ImplementsContract
