SPECIFICATION Spec
CONSTANTS
  d1 = d1
  d2 = d2
  Device <- Fleet
  NeverSeen = NeverSeen
  SuspectAfter = 1
  OfflineAfter = 2
  MaxHeartbeats <- HeartbeatBounds
  MaxCrashes = 1
INVARIANTS
  OfflineIffOpenIncident
  EventsMatchIncident
  OfflineMeansSilent
  RecoveriesNeedNewHeartbeats
PROPERTIES
  NoOutageForgotten
  DisabledIsFrozen
  SilenceIsDetected
  ImplementsContract
