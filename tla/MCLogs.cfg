SPECIFICATION Spec
CONSTANTS
  None = None
  Source = {"skybeat_agent", "system_journal"}
  Sources <- TwoSources
  Kind = {"skybeat_agent", "other"}
  Everything = "system_journal"
  Query <- Queries
  Incidents <- OneIncident
  MaxStored = 1
  Retention = 0
  BatchSize = 1
  MaxPast = 0
  MaxFuture = 0
  NearLimit = 1
  Before = 1
  After = 1
  Since = 0
  MaxLines = 2
  MaxFitting = 2
  MaxUpload = 2
  MaxEntries = 2
  Skew = {0, 1}
  MaxTime = 1
  MaxCycles = 2
  MaxFaults = 1
INVARIANTS
  EntriesAreStoredOnce
  ReadsAreExact
PROPERTIES
  OnlyOldRowsGo
CHECK_DEADLOCK FALSE
