SPECIFICATION Spec
CONSTANTS
  None = None
  Email = {"owner", "admin", "other"}
  Identity <- Identities
  MaxTransactions = 2
  Project = {1, 2}
  Device = {1, 2}
  Name = {1, 2}
  State = {"ONLINE", "SUSPECT", "OFFLINE"}
  GPUState = {"OK", "GPU_MISSING", "NOT_MONITORED"}
  MaxIncidents = 2
  Policy <- Policies
  Kind = {"outage", "recovery"}
  Deployment = {"other"}
  DeviceQuery <- DeviceQueries
  IncidentQuery = {None, 1}
  Limit = 1
  Wide = {2}
  RawCap = 4
  PointCap = 3
  SeriesCap = 1
  Start <- Starts
  Allowed <- AllowedAddresses
  Samples <- Histories
  MaxOperations = 4
INVARIANTS
  ListsAreExact
PROPERTIES
  AccountsAreGuarded
  AlertsFollowOnePolicy
CHECK_DEADLOCK FALSE
