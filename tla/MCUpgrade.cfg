SPECIFICATION Spec
CONSTANTS
  Release = {1, 2}
  Version <- SameNumber
  Bootstrap = 1
  Registered = {2}
  Broken = {}
  None = None
  Torn = Torn
  FirstCapable = 1
  MaxOperations = 3
  MaxFaults = 2
  ServedFields <- KnownFields
INVARIANTS
  AgentIsNeverLost
  SettledDiskIsConsistent
  FinalResultIsTrue
  OffersAreReal
PROPERTIES
  OperationsEnd
  ImplementsInstallation
