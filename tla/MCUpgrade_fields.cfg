SPECIFICATION Spec
CONSTANTS
  Release = {1, 2}
  Version <- SameNumber
  Bootstrap = 1
  Registered = {2}
  Broken = {}
  None = None
  Torn = Torn
  FirstCapable = 1
  MaxOperations = 2
  MaxFaults = 0
  ServedFields <- ViewFields
PROPERTIES
  OperationsAreTakenUp
