SPECIFICATION Spec
CHECK_DEADLOCK FALSE
CONSTANTS
  Project = {p1}
  Overlap = {1}
  Expiry = {None}
  MaxTime = 1
  MaxDevices = 2
  MaxCredentials = 3
  None = None
  EnrollmentTTL = 1
  VerificationTTL = 1
  ReplaceOverlap = 1
  OfflineAfter = 1
  MaxEnrollments = 1
  Host = {h1, h2}
  OldHost = h1
  Beat = {b1}
  MaxAttempts = 2
  DeviceLimit = 1
  MaxOperations = 3
  MaxFaults = 1
INVARIANTS
  OneLastingCredential
  TokensIssueOnce
PROPERTIES
  HeartbeatsAreAuthorised
