SPECIFICATION Spec
CONSTANTS
  Deliveries = {d1, d2}
  MaxAttempts = 2
  Concurrency = 2
  Rules <- MCRules
  Requests <- MCRequests
  Grants <- MCGrants
  RevokeList <- MCRevokeList
  NoGroupId <- ByName
  Ports <- MCPorts
  PublishMayFail = FALSE
  NoRequest = NoRequest
  rdp = rdp
  all = all
  https = https
INVARIANTS
  TypeOK
  NoManufacturedFailure
  NoFindingForDeniedCall
  ExposureAccountedFor
  FinishedMeansReported
PROPERTIES
  AllClearNotStale
CHECK_DEADLOCK FALSE
