SPECIFICATION Spec
CONSTANTS
  Deliveries = {d1, d2}
  MaxAttempts = 2
  Concurrency = 1
  Rules <- MCRules
  Requests <- OpenOnly
  Grants <- OpenGrants
  RevokeList <- OpenRevokeList
  NoGroupId <- AllNamed
  Ports <- MCPorts
  PublishMayFail = FALSE
  NoRequest = NoRequest
  rdp = rdp
  all = all
  https = https
PROPERTIES
  ExposureResolved
  ImplementsDelivery
  EventuallySettled
CHECK_DEADLOCK FALSE
