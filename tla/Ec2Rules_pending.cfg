SPECIFICATION Spec
CONSTANTS
  Deliveries = {d1}
  MaxAttempts = 1
  Concurrency = 1
  Instances <- Alone
  Volumes <- One
  Kind <- MCKind
  Tagged <- NoInstance
  Ended <- NoInstance
  Piecemeal = TRUE
  Errors = {}
  Gaps <- NoGap
  PublishMayFail = FALSE
  Configured = "stop"
  None = None
  web = web
  db = db
  plain = plain
  sealed = sealed
  silent = silent
INVARIANTS
  PassedMeansSeen
CHECK_DEADLOCK FALSE
