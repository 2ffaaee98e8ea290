SPECIFICATION Spec
CONSTANTS
  Deliveries = {d1, d2}
  MaxAttempts = 2
  Concurrency = 1
  NewBuckets <- OneOfToday
  Requests <- Encrypting
  BlockSettings <- NoSetting
  Callers <- Lookalike
  RoleSettings = {TRUE, FALSE}
  Nameless <- OtherKey
  PublishMayFail = TRUE
  NoRecord = NoRecord
INVARIANTS
  WeakEncryptionAccountedFor
  NoManufacturedFailure
  OwnCallsAreQuiet
  NoFeedbackLoop
CHECK_DEADLOCK FALSE
