SPECIFICATION Spec
CONSTANTS
  Deliveries = {d1, d2}
  MaxAttempts = 2
  Concurrency = 2
  NewBuckets <- Either
  Requests <- Opening
  BlockSettings <- OnAndOff
  Callers <- OtherRole
  RoleSettings <- Known
  Nameless <- PrivateAcl
  PublishMayFail = FALSE
  NoRecord = NoRecord
INVARIANTS
  TypeOK
  PublicBucketAccountedFor
PROPERTIES
  PublicResolved
CHECK_DEADLOCK FALSE
