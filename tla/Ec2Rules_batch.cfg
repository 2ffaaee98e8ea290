SPECIFICATION Spec
CONSTANTS
  Deliveries = {d1}
  MaxAttempts = 2
  Concurrency = 1
  Instances <- Pair
  Volumes <- Mixed
  Kind <- MCKind
  Tagged <- Web
  Ended <- Web
  Piecemeal = TRUE
  Errors <- EveryError
  Gaps <- WebAndPlain
  PublishMayFail = FALSE
  Configured = "anything else"
  None = None
  web = web
  db = db
  plain = plain
  sealed = sealed
  silent = silent
INVARIANTS
  TypeOK
  NoOtherMiss
  OnlyViolatorsActedOn
  ActedMeansTagged
  NoManufacturedFailure
PROPERTIES
  FixNotTakenBack
  ViolatorResolved
CHECK_DEADLOCK FALSE
