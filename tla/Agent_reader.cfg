SPECIFICATION Spec
CONSTANTS
  MaxTurns = 2
  MaxCalls = 2
  Subjects <- MCSubjects
  Containing <- MCContaining
  PollAttempts = 2
  Limit = 2
  MaxLines = 3
  Pages <- MCPages
  SecurityGroups <- MCGroups
  TagChoices <- MCTags
  MaxPages = 2
  MaxRetags = 1
  Now = 4
  TicksPerDay = 3
  Checks = {"s3", "ec2"}
  Events = {"PutBucketAcl"}
  Codes = {"AccessDenied"}
  Reasons = {"expired"}
  Hours = {0, 1, 3}
  MaxHours = 2
  PeriodsPerHour = 1
  MaxPuts = 2
  MaxPeriods = 3
  Items <- MCItems
  MaxItems = 2
  Buckets <- MCBuckets
  Launched <- Readable
  MaxChanges = 1
  Kind <- MCKind
  data = data
  database = database
  plain = plain
  sealed = sealed
  mute = mute
  nameless = nameless
INVARIANTS
  TypeOK
  ExposedRulesAreRevoked
  EveryExposedPortReported
  GroupVerdictAgrees
  InstanceVerdictAgrees
  BucketVerdictWitnessed
  ActiveIsHonoured
  ListingComplete
  CompleteMeansAll
  NeverLoggedIsTrue
  PostureCounts
  EveryCallAnswered
PROPERTIES
  AgentEnds
CHECK_DEADLOCK FALSE
