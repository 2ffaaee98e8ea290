SPECIFICATION Spec
CONSTANTS
  MaxTurns = 1
  MaxCalls = 2
  Subjects <- MCSubjects
  Containing <- MCContaining
  PollAttempts = 2
  Limit = 2
  MaxLines = 1
  Pages <- MCPages
  SecurityGroups <- MCGroups
  TagChoices <- MCTags
  MaxPages = 2
  MaxRetags = 0
  Now = 4
  TicksPerDay = 3
  Checks = {"s3", "ec2"}
  Events = {"PutBucketAcl"}
  Codes = {"AccessDenied"}
  Reasons = {"expired"}
  Hours = {0, 1, 3}
  MaxHours = 2
  PeriodsPerHour = 1
  MaxPuts = 0
  MaxPeriods = 1
  Items <- None
  MaxItems = 2
  Buckets <- None
  Launched <- WithUnnamed
  MaxChanges = 1
  Kind <- MCKind
  data = data
  database = database
  plain = plain
  sealed = sealed
  mute = mute
  nameless = nameless
INVARIANTS
  InstanceVerdictAgrees
CHECK_DEADLOCK FALSE
