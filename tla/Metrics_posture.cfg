SPECIFICATION MetricsSpec
CONSTANTS
  Checks = {"a", "b"}
  Events = {"PutBucketAcl"}
  Codes = {"AccessDenied"}
  Reasons = {"expired"}
  Hours = {0, 1, 2, 3}
  MaxHours = 2
  PeriodsPerHour = 1
  MaxPuts = 2
  MaxPeriods = 3
INVARIANTS
  PostureShowsEveryMetric
CHECK_DEADLOCK FALSE
