SPECIFICATION Spec
CONSTANTS
  TicksPerDay = 2
  Pages <- MCPages
  TagChoices <- Choices
  WarnWithinDays = 2
  MaxMissed = 1
  LastTick = 9
  bucketA = bucketA
  bucketB = bucketB
INVARIANTS
  TypeOK
  WarnedBeforeLapse
  DateLastsItsDay
CHECK_DEADLOCK FALSE
