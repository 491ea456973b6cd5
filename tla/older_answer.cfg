CONSTANTS
  a = a
  b = b
  None = None
  Names = {a, b}
  GracePeriod = 1
  PremiumPeriod = 1
  Soon = 1
  Lifetime = 2
  MaxNames = 2
  Timelines <- MCTimelines
  MaxTime = 2
  MaxChecks = 3
  MaxPublications = 0
  Faults = {}
SPECIFICATION Spec
CHECK_DEADLOCK FALSE
PROPERTY VerificationsAreKept
