CONSTANTS
  a = a
  b = b
  None = None
  Names = {a, b}
  GracePeriod = 1
  PremiumPeriod = 1
  Soon = 1
  Lifetime = 1
  MaxNames = 2
  Timelines <- MCTimelines
  MaxTime = 2
  MaxChecks = 2
  MaxPublications = 2
  Faults = {"refused", "confused"}
SPECIFICATION Spec
SYMMETRY Symmetry
CHECK_DEADLOCK FALSE
INVARIANTS
  TypeOK
  PageFollowsItsCheck
  LinksAreVerified
  RowsAreHonest
