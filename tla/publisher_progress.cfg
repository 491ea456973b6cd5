CONSTANTS
  short = short
  long = long
  r1 = r1
  r2 = r2
  None = None
  a = a
  b1 = b1
  b2 = b2
  p1 = p1
  Groups = {short, long}
  Answers = {a}
  Parts = {p1}
  MaxTime = 1
  StaleFactor = 2
  Broken = {b1}
  Runs = {r1, r2}
  Faults = {}
  MaxRuns = 3
  RunLimit = 1
  ReadLimit = 0
  AbandonedAfter = 2
  AbandonedRetention = 2
  StagingRetention = 4
  PreviousReads = 1
  PointerAttempts = 2
  ExpireAttempts = 1
  ReclaimsPerRun = 1
  QuarantineKeys = 1
  Cadence <- MCCadence
  Form <- MCForm
SPECIFICATION FairSpec
CHECK_DEADLOCK FALSE
PROPERTIES
  RunsEnd
  ScansReachReaders
