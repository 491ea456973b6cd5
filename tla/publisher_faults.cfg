CONSTANTS
  short = short
  long = long
  r1 = r1
  r2 = r2
  None = None
  a = a
  b1 = b1
  b2 = b2
  p1 = p1
  p2 = p2
  Groups = {short}
  Answers = {a}
  Parts = {p1, p2}
  MaxTime = 4
  StaleFactor = 2
  Broken = {b1}
  Runs = {r1, r2}
  Faults = {"kill", "error", "lostReply"}
  MaxRuns = 2
  RunLimit = 1
  ReadLimit = 0
  AbandonedAfter = 2
  AbandonedRetention = 2
  StagingRetention = 4
  PreviousReads = 2
  PointerAttempts = 2
  ExpireAttempts = 2
  ReclaimsPerRun = 1
  QuarantineKeys = 1
  Cadence <- MCCadence
  Form <- MCForm
SPECIFICATION Spec
SYMMETRY Symmetry
CHECK_DEADLOCK FALSE
INVARIANTS
  TypeOK
  LiveIsServable
  ReadersKeepTheirChunks
  EverySetIsTracked
PROPERTIES
  RegistryKeepsTheUnbounded
