CONSTANTS
  w1 = w1
  w2 = w2
  None = None
  Workers = {w1, w2}
  Batches = 4
  Retries = 1
  Faults = {"upstream", "caller"}
SPECIFICATION FairSpec
CHECK_DEADLOCK FALSE
INVARIANTS
  TypeOK
  ResultsAreComplete
  ErrorsNameTheirCause
  NothingOutlivesTheRun
PROPERTIES
  EverythingEnds
