CONSTANTS
  q1 = q1
  q2 = q2
  i1 = i1
  i2 = i2
  one = one
  two = two
  None = None
  a = a
  c1 = c1
  Requests = {q1, q2}
  Instances = {i1, i2}
  Clients = {c1}
  NameSets = {one, two}
  Cost <- MCCost
  Answers = {a}
  ClientLimit = 2
  UpstreamLimit = 2
  Period = 2
  Lifetime = 2
  LocalEntries = 1
  Slots = 1
  RequestLimit = 1
  MaxTime = 4
  MaxRequests = 3
  Faults = {"store", "lostReply", "upstream", "replace"}
SPECIFICATION Spec
SYMMETRY Symmetry
CHECK_DEADLOCK FALSE
INVARIANTS
  TypeOK
  AllowancesHold
  LoadIsBounded
  RepliesAreFresh
  CopiesAreCopies
  SlotsAreHeld
  CopiesAreBounded
