CONSTANTS
  t1 = t1
  t2 = t2
  None = None
  Garbage = Garbage
  Tabs = {t1, t2}
  MaxVersion = 3
  MaxLoads = 3
  Unusable = {2}
  Faults = {"network", "storage", "spoil", "confused"}
SPECIFICATION Spec
CHECK_DEADLOCK FALSE
INVARIANTS
  TypeOK
  
PROPERTIES
  OwnWritesAdvance
  CopiesAreKept
  LoadsSettle
