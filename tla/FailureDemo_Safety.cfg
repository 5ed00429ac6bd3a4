SPECIFICATION FairDemoSpec

CONSTANTS
  Absent = Absent
  MaxRepairAttempts = 4
  MaxDemos = 3
  Fixtures <- MCFixtures
  some = some
  other = other
  Readings <- MCReadings
  Messages <- MCMessages
  FreshMessages = {}
  Says <- MCSays
  Failures <- MCFailures
  MaxIdenticalRetries = 2
  MaxTotalAttempts = 6
  MaxTransientRetries = 2
  MaxTimeoutRetries = 2

INVARIANTS
  DemoTypeOK
  FailedStateIsKept
  PassIsEarned
  DemoFilesAgree
  SameFailureHandedTwice
  ShopIsClosed

PROPERTIES
  DemoEnds

\* No more demos are started.
CHECK_DEADLOCK FALSE
