CONSTANTS
  inside = inside
  outside = outside
  Absent = Absent
  Files <- MCFiles
  Allowed <- MCAllowed
  Lines <- MCLines
  CaptureLimit = 3
  LogLimit = 2
  MaxAttempts = 2
SPECIFICATION FairAdapterSpec
INVARIANTS
  KilledIsTimeout
  AnswerIsComplete
  NotAvailableNeverRan
PROPERTIES
  ImplementsContract
  EndsUnlessHeld
CHECK_DEADLOCK FALSE
