CONSTANTS
  inside = inside
  outside = outside
  Absent = Absent
  Files <- MCFiles
  Allowed <- MCAllowed
  Lines <- MCLines
  CaptureLimit = 3
  LogLimit = 2
  MaxAttempts = 2
SPECIFICATION AdapterSpec
INVARIANT ReportOfAttempt
CHECK_DEADLOCK FALSE
