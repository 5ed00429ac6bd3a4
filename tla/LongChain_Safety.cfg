SPECIFICATION ChainSpec

CONSTANTS
  Absent = Absent
  Broken = Broken
  pin = pin
  slot1 = slot1
  slot2 = slot2
  PinnedId = pin
  MaxRuns = 2
  MaxSeq = 2
  Named <- MCNamed
  Tasks <- MCTasks
  Flags = {"AUTH_REQUIRED"}
  ForeignNames = {"status.json", "scenario.json"}
  CardLists <- MCCardLists

INVARIANTS
  AcceptedIsJudged
  SuccessInFilesIsJudged
  ReturnedDirectoryAgrees
  FirstInDirectory
  GreenChainIsJudged
  CollectedIsOnDisk

PROPERTIES
  PackKeepsAnswer

\* The operator stops starting runs.
CHECK_DEADLOCK FALSE
