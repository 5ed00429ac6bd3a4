SPECIFICATION FairTaskSpec

CONSTANTS
  plain = plain
  browserTimeout = browserTimeout
  pathTimeout = pathTimeout
  unclear = unclear
  source = source
  hunk = hunk
  newFile = newFile
  Absent = Absent
  Messages <- MCMessages
  FreshMessages = {}
  Says <- MCSays
  Failures <- MCFailures
  Claims <- MCClaims
  MaxIdenticalRetries = 2
  MaxTotalAttempts = 3
  MaxTransientRetries = 2
  MaxTimeoutRetries = 2
  Sources <- MCSources
  Edits <- MCEdits
  Hunks <- MCHunks
  Ignored = {}
  NodeModules = {}
  Nested = {}
  AgentTrees <- MCAgentTrees
  CaptureSkips = {}
  Statuses <- MCStatuses

INVARIANTS
  SuccessIsJudged
  VerdictBeforeRollback
  StopsHold

PROPERTIES
  ImplementsGate
  TaskImplementsCheckpoint
  EveryStepDescends
  Terminates

\* A task ends.
CHECK_DEADLOCK FALSE
