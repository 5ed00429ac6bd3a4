SPECIFICATION RollbackSpec

CONSTANTS
  source = source
  dotenv = dotenv
  package = package
  hunk = hunk
  newFile = newFile
  buildOutput = buildOutput
  clone = clone
  Absent = Absent
  Sources <- MCSources
  Edits <- MCEdits
  Hunks <- MCHunks
  Ignored <- MCIgnored
  NodeModules <- MCNodeModules
  Nested <- MCNested
  AgentTrees <- MCAgentTrees
  Statuses <- MCStatuses

INVARIANTS
  SourcesRecoverable
  RestoredIsClean
  ManualRestoreWorks

PROPERTIES
  ImplementsCheckpoint

\* A finished restore leaves nothing to do.
CHECK_DEADLOCK FALSE
