SPECIFICATION RetrySpec

CONSTANTS
  plain = plain
  freshBug = freshBug
  browserTimeout = browserTimeout
  pathTimeout = pathTimeout
  unclear = unclear
  Messages <- MCMessages
  FreshMessages <- MCFreshMessages
  Says <- MCSays
  Failures <- MCFailures
  MaxIdenticalRetries = 4
  MaxTotalAttempts = 4
  MaxTransientRetries = 2
  MaxTimeoutRetries = 4

INVARIANTS
  ThirdOccurrenceBreaks

PROPERTIES
  AnswerMatchesCircuit
  UnclassifiedWithinTotal
  RefusedFailuresStop
