SPECIFICATION RetrySpec

CONSTANTS
  plain = plain
  freshBug = freshBug
  browserTimeout = browserTimeout
  pathTimeout = pathTimeout
  unclear = unclear
  Messages <- MCMessages
  FreshMessages <- MCFreshMessages
  Says <- MCSays
  Failures <- MCFailures
  MaxIdenticalRetries = 3
  MaxTotalAttempts = 3
  MaxTransientRetries = 2
  MaxTimeoutRetries = 4

PROPERTY CappedTotal
