SPECIFICATION ValidationSpec

CONSTANT Tasks <- MCTasks

INVARIANT EvidenceOnDiskCounts

\* A validation ends.
CHECK_DEADLOCK FALSE
