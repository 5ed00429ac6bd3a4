SPECIFICATION ValidationSpec

CONSTANT Tasks <- MCTasks

INVARIANT OrdersAreThere

\* A validation ends.
CHECK_DEADLOCK FALSE
