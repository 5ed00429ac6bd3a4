SPECIFICATION ValidationSpec

CONSTANT Tasks <- MCTasks

INVARIANTS
  PassIsWhole
  BulletsAreChecked
  JourneyIsWhole
  BrowsersAreClosed

\* A validation ends.
CHECK_DEADLOCK FALSE
