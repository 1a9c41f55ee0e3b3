SPECIFICATION FairSpec
CONSTANTS
  Requests = {r1, r2, r3, r4}
  Bodies = {same, other}
  None = None
  MaxFaults = 2
INVARIANTS TypeOK PerformedOnce SuccessHoldsTheKey
PROPERTIES KeysAreReleased KeepsThePromise
CHECK_DEADLOCK FALSE
