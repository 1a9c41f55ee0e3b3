SPECIFICATION Spec
CONSTANTS
  Submits = {first}
  Retry = Retry
  Poll = Poll
  MaxAttempts = 3
  MaxFaults = 0
INVARIANTS RejectedMeansRejected
CHECK_DEADLOCK FALSE
