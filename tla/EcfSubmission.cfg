SPECIFICATION FairSpec
CONSTANTS
  Submits = {first}
  Retry = Retry
  Poll = Poll
  MaxAttempts = 3
  MaxFaults = 1
INVARIANTS TypeOK NoBlindRetransmission VerdictsComeFromTheAuthority
PROPERTIES EveryNumberIsSettled
CHECK_DEADLOCK FALSE
