SPECIFICATION FairSpec
CONSTANTS
  t1 = t1
  Templates <- MCTemplates
  Keys <- MCKeys
  Replicas = {r1, r2}
  Workers = {w1, w2}
  NoReplica = NoReplica
  NoKey = NoKey
  NoWorker = NoWorker
  MaxDate = 2
  MaxCatchUp = 2
  MaxAttempts = 2
  MaxStalls = 1
  MaxFaults = 1
INVARIANTS TypeOK NextRunFindsIt RedeliveryIsHarmless LastRunIsTheLatest
PROPERTIES ImplementsSchedule EveryOccurrenceIsPosted
CHECK_DEADLOCK FALSE
