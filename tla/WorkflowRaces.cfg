SPECIFICATION Spec
CONSTANTS
  Instances = {i1}
  Tasks = {t1, t2, t3}
  Requests = {r1, r2, r3}
  TimerSweeps = {w1, w2}
  Escalation = esc
  NoProc = NoProc
  NoInstance = NoInstance
  NoTask = NoTask
  NoOutcome = NoOutcome
  ok = ok
  error = error
  approve = approve
  reject = reject
  Nodes <- MCNodes
  StartNode = "s"
  NodeType <- MCNodeType
  Edges <- MCEdges
  Outcomes <- MCOutcomes
  Results <- MCResults
  DueNodes = {"review"}
  Delays <- MCDelays
  MaxSteps = 4
  MaxTime = 2
  MaxFaults = 0
INVARIANTS TypeOK OpenTaskIsTheParkedOne EveryInstanceHasAWayOn
PROPERTIES AdvanceNeedsItsCause DecidedIsFinal
SYMMETRY Symmetry
CHECK_DEADLOCK FALSE
