SPECIFICATION Spec
CONSTANTS
  Instances = {i1}
  Tasks = {t1}
  Requests = {r1, r2, r3}
  TimerSweeps = {w1}
  Escalation = esc
  NoProc = NoProc
  NoInstance = NoInstance
  NoTask = NoTask
  NoOutcome = NoOutcome
  ok = ok
  error = error
  approve = approve
  reject = reject
  Nodes <- MCNodes
  StartNode = "s"
  NodeType <- MCNodeType
  Edges <- MCStraightEdges
  Outcomes <- MCOutcomes
  Results <- MCResults
  DueNodes = {}
  Delays <- MCDelays
  MaxSteps = 4
  MaxTime = 2
  MaxFaults = 1
PROPERTIES RequestsAreAnswered DueTimersFire
CHECK_DEADLOCK FALSE
