-------------------------- MODULE MCWorkflowEngine --------------------------
(***************************************************************************)
(* The engine on one small process: an approval that may be sent back, an  *)
(* action that may fail, a condition and a timer.                          *)
(***************************************************************************)
EXTENDS WorkflowEngine, TLC

CONSTANTS ok, error, approve, reject

Edge(from, to, outcome, default, condition) ==
  [from |-> from, to |-> to, outcome |-> outcome,
   default |-> default, condition |-> condition]

MCNodes == {"s", "review", "post", "check", "wait", "e"}
MCNodeType ==
  [s |-> "start", review |-> "approval", post |-> "action",
   check |-> "condition", wait |-> "timer", e |-> "end"]
MCEdges ==
  {Edge("s", "review", NoOutcome, FALSE, FALSE),
   Edge("review", "post", approve, FALSE, FALSE),
   Edge("review", "check", reject, FALSE, FALSE),
   Edge("post", "e", ok, FALSE, FALSE),
   Edge("post", "check", error, FALSE, FALSE),
   Edge("check", "wait", NoOutcome, FALSE, TRUE),
   Edge("check", "post", NoOutcome, TRUE, FALSE),
   Edge("wait", "review", NoOutcome, FALSE, FALSE)}
(* The same process without a way back: one task at most, so that the      *)
(* liveness run, which cannot use symmetry, stays small.                   *)
MCStraightEdges ==
  {Edge("s", "review", NoOutcome, FALSE, FALSE),
   Edge("review", "post", approve, FALSE, FALSE),
   Edge("review", "wait", reject, FALSE, FALSE),
   Edge("post", "e", ok, FALSE, FALSE),
   Edge("post", "wait", error, FALSE, FALSE),
   Edge("wait", "e", NoOutcome, FALSE, FALSE)}
MCOutcomes == {ok, error, approve, reject}
MCResults ==
  [n \in MCNodes |-> CASE n = "review" -> {approve, reject}
                       [] n = "post" -> {ok, error}
                       [] OTHER -> {}]
MCDelays == {1}
Symmetry == Permutations(Requests) \cup Permutations(TimerSweeps) \cup Permutations(Tasks)
=============================================================================
