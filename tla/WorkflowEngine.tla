--------------------------- MODULE WorkflowEngine ---------------------------
(***************************************************************************)
(* The business-workflow engine (workflow-engine.service.ts): instances    *)
(* whose token walks the graph of one published definition, the human      *)
(* tasks the token parks on, and the transactions that move them.          *)
(*                                                                         *)
(* Transactions run on PostgreSQL at READ COMMITTED: a row is read from    *)
(* the last committed state, SELECT ... FOR UPDATE and UPDATE take a row   *)
(* lock held to the end of the transaction, and nothing a transaction      *)
(* wrote is seen by another before it commits. So a transaction is split   *)
(* where it waits for a row lock or reads a row it has not locked; what    *)
(* it writes stays in its own working copy, tx[p], until Commit.           *)
(***************************************************************************)
EXTENDS Naturals, Sequences, FiniteSets

CONSTANTS
  Instances, Tasks,        \* ids the database may hand out (uuids)
  Requests,                \* HTTP requests, one operation each
  TimerSweeps,             \* copies of the timer sweep, one per replica
  Escalation,              \* the overdue-task sweep
  NoProc, NoInstance, NoTask, NoOutcome,
  Nodes, StartNode,        \* the graph of the published definition
  NodeType,                \* node -> its type
  Edges,                   \* the connections
  Outcomes,                \* what a task or an action may answer
  Results,                 \* node -> answers its task or action can give
  DueNodes,                \* task nodes with a due date (dueInHours)
  Delays,                  \* how long a timer may wait, 0 when already past
  MaxSteps,                \* MAX_STEPS_PER_RUN
  MaxTime,                 \* bound: the clock stops here
  MaxFaults                \* bound: transactions lost to an SQL error or a crash

Procs == Requests \cup TimerSweeps \cup {Escalation}
NodeTypes == {"start", "end", "action", "condition", "task", "approval", "timer"}
EdgeType == [from : Nodes, to : Nodes, outcome : Outcomes \cup {NoOutcome},
             default : BOOLEAN, condition : BOOLEAN]

ASSUME GraphAssumption ==
  /\ StartNode \in Nodes
  /\ NodeType \in [Nodes -> NodeTypes]
  /\ Edges \subseteq EdgeType
  /\ Results \in [Nodes -> SUBSET (Outcomes \cup {NoOutcome})]
  /\ DueNodes \subseteq Nodes
ASSUME BoundAssumption ==
  /\ Delays \subseteq Nat
  /\ MaxSteps \in Nat /\ MaxTime \in Nat /\ MaxFaults \in Nat
ASSUME NullAssumption ==
  /\ NoProc \notin Procs /\ NoInstance \notin Instances /\ NoTask \notin Tasks
  /\ NoOutcome \notin Outcomes
  /\ Requests \cap TimerSweeps = {}
  /\ Escalation \notin Requests \cup TimerSweeps

VARIABLES
  inst,     \* committed workflow_instances rows
  task,     \* committed workflow_tasks rows
  ilock,    \* instance row -> the transaction holding its lock
  tlock,    \* task row -> the transaction holding its lock
  pc,       \* where each process is
  tx,       \* each process's open transaction and its post-commit effects
  scan,     \* what the sweeps' scans returned
  notices,  \* tasks with an unread notice in somebody's bell
  now,      \* the clock
  faults    \* transactions lost so far

vars == <<inst, task, ilock, tlock, pc, tx, scan, notices, now, faults>>

-----------------------------------------------------------------------------
(* Rows.  A time of 0 stands for null: the clock starts at 1.              *)
NoTime == 0

InstanceRow ==
  [status : {"none", "running", "completed", "cancelled", "failed"},
   node : Nodes,                                    \* token.nodeId
   token : {"active", "task", "timer", "done"},     \* token.state, waitKind
   wakeAt : Nat,                                    \* token.wakeAt
   nextWakeAt : Nat]
TaskRow ==
  [status : {"none", "open", "completed", "cancelled"},
   instance : Instances \cup {NoInstance}, node : Nodes, escalated : BOOLEAN]

BlankInstance == [status |-> "none", node |-> StartNode, token |-> "done",
                  wakeAt |-> NoTime, nextWakeAt |-> NoTime]
BlankTask == [status |-> "none", instance |-> NoInstance, node |-> StartNode,
              escalated |-> FALSE]

(* One transaction's private state: the operation, the rows it is about,   *)
(* its working copy of the instance, the task it inserted, the tasks it    *)
(* closes or has still to close, its step count, and the effects queued    *)
(* for after the commit.                                                   *)
Ops == {"none", "start", "complete", "cancel", "retry", "sweep", "escalate"}
Effect == [kind : {"created", "closed", "overdue"}, task : Tasks]
TxRow ==
  [op : Ops, instance : Instances \cup {NoInstance}, task : Tasks \cup {NoTask},
   outcome : Outcomes \cup {NoOutcome}, work : InstanceRow,
   fresh : Tasks \cup {NoTask}, closing : SUBSET Tasks, todo : SUBSET Tasks,
   steps : Nat, effects : Seq(Effect)]
NoTx ==
  [op |-> "none", instance |-> NoInstance, task |-> NoTask,
   outcome |-> NoOutcome, work |-> BlankInstance,
   fresh |-> NoTask, closing |-> {}, todo |-> {}, steps |-> 0, effects |-> <<>>]

(* What a sweep's scan returned and it has still to visit, and the instant *)
(* a timer sweep began.                                                    *)
ScanRow == [due : SUBSET Instances, late : SUBSET Tasks, asOf : Nat]

PcLabels ==
  {"idle", "lockTask", "lockInstance", "run", "readTasks", "closeTasks",
   "commit", "effects", "next", "answered"}

-----------------------------------------------------------------------------
(* The graph helpers.                                                      *)
EdgesFrom(n) == {e \in Edges : e.from = n}

(* pickEdge: the edge labelled with the outcome, else the default one,     *)
(* else an unlabelled one, else a lone edge when there is no outcome. The  *)
(* author's order breaks ties; here any of the tied edges may be taken.    *)
PickEdge(n, outcome) ==
  LET out == EdgesFrom(n)
      labelled == {e \in out : outcome # NoOutcome /\ e.outcome = outcome}
      default == {e \in out : e.default}
      plain == {e \in out : e.outcome = NoOutcome /\ ~e.condition}
      lone == {e \in out : /\ \A f \in out : f = e
                           /\ e.outcome = NoOutcome /\ outcome = NoOutcome}
  IN  CASE labelled # {} -> labelled
        [] labelled = {} /\ default # {} -> default
        [] labelled = {} /\ default = {} /\ plain # {} -> plain
        [] OTHER -> lone

(* pickConditionEdge: predicates are opaque, so any branch may hold; the   *)
(* default edge is left when none does, and there may be none.             *)
BranchEdges(n) == {e \in EdgesFrom(n) : e.condition \/ e.default}
MayHaveNoBranch(n) == \A e \in EdgesFrom(n) : ~e.default

(* follow: the token leaves its node and is active again.                  *)
Follow(w, e) ==
  [w EXCEPT !.node = e.to, !.token = "active", !.wakeAt = NoTime]

(* recomputeWake: the earliest parked timer, of which there is at most one.*)
RecomputeWakeMissing(w) == w                     \* mutant: not called
RecomputeWake(w) ==
  [w EXCEPT !.nextWakeAt = IF w.token = "timer" THEN w.wakeAt ELSE NoTime]

(* maybeComplete: an instance whose tokens are all done has completed.     *)
MaybeComplete(w) ==
  IF w.status = "running" /\ w.token = "done"
    THEN [w EXCEPT !.status = "completed"] ELSE w

-----------------------------------------------------------------------------
(* Transactions.                                                           *)
rows == <<inst, task>>
clock == <<now, faults>>

Put(p, t) == tx' = [tx EXCEPT ![p] = t]
Goto(p, label) == pc' = [pc EXCEPT ![p] = label]
LockInstanceRow(p, i) == ilock' = [ilock EXCEPT ![i] = p]
LockTaskRow(p, t) == tlock' = [tlock EXCEPT ![t] = p]
ReleaseAll(p) ==
  /\ ilock' = [i \in Instances |-> IF ilock[i] = p THEN NoProc ELSE ilock[i]]
  /\ tlock' = [t \in Tasks |-> IF tlock[t] = p THEN NoProc ELSE tlock[t]]

(* A request ends with its answer; a sweep goes on to its next row.        *)
Finished(p) == IF p \in Requests THEN "answered" ELSE "next"

(* The transaction rolls back: a refused operation or a lost connection.   *)
RollBackKeepsLocks(p) ==                         \* mutant: no release
  /\ Put(p, NoTx)
  /\ Goto(p, Finished(p))
  /\ UNCHANGED <<rows, ilock, tlock>>
RollBack(p) ==
  /\ ReleaseAll(p)
  /\ Put(p, NoTx)
  /\ Goto(p, Finished(p))
  /\ UNCHANGED rows

-----------------------------------------------------------------------------
(* start: the row is inserted RUNNING with its token on the start node.    *)
Start(p, i) ==
  /\ p \in Requests /\ pc[p] = "idle"
  /\ inst[i].status = "none" /\ ilock[i] = NoProc
  /\ LockInstanceRow(p, i)
  /\ Put(p, [NoTx EXCEPT !.op = "start", !.instance = i,
               !.work = [BlankInstance EXCEPT !.status = "running",
                                              !.token = "active"]])
  /\ Goto(p, "run")
  /\ UNCHANGED <<rows, tlock, scan, notices, clock>>

(* completeTask: the task row is locked first and read under the lock.     *)
Complete(p, t, o) ==
  /\ p \in Requests /\ pc[p] = "idle"
  /\ task[t].status # "none"
  /\ Put(p, [NoTx EXCEPT !.op = "complete", !.task = t, !.outcome = o])
  /\ Goto(p, "lockTask")
  /\ UNCHANGED <<rows, ilock, tlock, scan, notices, clock>>

CompletionAllowed(t, o) ==
  /\ task[t].status = "open"              \* else task_already_completed, 409
  /\ o \in Results[task[t].node]          \* else invalid_outcome, 400

CompleteLockTask(p) ==
  LET t == tx[p].task IN
  /\ pc[p] = "lockTask" /\ tlock[t] = NoProc
  /\ \/ /\ CompletionAllowed(t, tx[p].outcome)
        /\ LockTaskRow(p, t)
        /\ Put(p, [tx[p] EXCEPT !.instance = task[t].instance])
        /\ Goto(p, "lockInstance")
        /\ UNCHANGED <<rows, ilock>>
     \/ /\ ~CompletionAllowed(t, tx[p].outcome)
        /\ RollBack(p)
  /\ UNCHANGED <<scan, notices, clock>>

(* ... then the instance row; the task is closed and its token follows     *)
(* the edge its outcome picks (without an edge the request is refused).    *)
CompleteLockInstance(p) ==
  LET t == tx[p].task  i == tx[p].instance
      exits == PickEdge(task[t].node, tx[p].outcome)
  IN
  /\ pc[p] = "lockInstance" /\ tx[p].op = "complete" /\ ilock[i] = NoProc
  /\ \/ \E e \in exits :
          /\ inst[i].status = "running"
          /\ LockInstanceRow(p, i)
          /\ Put(p, [tx[p] EXCEPT !.work = Follow(inst[i], e), !.closing = {t},
                       !.effects = <<[kind |-> "closed", task |-> t]>>])
          /\ Goto(p, "run")
          /\ UNCHANGED <<rows, tlock>>
     \/ /\ inst[i].status # "running" \/ exits = {}
        /\ RollBack(p)
  /\ UNCHANGED <<scan, notices, clock>>

(* cancel: instance row first; then the open tasks, read without a lock,   *)
(* are closed one UPDATE at a time, each waiting for its row.              *)
Cancel(p, i) ==
  /\ p \in Requests /\ pc[p] = "idle"
  /\ inst[i].status # "none"
  /\ Put(p, [NoTx EXCEPT !.op = "cancel", !.instance = i])
  /\ Goto(p, "lockInstance")
  /\ UNCHANGED <<rows, ilock, tlock, scan, notices, clock>>

CancelAnyInstance(p) ==                          \* mutant: no status check
  LET i == tx[p].instance IN
  /\ pc[p] = "lockInstance" /\ tx[p].op = "cancel" /\ ilock[i] = NoProc
  /\ LockInstanceRow(p, i)
  /\ Put(p, [tx[p] EXCEPT !.work =
               [inst[i] EXCEPT !.status = "cancelled", !.token = "done",
                               !.nextWakeAt = NoTime]])
  /\ Goto(p, "readTasks")
  /\ UNCHANGED <<rows, tlock, scan, notices, clock>>
CancelLockInstance(p) ==
  LET i == tx[p].instance IN
  /\ pc[p] = "lockInstance" /\ tx[p].op = "cancel" /\ ilock[i] = NoProc
  /\ \/ /\ inst[i].status \in {"running", "failed"}
        /\ LockInstanceRow(p, i)
        /\ Put(p, [tx[p] EXCEPT !.work =
                     [inst[i] EXCEPT !.status = "cancelled", !.token = "done",
                                     !.nextWakeAt = NoTime]])
        /\ Goto(p, "readTasks")
        /\ UNCHANGED <<rows, tlock>>
     \/ /\ inst[i].status \notin {"running", "failed"}
        /\ RollBack(p)
  /\ UNCHANGED <<scan, notices, clock>>

CancelReadsNoTasks(p) ==                         \* mutant: tasks left open
  /\ pc[p] = "readTasks"
  /\ Goto(p, "closeTasks")
  /\ UNCHANGED <<rows, ilock, tlock, tx, scan, notices, clock>>
CancelReadTasks(p) ==
  /\ pc[p] = "readTasks"
  /\ Put(p, [tx[p] EXCEPT !.todo =
               {t \in Tasks : /\ task[t].status = "open"
                              /\ task[t].instance = tx[p].instance}])
  /\ Goto(p, "closeTasks")
  /\ UNCHANGED <<rows, ilock, tlock, scan, notices, clock>>

CancelTask(p, t) ==
  /\ pc[p] = "closeTasks" /\ t \in tx[p].todo /\ tlock[t] = NoProc
  /\ LockTaskRow(p, t)
  /\ Put(p, [tx[p] EXCEPT !.todo = @ \ {t}, !.closing = @ \cup {t},
               !.effects = Append(@, [kind |-> "closed", task |-> t])])
  /\ UNCHANGED <<rows, ilock, pc, scan, notices, clock>>

CancelTasksClosed(p) ==
  /\ pc[p] = "closeTasks" /\ tx[p].todo = {}
  /\ Goto(p, "commit")
  /\ UNCHANGED <<rows, ilock, tlock, tx, scan, notices, clock>>

(* retry: a FAILED instance runs again from the node its token is on.      *)
Retry(p, i) ==
  /\ p \in Requests /\ pc[p] = "idle"
  /\ inst[i].status # "none"
  /\ Put(p, [NoTx EXCEPT !.op = "retry", !.instance = i])
  /\ Goto(p, "lockInstance")
  /\ UNCHANGED <<rows, ilock, tlock, scan, notices, clock>>

RetryLockInstance(p) ==
  LET i == tx[p].instance IN
  /\ pc[p] = "lockInstance" /\ tx[p].op = "retry" /\ ilock[i] = NoProc
  /\ \/ /\ inst[i].status = "failed"
        /\ LockInstanceRow(p, i)
        /\ Put(p, [tx[p] EXCEPT !.work = [inst[i] EXCEPT !.status = "running"]])
        /\ Goto(p, "run")
        /\ UNCHANGED <<rows, tlock>>
     \/ /\ inst[i].status # "failed"
        /\ RollBack(p)
  /\ UNCHANGED <<scan, notices, clock>>

-----------------------------------------------------------------------------
(* run: one step of the loop per action, on the transaction's working copy.*)
Running(p) == pc[p] = "run" /\ tx[p].work.token = "active"
MayStep(p, types) ==
  /\ Running(p) /\ tx[p].steps < MaxSteps
  /\ NodeType[tx[p].work.node] \in types
Step(p, work) ==
  /\ Put(p, [tx[p] EXCEPT !.work = work, !.steps = @ + 1])
  /\ UNCHANGED <<rows, ilock, pc, scan, notices, clock>>

StepStart(p) ==
  /\ MayStep(p, {"start"})
  /\ \E e \in PickEdge(tx[p].work.node, NoOutcome) : Step(p, Follow(tx[p].work, e))
  /\ UNCHANGED tlock

StepAction(p) ==
  /\ MayStep(p, {"action"})
  /\ \E o \in Results[tx[p].work.node] :
       \E e \in PickEdge(tx[p].work.node, o) : Step(p, Follow(tx[p].work, e))
  /\ UNCHANGED tlock

StepCondition(p) ==
  /\ MayStep(p, {"condition"})
  /\ \E e \in BranchEdges(tx[p].work.node) : Step(p, Follow(tx[p].work, e))
  /\ UNCHANGED tlock

StepEnd(p) ==
  /\ MayStep(p, {"end"})
  /\ Step(p, [tx[p].work EXCEPT !.token = "done"])
  /\ UNCHANGED tlock

(* createTask: the new row is the transaction's own until it commits.      *)
StepTask(p, t) ==
  /\ MayStep(p, {"task", "approval"})
  /\ task[t].status = "none" /\ tlock[t] = NoProc
  /\ LockTaskRow(p, t)
  /\ Put(p, [tx[p] EXCEPT !.work = [@ EXCEPT !.token = "task"], !.fresh = t,
               !.steps = @ + 1,
               !.effects = Append(@, [kind |-> "created", task |-> t])])
  /\ UNCHANGED <<rows, ilock, pc, scan, notices, clock>>

StepTimer(p) ==
  /\ MayStep(p, {"timer"})
  /\ \E d \in Delays :
       Step(p, [tx[p].work EXCEPT !.token = "timer", !.wakeAt = now + d])
  /\ UNCHANGED tlock

(* What makes a node throw: the step limit, no edge to leave by, no branch *)
(* that holds, an action that is missing or throws.                        *)
MayThrow(p) ==
  LET n == tx[p].work.node IN
  \/ tx[p].steps = MaxSteps
  \/ NodeType[n] = "start" /\ PickEdge(n, NoOutcome) = {}
  \/ NodeType[n] = "action"
  \/ NodeType[n] = "condition" /\ MayHaveNoBranch(n)

(* The catch of run: the instance is FAILED, its token where it was.       *)
RunFailsKeepsWake(p) ==                          \* mutant: nextWakeAt kept
  /\ Running(p) /\ MayThrow(p)
  /\ Put(p, [tx[p] EXCEPT !.work = [@ EXCEPT !.status = "failed"]])
  /\ Goto(p, "commit")
  /\ UNCHANGED <<rows, ilock, tlock, scan, notices, clock>>
RunFails(p) ==
  /\ Running(p) /\ MayThrow(p)
  /\ Put(p, [tx[p] EXCEPT !.work = [@ EXCEPT !.status = "failed",
                                             !.nextWakeAt = NoTime]])
  /\ Goto(p, "commit")
  /\ UNCHANGED <<rows, ilock, tlock, scan, notices, clock>>

(* No token is active any more: persist the instance.                      *)
RunParks(p) ==
  /\ pc[p] = "run" /\ ~Running(p)
  /\ Put(p, [tx[p] EXCEPT !.work = MaybeComplete(RecomputeWake(@))])
  /\ Goto(p, "commit")
  /\ UNCHANGED <<rows, ilock, tlock, scan, notices, clock>>

-----------------------------------------------------------------------------
(* The end of a transaction.                                               *)
ClosedAsOperation(op) == op                      \* mutant: wrong status
ClosedAs(op) == IF op = "cancel" THEN "cancelled" ELSE "completed"

InstancesAfter(p) ==
  IF tx[p].op = "escalate" THEN inst
  ELSE [inst EXCEPT ![tx[p].instance] = tx[p].work]

TaskAfter(p, t) ==
  CASE t = tx[p].fresh ->
         [status |-> "open", instance |-> tx[p].instance,
          node |-> tx[p].work.node, escalated |-> FALSE]
    [] t # tx[p].fresh /\ t \in tx[p].closing ->
         [task[t] EXCEPT !.status = ClosedAs(tx[p].op)]
    [] t # tx[p].fresh /\ tx[p].op = "escalate" /\ t = tx[p].task ->
         [task[t] EXCEPT !.escalated = TRUE]
    [] OTHER -> task[t]

Commit(p) ==
  /\ pc[p] = "commit"
  /\ inst' = InstancesAfter(p)
  /\ task' = [t \in Tasks |-> TaskAfter(p, t)]
  /\ ReleaseAll(p)
  /\ Put(p, [NoTx EXCEPT !.effects = tx[p].effects])
  /\ Goto(p, "effects")
  /\ UNCHANGED <<scan, notices, clock>>

(* The queued effects run one after the other once the commit returned:    *)
(* a created or overdue task is announced, a closed one has its notices    *)
(* marked read (resolveByLink).                                            *)
RunEffect(p) ==
  LET e == Head(tx[p].effects) IN
  /\ pc[p] = "effects" /\ tx[p].effects # <<>>
  /\ notices' = IF e.kind = "closed" THEN notices \ {e.task}
                                     ELSE notices \cup {e.task}
  /\ Put(p, [tx[p] EXCEPT !.effects = Tail(@)])
  /\ UNCHANGED <<rows, ilock, tlock, pc, scan, clock>>

EffectsDone(p) ==
  /\ pc[p] = "effects" /\ tx[p].effects = <<>>
  /\ Put(p, NoTx)
  /\ Goto(p, Finished(p))
  /\ UNCHANGED <<rows, ilock, tlock, scan, notices, clock>>

InTransaction(p) == pc[p] \notin {"idle", "next", "effects", "answered"}

(* A statement fails (which aborts the whole PostgreSQL transaction, so    *)
(* not even FAILED is recorded) or the server dies: the transaction rolls  *)
(* back, or the effects of a committed one are lost.                       *)
Lose(p) ==
  /\ faults < MaxFaults /\ faults' = faults + 1
  /\ \/ InTransaction(p) /\ RollBack(p)
     \/ /\ pc[p] = "effects" /\ tx[p].effects # <<>>
        /\ Put(p, NoTx)
        /\ Goto(p, Finished(p))
        /\ UNCHANGED <<rows, ilock, tlock>>
  /\ UNCHANGED <<scan, notices, now>>

(* Who waits for a row lock another transaction holds, and PostgreSQL's    *)
(* answer to two transactions waiting for each other: one is aborted.      *)
WaitsFor(p, q) ==
  /\ q \in Procs
  /\ \/ pc[p] = "lockTask" /\ tlock[tx[p].task] = q
     \/ pc[p] = "lockInstance" /\ ilock[tx[p].instance] = q
     \/ /\ pc[p] = "closeTasks" /\ \E t \in tx[p].todo : tlock[t] = q
        /\ \A t \in tx[p].todo : tlock[t] # NoProc

DeadlockVictim(p) ==
  /\ \E q \in Procs : WaitsFor(p, q) /\ WaitsFor(q, p)
  /\ RollBack(p)
  /\ UNCHANGED <<scan, notices, clock>>

-----------------------------------------------------------------------------
(* resumeDueTimers: an unlocked scan, then one transaction per instance    *)
(* found, which skips a locked row and looks again.                        *)
ScanTimers(s) ==
  /\ s \in TimerSweeps /\ pc[s] = "idle"
  /\ LET found == {i \in Instances : /\ inst[i].status = "running"
                                     /\ inst[i].nextWakeAt # NoTime
                                     /\ inst[i].nextWakeAt <= now}
     IN  /\ found # {}
         /\ scan' = [scan EXCEPT ![s] = [@ EXCEPT !.due = found, !.asOf = now]]
  /\ Goto(s, "next")
  /\ UNCHANGED <<rows, ilock, tlock, tx, notices, clock>>

Visit(s, i) ==
  /\ s \in TimerSweeps /\ pc[s] = "next" /\ i \in scan[s].due
  /\ scan' = [scan EXCEPT ![s].due = @ \ {i}]

TimerDueAnyTime(s, i) == inst[i].token = "timer"  \* mutant: no time test
TimerDue(s, i) == inst[i].token = "timer" /\ inst[i].wakeAt <= scan[s].asOf

SweepSkips(s, i) ==
  /\ Visit(s, i)
  /\ \/ ilock[i] # NoProc
     \/ inst[i].status # "running"
     \/ TimerDue(s, i) /\ PickEdge(inst[i].node, NoOutcome) = {}  \* logged
  /\ UNCHANGED <<rows, ilock, tlock, pc, tx, notices, clock>>

SweepWakes(s, i) ==
  /\ Visit(s, i)
  /\ ilock[i] = NoProc /\ inst[i].status = "running" /\ TimerDue(s, i)
  /\ \E e \in PickEdge(inst[i].node, NoOutcome) :
       Put(s, [NoTx EXCEPT !.op = "sweep", !.instance = i,
                 !.work = Follow(inst[i], e)])
  /\ LockInstanceRow(s, i)
  /\ Goto(s, "run")
  /\ UNCHANGED <<rows, tlock, notices, clock>>

(* Nothing was due after all: only nextWakeAt is recomputed and saved.     *)
SweepCorrects(s, i) ==
  /\ Visit(s, i)
  /\ ilock[i] = NoProc /\ inst[i].status = "running" /\ ~TimerDue(s, i)
  /\ Put(s, [NoTx EXCEPT !.op = "sweep", !.instance = i,
               !.work = RecomputeWake(inst[i])])
  /\ LockInstanceRow(s, i)
  /\ Goto(s, "commit")
  /\ UNCHANGED <<rows, tlock, notices, clock>>

(* escalateOverdue: the same shape over the open tasks past their date.    *)
(* Whether the date has passed is left open.                               *)
ScanOverdue(s) ==
  /\ s = Escalation /\ pc[s] = "idle"
  /\ LET found == {t \in Tasks : /\ task[t].status = "open"
                                 /\ task[t].node \in DueNodes
                                 /\ ~task[t].escalated}
     IN  /\ found # {}
         /\ scan' = [scan EXCEPT ![s] = [@ EXCEPT !.late = found]]
  /\ Goto(s, "next")
  /\ UNCHANGED <<rows, ilock, tlock, tx, notices, clock>>

VisitTask(s, t) ==
  /\ s = Escalation /\ pc[s] = "next" /\ t \in scan[s].late
  /\ scan' = [scan EXCEPT ![s].late = @ \ {t}]

EscalationSkips(s, t) ==
  /\ VisitTask(s, t)
  /\ tlock[t] # NoProc \/ task[t].status # "open" \/ task[t].escalated
  /\ UNCHANGED <<rows, ilock, tlock, pc, tx, notices, clock>>

Escalate(s, t) ==
  /\ VisitTask(s, t)
  /\ tlock[t] = NoProc /\ task[t].status = "open" /\ ~task[t].escalated
  /\ LockTaskRow(s, t)
  /\ Put(s, [NoTx EXCEPT !.op = "escalate", !.task = t,
               !.effects = <<[kind |-> "overdue", task |-> t]>>])
  /\ Goto(s, "commit")
  /\ UNCHANGED <<rows, ilock, notices, clock>>

SweepEnds(s) ==
  /\ pc[s] = "next" /\ scan[s].due = {} /\ scan[s].late = {}
  /\ Goto(s, "idle")
  /\ UNCHANGED <<rows, ilock, tlock, tx, scan, notices, clock>>

Tick ==
  /\ now < MaxTime /\ now' = now + 1
  /\ UNCHANGED <<rows, ilock, tlock, pc, tx, scan, notices, faults>>

-----------------------------------------------------------------------------
Init ==
  /\ inst = [i \in Instances |-> BlankInstance]
  /\ task = [t \in Tasks |-> BlankTask]
  /\ ilock = [i \in Instances |-> NoProc]
  /\ tlock = [t \in Tasks |-> NoProc]
  /\ pc = [p \in Procs |-> "idle"]
  /\ tx = [p \in Procs |-> NoTx]
  /\ scan = [p \in Procs |-> [due |-> {}, late |-> {}, asOf |-> NoTime]]
  /\ notices = {} /\ now = 1 /\ faults = 0

(* A request arrives.                                                      *)
Arrive(p) ==
  \/ \E i \in Instances : Start(p, i) \/ Cancel(p, i) \/ Retry(p, i)
  \/ \E t \in Tasks, o \in Outcomes : Complete(p, t, o)

(* A transaction waits for a row; the row must be free to go on.           *)
Acquire(p) ==
  \/ CompleteLockTask(p) \/ CompleteLockInstance(p)
  \/ CancelLockInstance(p) \/ RetryLockInstance(p)
  \/ \E t \in Tasks : CancelTask(p, t)

(* The rest of its way, for which it waits on nobody.                      *)
Proceed(p) ==
  \/ CancelReadTasks(p) \/ CancelTasksClosed(p)
  \/ StepStart(p) \/ StepAction(p) \/ StepCondition(p) \/ StepEnd(p)
  \/ (\E t \in Tasks : StepTask(p, t)) \/ StepTimer(p)
  \/ RunFails(p) \/ RunParks(p) \/ Commit(p)
  \/ RunEffect(p) \/ EffectsDone(p)
  \/ DeadlockVictim(p)

Sweep(s) ==
  \/ ScanTimers(s) \/ ScanOverdue(s) \/ SweepEnds(s)
  \/ \E i \in Instances : SweepSkips(s, i) \/ SweepWakes(s, i) \/ SweepCorrects(s, i)
  \/ \E t \in Tasks : EscalationSkips(s, t) \/ Escalate(s, t)

Next ==
  \/ \E p \in Procs : Arrive(p) \/ Acquire(p) \/ Proceed(p) \/ Sweep(p) \/ Lose(p)
  \/ Tick

(* The event loop runs what is ready, the crons fire every minute and a    *)
(* free row lock is granted to who waits for it.  Nothing makes a request  *)
(* arrive, a transaction fail or the clock move.                           *)
Fairness ==
  \A p \in Procs : WF_vars(Acquire(p)) /\ WF_vars(Proceed(p)) /\ WF_vars(Sweep(p))

Spec == Init /\ [][Next]_vars /\ Fairness

-----------------------------------------------------------------------------
(* Properties.                                                             *)

(* Every variable keeps its type: rows are well-formed, a lock is held by  *)
(* one process or nobody, a transaction's private state is well-formed.    *)
TypeOK ==
  /\ inst \in [Instances -> InstanceRow]
  /\ task \in [Tasks -> TaskRow]
  /\ ilock \in [Instances -> Procs \cup {NoProc}]
  /\ tlock \in [Tasks -> Procs \cup {NoProc}]
  /\ pc \in [Procs -> PcLabels]
  /\ tx \in [Procs -> TxRow]
  /\ scan \in [Procs -> ScanRow]
  /\ notices \subseteq Tasks
  /\ now \in Nat /\ faults \in Nat

ParkedOn(i, t) ==
  /\ inst[i].status = "running" /\ inst[i].token = "task"
  /\ task[t].status = "open" /\ task[t].instance = i

(* An open task is the one its running instance is parked on, at the node  *)
(* the token is on: completing it advances a live process, and nobody is   *)
(* asked to decide for a process that has ended, failed or gone elsewhere. *)
OpenTaskIsTheParkedOne ==
  \A t \in Tasks : task[t].status = "open" =>
    \E i \in Instances :
      /\ ParkedOn(i, t) /\ task[t].node = inst[i].node
      /\ \A u \in Tasks : ParkedOn(i, u) => u = t

(* A running instance always has something that will move it on: an open   *)
(* task, or a timer the sweep can find through nextWakeAt.  Between two    *)
(* transactions no process is left running with nothing to wait for.       *)
RunningInstanceCanAdvance ==
  \A i \in Instances : inst[i].status = "running" =>
    \/ \E t \in Tasks : ParkedOn(i, t)
    \/ inst[i].token = "timer" /\ inst[i].nextWakeAt # NoTime
                               /\ inst[i].nextWakeAt = inst[i].wakeAt

(* A failed instance keeps its token active on the step that failed, with  *)
(* no open task and no timer, so that retry can resume it from there; an   *)
(* instance that ended leaves nothing for the timer sweep to wake.         *)
FailedInstanceCanBeRetried ==
  \A i \in Instances :
    /\ inst[i].status = "failed" => inst[i].token = "active"
    /\ inst[i].status # "running" => inst[i].nextWakeAt = NoTime

(* So no instance is stuck: one that runs waits for something that will    *)
(* come, and one that failed can be taken up again by retry.               *)
EveryInstanceHasAWayOn == RunningInstanceCanAdvance /\ FailedInstanceCanBeRetried

(* A token leaves a task only in the step that closes that task, and a     *)
(* timer only when it is due or the instance is cancelled: two concurrent  *)
(* completions, or a sweep racing one, never advance the process twice.    *)
AdvanceNeedsItsCause ==
  [][\A i \in Instances :
       inst[i].status = "running" /\ inst'[i] # inst[i] =>
         CASE inst[i].token = "task" ->
                \E t \in Tasks : ParkedOn(i, t) /\ task'[t].status # "open"
           [] inst[i].token = "timer" ->
                inst'[i].status = "cancelled" \/ inst[i].wakeAt <= now]_vars

(* What is decided stays decided: a completed or cancelled instance never  *)
(* changes again, and a closed task is never reopened or closed otherwise, *)
(* not even by the unlocked reads of cancel.                               *)
DecidedIsFinal ==
  [][/\ \A i \in Instances :
          inst[i].status \in {"completed", "cancelled"} => inst'[i] = inst[i]
     /\ \A t \in Tasks :
          task[t].status \in {"completed", "cancelled"} => task'[t] = task[t]]_vars

(* Every request that arrives gets an answer: no two transactions wait for *)
(* each other for ever, and none is passed over for its row.               *)
RequestsAreAnswered ==
  \A p \in Requests : pc[p] # "idle" ~> pc[p] = "answered"

(* A timer that is due fires (or the instance is cancelled), although the  *)
(* sweep skips a locked instance and some of its transactions fail.        *)
DueTimersFire ==
  \A i \in Instances :
    (inst[i].status = "running" /\ inst[i].token = "timer" /\ inst[i].wakeAt <= now)
      ~> ~(inst[i].status = "running" /\ inst[i].token = "timer" /\ inst[i].wakeAt <= now)

(* What the class comment says of its locking: every state change first    *)
(* takes the instance row, so the second of two waits for the first and    *)
(* is then refused.  Two transactions therefore never wait for each other. *)
NoWaitCycle ==
  \A p, q \in Procs : ~(WaitsFor(p, q) /\ WaitsFor(q, p))

(* What the notifier's comment says: once every queued effect has run, the *)
(* bell asks nobody to act on a task that is closed (with no effect lost). *)
NoNoticeOfAClosedTask ==
  (faults = 0 /\ \A p \in Procs : tx[p].effects = <<>>) =>
    \A t \in notices : task[t].status = "open"
=============================================================================
