------------------------ MODULE WorkflowEngineProofs ------------------------
(***************************************************************************)
(* What holds of the engine for every graph and every number of instances, *)
(* tasks, requests and sweeps.                                             *)
(***************************************************************************)
EXTENDS WorkflowEngine, TLAPS

OpenFor(t, i) == task[t].status = "open" /\ task[t].instance = i

(* The transaction has its instance row.                                   *)
Holding(p) ==
  pc[p] \in {"run", "readTasks", "closeTasks", "commit"} /\ tx[p].op # "escalate"

(* What is true of a transaction between its steps.  It holds the rows it  *)
(* is about to write; those rows are as it read them; and every open task  *)
(* of its instance is one it is going to close.                            *)
Untouched(p) == tx[p].fresh = NoTask /\ tx[p].closing = {}
HasTask(p) ==
  /\ tx[p].task \in Tasks /\ tlock[tx[p].task] = p
  /\ task[tx[p].task].status = "open"

AtLockTask(p) ==
  pc[p] = "lockTask" => tx[p].task \in Tasks /\ Untouched(p) /\ tx[p].op = "complete"
AtLockInstance(p) ==
  pc[p] = "lockInstance" =>
    /\ tx[p].instance \in Instances /\ Untouched(p)
    /\ tx[p].op \in {"complete", "cancel", "retry"}
    /\ tx[p].op = "complete" =>
         HasTask(p) /\ task[tx[p].task].instance = tx[p].instance
HoldsItsRows(p) ==
  Holding(p) =>
    /\ tx[p].instance \in Instances /\ ilock[tx[p].instance] = p
    /\ \A t \in tx[p].closing : tlock[t] = p /\ OpenFor(t, tx[p].instance)
    /\ tx[p].fresh \in Tasks =>
         tlock[tx[p].fresh] = p /\ task[tx[p].fresh].status = "none"
Covers(p) == \A t \in Tasks : OpenFor(t, tx[p].instance) => t \in tx[p].closing
AtRun(p) ==
  pc[p] = "run" =>
    /\ tx[p].op \in {"start", "complete", "retry", "sweep"}
    /\ tx[p].work.status = "running" /\ Covers(p)
    /\ tx[p].work.token = "task" <=> tx[p].fresh \in Tasks
    /\ tx[p].work.token = "timer" => tx[p].work.wakeAt # NoTime
Cancelling(p) ==
  /\ tx[p].op = "cancel" /\ tx[p].fresh = NoTask
  /\ tx[p].work.status = "cancelled" /\ tx[p].work.nextWakeAt = NoTime
AtReadTasks(p) == pc[p] = "readTasks" => Cancelling(p) /\ tx[p].closing = {}
AtCloseTasks(p) ==
  pc[p] = "closeTasks" =>
    /\ Cancelling(p)
    /\ \A t \in Tasks :
         OpenFor(t, tx[p].instance) <=> t \in tx[p].todo \cup tx[p].closing

(* What a transaction is about to write is a consistent instance: parked   *)
(* on its new task, or on a timer, or no longer running - or the sweep     *)
(* writes back what it read.                                               *)
WritesParked(p) ==
  /\ tx[p].work.status = "running" /\ Covers(p)
  /\ \/ tx[p].work.token = "task" /\ tx[p].fresh \in Tasks
     \/ /\ tx[p].work.token = "timer" /\ tx[p].fresh = NoTask
        /\ tx[p].work.nextWakeAt = tx[p].work.wakeAt
        /\ tx[p].work.nextWakeAt # NoTime
WritesEnded(p) ==
  /\ tx[p].work.status \in {"completed", "failed", "cancelled"} /\ Covers(p)
  /\ tx[p].fresh = NoTask /\ tx[p].work.nextWakeAt = NoTime
  /\ tx[p].work.status = "failed" => tx[p].work.token = "active"
WritesBack(p) ==
  LET i == tx[p].instance IN
  /\ Untouched(p) /\ inst[i].status = "running" /\ tx[p].work.status = "running"
  /\ tx[p].work.node = inst[i].node /\ tx[p].work.token = inst[i].token
  /\ tx[p].work.token = "timer" =>
       /\ tx[p].work.nextWakeAt = tx[p].work.wakeAt
       /\ tx[p].work.nextWakeAt # NoTime
AtCommit(p) ==
  pc[p] = "commit" =>
    IF tx[p].op = "escalate" THEN HasTask(p) /\ Untouched(p)
    ELSE WritesParked(p) \/ WritesEnded(p) \/ WritesBack(p)

TxInv(p) ==
  /\ AtLockTask(p) /\ AtLockInstance(p) /\ HoldsItsRows(p) /\ AtRun(p)
  /\ AtReadTasks(p) /\ AtCloseTasks(p) /\ AtCommit(p)

RowInv ==
  /\ OpenTaskIsTheParkedOne /\ RunningInstanceCanAdvance /\ FailedInstanceCanBeRetried

IInv == TypeOK /\ now # NoTime /\ RowInv /\ \A p \in Procs : TxInv(p)

-----------------------------------------------------------------------------
(* Type correctness.                                                       *)

LEMMA NullTypes ==
  /\ NoTx \in TxRow /\ BlankInstance \in InstanceRow /\ BlankTask \in TaskRow
  /\ TimerSweeps \subseteq Procs /\ Requests \subseteq Procs /\ Escalation \in Procs
  BY GraphAssumption
     DEF NoTx, TxRow, BlankInstance, InstanceRow, BlankTask, TaskRow, Ops, NoTime, Procs

(* Whatever edge is picked is an edge of the graph.                        *)
LEMMA PickEdgeType ==
  ASSUME NEW n, NEW o
  PROVE  PickEdge(n, o) \subseteq Edges
  <1> DEFINE out == EdgesFrom(n)
             labelled == {e \in out : o # NoOutcome /\ e.outcome = o}
             default == {e \in out : e.default}
             plain == {e \in out : e.outcome = NoOutcome /\ ~e.condition}
             lone == {e \in out : /\ \A f \in out : f = e
                                  /\ e.outcome = NoOutcome /\ o = NoOutcome}
  <1>1. out \subseteq Edges
    BY DEF EdgesFrom
  <1>2. PickEdge(n, o) \in {labelled, default, plain, lone}
    <2> HIDE DEF out, labelled, default, plain, lone
    <2>1. PickEdge(n, o) =
            CASE labelled # {} -> labelled
              [] labelled = {} /\ default # {} -> default
              [] labelled = {} /\ default = {} /\ plain # {} -> plain
              [] OTHER -> lone
      BY DEF PickEdge, out, labelled, default, plain, lone
    <2>2. QED BY <2>1
  <1>3. QED BY <1>1, <1>2

LEMMA FollowType ==
  ASSUME NEW w \in InstanceRow, NEW e \in Edges
  PROVE  Follow(w, e) \in InstanceRow
  BY GraphAssumption DEF Follow, InstanceRow, EdgeType, NoTime

LEMMA RecomputeType ==
  ASSUME NEW w \in InstanceRow
  PROVE  /\ RecomputeWake(w) \in InstanceRow
         /\ MaybeComplete(RecomputeWake(w)) \in InstanceRow
  <1>1. RecomputeWake(w) \in InstanceRow
    BY DEF RecomputeWake, InstanceRow, NoTime
  <1>2. QED BY <1>1 DEF MaybeComplete, InstanceRow


-----------------------------------------------------------------------------
(* Steps of one process.                                                   *)

(* p's step left q alone: q is where it was, has its locks, and the rows   *)
(* it locked and the open tasks of its instance are as they were.          *)
LeavesAlone(q) ==
  /\ pc'[q] = pc[q] /\ tx'[q] = tx[q]
  /\ \A i \in Instances : ilock[i] = q =>
       /\ ilock'[i] = q /\ inst'[i] = inst[i]
       /\ \A t \in Tasks : OpenFor(t, i)' <=> OpenFor(t, i)
  /\ \A t \in Tasks : tlock[t] = q => tlock'[t] = q /\ task'[t] = task[t]

LEMMA LeftAlone ==
  ASSUME TypeOK, NEW q \in Procs, TxInv(q), LeavesAlone(q)
  PROVE  TxInv(q)'
  <1> USE DEF LeavesAlone
  <1>0. tx[q] \in TxRow
    BY DEF TypeOK
  <1>1. AtLockTask(q)'
    BY DEF TxInv, AtLockTask, Untouched
  <1>2. AtLockInstance(q)'
    BY DEF TxInv, AtLockInstance, Untouched, HasTask
  <1>3. HoldsItsRows(q)'
    BY <1>0 DEF TxInv, HoldsItsRows, Holding, TxRow
  <1>4. AtRun(q)'
    BY <1>0 DEF TxInv, AtRun, Covers, HoldsItsRows, Holding
  <1>5. AtReadTasks(q)' /\ AtCloseTasks(q)'
    BY <1>0 DEF TxInv, AtReadTasks, AtCloseTasks, Cancelling, HoldsItsRows, Holding
  <1>6. AtCommit(q)'
    BY <1>0 DEF TxInv, AtCommit, Covers, HoldsItsRows, Holding, WritesParked,
                WritesEnded, WritesBack, Untouched, HasTask
  <1>7. QED BY <1>1, <1>2, <1>3, <1>4, <1>5, <1>6 DEF TxInv

(* What a step changes besides the rows: p's own transaction and place,    *)
(* and the locks that were free or p's.                                    *)
Moves(p, r, l) ==
  /\ tx' = [tx EXCEPT ![p] = r] /\ pc' = [pc EXCEPT ![p] = l]
  /\ ilock' \in [Instances -> Procs \cup {NoProc}]
  /\ tlock' \in [Tasks -> Procs \cup {NoProc}]
  /\ \A i \in Instances : ilock[i] \notin {p, NoProc} => ilock'[i] = ilock[i]
  /\ \A t \in Tasks : tlock[t] \notin {p, NoProc} => tlock'[t] = tlock[t]

(* A step of p that writes no committed row keeps the invariant when it    *)
(* keeps p's own part of it.                                               *)
LEMMA OwnStep ==
  ASSUME IInv, NEW p \in Procs, NEW r \in TxRow, NEW l \in PcLabels,
         Moves(p, r, l), UNCHANGED <<inst, task, now>>,
         scan' \in [Procs -> ScanRow], notices' \subseteq Tasks, faults' \in Nat,
         TxInv(p)'
  PROVE  IInv'
  <1>1. TypeOK'
    BY DEF IInv, TypeOK, Moves
  <1>2. RowInv'
    BY DEF IInv, RowInv, OpenTaskIsTheParkedOne, RunningInstanceCanAdvance,
           FailedInstanceCanBeRetried, ParkedOn
  <1>3. ASSUME NEW q \in Procs PROVE TxInv(q)'
    <2>1. CASE q = p
      BY <2>1
    <2>2. CASE q # p
      <3>1. pc'[q] = pc[q] /\ tx'[q] = tx[q]
        BY <2>2 DEF Moves, IInv, TypeOK
      <3>2. LeavesAlone(q)
        BY <2>2, <3>1, NullAssumption DEF LeavesAlone, Moves, OpenFor
      <3>3. QED BY <3>2, LeftAlone DEF IInv
    <2>3. QED BY <2>1, <2>2
  <1>4. QED BY <1>1, <1>2, <1>3 DEF IInv

LEMMA LocksMove ==
  ASSUME TypeOK, NEW p \in Procs
  PROVE  /\ \A i \in Instances : LockInstanceRow(p, i) =>
              ilock' \in [Instances -> Procs \cup {NoProc}] /\ ilock'[i] = p
         /\ \A t \in Tasks : LockTaskRow(p, t) =>
              tlock' \in [Tasks -> Procs \cup {NoProc}] /\ tlock'[t] = p
         /\ ReleaseAll(p) =>
              /\ ilock' \in [Instances -> Procs \cup {NoProc}]
              /\ tlock' \in [Tasks -> Procs \cup {NoProc}]
              /\ \A i \in Instances : ilock[i] # p => ilock'[i] = ilock[i]
              /\ \A t \in Tasks : tlock[t] # p => tlock'[t] = tlock[t]
  BY DEF TypeOK, LockInstanceRow, LockTaskRow, ReleaseAll

(* A process outside a transaction has nothing to keep.                    *)
LEMMA IdleTxInv ==
  ASSUME NEW p, pc[p] \in {"idle", "effects", "next", "answered"}
  PROVE  TxInv(p)
  BY DEF TxInv, AtLockTask, AtLockInstance, HoldsItsRows, Holding, AtRun,
         AtReadTasks, AtCloseTasks, AtCommit

LEMMA RollBackKeeps ==
  ASSUME IInv, NEW p \in Procs, RollBack(p), UNCHANGED <<scan, notices, now>>,
         faults' \in Nat
  PROVE  IInv'
  <1>1. /\ Finished(p) \in {"next", "answered"} /\ Finished(p) \in PcLabels
    BY DEF Finished, PcLabels
  <1>2. Moves(p, NoTx, Finished(p))
    BY LocksMove DEF RollBack, Put, Goto, Moves, IInv
  <1>3. pc'[p] \in {"next", "answered"}
    BY <1>1, <1>2 DEF Moves, IInv, TypeOK
  <1>4. TxInv(p)'
    BY <1>3 DEF TxInv, AtLockTask, AtLockInstance, HoldsItsRows, Holding, AtRun,
         AtReadTasks, AtCloseTasks, AtCommit
  <1>5. QED BY <1>1, <1>2, <1>4, NullTypes, OwnStep DEF RollBack, rows, IInv, TypeOK

-----------------------------------------------------------------------------
(* One lemma per action.                                                   *)

LEMMA StartKeeps ==
  ASSUME IInv, NEW p \in Procs, NEW i \in Instances, Start(p, i)
  PROVE  IInv'
  <1> DEFINE w == [BlankInstance EXCEPT !.status = "running", !.token = "active"]
             r == [NoTx EXCEPT !.op = "start", !.instance = i, !.work = w]
  <1>1. /\ r \in TxRow /\ r.op = "start" /\ r.instance = i /\ r.fresh = NoTask
        /\ r.closing = {} /\ r.work.status = "running" /\ r.work.token = "active"
    BY NullTypes DEF NoTx, TxRow, BlankInstance, InstanceRow, Ops
  <1> HIDE DEF r
  <1>2. Moves(p, r, "run") /\ ilock'[i] = p
    BY LocksMove DEF Start, r, Put, Goto, Moves, IInv, TypeOK, LockInstanceRow
  <1>3. pc'[p] = "run" /\ tx'[p] = r
    BY <1>2 DEF Moves, IInv, TypeOK
  <1>4. UNCHANGED <<inst, task, now, scan, notices, faults>> /\ inst[i].status = "none"
    BY DEF Start, rows, clock
  <1>5. \A t \in Tasks : ~OpenFor(t, i)
    BY <1>4 DEF IInv, RowInv, OpenTaskIsTheParkedOne, ParkedOn, OpenFor
  <1>6. TxInv(p)'
    BY <1>1, <1>2, <1>3, <1>4, <1>5, NullAssumption
       DEF TxInv, AtLockTask, AtLockInstance, HoldsItsRows, Holding, AtRun,
           AtReadTasks, AtCloseTasks, AtCommit, Covers, OpenFor
  <1>7. QED BY <1>1, <1>2, <1>4, <1>6, OwnStep DEF PcLabels, IInv, TypeOK

LEMMA CompleteKeeps ==
  ASSUME IInv, NEW p \in Procs, NEW t \in Tasks, NEW o \in Outcomes, Complete(p, t, o)
  PROVE  IInv'
  <1> DEFINE r == [NoTx EXCEPT !.op = "complete", !.task = t, !.outcome = o]
  <1>1. /\ r \in TxRow /\ r.op = "complete" /\ r.task = t /\ r.fresh = NoTask
        /\ r.closing = {}
    BY NullTypes DEF NoTx, TxRow, Ops
  <1> HIDE DEF r
  <1>2. Moves(p, r, "lockTask")
    BY DEF Complete, r, Put, Goto, Moves, IInv, TypeOK
  <1>3. pc'[p] = "lockTask" /\ tx'[p] = r
    BY <1>2 DEF Moves, IInv, TypeOK
  <1>4. UNCHANGED <<inst, task, now, scan, notices, faults>>
    BY DEF Complete, rows, clock
  <1>5. TxInv(p)'
    BY <1>1, <1>3
       DEF TxInv, AtLockTask, AtLockInstance, HoldsItsRows, Holding, AtRun,
           AtReadTasks, AtCloseTasks, AtCommit, Untouched
  <1>6. QED BY <1>1, <1>2, <1>4, <1>5, OwnStep DEF PcLabels, IInv, TypeOK

LEMMA CancelOrRetryKeeps ==
  ASSUME IInv, NEW p \in Procs, NEW i \in Instances, Cancel(p, i) \/ Retry(p, i)
  PROVE  IInv'
  <1>1. PICK o \in {"cancel", "retry"} :
          /\ Put(p, [NoTx EXCEPT !.op = o, !.instance = i])
          /\ Goto(p, "lockInstance")
          /\ UNCHANGED <<rows, ilock, tlock, scan, notices, clock>>
    BY DEF Cancel, Retry
  <1> DEFINE r == [NoTx EXCEPT !.op = o, !.instance = i]
  <1>2. /\ r \in TxRow /\ r.op = o /\ r.instance = i /\ r.fresh = NoTask
        /\ r.closing = {}
    BY NullTypes DEF NoTx, TxRow, Ops
  <1> HIDE DEF r
  <1>3. Moves(p, r, "lockInstance")
    BY <1>1 DEF r, Put, Goto, Moves, IInv, TypeOK
  <1>4. pc'[p] = "lockInstance" /\ tx'[p] = r
    BY <1>3 DEF Moves, IInv, TypeOK
  <1>5. TxInv(p)'
    BY <1>2, <1>4
       DEF TxInv, AtLockTask, AtLockInstance, HoldsItsRows, Holding, AtRun,
           AtReadTasks, AtCloseTasks, AtCommit, Untouched
  <1>6. QED BY <1>1, <1>2, <1>3, <1>5, OwnStep DEF PcLabels, IInv, TypeOK, rows, clock

LEMMA CompleteLockTaskKeeps ==
  ASSUME IInv, NEW p \in Procs, CompleteLockTask(p)
  PROVE  IInv'
  <1> DEFINE t == tx[p].task
             r == [tx[p] EXCEPT !.instance = task[t].instance]
  <1>0. /\ tx[p] \in TxRow /\ tx[p].op = "complete" /\ t \in Tasks /\ Untouched(p)
        /\ task[t] \in TaskRow /\ tlock[t] = NoProc
    BY DEF IInv, TypeOK, TxInv, AtLockTask, CompleteLockTask
  <1>1. CASE RollBack(p)
    BY <1>1, RollBackKeeps DEF CompleteLockTask, clock, IInv, TypeOK
  <1>2. CASE ~RollBack(p)
    <2>1. /\ CompletionAllowed(t, tx[p].outcome) /\ LockTaskRow(p, t)
          /\ Put(p, r) /\ Goto(p, "lockInstance")
          /\ UNCHANGED <<rows, ilock, scan, notices, clock>>
      BY <1>2 DEF CompleteLockTask
    <2>2. /\ r \in TxRow /\ r.op = "complete" /\ r.task = t
          /\ r.instance = task[t].instance /\ r.fresh = NoTask /\ r.closing = {}
      BY <1>0 DEF TxRow, TaskRow, Untouched
    <2>3. task[t].status = "open" /\ task[t].instance \in Instances
      BY <1>0, <2>1 DEF CompletionAllowed, IInv, RowInv, OpenTaskIsTheParkedOne, ParkedOn
    <2> HIDE DEF r, t
    <2>4. Moves(p, r, "lockInstance") /\ tlock'[t] = p
      BY <1>0, <2>1 DEF Put, Goto, Moves, IInv, TypeOK, LockTaskRow
    <2>5. pc'[p] = "lockInstance" /\ tx'[p] = r
      BY <2>4 DEF Moves, IInv, TypeOK
    <2>6. TxInv(p)'
      BY <1>0, <2>1, <2>2, <2>3, <2>4, <2>5
         DEF TxInv, AtLockTask, AtLockInstance, HoldsItsRows, Holding, AtRun, rows,
             AtReadTasks, AtCloseTasks, AtCommit, Untouched, HasTask
    <2>7. QED BY <2>1, <2>2, <2>4, <2>6, OwnStep DEF PcLabels, IInv, TypeOK, rows, clock
  <1>3. QED BY <1>1, <1>2

LEMMA CompleteLockInstanceKeeps ==
  ASSUME IInv, NEW p \in Procs, CompleteLockInstance(p)
  PROVE  IInv'
  <1> DEFINE x == tx[p]  t == x.task  i == x.instance
  <1>0. /\ x \in TxRow /\ x.op = "complete" /\ i \in Instances /\ inst[i] \in InstanceRow
        /\ Untouched(p) /\ HasTask(p) /\ OpenFor(t, i) /\ ilock[i] = NoProc
    BY DEF IInv, TypeOK, TxInv, AtLockInstance, CompleteLockInstance, OpenFor, HasTask
  <1>1. CASE RollBack(p)
    BY <1>1, RollBackKeeps DEF CompleteLockInstance, clock, IInv, TypeOK
  <1>2. CASE ~RollBack(p)
    <2>1. PICK e \in PickEdge(task[t].node, x.outcome) :
            /\ inst[i].status = "running" /\ LockInstanceRow(p, i)
            /\ Put(p, [x EXCEPT !.work = Follow(inst[i], e), !.closing = {t},
                         !.effects = <<[kind |-> "closed", task |-> t]>>])
            /\ Goto(p, "run")
            /\ UNCHANGED <<rows, tlock, scan, notices, clock>>
      BY <1>2 DEF CompleteLockInstance
    <2> DEFINE r == [x EXCEPT !.work = Follow(inst[i], e), !.closing = {t},
                         !.effects = <<[kind |-> "closed", task |-> t]>>]
    <2>2. Follow(inst[i], e) \in InstanceRow
      BY <1>0, PickEdgeType, FollowType
    <2>3. Follow(inst[i], e).status = "running" /\ Follow(inst[i], e).token = "active"
      BY <1>0, <2>1 DEF Follow, InstanceRow
    <2>4. <<[kind |-> "closed", task |-> t]>> \in Seq(Effect)
      BY <1>0 DEF Effect, HasTask
    <2>5. /\ r \in TxRow /\ r.op = "complete" /\ r.instance = i /\ r.fresh = NoTask
          /\ r.closing = {t} /\ r.work.status = "running" /\ r.work.token = "active"
      BY <1>0, <2>2, <2>3, <2>4 DEF TxRow, Untouched, HasTask
    <2>6. \A u \in Tasks : OpenFor(u, i) => u = t
      BY <1>0, NullAssumption
         DEF OpenFor, IInv, RowInv, OpenTaskIsTheParkedOne, ParkedOn, HasTask
    <2> HIDE DEF r, t, i, x
    <2>7. Moves(p, r, "run") /\ ilock'[i] = p
      BY <1>0, <2>1 DEF r, Put, Goto, Moves, IInv, TypeOK, LockInstanceRow
    <2>8. pc'[p] = "run" /\ tx'[p] = r
      BY <2>7 DEF Moves, IInv, TypeOK
    <2>9. UNCHANGED <<inst, task, tlock, now, scan, notices, faults>>
      BY <2>1 DEF rows, clock
    <2>10. tlock[t] = p
      BY <1>0 DEF HasTask, x, t
    <2>11. TxInv(p)'
      BY <1>0, <2>5, <2>6, <2>7, <2>8, <2>9, <2>10, NullAssumption
         DEF TxInv, AtLockTask, AtLockInstance, HoldsItsRows, Holding, AtRun, Covers,
             AtReadTasks, AtCloseTasks, AtCommit, OpenFor
    <2>12. QED BY <2>5, <2>7, <2>9, <2>11, OwnStep DEF PcLabels, IInv, TypeOK
  <1>3. QED BY <1>1, <1>2

LEMMA RetryLockInstanceKeeps ==
  ASSUME IInv, NEW p \in Procs, RetryLockInstance(p)
  PROVE  IInv'
  <1> DEFINE x == tx[p]  i == x.instance
             r == [x EXCEPT !.work = [inst[i] EXCEPT !.status = "running"]]
  <1>0. /\ x \in TxRow /\ x.op = "retry" /\ i \in Instances /\ inst[i] \in InstanceRow
        /\ Untouched(p) /\ ilock[i] = NoProc
    BY DEF IInv, TypeOK, TxInv, AtLockInstance, RetryLockInstance
  <1>1. CASE RollBack(p)
    BY <1>1, RollBackKeeps DEF RetryLockInstance, clock, IInv, TypeOK
  <1>2. CASE ~RollBack(p)
    <2>1. /\ inst[i].status = "failed" /\ LockInstanceRow(p, i) /\ Put(p, r)
          /\ Goto(p, "run") /\ UNCHANGED <<rows, tlock, scan, notices, clock>>
      BY <1>2 DEF RetryLockInstance
    <2>2. inst[i].token = "active"
      BY <1>0, <2>1 DEF IInv, RowInv, FailedInstanceCanBeRetried
    <2>3. /\ r \in TxRow /\ r.op = "retry" /\ r.instance = i /\ r.fresh = NoTask
          /\ r.closing = {} /\ r.work.status = "running" /\ r.work.token = "active"
      BY <1>0, <2>2 DEF TxRow, Untouched, InstanceRow
    <2>4. \A u \in Tasks : ~OpenFor(u, i)
      BY <1>0, <2>1 DEF OpenFor, IInv, RowInv, OpenTaskIsTheParkedOne, ParkedOn
    <2> HIDE DEF r, i, x
    <2>5. Moves(p, r, "run") /\ ilock'[i] = p
      BY <1>0, <2>1 DEF Put, Goto, Moves, IInv, TypeOK, LockInstanceRow
    <2>6. pc'[p] = "run" /\ tx'[p] = r
      BY <2>5 DEF Moves, IInv, TypeOK
    <2>7. UNCHANGED <<inst, task, tlock, now, scan, notices, faults>>
      BY <2>1 DEF rows, clock
    <2>8. TxInv(p)'
      BY <1>0, <2>3, <2>4, <2>5, <2>6, <2>7, NullAssumption
         DEF TxInv, AtLockTask, AtLockInstance, HoldsItsRows, Holding, AtRun, Covers,
             AtReadTasks, AtCloseTasks, AtCommit, OpenFor
    <2>9. QED BY <2>3, <2>5, <2>7, <2>8, OwnStep DEF PcLabels, IInv, TypeOK
  <1>3. QED BY <1>1, <1>2

LEMMA CancelLockInstanceKeeps ==
  ASSUME IInv, NEW p \in Procs, CancelLockInstance(p)
  PROVE  IInv'
  <1> DEFINE x == tx[p]  i == x.instance
             w == [inst[i] EXCEPT !.status = "cancelled", !.token = "done",
                                  !.nextWakeAt = NoTime]
             r == [x EXCEPT !.work = w]
  <1>0. /\ x \in TxRow /\ x.op = "cancel" /\ i \in Instances /\ inst[i] \in InstanceRow
        /\ Untouched(p) /\ ilock[i] = NoProc
    BY DEF IInv, TypeOK, TxInv, AtLockInstance, CancelLockInstance
  <1>1. CASE RollBack(p)
    BY <1>1, RollBackKeeps DEF CancelLockInstance, clock, IInv, TypeOK
  <1>2. CASE ~RollBack(p)
    <2>1. /\ LockInstanceRow(p, i) /\ Put(p, r) /\ Goto(p, "readTasks")
          /\ UNCHANGED <<rows, tlock, scan, notices, clock>>
      BY <1>2 DEF CancelLockInstance
    <2>2. w \in InstanceRow /\ w.status = "cancelled" /\ w.nextWakeAt = NoTime
      BY <1>0 DEF InstanceRow, NoTime
    <2>3. /\ r \in TxRow /\ r.op = "cancel" /\ r.instance = i /\ r.fresh = NoTask
          /\ r.closing = {} /\ r.work = w
      BY <1>0, <2>2 DEF TxRow, Untouched
    <2> HIDE DEF r, w, i, x
    <2>4. Moves(p, r, "readTasks") /\ ilock'[i] = p
      BY <1>0, <2>1 DEF Put, Goto, Moves, IInv, TypeOK, LockInstanceRow
    <2>5. pc'[p] = "readTasks" /\ tx'[p] = r
      BY <2>4 DEF Moves, IInv, TypeOK
    <2>6. UNCHANGED <<inst, task, tlock, now, scan, notices, faults>>
      BY <2>1 DEF rows, clock
    <2>7. TxInv(p)'
      BY <1>0, <2>2, <2>3, <2>4, <2>5, <2>6, NullAssumption
         DEF TxInv, AtLockTask, AtLockInstance, HoldsItsRows, Holding, AtRun, Cancelling,
             AtReadTasks, AtCloseTasks, AtCommit
    <2>8. QED BY <2>3, <2>4, <2>6, <2>7, OwnStep DEF PcLabels, IInv, TypeOK
  <1>3. QED BY <1>1, <1>2

LEMMA CancelReadTasksKeeps ==
  ASSUME IInv, NEW p \in Procs, CancelReadTasks(p)
  PROVE  IInv'
  <1> DEFINE x == tx[p]  i == x.instance
             found == {t \in Tasks : task[t].status = "open" /\ task[t].instance = i}
             r == [x EXCEPT !.todo = found]
  <1>0. /\ x \in TxRow /\ HoldsItsRows(p) /\ Cancelling(p) /\ x.closing = {}
        /\ Holding(p) /\ pc[p] = "readTasks"
    BY DEF IInv, TypeOK, TxInv, AtReadTasks, CancelReadTasks, Holding, Cancelling
  <1>1. /\ r \in TxRow /\ r.op = "cancel" /\ r.instance = i /\ r.fresh = NoTask
        /\ r.closing = {} /\ r.work = x.work /\ r.todo = found
    BY <1>0 DEF TxRow, Cancelling
  <1>2. \A t \in Tasks : OpenFor(t, i) <=> t \in found
    BY DEF OpenFor
  <1>3. Put(p, r) /\ Goto(p, "closeTasks") /\ UNCHANGED <<rows, ilock, tlock, scan, notices, clock>>
    BY DEF CancelReadTasks
  <1> HIDE DEF r, found, i, x
  <1>4. Moves(p, r, "closeTasks")
    BY <1>3 DEF Put, Goto, Moves, IInv, TypeOK
  <1>5. pc'[p] = "closeTasks" /\ tx'[p] = r
    BY <1>4 DEF Moves, IInv, TypeOK
  <1>6. UNCHANGED <<inst, task, ilock, tlock, now, scan, notices, faults>>
    BY <1>3 DEF rows, clock
  <1>7. TxInv(p)'
    BY <1>0, <1>1, <1>2, <1>5, <1>6, NullAssumption
       DEF TxInv, AtLockTask, AtLockInstance, HoldsItsRows, Holding, AtRun, Cancelling,
           AtReadTasks, AtCloseTasks, AtCommit, OpenFor, x, i
  <1>8. QED BY <1>1, <1>4, <1>6, <1>7, OwnStep DEF PcLabels, IInv, TypeOK

LEMMA CancelTaskKeeps ==
  ASSUME IInv, NEW p \in Procs, NEW t \in Tasks, CancelTask(p, t)
  PROVE  IInv'
  <1> DEFINE x == tx[p]  i == x.instance
             r == [x EXCEPT !.todo = @ \ {t}, !.closing = @ \cup {t},
                    !.effects = Append(@, [kind |-> "closed", task |-> t])]
  <1>0. /\ x \in TxRow /\ HoldsItsRows(p) /\ AtCloseTasks(p) /\ Cancelling(p)
        /\ Holding(p) /\ pc[p] = "closeTasks" /\ t \in x.todo /\ tlock[t] = NoProc
    BY DEF IInv, TypeOK, TxInv, AtCloseTasks, CancelTask, Holding, Cancelling
  <1>1. Append(x.effects, [kind |-> "closed", task |-> t]) \in Seq(Effect)
    BY <1>0 DEF TxRow, Effect
  <1>2. /\ r \in TxRow /\ r.op = "cancel" /\ r.instance = i /\ r.fresh = NoTask
        /\ r.closing = x.closing \cup {t} /\ r.work = x.work /\ r.todo = x.todo \ {t}
    BY <1>0, <1>1 DEF TxRow, Cancelling
  <1>3. Put(p, r) /\ LockTaskRow(p, t) /\ UNCHANGED <<rows, ilock, pc, scan, notices, clock>>
    BY DEF CancelTask
  <1> HIDE DEF r, i, x
  <1>4. Moves(p, r, "closeTasks") /\ tlock' = [tlock EXCEPT ![t] = p]
    BY <1>0, <1>3 DEF Put, Moves, IInv, TypeOK, LockTaskRow
  <1>5. pc'[p] = "closeTasks" /\ tx'[p] = r
    BY <1>4 DEF Moves, IInv, TypeOK
  <1>6. UNCHANGED <<inst, task, ilock, now, scan, notices, faults>>
    BY <1>3 DEF rows, clock
  <1>7. TxInv(p)'
    BY <1>0, <1>2, <1>4, <1>5, <1>6, NullAssumption
       DEF TxInv, AtLockTask, AtLockInstance, HoldsItsRows, Holding, AtRun, Cancelling,
           AtReadTasks, AtCloseTasks, AtCommit, OpenFor, x, i, IInv, TypeOK
  <1>8. QED BY <1>2, <1>4, <1>6, <1>7, OwnStep DEF PcLabels, IInv, TypeOK

LEMMA CancelTasksClosedKeeps ==
  ASSUME IInv, NEW p \in Procs, CancelTasksClosed(p)
  PROVE  IInv'
  <1>0. /\ tx[p] \in TxRow /\ HoldsItsRows(p) /\ AtCloseTasks(p) /\ Cancelling(p)
        /\ Holding(p) /\ pc[p] = "closeTasks" /\ tx[p].todo = {}
    BY DEF IInv, TypeOK, TxInv, AtCloseTasks, CancelTasksClosed, Holding, Cancelling
  <1>1. /\ Goto(p, "commit")
        /\ UNCHANGED <<inst, task, ilock, tlock, tx, now, scan, notices, faults>>
    BY DEF CancelTasksClosed, rows, clock
  <1>2. Moves(p, tx[p], "commit")
    BY <1>1 DEF Goto, Moves, IInv, TypeOK
  <1>3. pc'[p] = "commit"
    BY <1>1 DEF Goto, IInv, TypeOK
  <1>4. WritesEnded(p)
    BY <1>0 DEF WritesEnded, Covers, AtCloseTasks, Cancelling
  <1>5. TxInv(p)'
    BY <1>0, <1>1, <1>3, <1>4
       DEF TxInv, AtLockTask, AtLockInstance, HoldsItsRows, Holding, AtRun, Cancelling,
           AtReadTasks, AtCloseTasks, AtCommit, WritesEnded, Covers, OpenFor
  <1>6. QED BY <1>0, <1>1, <1>2, <1>5, OwnStep DEF PcLabels, IInv, TypeOK

(* A step of the run loop that inserts no task.                            *)
LEMMA RunStepKeeps ==
  ASSUME IInv, NEW p \in Procs, Running(p), NEW w \in InstanceRow,
         Step(p, w), UNCHANGED tlock, w.status = tx[p].work.status,
         w.token # "task", w.token = "timer" => w.wakeAt # NoTime
  PROVE  IInv'
  <1> DEFINE x == tx[p]
             r == [x EXCEPT !.work = w, !.steps = @ + 1]
  <1>0. /\ x \in TxRow /\ HoldsItsRows(p) /\ AtRun(p) /\ Holding(p) /\ pc[p] = "run"
        /\ x.fresh = NoTask
    BY DEF IInv, TypeOK, TxInv, AtRun, Running, Holding, TxRow
  <1>s. x.steps + 1 \in Nat
    BY <1>0 DEF TxRow
  <1>1. /\ r \in TxRow /\ r.op = x.op /\ r.instance = x.instance /\ r.fresh = NoTask
        /\ r.closing = x.closing /\ r.work = w
    BY <1>0, <1>s DEF TxRow
  <1>2. Put(p, r) /\ UNCHANGED <<inst, task, ilock, tlock, pc, now, scan, notices, faults>>
    BY DEF Step, rows, clock
  <1> HIDE DEF r, x
  <1>3. Moves(p, r, "run")
    BY <1>0, <1>2 DEF Put, Moves, IInv, TypeOK
  <1>4. pc'[p] = "run" /\ tx'[p] = r
    BY <1>3 DEF Moves, IInv, TypeOK
  <1>5. TxInv(p)'
    BY <1>0, <1>1, <1>2, <1>4, NullAssumption
       DEF TxInv, AtLockTask, AtLockInstance, HoldsItsRows, Holding, AtRun, Covers,
           AtReadTasks, AtCloseTasks, AtCommit, OpenFor, x
  <1>6. QED BY <1>1, <1>2, <1>3, <1>5, OwnStep DEF PcLabels, IInv, TypeOK

LEMMA FollowKeeps ==
  ASSUME IInv, NEW p \in Procs, Running(p), NEW e \in Edges,
         Step(p, Follow(tx[p].work, e)), UNCHANGED tlock
  PROVE  IInv'
  <1> DEFINE w == Follow(tx[p].work, e)
  <1>0. tx[p].work \in InstanceRow
    BY DEF IInv, TypeOK, TxRow
  <1>1. w \in InstanceRow /\ w.status = tx[p].work.status /\ w.token = "active"
    BY <1>0, FollowType DEF Follow, InstanceRow
  <1>2. QED BY <1>1, RunStepKeeps

LEMMA StepsKeep ==
  ASSUME IInv, NEW p \in Procs,
         StepStart(p) \/ StepAction(p) \/ StepCondition(p) \/ StepEnd(p) \/ StepTimer(p)
  PROVE  IInv'
  <1>0. /\ Running(p) /\ UNCHANGED tlock /\ tx[p].work \in InstanceRow
        /\ now \in Nat /\ now # 0
    BY DEF StepStart, StepAction, StepCondition, StepEnd, StepTimer, MayStep,
           IInv, TypeOK, TxRow, NoTime
  <1>1. CASE StepStart(p)
    BY <1>0, <1>1, PickEdgeType, FollowKeeps DEF StepStart
  <1>2. CASE StepAction(p)
    BY <1>0, <1>2, PickEdgeType, FollowKeeps DEF StepAction
  <1>3. CASE StepCondition(p)
    BY <1>0, <1>3, FollowKeeps DEF StepCondition, BranchEdges, EdgesFrom
  <1>4. CASE StepEnd(p)
    <2> DEFINE w == [tx[p].work EXCEPT !.token = "done"]
    <2>1. w \in InstanceRow /\ w.status = tx[p].work.status /\ w.token = "done"
      BY <1>0 DEF InstanceRow
    <2>2. Step(p, w)
      BY <1>4 DEF StepEnd
    <2>3. QED BY <1>0, <2>1, <2>2, RunStepKeeps
  <1>5. CASE StepTimer(p)
    <2>1. PICK d \in Delays :
            Step(p, [tx[p].work EXCEPT !.token = "timer", !.wakeAt = now + d])
      BY <1>5 DEF StepTimer
    <2> DEFINE w == [tx[p].work EXCEPT !.token = "timer", !.wakeAt = now + d]
    <2>2. now + d \in Nat /\ now + d # NoTime
      BY <1>0, BoundAssumption DEF NoTime
    <2>3. /\ w \in InstanceRow /\ w.status = tx[p].work.status /\ w.token = "timer"
          /\ w.wakeAt # NoTime
      BY <1>0, <2>2 DEF InstanceRow
    <2>4. QED BY <1>0, <2>1, <2>3, RunStepKeeps
  <1>6. QED BY <1>1, <1>2, <1>3, <1>4, <1>5

LEMMA StepTaskKeeps ==
  ASSUME IInv, NEW p \in Procs, NEW t \in Tasks, StepTask(p, t)
  PROVE  IInv'
  <1> DEFINE x == tx[p]
             w == [x.work EXCEPT !.token = "task"]
             r == [x EXCEPT !.work = [@ EXCEPT !.token = "task"], !.fresh = t,
                     !.steps = @ + 1,
                     !.effects = Append(@, [kind |-> "created", task |-> t])]
  <1>0. /\ x \in TxRow /\ HoldsItsRows(p) /\ AtRun(p) /\ Holding(p) /\ pc[p] = "run"
        /\ x.work \in InstanceRow /\ task[t].status = "none" /\ tlock[t] = NoProc
    BY DEF IInv, TypeOK, TxInv, AtRun, StepTask, MayStep, Running, Holding, TxRow
  <1>1. w \in InstanceRow /\ w.status = x.work.status /\ w.token = "task"
    BY <1>0 DEF InstanceRow
  <1>s. x.steps + 1 \in Nat
    BY <1>0 DEF TxRow
  <1>2. Append(x.effects, [kind |-> "created", task |-> t]) \in Seq(Effect)
    BY <1>0 DEF TxRow, Effect
  <1>3. /\ r \in TxRow /\ r.op = x.op /\ r.instance = x.instance /\ r.fresh = t
        /\ r.closing = x.closing /\ r.work = w
    BY <1>0, <1>1, <1>2, <1>s DEF TxRow
  <1>4. /\ Put(p, r) /\ LockTaskRow(p, t)
        /\ UNCHANGED <<inst, task, ilock, pc, now, scan, notices, faults>>
    BY DEF StepTask, rows, clock
  <1> HIDE DEF r, w, x
  <1>5. Moves(p, r, "run") /\ tlock' = [tlock EXCEPT ![t] = p]
    BY <1>0, <1>4 DEF Put, Moves, IInv, TypeOK, LockTaskRow
  <1>6. pc'[p] = "run" /\ tx'[p] = r
    BY <1>5 DEF Moves, IInv, TypeOK
  <1>7. TxInv(p)'
    BY <1>0, <1>1, <1>3, <1>4, <1>5, <1>6, NullAssumption
       DEF TxInv, AtLockTask, AtLockInstance, HoldsItsRows, Holding, AtRun, Covers,
           AtReadTasks, AtCloseTasks, AtCommit, OpenFor, x, IInv, TypeOK
  <1>8. QED BY <1>3, <1>4, <1>5, <1>7, OwnStep DEF PcLabels, IInv, TypeOK

LEMMA RunFailsKeeps ==
  ASSUME IInv, NEW p \in Procs, RunFails(p)
  PROVE  IInv'
  <1> DEFINE x == tx[p]
             w == [x.work EXCEPT !.status = "failed", !.nextWakeAt = NoTime]
             r == [x EXCEPT !.work = [@ EXCEPT !.status = "failed",
                                               !.nextWakeAt = NoTime]]
  <1>0. /\ x \in TxRow /\ HoldsItsRows(p) /\ AtRun(p) /\ Holding(p) /\ pc[p] = "run"
        /\ x.work \in InstanceRow /\ x.work.token = "active" /\ x.fresh = NoTask
    BY DEF IInv, TypeOK, TxInv, AtRun, RunFails, Running, Holding, TxRow
  <1>1. /\ w \in InstanceRow /\ w.status = "failed" /\ w.token = "active"
        /\ w.nextWakeAt = NoTime
    BY <1>0 DEF InstanceRow, NoTime
  <1>2. /\ r \in TxRow /\ r.op = x.op /\ r.instance = x.instance /\ r.fresh = NoTask
        /\ r.closing = x.closing /\ r.work = w
    BY <1>0, <1>1 DEF TxRow
  <1>3. /\ Put(p, r) /\ Goto(p, "commit")
        /\ UNCHANGED <<inst, task, ilock, tlock, now, scan, notices, faults>>
    BY DEF RunFails, rows, clock
  <1> HIDE DEF r, w, x
  <1>4. Moves(p, r, "commit")
    BY <1>0, <1>3 DEF Put, Goto, Moves, IInv, TypeOK
  <1>5. pc'[p] = "commit" /\ tx'[p] = r
    BY <1>4 DEF Moves, IInv, TypeOK
  <1>6. TxInv(p)'
    BY <1>0, <1>1, <1>2, <1>3, <1>5, NullAssumption
       DEF TxInv, AtLockTask, AtLockInstance, HoldsItsRows, Holding, AtRun, Covers,
           AtReadTasks, AtCloseTasks, AtCommit, OpenFor, WritesEnded, x
  <1>7. QED BY <1>2, <1>3, <1>4, <1>6, OwnStep DEF PcLabels, IInv, TypeOK

LEMMA RunParksKeeps ==
  ASSUME IInv, NEW p \in Procs, RunParks(p)
  PROVE  IInv'
  <1> DEFINE x == tx[p]
             w == MaybeComplete(RecomputeWake(x.work))
             r == [x EXCEPT !.work = MaybeComplete(RecomputeWake(@))]
  <1>0. /\ x \in TxRow /\ HoldsItsRows(p) /\ AtRun(p) /\ Holding(p) /\ pc[p] = "run"
        /\ x.work \in InstanceRow /\ x.work.token # "active"
        /\ x.work.status = "running"
    BY DEF IInv, TypeOK, TxInv, AtRun, RunParks, Running, Holding, TxRow
  <1>1. /\ w \in InstanceRow /\ w.token = x.work.token
        /\ w.status = IF w.token = "done" THEN "completed" ELSE "running"
        /\ w.nextWakeAt = IF w.token = "timer" THEN x.work.wakeAt ELSE NoTime
        /\ w.wakeAt = x.work.wakeAt
    BY <1>0, RecomputeType DEF RecomputeWake, MaybeComplete, InstanceRow
  <1>2. /\ r \in TxRow /\ r.op = x.op /\ r.instance = x.instance /\ r.fresh = x.fresh
        /\ r.closing = x.closing /\ r.work = w
    BY <1>0, <1>1 DEF TxRow
  <1>3. /\ Put(p, r) /\ Goto(p, "commit")
        /\ UNCHANGED <<inst, task, ilock, tlock, now, scan, notices, faults>>
    BY DEF RunParks, rows, clock
  <1>4. w.token \in {"task", "timer", "done"}
    BY <1>0, <1>1 DEF InstanceRow
  <1>5. x.fresh \in Tasks \cup {NoTask}
    BY <1>0 DEF TxRow
  <1> HIDE DEF r, w, x
  <1>6. Moves(p, r, "commit")
    BY <1>0, <1>3 DEF Put, Goto, Moves, IInv, TypeOK
  <1>7. pc'[p] = "commit" /\ tx'[p] = r
    BY <1>6 DEF Moves, IInv, TypeOK
  <1>8. (WritesParked(p) \/ WritesEnded(p))'
    BY <1>0, <1>1, <1>2, <1>3, <1>4, <1>5, <1>7, NullAssumption
       DEF AtRun, Covers, OpenFor, WritesParked, WritesEnded, x
  <1>9. TxInv(p)'
    BY <1>0, <1>2, <1>3, <1>7, <1>8, NullAssumption
       DEF TxInv, AtLockTask, AtLockInstance, HoldsItsRows, Holding, AtRun,
           AtReadTasks, AtCloseTasks, AtCommit, OpenFor, x
  <1>10. QED BY <1>2, <1>3, <1>6, <1>9, OwnStep DEF PcLabels, IInv, TypeOK

LEMMA EffectsKeep ==
  ASSUME IInv, NEW p \in Procs, RunEffect(p) \/ EffectsDone(p)
  PROVE  IInv'
  <1>0. tx[p] \in TxRow /\ pc[p] = "effects"
    BY DEF IInv, TypeOK, RunEffect, EffectsDone
  <1>1. CASE RunEffect(p)
    <2> DEFINE e == Head(tx[p].effects)
               rest == Tail(tx[p].effects)
               r == [tx[p] EXCEPT !.effects = Tail(@)]
    <2>1. e \in Effect /\ rest \in Seq(Effect)
      BY <1>0, <1>1 DEF RunEffect, TxRow
    <2>2. r \in TxRow
      BY <1>0, <2>1 DEF TxRow
    <2>3. e.task \in Tasks
      BY <2>1 DEF Effect
    <2>4. notices' \subseteq Tasks
      BY <1>1, <2>3 DEF RunEffect, IInv, TypeOK
    <2>5. Put(p, r) /\ UNCHANGED <<inst, task, ilock, tlock, pc, now, scan, faults>>
      BY <1>1 DEF RunEffect, rows, clock
    <2> HIDE DEF r, e, rest
    <2>6. Moves(p, r, "effects") /\ pc'[p] = "effects"
      BY <1>0, <2>5 DEF Put, Moves, IInv, TypeOK
    <2>7. TxInv(p)'
      BY <2>6 DEF TxInv, AtLockTask, AtLockInstance, HoldsItsRows, Holding, AtRun,
                  AtReadTasks, AtCloseTasks, AtCommit
    <2>8. QED BY <2>2, <2>4, <2>5, <2>6, <2>7, OwnStep DEF PcLabels, IInv, TypeOK
  <1>2. CASE EffectsDone(p)
    <2>1. /\ Finished(p) \in {"next", "answered"} /\ Finished(p) \in PcLabels
      BY DEF Finished, PcLabels
    <2>2. /\ Put(p, NoTx) /\ Goto(p, Finished(p))
          /\ UNCHANGED <<inst, task, ilock, tlock, now, scan, notices, faults>>
      BY <1>2 DEF EffectsDone, rows, clock
    <2>3. Moves(p, NoTx, Finished(p)) /\ pc'[p] \in {"next", "answered"}
      BY <2>1, <2>2 DEF Put, Goto, Moves, IInv, TypeOK
    <2>4. TxInv(p)'
      BY <2>3 DEF TxInv, AtLockTask, AtLockInstance, HoldsItsRows, Holding, AtRun,
                  AtReadTasks, AtCloseTasks, AtCommit
    <2>5. QED BY <2>1, <2>2, <2>3, <2>4, NullTypes, OwnStep DEF IInv, TypeOK
  <1>3. QED BY <1>1, <1>2

LEMMA LoseKeeps ==
  ASSUME IInv, NEW p \in Procs, Lose(p)
  PROVE  IInv'
  <1>0. faults' \in Nat /\ UNCHANGED <<scan, notices, now>>
    BY DEF Lose, IInv, TypeOK
  <1>1. CASE RollBack(p)
    BY <1>0, <1>1, RollBackKeeps
  <1>2. CASE ~RollBack(p)
    <2>1. /\ Finished(p) \in {"next", "answered"} /\ Finished(p) \in PcLabels
      BY DEF Finished, PcLabels
    <2>2. /\ Put(p, NoTx) /\ Goto(p, Finished(p))
          /\ UNCHANGED <<inst, task, ilock, tlock>>
      BY <1>2 DEF Lose, rows
    <2>3. Moves(p, NoTx, Finished(p)) /\ pc'[p] \in {"next", "answered"}
      BY <2>1, <2>2 DEF Put, Goto, Moves, IInv, TypeOK
    <2>4. TxInv(p)'
      BY <2>3 DEF TxInv, AtLockTask, AtLockInstance, HoldsItsRows, Holding, AtRun,
                  AtReadTasks, AtCloseTasks, AtCommit
    <2>5. QED BY <1>0, <2>1, <2>2, <2>3, <2>4, NullTypes, OwnStep DEF IInv, TypeOK
  <1>3. QED BY <1>1, <1>2

-----------------------------------------------------------------------------
(* The sweeps.                                                             *)

(* A step of a sweep that opens no transaction: it writes only its scan.   *)
LEMMA ScanKeeps ==
  ASSUME IInv, NEW s \in Procs, pc[s] \in {"idle", "next"},
         NEW l \in {"idle", "next"}, pc' = [pc EXCEPT ![s] = l],
         scan' \in [Procs -> ScanRow],
         UNCHANGED <<inst, task, ilock, tlock, tx, notices, now, faults>>
  PROVE  IInv'
  <1>1. Moves(s, tx[s], l) /\ pc'[s] \in {"idle", "next"} /\ tx[s] \in TxRow
    BY DEF Moves, IInv, TypeOK
  <1>2. TxInv(s)'
    BY <1>1 DEF TxInv, AtLockTask, AtLockInstance, HoldsItsRows, Holding, AtRun,
                AtReadTasks, AtCloseTasks, AtCommit
  <1>3. QED BY <1>1, <1>2, OwnStep DEF PcLabels, IInv, TypeOK

LEMMA ScansKeep ==
  ASSUME IInv, NEW s \in Procs, ScanTimers(s) \/ ScanOverdue(s) \/ SweepEnds(s)
  PROVE  IInv'
  <1>0. scan[s] \in ScanRow /\ now \in Nat /\ scan \in [Procs -> ScanRow]
    BY DEF IInv, TypeOK
  <1>1. CASE ScanTimers(s)
    <2>1. scan' \in [Procs -> ScanRow]
      <3>1. PICK found \in SUBSET Instances :
              scan' = [scan EXCEPT ![s] = [@ EXCEPT !.due = found, !.asOf = now]]
        BY <1>1 DEF ScanTimers
      <3>2. [scan[s] EXCEPT !.due = found, !.asOf = now] \in ScanRow
        BY <1>0 DEF ScanRow
      <3>3. QED BY <1>0, <3>1, <3>2
    <2>2. QED BY <1>1, <2>1, ScanKeeps DEF ScanTimers, Goto, rows, clock
  <1>2. CASE ScanOverdue(s)
    <2>1. scan' \in [Procs -> ScanRow]
      <3>1. PICK found \in SUBSET Tasks :
              scan' = [scan EXCEPT ![s] = [@ EXCEPT !.late = found]]
        BY <1>2 DEF ScanOverdue
      <3>2. [scan[s] EXCEPT !.late = found] \in ScanRow
        BY <1>0 DEF ScanRow
      <3>3. QED BY <1>0, <3>1, <3>2
    <2>2. QED BY <1>2, <2>1, ScanKeeps DEF ScanOverdue, Goto, rows, clock
  <1>3. CASE SweepEnds(s)
    BY <1>0, <1>3, ScanKeeps DEF SweepEnds, Goto, rows, clock
  <1>4. QED BY <1>1, <1>2, <1>3

LEMMA VisitTypes ==
  ASSUME IInv, NEW s \in Procs
  PROVE  /\ \A i \in Instances : Visit(s, i) => scan' \in [Procs -> ScanRow]
         /\ \A t \in Tasks : VisitTask(s, t) => scan' \in [Procs -> ScanRow]
  <1>0. scan[s] \in ScanRow /\ scan \in [Procs -> ScanRow]
    BY DEF IInv, TypeOK
  <1>1. ASSUME NEW i \in Instances, Visit(s, i) PROVE scan' \in [Procs -> ScanRow]
    <2>1. [scan[s] EXCEPT !.due = @ \ {i}] \in ScanRow
      BY <1>0 DEF ScanRow
    <2>2. scan' = [scan EXCEPT ![s] = [scan[s] EXCEPT !.due = @ \ {i}]]
      BY <1>0, <1>1 DEF Visit
    <2>3. QED BY <1>0, <2>1, <2>2
  <1>2. ASSUME NEW t \in Tasks, VisitTask(s, t) PROVE scan' \in [Procs -> ScanRow]
    <2>1. [scan[s] EXCEPT !.late = @ \ {t}] \in ScanRow
      BY <1>0 DEF ScanRow
    <2>2. scan' = [scan EXCEPT ![s] = [scan[s] EXCEPT !.late = @ \ {t}]]
      BY <1>0, <1>2 DEF VisitTask
    <2>3. QED BY <1>0, <2>1, <2>2
  <1>3. QED BY <1>1, <1>2

LEMMA SkipsKeep ==
  ASSUME IInv, NEW s \in Procs,
         \/ \E i \in Instances : SweepSkips(s, i)
         \/ \E t \in Tasks : EscalationSkips(s, t)
  PROVE  IInv'
  <1>1. /\ scan' \in [Procs -> ScanRow] /\ pc[s] = "next"
        /\ UNCHANGED <<inst, task, ilock, tlock, pc, tx, notices, now, faults>>
    BY VisitTypes DEF SweepSkips, EscalationSkips, Visit, VisitTask, rows, clock
  <1>2. pc' = [pc EXCEPT ![s] = "next"]
    BY <1>1 DEF IInv, TypeOK
  <1>3. QED BY <1>1, <1>2, ScanKeeps

LEMMA SweepWakesKeeps ==
  ASSUME IInv, NEW s \in Procs, NEW i \in Instances, SweepWakes(s, i)
  PROVE  IInv'
  <1>0. inst[i] \in InstanceRow /\ ilock[i] = NoProc
    BY DEF IInv, TypeOK, SweepWakes
  <1>1. PICK e \in PickEdge(inst[i].node, NoOutcome) :
          Put(s, [NoTx EXCEPT !.op = "sweep", !.instance = i,
                    !.work = Follow(inst[i], e)])
    BY DEF SweepWakes
  <1> DEFINE w == Follow(inst[i], e)
             r == [NoTx EXCEPT !.op = "sweep", !.instance = i, !.work = Follow(inst[i], e)]
  <1>2. w \in InstanceRow /\ w.status = "running" /\ w.token = "active"
    BY <1>0, PickEdgeType, FollowType DEF Follow, InstanceRow, SweepWakes
  <1> HIDE DEF w
  <1>3. /\ r \in TxRow /\ r.op = "sweep" /\ r.instance = i /\ r.fresh = NoTask
        /\ r.closing = {} /\ r.work = w
    BY <1>2, NullTypes DEF NoTx, TxRow, Ops, w
  <1>4. \A u \in Tasks : ~OpenFor(u, i)
    BY <1>0 DEF OpenFor, IInv, RowInv, OpenTaskIsTheParkedOne, ParkedOn, SweepWakes, TimerDue
  <1>5. /\ Put(s, r) /\ Goto(s, "run") /\ LockInstanceRow(s, i)
        /\ UNCHANGED <<inst, task, tlock, notices, now, faults>>
    BY <1>1 DEF SweepWakes, rows, clock
  <1>6. scan' \in [Procs -> ScanRow]
    BY VisitTypes DEF SweepWakes
  <1> HIDE DEF r
  <1>7. Moves(s, r, "run") /\ ilock'[i] = s /\ pc'[s] = "run" /\ tx'[s] = r
    BY <1>0, <1>5 DEF Put, Goto, Moves, IInv, TypeOK, LockInstanceRow
  <1>8. TxInv(s)'
    BY <1>2, <1>3, <1>4, <1>5, <1>7, NullAssumption
       DEF TxInv, AtLockTask, AtLockInstance, HoldsItsRows, Holding, AtRun, Covers,
           AtReadTasks, AtCloseTasks, AtCommit, OpenFor
  <1>9. QED BY <1>3, <1>5, <1>6, <1>7, <1>8, OwnStep DEF PcLabels, IInv, TypeOK

LEMMA SweepCorrectsKeeps ==
  ASSUME IInv, NEW s \in Procs, NEW i \in Instances, SweepCorrects(s, i)
  PROVE  IInv'
  <1> DEFINE w == RecomputeWake(inst[i])
             r == [NoTx EXCEPT !.op = "sweep", !.instance = i, !.work = RecomputeWake(inst[i])]
  <1>0. inst[i] \in InstanceRow /\ ilock[i] = NoProc /\ inst[i].status = "running"
    BY DEF IInv, TypeOK, SweepCorrects
  <1>1. w \in InstanceRow
    BY <1>0, RecomputeType
  <1>2. /\ w.status = "running" /\ w.node = inst[i].node /\ w.token = inst[i].token
        /\ w.token = "timer" => w.nextWakeAt = w.wakeAt /\ w.nextWakeAt # NoTime
    BY <1>0 DEF RecomputeWake, InstanceRow, IInv, RowInv, RunningInstanceCanAdvance, ParkedOn
  <1> HIDE DEF w
  <1>3. /\ r \in TxRow /\ r.op = "sweep" /\ r.instance = i /\ r.fresh = NoTask
        /\ r.closing = {} /\ r.work = w
    BY <1>1, NullTypes DEF NoTx, TxRow, Ops, w
  <1>4. /\ Put(s, r) /\ Goto(s, "commit") /\ LockInstanceRow(s, i)
        /\ UNCHANGED <<inst, task, tlock, notices, now, faults>>
    BY DEF SweepCorrects, rows, clock
  <1>5. scan' \in [Procs -> ScanRow]
    BY VisitTypes DEF SweepCorrects
  <1> HIDE DEF r
  <1>6. Moves(s, r, "commit") /\ ilock'[i] = s /\ pc'[s] = "commit" /\ tx'[s] = r
    BY <1>0, <1>4 DEF Put, Goto, Moves, IInv, TypeOK, LockInstanceRow
  <1>7. WritesBack(s)'
    BY <1>0, <1>2, <1>3, <1>4, <1>6 DEF WritesBack, Untouched
  <1>8. TxInv(s)'
    BY <1>2, <1>3, <1>4, <1>6, <1>7, NullAssumption
       DEF TxInv, AtLockTask, AtLockInstance, HoldsItsRows, Holding, AtRun,
           AtReadTasks, AtCloseTasks, AtCommit
  <1>9. QED BY <1>3, <1>4, <1>5, <1>6, <1>8, OwnStep DEF PcLabels, IInv, TypeOK

LEMMA EscalateKeeps ==
  ASSUME IInv, NEW s \in Procs, NEW t \in Tasks, Escalate(s, t)
  PROVE  IInv'
  <1> DEFINE r == [NoTx EXCEPT !.op = "escalate", !.task = t,
                     !.effects = <<[kind |-> "overdue", task |-> t]>>]
  <1>0. tlock[t] = NoProc /\ task[t].status = "open"
    BY DEF Escalate
  <1>1. <<[kind |-> "overdue", task |-> t]>> \in Seq(Effect)
    BY DEF Effect
  <1>2. /\ r \in TxRow /\ r.op = "escalate" /\ r.task = t /\ r.fresh = NoTask
        /\ r.closing = {}
    BY <1>1, NullTypes DEF NoTx, TxRow, Ops
  <1>3. /\ Put(s, r) /\ Goto(s, "commit") /\ LockTaskRow(s, t)
        /\ UNCHANGED <<inst, task, ilock, notices, now, faults>>
    BY DEF Escalate, rows, clock
  <1>4. scan' \in [Procs -> ScanRow]
    BY VisitTypes DEF Escalate
  <1> HIDE DEF r
  <1>5. Moves(s, r, "commit") /\ tlock'[t] = s /\ pc'[s] = "commit" /\ tx'[s] = r
    BY <1>0, <1>3 DEF Put, Goto, Moves, IInv, TypeOK, LockTaskRow
  <1>6. TxInv(s)'
    BY <1>0, <1>2, <1>3, <1>5
       DEF TxInv, AtLockTask, AtLockInstance, HoldsItsRows, Holding, AtRun,
           AtReadTasks, AtCloseTasks, AtCommit, HasTask, Untouched
  <1>7. QED BY <1>2, <1>3, <1>4, <1>5, <1>6, OwnStep DEF PcLabels, IInv, TypeOK

-----------------------------------------------------------------------------
(* Commit.                                                                 *)

(* What a commit writes, and what it leaves to the other transactions.     *)
LEMMA CommitTypes ==
  ASSUME IInv, NEW p \in Procs, Commit(p)
  PROVE  TypeOK'
  <1> DEFINE x == tx[p]
  <1>0. /\ x \in TxRow /\ task \in [Tasks -> TaskRow] /\ inst \in [Instances -> InstanceRow]
        /\ AtCommit(p) /\ HoldsItsRows(p) /\ pc[p] = "commit"
    BY DEF IInv, TypeOK, TxInv, Commit
  <1>1. inst' \in [Instances -> InstanceRow]
    BY <1>0 DEF Commit, InstancesAfter, TxRow
  <1>2. ASSUME NEW t \in Tasks PROVE TaskAfter(p, t) \in TaskRow
    <2>1. task[t] \in TaskRow
      BY <1>0
    <2>2. ClosedAs(x.op) \in {"completed", "cancelled"}
      BY DEF ClosedAs
    <2>3. CASE t = x.fresh
      BY <1>0, <2>3 DEF TaskAfter, TaskRow, TxRow, InstanceRow
    <2>4. CASE t # x.fresh /\ t \in x.closing
      BY <2>1, <2>2, <2>4 DEF TaskAfter, TaskRow
    <2>5. CASE t # x.fresh /\ t \notin x.closing
      BY <2>1, <2>5 DEF TaskAfter, TaskRow
    <2>6. QED BY <2>3, <2>4, <2>5
  <1>3. task' \in [Tasks -> TaskRow]
    BY <1>2 DEF Commit
  <1>4. [NoTx EXCEPT !.effects = x.effects] \in TxRow
    BY <1>0, NullTypes DEF NoTx, TxRow
  <1>5. tx' \in [Procs -> TxRow] /\ pc' \in [Procs -> PcLabels]
    BY <1>4 DEF Commit, Put, Goto, IInv, TypeOK, PcLabels
  <1>6. QED BY <1>1, <1>3, <1>5, LocksMove DEF Commit, IInv, TypeOK, clock

(* The rows after p's commit, field by field.                              *)
LEMMA CommitRows ==
  ASSUME IInv, NEW p \in Procs, Commit(p), tx[p].op # "escalate"
  PROVE  /\ tx[p].instance \in Instances
         /\ inst'[tx[p].instance] = tx[p].work
         /\ \A i \in Instances : i # tx[p].instance => inst'[i] = inst[i]
         /\ tx[p].fresh \in Tasks =>
              /\ task[tx[p].fresh].status = "none"
              /\ task'[tx[p].fresh].status = "open"
              /\ task'[tx[p].fresh].instance = tx[p].instance
              /\ task'[tx[p].fresh].node = tx[p].work.node
         /\ \A t \in tx[p].closing :
              /\ OpenFor(t, tx[p].instance)
              /\ task'[t].status # "open"
         /\ \A t \in Tasks :
              t # tx[p].fresh /\ t \notin tx[p].closing => task'[t] = task[t]
  <1> DEFINE x == tx[p]
  <1>0. /\ x \in TxRow /\ task \in [Tasks -> TaskRow] /\ inst \in [Instances -> InstanceRow]
        /\ HoldsItsRows(p) /\ Holding(p)
    BY DEF IInv, TypeOK, TxInv, Commit, Holding
  <1>1. /\ x.instance \in Instances
        /\ \A t \in x.closing : t \in Tasks /\ OpenFor(t, x.instance)
        /\ x.fresh \in Tasks => task[x.fresh].status = "none"
    BY <1>0 DEF HoldsItsRows, TxRow
  <1>2. inst' = [inst EXCEPT ![x.instance] = x.work]
    BY DEF Commit, InstancesAfter
  <1>3. \A t \in Tasks : task'[t] = TaskAfter(p, t)
    BY DEF Commit
  <1>4. x.fresh \in Tasks =>
          task'[x.fresh] = [status |-> "open", instance |-> x.instance,
                            node |-> x.work.node, escalated |-> FALSE]
    BY <1>3 DEF TaskAfter
  <1>5. ASSUME NEW t \in x.closing PROVE task'[t].status # "open"
    <2>1. t \in Tasks /\ t # x.fresh /\ task[t] \in TaskRow
      BY <1>0, <1>1 DEF OpenFor
    <2>2. task'[t] = [task[t] EXCEPT !.status = ClosedAs(x.op)]
      BY <1>3, <2>1 DEF TaskAfter
    <2>3. task'[t].status = ClosedAs(x.op)
      BY <2>1, <2>2 DEF TaskRow
    <2>4. QED BY <2>3 DEF ClosedAs
  <1>6. \A t \in Tasks : t # x.fresh /\ t \notin x.closing => task'[t] = task[t]
    BY <1>3 DEF TaskAfter
  <1>7. QED BY <1>0, <1>1, <1>2, <1>4, <1>5, <1>6

LEMMA EscalationRows ==
  ASSUME IInv, NEW p \in Procs, Commit(p), tx[p].op = "escalate"
  PROVE  /\ inst' = inst
         /\ \A t \in Tasks : /\ task'[t].status = task[t].status
                             /\ task'[t].instance = task[t].instance
                             /\ task'[t].node = task[t].node
                             /\ t # tx[p].task => task'[t] = task[t]
         /\ tx[p].task \in Tasks /\ tlock[tx[p].task] = p
  <1> DEFINE x == tx[p]
  <1>0. task \in [Tasks -> TaskRow] /\ x.fresh = NoTask /\ x.closing = {} /\ HasTask(p)
    BY DEF IInv, TypeOK, TxInv, Commit, AtCommit, Untouched
  <1>1. inst' = inst
    BY DEF Commit, InstancesAfter
  <1>2. \A t \in Tasks : task'[t] = IF t = x.task THEN [task[t] EXCEPT !.escalated = TRUE]
                                                  ELSE task[t]
    BY <1>0, NullAssumption DEF Commit, TaskAfter
  <1>3. QED BY <1>0, <1>1, <1>2 DEF HasTask, TaskRow

LEMMA CommitLeavesOthers ==
  ASSUME IInv, NEW p \in Procs, Commit(p), NEW q \in Procs, q # p
  PROVE  LeavesAlone(q)
  <1> DEFINE x == tx[p]
  <1>0. /\ x \in TxRow /\ task \in [Tasks -> TaskRow] /\ pc'[q] = pc[q] /\ tx'[q] = tx[q]
    BY DEF IInv, TypeOK, Commit, Put, Goto
  <1>1. /\ \A i \in Instances : ilock[i] = q => ilock'[i] = q
        /\ \A t \in Tasks : tlock[t] = q => tlock'[t] = q
    BY LocksMove DEF Commit, IInv
  <1>2. CASE x.op = "escalate"
    BY <1>0, <1>1, <1>2, EscalationRows DEF LeavesAlone, OpenFor
  <1>3. CASE x.op # "escalate"
    <2>1. /\ ilock[x.instance] = p
          /\ \A t \in x.closing : tlock[t] = p
          /\ x.fresh \in Tasks => tlock[x.fresh] = p
      BY <1>3 DEF IInv, TxInv, Commit, HoldsItsRows, Holding
    <2>2. ASSUME NEW i \in Instances, ilock[i] = q
          PROVE  inst'[i] = inst[i] /\ \A t \in Tasks : OpenFor(t, i)' <=> OpenFor(t, i)
      <3>1. i # x.instance
        BY <2>1, <2>2
      <3>2. QED BY <1>3, <3>1, CommitRows DEF OpenFor
    <2>3. ASSUME NEW t \in Tasks, tlock[t] = q PROVE task'[t] = task[t]
      BY <1>3, <2>1, <2>3, CommitRows
    <2>4. QED BY <1>0, <1>1, <2>2, <2>3 DEF LeavesAlone
  <1>4. QED BY <1>2, <1>3

LEMMA CommitRowInv ==
  ASSUME IInv, NEW p \in Procs, Commit(p), tx[p].op # "escalate"
  PROVE  RowInv'
  <1> DEFINE x == tx[p]
  <1>i. PICK i \in Instances : i = x.instance
    BY CommitRows
  <1>0. /\ x \in TxRow /\ x.work \in InstanceRow
        /\ x.fresh \in Tasks \cup {NoTask}
        /\ WritesParked(p) \/ WritesEnded(p) \/ WritesBack(p)
    BY <1>i, CommitRows DEF IInv, TypeOK, TxInv, Commit, AtCommit, TxRow
  <1>1. OpenTaskIsTheParkedOne'
    <2>1. SUFFICES ASSUME NEW t \in Tasks, task'[t].status = "open"
                   PROVE  \E j \in Instances :
                            /\ ParkedOn(j, t)' /\ task'[t].node = inst'[j].node
                            /\ \A u \in Tasks : ParkedOn(j, u)' => u = t
      BY DEF OpenTaskIsTheParkedOne
    <2>2. CASE t = x.fresh
      <3>1. WritesParked(p) /\ x.work.token = "task" /\ x.work.status = "running"
        BY <1>0, <2>2, NullAssumption DEF WritesParked, WritesEnded, WritesBack, Untouched
      <3>2. ParkedOn(i, t)' /\ task'[t].node = inst'[i].node
        BY <2>2, <3>1, <1>i, CommitRows DEF ParkedOn
      <3>3. \A u \in Tasks : ParkedOn(i, u)' => u = t
        BY <2>2, <3>1, <1>i, CommitRows DEF ParkedOn, WritesParked, Covers, OpenFor
      <3>4. QED BY <1>0, <3>2, <3>3
    <2>3. CASE t # x.fresh
      <3>1. t \notin x.closing /\ task'[t] = task[t]
        BY <2>1, <2>3, <1>i, CommitRows
      <3>2. PICK j \in Instances : /\ ParkedOn(j, t) /\ task[t].node = inst[j].node
                                   /\ \A u \in Tasks : ParkedOn(j, u) => u = t
        BY <2>1, <3>1 DEF IInv, RowInv, OpenTaskIsTheParkedOne
      <3>3. CASE j = i
        <4>1. WritesBack(p)
          BY <1>i, <1>0, <3>1, <3>2, <3>3 DEF WritesParked, WritesEnded, Covers, OpenFor, ParkedOn
        <4>2. /\ x.fresh = NoTask /\ x.closing = {} /\ x.work.status = "running"
              /\ x.work.node = inst[i].node /\ x.work.token = inst[i].token
          BY <1>i, <4>1 DEF WritesBack, Untouched
        <4>3. \A u \in Tasks : task'[u] = task[u]
          BY <4>2, <1>i, CommitRows, NullAssumption
        <4>4. inst'[i] = x.work
          BY <1>i, CommitRows
        <4>5. QED BY <1>0, <3>2, <3>3, <4>2, <4>3, <4>4 DEF ParkedOn
      <3>4. CASE j # i
        <4>1. inst'[j] = inst[j]
          BY <3>4, <1>i, CommitRows
        <4>2. ASSUME NEW u \in Tasks, ParkedOn(j, u)' PROVE ParkedOn(j, u)
          BY <3>4, <4>1, <4>2, <1>i, CommitRows DEF ParkedOn
        <4>3. QED BY <3>1, <3>2, <4>1, <4>2 DEF ParkedOn
      <3>5. QED BY <3>3, <3>4
    <2>4. QED BY <2>2, <2>3
  <1>2. RunningInstanceCanAdvance'
    <2>1. SUFFICES ASSUME NEW j \in Instances, inst'[j].status = "running"
                   PROVE  \/ \E t \in Tasks : ParkedOn(j, t)'
                          \/ /\ inst'[j].token = "timer" /\ inst'[j].nextWakeAt # NoTime
                             /\ inst'[j].nextWakeAt = inst'[j].wakeAt
      BY DEF RunningInstanceCanAdvance
    <2>2. CASE j = i
      <3>0. inst'[j] = x.work
        BY <2>2, <1>i, CommitRows
      <3>1. CASE WritesParked(p)
        BY <3>0, <3>1, <2>2, <1>i, CommitRows DEF WritesParked, ParkedOn
      <3>2. CASE WritesEnded(p)
        BY <3>0, <3>2, <2>1 DEF WritesEnded
      <3>3. CASE WritesBack(p)
        <4>1. \A u \in Tasks : task'[u] = task[u]
          BY <3>3, <1>i, CommitRows, NullAssumption DEF WritesBack, Untouched
        <4>2. QED BY <1>i, <3>0, <3>3, <2>2, <4>1
                  DEF WritesBack, ParkedOn, IInv, RowInv, RunningInstanceCanAdvance
      <3>4. QED BY <1>0, <3>1, <3>2, <3>3
    <2>3. CASE j # i
      <3>1. inst'[j] = inst[j]
        BY <2>3, <1>i, CommitRows
      <3>2. ASSUME NEW t \in Tasks, ParkedOn(j, t) PROVE ParkedOn(j, t)'
        <4>1. t # x.fresh /\ t \notin x.closing
          BY <2>3, <3>2, <1>i, CommitRows DEF ParkedOn, OpenFor
        <4>2. QED BY <3>1, <3>2, <4>1, <1>i, CommitRows DEF ParkedOn
      <3>3. QED BY <2>1, <3>1, <3>2 DEF IInv, RowInv, RunningInstanceCanAdvance
    <2>4. QED BY <2>2, <2>3
  <1>3. FailedInstanceCanBeRetried'
    <2>1. x.work.status = "failed" => x.work.token = "active"
      BY <1>0 DEF WritesParked, WritesEnded, WritesBack
    <2>2. x.work.status # "running" => x.work.nextWakeAt = NoTime
      BY <1>0 DEF WritesParked, WritesEnded, WritesBack
    <2>3. QED BY <2>1, <2>2, <1>i, CommitRows DEF FailedInstanceCanBeRetried, IInv, RowInv
  <1>4. QED BY <1>1, <1>2, <1>3 DEF RowInv

LEMMA CommitKeeps ==
  ASSUME IInv, NEW p \in Procs, Commit(p)
  PROVE  IInv'
  <1>1. TypeOK'
    BY CommitTypes
  <1>2. now' # NoTime
    BY DEF IInv, Commit, clock
  <1>3. RowInv'
    <2>1. CASE tx[p].op = "escalate"
      BY <2>1, EscalationRows
         DEF IInv, RowInv, OpenTaskIsTheParkedOne, RunningInstanceCanAdvance,
             FailedInstanceCanBeRetried, ParkedOn
    <2>2. CASE tx[p].op # "escalate"
      BY <2>2, CommitRowInv
    <2>3. QED BY <2>1, <2>2
  <1>4. ASSUME NEW q \in Procs PROVE TxInv(q)'
    <2>1. CASE q = p
      <3>1. pc'[p] = "effects"
        BY DEF Commit, Goto, IInv, TypeOK
      <3>2. QED BY <2>1, <3>1
                DEF TxInv, AtLockTask, AtLockInstance, HoldsItsRows, Holding, AtRun,
                    AtReadTasks, AtCloseTasks, AtCommit
    <2>2. CASE q # p
      BY <2>2, CommitLeavesOthers, LeftAlone DEF IInv
    <2>3. QED BY <2>1, <2>2
  <1>5. QED BY <1>1, <1>2, <1>3, <1>4 DEF IInv

-----------------------------------------------------------------------------
(* The invariant, and what follows from it.                                *)

LEMMA InitIInv == Init => IInv
  <1> SUFFICES ASSUME Init PROVE IInv
    OBVIOUS
  <1>1. [due |-> {}, late |-> {}, asOf |-> NoTime] \in ScanRow
    BY DEF ScanRow, NoTime
  <1>2. TypeOK
    BY <1>1, NullTypes DEF Init, TypeOK, PcLabels
  <1>3. RowInv
    BY DEF Init, RowInv, OpenTaskIsTheParkedOne, RunningInstanceCanAdvance,
           FailedInstanceCanBeRetried, BlankInstance, BlankTask
  <1>4. \A p \in Procs : TxInv(p)
    BY IdleTxInv DEF Init
  <1>5. QED BY <1>2, <1>3, <1>4 DEF IInv, Init, NoTime

LEMMA TickKeeps ==
  ASSUME IInv, Tick
  PROVE  IInv'
  <1>1. TypeOK' /\ now' # NoTime
    BY DEF IInv, TypeOK, Tick, rows, NoTime
  <1>2. RowInv'
    BY DEF IInv, RowInv, Tick, rows, OpenTaskIsTheParkedOne, RunningInstanceCanAdvance,
           FailedInstanceCanBeRetried, ParkedOn
  <1>3. ASSUME NEW q \in Procs PROVE TxInv(q)'
    <2>1. LeavesAlone(q)
      BY DEF LeavesAlone, Tick, rows, OpenFor
    <2>2. QED BY <2>1, LeftAlone DEF IInv
  <1>4. QED BY <1>1, <1>2, <1>3 DEF IInv

LEMMA StutterKeeps ==
  ASSUME IInv, UNCHANGED vars
  PROVE  IInv'
  <1>1. TypeOK' /\ now' # NoTime
    BY DEF IInv, TypeOK, vars
  <1>2. RowInv'
    BY DEF IInv, RowInv, vars, OpenTaskIsTheParkedOne, RunningInstanceCanAdvance,
           FailedInstanceCanBeRetried, ParkedOn
  <1>3. ASSUME NEW q \in Procs PROVE TxInv(q)'
    <2>1. LeavesAlone(q)
      BY DEF LeavesAlone, vars, OpenFor
    <2>2. QED BY <2>1, LeftAlone DEF IInv
  <1>4. QED BY <1>1, <1>2, <1>3 DEF IInv

LEMMA StepIInv == IInv /\ [Next]_vars => IInv'
  <1> SUFFICES ASSUME IInv, [Next]_vars PROVE IInv'
    OBVIOUS
  <1>1. ASSUME NEW p \in Procs, Arrive(p) PROVE IInv'
    BY <1>1, StartKeeps, CancelOrRetryKeeps, CompleteKeeps DEF Arrive
  <1>2. ASSUME NEW p \in Procs, Acquire(p) PROVE IInv'
    BY <1>2, CompleteLockTaskKeeps, CompleteLockInstanceKeeps, CancelLockInstanceKeeps,
       RetryLockInstanceKeeps, CancelTaskKeeps DEF Acquire
  <1>3. ASSUME NEW p \in Procs, DeadlockVictim(p) PROVE IInv'
    BY <1>3, RollBackKeeps DEF DeadlockVictim, clock, IInv, TypeOK
  <1>4. ASSUME NEW p \in Procs, Proceed(p) PROVE IInv'
    BY <1>3, <1>4, CancelReadTasksKeeps, CancelTasksClosedKeeps, StepsKeep, StepTaskKeeps,
       RunFailsKeeps, RunParksKeeps, CommitKeeps, EffectsKeep DEF Proceed
  <1>5. ASSUME NEW p \in Procs, Sweep(p) PROVE IInv'
    BY <1>5, ScansKeep, SkipsKeep, SweepWakesKeeps, SweepCorrectsKeeps, EscalateKeeps DEF Sweep
  <1>6. CASE Next
    BY <1>1, <1>2, <1>4, <1>5, <1>6, LoseKeeps, TickKeeps DEF Next
  <1>7. QED BY <1>6, StutterKeeps

(* The strengthened invariant holds of every behaviour.                    *)
THEOREM Invariance == Spec => []IInv
  BY InitIInv, StepIInv, PTL DEF Spec

(* Every row, lock and transaction keeps its type, whatever the graph and  *)
(* however many requests and sweeps run.                                   *)
THEOREM TypeCorrect == Spec => []TypeOK
  <1>1. IInv => TypeOK
    BY DEF IInv
  <1>2. QED BY <1>1, Invariance, PTL

(* Whoever opens the inbox sees only tasks whose completion advances a     *)
(* running instance, and one such task per instance at most.               *)
THEOREM OpenTasksAreParked == Spec => []OpenTaskIsTheParkedOne
  <1>1. IInv => OpenTaskIsTheParkedOne
    BY DEF IInv, RowInv
  <1>2. QED BY <1>1, Invariance, PTL

(* No instance is ever left running with neither a task nor a timer, and a *)
(* failed one can always be resumed from the step that failed.             *)
THEOREM NoInstanceIsStuck == Spec => []EveryInstanceHasAWayOn
  <1>1. IInv => EveryInstanceHasAWayOn
    BY DEF IInv, RowInv, EveryInstanceHasAWayOn
  <1>2. QED BY <1>1, Invariance, PTL

-----------------------------------------------------------------------------
(* Why a transaction may move its instance: the cause it found when it     *)
(* locked the row is still there, for nobody else can write the row.       *)
Causes == {"start", "complete", "cancel", "retry", "sweep"}
Cause(p) ==
  LET row == inst[tx[p].instance] IN
  Holding(p) =>
    /\ tx[p].op \in Causes
    /\ tx[p].op = "start" => row.status = "none"
    /\ tx[p].op = "retry" => row.status = "failed"
    /\ tx[p].op = "complete" => row.status = "running" /\ tx[p].closing # {}
    /\ tx[p].op = "cancel" =>
         /\ row.status \in {"running", "failed"}
         /\ tx[p].work.status = "cancelled"
    /\ tx[p].op = "sweep" =>
         /\ row.status = "running"
         /\ \/ row.token = "timer" /\ row.wakeAt <= now
            \/ pc[p] = "commit" /\ tx[p].work = row

(* A parked task has no wake-up time, so the sweep has nothing to correct. *)
Neat(row) == row.status = "running" /\ row.token = "task" => row.nextWakeAt = NoTime
NeatWork(p) == pc[p] = "commit" /\ Holding(p) => Neat(tx[p].work)

CauseInv ==
  /\ \A i \in Instances : Neat(inst[i])
  /\ \A p \in Procs : Cause(p) /\ NeatWork(p) /\ scan[p].asOf <= now

(* What a step of p cannot touch.                                          *)
Acts(p) == Arrive(p) \/ Acquire(p) \/ Proceed(p) \/ Sweep(p) \/ Lose(p)

LEMMA ActsFrame ==
  ASSUME IInv, NEW p \in Procs, Acts(p)
  PROVE  /\ \E r : Put(p, r) \/ UNCHANGED tx
         /\ \E l : Goto(p, l) \/ UNCHANGED pc
         /\ now' = now
         /\ UNCHANGED rows \/ Commit(p)
  <1>1. CASE RollBack(p) /\ now' = now
    BY <1>1 DEF RollBack, rows
  <1>2. CASE Arrive(p)
    BY <1>2 DEF Arrive, Start, Cancel, Retry, Complete, rows, clock
  <1>3. CASE Acquire(p)
    BY <1>1, <1>3 DEF Acquire, CompleteLockTask, CompleteLockInstance, CancelLockInstance,
       RetryLockInstance, CancelTask, rows, clock
  <1>4. CASE Proceed(p)
    <2>1. CASE Commit(p)
      BY <2>1 DEF Commit, clock
    <2>2. CASE DeadlockVictim(p)
      BY <1>1, <2>2 DEF DeadlockVictim, clock
    <2>3. CASE StepStart(p) \/ StepAction(p) \/ StepCondition(p) \/ StepEnd(p) \/ StepTimer(p)
      <3>1. \E work : Step(p, work)
        BY <2>3 DEF StepStart, StepAction, StepCondition, StepEnd, StepTimer
      <3> QED BY <3>1 DEF Step, rows, clock
    <2>4. CASE \/ CancelReadTasks(p) \/ CancelTasksClosed(p) \/ RunFails(p) \/ RunParks(p)
               \/ RunEffect(p) \/ EffectsDone(p) \/ \E t \in Tasks : StepTask(p, t)
      BY <2>4 DEF CancelReadTasks, CancelTasksClosed, StepTask, RunFails, RunParks,
         RunEffect, EffectsDone, rows, clock
    <2> QED BY <1>4, <2>1, <2>2, <2>3, <2>4 DEF Proceed
  <1>5. CASE Sweep(p)
    BY <1>5 DEF Sweep, ScanTimers, ScanOverdue, SweepEnds, SweepSkips, SweepWakes,
       SweepCorrects, EscalationSkips, Escalate, rows, clock
  <1>6. CASE Lose(p)
    BY <1>1, <1>6 DEF Lose, rows
  <1> QED BY <1>2, <1>3, <1>4, <1>5, <1>6 DEF Acts

LEMMA OthersCause ==
  ASSUME IInv, CauseInv, NEW p \in Procs, Acts(p), NEW q \in Procs, q # p
  PROVE  Cause(q)' /\ NeatWork(q)'
  <1>1. pc'[q] = pc[q] /\ tx'[q] = tx[q] /\ now' = now
    BY ActsFrame DEF Put, Goto, IInv, TypeOK
  <1>2. Holding(q) => inst'[tx[q].instance] = inst[tx[q].instance]
    <2>1. CASE UNCHANGED rows
      BY <2>1 DEF rows
    <2>2. CASE Commit(p)
      BY <2>2, CommitLeavesOthers DEF LeavesAlone, IInv, TxInv, HoldsItsRows
    <2> QED BY <2>1, <2>2, ActsFrame
  <1> QED BY <1>1, <1>2 DEF CauseInv, Cause, NeatWork, Holding

LEMMA ScansAge ==
  ASSUME IInv, CauseInv, NEW p \in Procs, Acts(p), NEW q \in Procs
  PROVE  scan'[q].asOf <= now'
  <1>1. now' = now /\ scan[q].asOf <= now /\ now \in Nat /\ scan \in [Procs -> ScanRow]
    BY ActsFrame DEF CauseInv, IInv, TypeOK
  <1>2. CASE UNCHANGED scan
    BY <1>1, <1>2
  <1>3. CASE Sweep(p)
    <2>1. ASSUME NEW i \in Instances, Visit(p, i) PROVE scan'[q].asOf = scan[q].asOf
      BY <1>1, <2>1 DEF Visit, ScanRow
    <2>2. ASSUME NEW t \in Tasks, VisitTask(p, t) PROVE scan'[q].asOf = scan[q].asOf
      BY <1>1, <2>2 DEF VisitTask, ScanRow
    <2>3. CASE ScanTimers(p)
      BY <1>1, <2>3 DEF ScanTimers, ScanRow
    <2>4. CASE ScanOverdue(p)
      BY <1>1, <2>4 DEF ScanOverdue, ScanRow
    <2>5. CASE SweepEnds(p)
      BY <1>1, <2>5 DEF SweepEnds
    <2> QED BY <1>1, <1>3, <2>1, <2>2, <2>3, <2>4, <2>5
            DEF Sweep, SweepSkips, SweepWakes, SweepCorrects, EscalationSkips, Escalate
  <1>4. Acts(p) => Sweep(p) \/ UNCHANGED scan
    <2>1. Arrive(p) => UNCHANGED scan
      BY DEF Arrive, Start, Cancel, Retry, Complete
    <2>2. Acquire(p) => UNCHANGED scan
      BY DEF Acquire, CompleteLockTask, CompleteLockInstance, CancelLockInstance,
         RetryLockInstance, CancelTask
    <2>3. Proceed(p) => UNCHANGED scan
      BY DEF Proceed, CancelReadTasks, CancelTasksClosed, StepStart, StepAction,
         StepCondition, StepEnd, StepTask, StepTimer, Step, RunFails, RunParks, Commit,
         RunEffect, EffectsDone, DeadlockVictim
    <2>4. Lose(p) => UNCHANGED scan
      BY DEF Lose
    <2> QED BY <2>1, <2>2, <2>3, <2>4 DEF Acts
  <1> QED BY <1>2, <1>3, <1>4

LEMMA ToRest ==
  ASSUME NEW p, pc'[p] \notin {"run", "readTasks", "closeTasks", "commit"}
  PROVE  Cause(p)' /\ NeatWork(p)'
  BY DEF Cause, NeatWork, Holding

LEMMA PutRow ==
  ASSUME IInv, NEW p \in Procs
  PROVE  /\ \A r : Put(p, r) => tx'[p] = r
         /\ \A l : Goto(p, l) => pc'[p] = l
         /\ RollBack(p) => pc'[p] \in {"answered", "next"}
         /\ tx[p] \in TxRow
  BY DEF Put, Goto, RollBack, Finished, IInv, TypeOK

(* The step that locks the row finds the cause.                            *)
LEMMA CauseFound ==
  ASSUME IInv, CauseInv, NEW p \in Procs,
         \/ \E i \in Instances : Start(p, i)
         \/ CompleteLockInstance(p) \/ CancelLockInstance(p) \/ RetryLockInstance(p)
         \/ \E i \in Instances : SweepWakes(p, i) \/ SweepCorrects(p, i)
  PROVE  Cause(p)' /\ NeatWork(p)'
  <1>1. CASE RollBack(p)
    BY <1>1, PutRow, ToRest
  <1>2. CASE \E i \in Instances : Start(p, i)
    <2>1. PICK i \in Instances : Start(p, i)
      BY <1>2
    <2>2. /\ pc'[p] = "run" /\ tx'[p].op = "start" /\ tx'[p].instance = i
          /\ inst'[i].status = "none"
      BY <2>1, PutRow DEF Start, NoTx, rows
    <2> QED BY <2>2 DEF Cause, NeatWork, Causes
  <1>3. CASE CompleteLockInstance(p) /\ ~RollBack(p)
    <2>1. /\ pc'[p] = "run" /\ inst' = inst /\ inst[tx[p].instance].status = "running"
          /\ tx[p].op = "complete"
          /\ \E w, e : tx'[p] = [tx[p] EXCEPT !.work = w, !.closing = {tx[p].task},
                                              !.effects = e]
      <3>1. PICK e \in PickEdge(task[tx[p].task].node, tx[p].outcome) :
              /\ inst[tx[p].instance].status = "running" /\ tx[p].op = "complete"
              /\ Put(p, [tx[p] EXCEPT !.work = Follow(inst[tx[p].instance], e),
                           !.closing = {tx[p].task},
                           !.effects = <<[kind |-> "closed", task |-> tx[p].task]>>])
              /\ Goto(p, "run") /\ inst' = inst
        BY <1>3 DEF CompleteLockInstance, rows
      <3>2. tx'[p] = [tx[p] EXCEPT !.work = Follow(inst[tx[p].instance], e),
                        !.closing = {tx[p].task},
                        !.effects = <<[kind |-> "closed", task |-> tx[p].task]>>]
        BY <3>1, PutRow
      <3> QED BY <3>1, <3>2, PutRow
    <2>2. /\ tx'[p].op = "complete" /\ tx'[p].instance = tx[p].instance
          /\ tx'[p].closing = {tx[p].task}
      BY <2>1, PutRow DEF TxRow
    <2> QED BY <2>1, <2>2 DEF Cause, NeatWork, Causes
  <1>4. CASE CancelLockInstance(p) /\ ~RollBack(p)
    <2> DEFINE w == [inst[tx[p].instance] EXCEPT !.status = "cancelled", !.token = "done",
                                                 !.nextWakeAt = NoTime]
    <2>1. /\ pc'[p] = "readTasks" /\ inst' = inst
          /\ inst[tx[p].instance].status \in {"running", "failed"}
          /\ tx[p].op = "cancel" /\ tx'[p] = [tx[p] EXCEPT !.work = w]
      BY <1>4, PutRow DEF CancelLockInstance, rows
    <2>2. tx[p].instance \in Instances
      BY <1>4 DEF CancelLockInstance, IInv, TxInv, AtLockInstance
    <2>3. w.status = "cancelled"
      BY <2>2 DEF IInv, TypeOK, InstanceRow
    <2> HIDE DEF w
    <2>4. tx'[p].op = "cancel" /\ tx'[p].instance = tx[p].instance /\ tx'[p].work = w
      BY <2>1, PutRow DEF TxRow
    <2> QED BY <2>1, <2>3, <2>4 DEF Cause, NeatWork, Causes
  <1>5. CASE RetryLockInstance(p) /\ ~RollBack(p)
    <2>1. /\ pc'[p] = "run" /\ inst' = inst /\ inst[tx[p].instance].status = "failed"
          /\ tx[p].op = "retry" /\ \E w : tx'[p] = [tx[p] EXCEPT !.work = w]
      BY <1>5, PutRow DEF RetryLockInstance, rows
    <2>2. tx'[p].op = "retry" /\ tx'[p].instance = tx[p].instance
      BY <2>1, PutRow DEF TxRow
    <2> QED BY <2>1, <2>2 DEF Cause, NeatWork, Causes
  <1>6. CASE \E i \in Instances : SweepWakes(p, i)
    <2>1. PICK i \in Instances : SweepWakes(p, i)
      BY <1>6
    <2>2. /\ pc'[p] = "run" /\ tx'[p].op = "sweep" /\ tx'[p].instance = i
          /\ inst[i].status = "running" /\ TimerDue(p, i) /\ inst' = inst /\ now' = now
      BY <2>1, PutRow DEF SweepWakes, NoTx, rows, clock
    <2>3. inst[i].token = "timer" /\ inst[i].wakeAt <= now
      <3>1. /\ scan[p].asOf \in Nat /\ now \in Nat /\ inst[i].wakeAt \in Nat
            /\ scan[p].asOf <= now
        BY DEF IInv, TypeOK, ScanRow, InstanceRow, CauseInv
      <3> QED BY <2>2, <3>1 DEF TimerDue
    <2> QED BY <2>2, <2>3 DEF Cause, NeatWork, Causes
  <1>7. CASE \E i \in Instances : SweepCorrects(p, i)
    <2>1. PICK i \in Instances : SweepCorrects(p, i)
      BY <1>7
    <2>2. /\ pc'[p] = "commit" /\ tx'[p].op = "sweep" /\ tx'[p].instance = i
          /\ tx'[p].work = RecomputeWake(inst[i])
          /\ inst[i].status = "running" /\ inst' = inst
      <3> DEFINE w == RecomputeWake(inst[i])
      <3>1. /\ Put(p, [NoTx EXCEPT !.op = "sweep", !.instance = i, !.work = w])
            /\ Goto(p, "commit") /\ inst[i].status = "running" /\ inst' = inst
        BY <2>1 DEF SweepCorrects, rows
      <3> HIDE DEF w
      <3>2. tx'[p] = [NoTx EXCEPT !.op = "sweep", !.instance = i, !.work = w]
            /\ pc'[p] = "commit"
        BY <3>1, PutRow
      <3>3. tx'[p].op = "sweep" /\ tx'[p].instance = i /\ tx'[p].work = w
        BY <3>2 DEF NoTx
      <3> QED BY <3>1, <3>2, <3>3 DEF w
    <2>3. inst[i] \in InstanceRow /\ Neat(inst[i])
      BY DEF IInv, TypeOK, CauseInv
    <2>4. inst[i].nextWakeAt = IF inst[i].token = "timer" THEN inst[i].wakeAt ELSE NoTime
      BY <2>2, <2>3 DEF Neat, IInv, RowInv, RunningInstanceCanAdvance, ParkedOn
    <2>5. RecomputeWake(inst[i]) = inst[i]
      BY <2>3, <2>4 DEF RecomputeWake, InstanceRow
    <2> QED BY <2>2, <2>3, <2>5 DEF Cause, NeatWork, Causes
  <1> QED BY <1>1, <1>2, <1>3, <1>4, <1>5, <1>6, <1>7

(* The steps on the way to the commit keep it.                             *)
LEMMA CauseKept ==
  ASSUME IInv, CauseInv, NEW p \in Procs, now' = now,
         \/ CancelReadTasks(p) \/ CancelTasksClosed(p) \/ StepStart(p) \/ StepAction(p)
         \/ StepCondition(p) \/ StepEnd(p) \/ StepTimer(p) \/ RunFails(p) \/ RunParks(p)
         \/ \E t \in Tasks : CancelTask(p, t) \/ StepTask(p, t)
  PROVE  Cause(p)' /\ NeatWork(p)'
  <1>0. /\ tx[p] \in TxRow /\ tx[p].work \in InstanceRow
        /\ Cause(p) /\ AtReadTasks(p) /\ AtCloseTasks(p) /\ AtRun(p)
    BY DEF CauseInv, IInv, TypeOK, TxInv, TxRow
  <1>1. CASE CancelReadTasks(p) \/ CancelTasksClosed(p) \/ \E t \in Tasks : CancelTask(p, t)
    <2>1. /\ pc[p] \in {"readTasks", "closeTasks"} /\ tx[p].op = "cancel"
          /\ tx[p].work.status = "cancelled"
          /\ inst[tx[p].instance].status \in {"running", "failed"}
      BY <1>0, <1>1 DEF CancelReadTasks, CancelTasksClosed, CancelTask, AtReadTasks,
         AtCloseTasks, Cancelling, Cause, Holding
    <2>2. /\ inst' = inst /\ tx'[p].op = tx[p].op /\ tx'[p].work = tx[p].work
          /\ tx'[p].instance = tx[p].instance
      <3>1. CASE CancelReadTasks(p)
        BY <1>0, <3>1, PutRow DEF CancelReadTasks, rows, TxRow
      <3>2. CASE CancelTasksClosed(p)
        BY <3>2 DEF CancelTasksClosed, rows
      <3>3. CASE \E t \in Tasks : CancelTask(p, t)
        <4>1. PICK t \in Tasks : CancelTask(p, t)
          BY <3>3
        <4>2. inst' = inst /\ tx'[p] =
                [tx[p] EXCEPT !.todo = @ \ {t}, !.closing = @ \cup {t},
                              !.effects = Append(@, [kind |-> "closed", task |-> t])]
          BY <4>1, PutRow DEF CancelTask, rows
        <4> QED BY <1>0, <4>2 DEF TxRow
      <3> QED BY <1>1, <3>1, <3>2, <3>3
    <2> QED BY <2>1, <2>2 DEF Cause, NeatWork, Neat, Causes
  <1>2. CASE \/ StepStart(p) \/ StepAction(p) \/ StepCondition(p) \/ StepEnd(p)
             \/ StepTimer(p) \/ RunFails(p) \/ RunParks(p) \/ \E t \in Tasks : StepTask(p, t)
    <2>1. pc[p] = "run" /\ inst' = inst /\ pc'[p] \in {"run", "commit"}
      BY <1>0, <1>2 DEF StepStart, StepAction, StepCondition, StepEnd, StepTimer, StepTask,
         RunFails, RunParks, MayStep, Running, Step, Goto, rows, IInv, TypeOK
    <2>2. /\ tx'[p].op = tx[p].op /\ tx'[p].instance = tx[p].instance
          /\ tx'[p].closing = tx[p].closing
      <3>1. CASE \/ StepStart(p) \/ StepAction(p) \/ StepCondition(p) \/ StepEnd(p)
                 \/ StepTimer(p)
        <4>1. \E w : Step(p, w)
          BY <3>1 DEF StepStart, StepAction, StepCondition, StepEnd, StepTimer
        <4>2. PICK w : tx'[p] = [tx[p] EXCEPT !.work = w, !.steps = @ + 1]
          BY <4>1, PutRow DEF Step
        <4> QED BY <1>0, <4>2 DEF TxRow
      <3>2. CASE \E t \in Tasks : StepTask(p, t)
        <4>1. PICK t \in Tasks : StepTask(p, t)
          BY <3>2
        <4> DEFINE w == [tx[p].work EXCEPT !.token = "task"]
                   e == Append(tx[p].effects, [kind |-> "created", task |-> t])
                   r == [tx[p] EXCEPT !.work = w, !.fresh = t, !.steps = @ + 1, !.effects = e]
        <4>2. tx'[p] = r
          <5>1. Put(p, r)
            BY <4>1 DEF StepTask
          <5> HIDE DEF r
          <5> QED BY <5>1, PutRow
        <4> HIDE DEF w, e
        <4> QED BY <1>0, <4>2 DEF TxRow
      <3>3. CASE RunFails(p) \/ RunParks(p)
        BY <1>0, <3>3, PutRow DEF RunFails, RunParks, TxRow
      <3> QED BY <1>2, <3>1, <3>2, <3>3
    <2>3. Cause(p)'
      BY <1>0, <2>1, <2>2 DEF AtRun, Cause, Holding, Causes
    <2>4. pc'[p] = "commit" => Neat(tx'[p].work)
      <3>1. CASE RunFails(p)
        <4> DEFINE w == [tx[p].work EXCEPT !.status = "failed", !.nextWakeAt = NoTime]
        <4>1. w.status = "failed"
          BY <1>0 DEF InstanceRow
        <4>2. Put(p, [tx[p] EXCEPT !.work = w])
          BY <3>1 DEF RunFails
        <4> HIDE DEF w
        <4>3. tx'[p].work = w
          BY <1>0, <4>2, PutRow DEF TxRow
        <4> QED BY <4>1, <4>3 DEF Neat
      <3>2. CASE RunParks(p)
        <4>1. tx'[p].work = MaybeComplete(RecomputeWake(tx[p].work))
          BY <1>0, <3>2, PutRow DEF RunParks, TxRow
        <4>2. Neat(MaybeComplete(RecomputeWake(tx[p].work)))
          BY <1>0 DEF Neat, MaybeComplete, RecomputeWake, InstanceRow
        <4> QED BY <4>1, <4>2
      <3>3. CASE ~RunFails(p) /\ ~RunParks(p)
        BY <1>2, <2>1, <3>3 DEF StepStart, StepAction, StepCondition, StepEnd, StepTimer,
           StepTask, Step
      <3> QED BY <3>1, <3>2, <3>3
    <2> QED BY <2>3, <2>4 DEF NeatWork
  <1> QED BY <1>1, <1>2

LEMMA OwnCause ==
  ASSUME IInv, CauseInv, NEW p \in Procs, Acts(p)
  PROVE  Cause(p)' /\ NeatWork(p)'
  <1>1. CASE RollBack(p)
    BY <1>1, PutRow, ToRest
  <1>2. CASE Arrive(p)
    <2>1. CASE \E i \in Instances : Start(p, i)
      BY <2>1, CauseFound
    <2>2. CASE ~\E i \in Instances : Start(p, i)
      <3>1. pc'[p] \in {"lockTask", "lockInstance"}
        BY <1>2, <2>2, PutRow DEF Arrive, Cancel, Retry, Complete
      <3> QED BY <3>1, ToRest
    <2> QED BY <2>1, <2>2
  <1>3. CASE Acquire(p)
    <2>1. CASE CompleteLockTask(p) /\ ~RollBack(p)
      <3>1. pc'[p] = "lockInstance"
        BY <2>1, PutRow DEF CompleteLockTask
      <3> QED BY <3>1, ToRest
    <2> QED BY <1>1, <1>3, <2>1, CauseFound, CauseKept, ActsFrame DEF Acquire
  <1>4. CASE Proceed(p)
    <2>1. CASE Commit(p) \/ RunEffect(p) \/ EffectsDone(p)
      <3>1. pc'[p] \in {"effects", "answered", "next"}
        BY <2>1, PutRow DEF Commit, RunEffect, EffectsDone, Finished
      <3> QED BY <3>1, ToRest
    <2>2. CASE DeadlockVictim(p)
      BY <1>1, <2>2 DEF DeadlockVictim
    <2> QED BY <1>4, <2>1, <2>2, CauseKept, ActsFrame DEF Proceed
  <1>5. CASE Sweep(p)
    <2>1. CASE \E i \in Instances : SweepWakes(p, i) \/ SweepCorrects(p, i)
      BY <2>1, CauseFound
    <2>2. CASE \E t \in Tasks : Escalate(p, t)
      <3>1. tx'[p].op = "escalate"
        BY <2>2, PutRow DEF Escalate, NoTx
      <3> QED BY <3>1 DEF Cause, NeatWork, Holding
    <2>3. CASE ~(\/ \E i \in Instances : SweepWakes(p, i) \/ SweepCorrects(p, i)
                 \/ \E t \in Tasks : Escalate(p, t))
      <3>1. pc'[p] \in {"next", "idle"}
        BY <1>5, <2>3, PutRow DEF Sweep, ScanTimers, ScanOverdue, SweepEnds, SweepSkips,
           EscalationSkips, Visit, VisitTask
      <3> QED BY <3>1, ToRest
    <2> QED BY <2>1, <2>2, <2>3
  <1>6. CASE Lose(p)
    <2>1. pc'[p] \in {"answered", "next"}
      BY <1>6, PutRow DEF Lose, Finished
    <2> QED BY <2>1, ToRest
  <1> QED BY <1>2, <1>3, <1>4, <1>5, <1>6 DEF Acts

LEMMA NextCauseInv ==
  ASSUME IInv, CauseInv, [Next]_vars
  PROVE  CauseInv'
  <1>1. ASSUME NEW p \in Procs, Acts(p) PROVE CauseInv'
    <2>1. \A q \in Procs : Cause(q)' /\ NeatWork(q)' /\ scan'[q].asOf <= now'
      BY <1>1, OwnCause, OthersCause, ScansAge
    <2>2. ASSUME NEW i \in Instances PROVE Neat(inst'[i])
      <3>1. CASE inst'[i] = inst[i]
        BY <3>1 DEF CauseInv
      <3>2. CASE inst'[i] # inst[i]
        <4>1. Commit(p) /\ tx[p].op # "escalate"
          BY <1>1, <3>2, ActsFrame, EscalationRows DEF rows
        <4>2. i = tx[p].instance /\ inst'[i] = tx[p].work
          BY <3>2, <4>1, CommitRows
        <4>3. NeatWork(p) /\ pc[p] = "commit"
          BY <4>1 DEF CauseInv, Commit
        <4> QED BY <4>1, <4>2, <4>3 DEF NeatWork, Holding
      <3> QED BY <3>1, <3>2
    <2> QED BY <2>1, <2>2 DEF CauseInv
  <1>2. CASE Tick
    <2>1. now \in Nat /\ now' = now + 1
      BY <1>2 DEF Tick, IInv, TypeOK
    <2>2. UNCHANGED <<inst, tx, pc, scan>>
      BY <1>2 DEF Tick, rows
    <2>3. ASSUME NEW q \in Procs PROVE scan'[q].asOf <= now'
      <3>1. scan[q].asOf \in Nat /\ scan[q].asOf <= now
        BY DEF CauseInv, IInv, TypeOK, ScanRow
      <3> QED BY <2>1, <2>2, <3>1
    <2>4. ASSUME NEW q \in Procs PROVE Cause(q)' /\ NeatWork(q)'
      <3>1. Holding(q) => inst[tx[q].instance].wakeAt \in Nat
        BY DEF IInv, TxInv, HoldsItsRows, TypeOK, InstanceRow
      <3>2. Holding(q) => (inst[tx[q].instance].wakeAt <= now
                             => inst[tx[q].instance].wakeAt <= now')
        BY <2>1, <3>1
      <3> QED BY <2>2, <3>2 DEF CauseInv, Cause, NeatWork, Holding
    <2> QED BY <2>2, <2>3, <2>4 DEF CauseInv
  <1>3. CASE UNCHANGED vars
    BY <1>3 DEF vars, CauseInv, Cause, NeatWork, Holding
  <1> QED BY <1>1, <1>2, <1>3 DEF Next, Acts

LEMMA InitCauseInv == Init => CauseInv
  BY DEF Init, CauseInv, Cause, NeatWork, Holding, Neat, BlankInstance, NoTime

LEMMA CauseInvariance == Spec => [](IInv /\ CauseInv)
  <1>1. IInv /\ CauseInv /\ [Next]_vars => (IInv /\ CauseInv)'
    BY StepIInv, NextCauseInv
  <1> QED BY <1>1, InitIInv, InitCauseInv, PTL DEF Spec

(* completeTask, cancel and the timer sweep: a running instance moves only *)
(* with the task it was parked on closed in the same step, or its timer    *)
(* due, so two of them never advance it twice.                             *)
THEOREM AdvancesHaveACause == Spec => AdvanceNeedsItsCause
  <1>1. IInv /\ CauseInv /\ [Next]_vars =>
          [\A i \in Instances :
             inst[i].status = "running" /\ inst'[i] # inst[i] =>
               CASE inst[i].token = "task" ->
                      \E t \in Tasks : ParkedOn(i, t) /\ task'[t].status # "open"
                 [] inst[i].token = "timer" ->
                      inst'[i].status = "cancelled" \/ inst[i].wakeAt <= now]_vars
    <2> SUFFICES ASSUME IInv, CauseInv, Next, NEW i \in Instances,
                        inst[i].status = "running", inst'[i] # inst[i]
                 PROVE  CASE inst[i].token = "task" ->
                               \E t \in Tasks : ParkedOn(i, t) /\ task'[t].status # "open"
                          [] inst[i].token = "timer" ->
                               inst'[i].status = "cancelled" \/ inst[i].wakeAt <= now
      BY DEF vars
    <2>1. PICK p \in Procs : Acts(p)
      BY DEF Next, Acts, Tick, rows
    <2>2. Commit(p) /\ tx[p].op # "escalate"
      BY <2>1, ActsFrame, EscalationRows DEF rows
    <2>3. i = tx[p].instance /\ inst'[i] = tx[p].work
      BY <2>2, CommitRows
    <2>4. Cause(p) /\ Holding(p) /\ pc[p] = "commit" /\ AtCommit(p)
      BY <2>2 DEF CauseInv, Commit, Holding, IInv, TxInv
    <2>5. \/ tx[p].op = "complete" /\ tx[p].closing # {}
          \/ tx[p].op = "cancel" /\ tx[p].work.status = "cancelled"
          \/ tx[p].op = "sweep" /\ inst[i].token = "timer" /\ inst[i].wakeAt <= now
      BY <2>3, <2>4 DEF Cause, Causes
    <2>6. \/ \E t \in Tasks : ParkedOn(i, t)
          \/ inst[i].token = "timer"
      BY DEF IInv, RowInv, RunningInstanceCanAdvance
    <2>7. ASSUME NEW t \in Tasks, OpenFor(t, i) PROVE ParkedOn(i, t)
      BY <2>7 DEF OpenFor, IInv, RowInv, OpenTaskIsTheParkedOne, ParkedOn
    <2>8. CASE inst[i].token = "task"
      <3>1. \E t \in tx[p].closing : OpenFor(t, i)
        <4>1. CASE tx[p].op = "complete"
          BY <2>2, <2>3, <2>5, <4>1, CommitRows
        <4>2. CASE tx[p].op = "cancel"
          <5>1. Covers(p)
            BY <2>2, <2>4, <2>5, <4>2 DEF AtCommit, WritesParked, WritesEnded, WritesBack
          <5>2. \E t \in Tasks : OpenFor(t, i)
            BY <2>6, <2>8 DEF ParkedOn, OpenFor
          <5> QED BY <2>3, <5>1, <5>2 DEF Covers
        <4> QED BY <2>5, <2>8, <4>1, <4>2
      <3>2. PICK t \in tx[p].closing : OpenFor(t, i)
        BY <3>1
      <3>3. t \in Tasks /\ task'[t].status # "open"
        BY <2>2, <3>2, CommitRows DEF IInv, TypeOK, TxRow
      <3>4. ParkedOn(i, t)
        BY <2>7, <3>2, <3>3
      <3> QED BY <2>8, <3>3, <3>4
    <2>9. CASE inst[i].token = "timer"
      <3>1. tx[p].op # "complete"
        <4> SUFFICES ASSUME tx[p].op = "complete" PROVE FALSE
          OBVIOUS
        <4>1. PICK t \in tx[p].closing : OpenFor(t, i)
          BY <2>2, <2>3, <2>5, CommitRows
        <4>2. t \in Tasks
          BY DEF IInv, TypeOK, TxRow
        <4> QED BY <2>7, <2>9, <4>1, <4>2 DEF ParkedOn
      <3> QED BY <2>3, <2>5, <2>9, <3>1
    <2> QED BY <2>6, <2>8, <2>9 DEF ParkedOn
  <1> QED BY <1>1, CauseInvariance, PTL DEF Spec, AdvanceNeedsItsCause

(* An instance that ended and a task that was closed never change again.   *)
THEOREM DecisionsAreFinal == Spec => DecidedIsFinal
  <1>1. IInv /\ CauseInv /\ [Next]_vars =>
          [/\ \A i \in Instances :
                inst[i].status \in {"completed", "cancelled"} => inst'[i] = inst[i]
           /\ \A t \in Tasks :
                task[t].status \in {"completed", "cancelled"} => task'[t] = task[t]]_vars
    <2> SUFFICES ASSUME IInv, CauseInv, Next
                 PROVE  /\ \A i \in Instances :
                             inst[i].status \in {"completed", "cancelled"} => inst'[i] = inst[i]
                        /\ \A t \in Tasks :
                             task[t].status \in {"completed", "cancelled"} => task'[t] = task[t]
      BY DEF vars
    <2>1. CASE UNCHANGED <<inst, task>>
      BY <2>1
    <2>2. ASSUME NEW p \in Procs, Commit(p), tx[p].op = "escalate"
          PROVE  /\ inst' = inst
                 /\ \A t \in Tasks : task[t].status # "open" => task'[t] = task[t]
      <3>1. HasTask(p)
        BY <2>2 DEF IInv, TxInv, AtCommit, Commit
      <3> QED BY <2>2, <3>1, EscalationRows DEF HasTask
    <2>3. ASSUME NEW p \in Procs, Commit(p), tx[p].op # "escalate"
          PROVE  /\ inst[tx[p].instance].status \in {"none", "running", "failed"}
                 /\ \A i \in Instances : i # tx[p].instance => inst'[i] = inst[i]
                 /\ \A t \in Tasks : task[t].status \notin {"none", "open"}
                                       => task'[t] = task[t]
      <3>1. Cause(p) /\ Holding(p)
        BY <2>3 DEF CauseInv, Commit, Holding
      <3>2. inst[tx[p].instance].status \in {"none", "running", "failed"}
        BY <3>1 DEF Cause, Causes
      <3> QED BY <2>3, <3>2, CommitRows DEF OpenFor
    <2>4. UNCHANGED <<inst, task>> \/ \E p \in Procs : Commit(p)
      <3>1. Tick => UNCHANGED <<inst, task>>
        BY DEF Tick, rows
      <3>2. \A p \in Procs : Acts(p) => UNCHANGED <<inst, task>> \/ Commit(p)
        BY ActsFrame DEF rows
      <3> QED BY <3>1, <3>2 DEF Next, Acts
    <2> QED BY <2>1, <2>2, <2>3, <2>4
  <1> QED BY <1>1, CauseInvariance, PTL DEF Spec, DecidedIsFinal
=============================================================================
