---------------------------- MODULE AfterCommit ----------------------------
(***************************************************************************)
(* Side effects held until the transaction that produced them is durable   *)
(* (after-commit.service.ts), on one TypeORM query runner.  A nested       *)
(* transaction is a savepoint: releasing it hands its writes to the level  *)
(* around it, rolling it back undoes them.  The service learns of all of   *)
(* this from three subscriber hooks and counts the nesting itself.         *)
(***************************************************************************)
EXTENDS Naturals

CONSTANTS MaxDepth,     \* bound: levels of nesting
          MaxWork       \* bound: pieces of work done, each with one effect

ASSUME BoundAssumption == MaxDepth \in Nat \ {0} /\ MaxWork \in Nat

VARIABLES
  open,      \* the runner's transaction levels; 0 is no transaction
  writes,    \* level -> the work whose writes are on it
  durable,   \* work that is committed
  depth,     \* the service's own count of the nesting
  effects,   \* its parked side effects, with the depth they came at
  flush,     \* effects taken at a commit and not run yet
  ran,       \* work whose effect has run, or failed running
  done,      \* work done so far: 1 .. done, in this order
  died       \* the process died

vars == <<open, writes, durable, depth, effects, flush, ran, done, died>>

Levels == 1 .. MaxDepth
Work == 1 .. MaxWork
Effect == [depth : Nat, work : Work]
WorkOf(es) == {e.work : e \in es}

Init ==
  /\ open = 0 /\ writes = [l \in Levels |-> {}] /\ durable = {}
  /\ depth = 0 /\ effects = {} /\ flush = {} /\ ran = {}
  /\ done = 0 /\ died = FALSE

(* Math.max(0, depth - 1).                                                 *)
OneLess == IF depth > 0 THEN depth - 1 ELSE 0

(* The caller awaits the commit, and the commit awaits the flush.          *)
CallerRuns == flush = {} /\ ~died

(* BEGIN or SAVEPOINT, then afterTransactionStart.                         *)
Start ==
  /\ CallerRuns /\ open < MaxDepth
  /\ open' = open + 1
  /\ depth' = depth + 1
  /\ UNCHANGED <<writes, durable, effects, flush, ran, done, died>>

(* A piece of work writes a row and calls runAfterCommit: outside any      *)
(* transaction its effect runs at once, inside one it is parked.           *)
RunAfterCommitAtOnce(w) ==
  /\ durable' = durable \cup {w} /\ ran' = ran \cup {w}
  /\ UNCHANGED <<writes, effects>>
RunAfterCommitNoDepth(w) ==                   \* mutant: the depth is not kept
  /\ writes' = [writes EXCEPT ![open] = @ \cup {w}]
  /\ effects' = effects \cup {[work |-> w]}
  /\ UNCHANGED <<durable, ran>>
RunAfterCommitLater(w) ==
  /\ writes' = [writes EXCEPT ![open] = @ \cup {w}]
  /\ effects' = effects \cup {[depth |-> depth, work |-> w]}
  /\ UNCHANGED <<durable, ran>>
RunAfterCommit ==
  LET w == done + 1 IN
  /\ CallerRuns /\ done < MaxWork
  /\ done' = w
  /\ \/ open = 0 /\ RunAfterCommitAtOnce(w)
     \/ open > 0 /\ RunAfterCommitLater(w)
  /\ UNCHANGED <<open, depth, flush, died>>

(* RELEASE SAVEPOINT: the event comes although nothing is durable yet.     *)
ReleaseFlushes ==                             \* mutant: flushes on a release
  /\ CallerRuns /\ open > 1
  /\ open' = open - 1
  /\ writes' = [writes EXCEPT ![open - 1] = @ \cup writes[open], ![open] = {}]
  /\ depth' = 0 /\ effects' = {} /\ flush' = effects
  /\ UNCHANGED <<durable, ran, done, died>>
Release ==
  /\ CallerRuns /\ open > 1
  /\ open' = open - 1
  /\ writes' = [writes EXCEPT ![open - 1] = @ \cup writes[open], ![open] = {}]
  /\ depth' = OneLess
  /\ UNCHANGED <<durable, effects, flush, ran, done, died>>

(* COMMIT: take deletes the slot and what it held is run.                  *)
CommitKeepsSlot ==                            \* mutant: the slot is not deleted
  /\ CallerRuns /\ open = 1
  /\ open' = 0
  /\ durable' = durable \cup writes[1]
  /\ writes' = [writes EXCEPT ![1] = {}]
  /\ depth' = 0 /\ flush' = effects
  /\ UNCHANGED <<effects, ran, done, died>>
Commit ==
  /\ CallerRuns /\ open = 1
  /\ open' = 0
  /\ durable' = durable \cup writes[1]
  /\ writes' = [writes EXCEPT ![1] = {}]
  /\ depth' = 0 /\ effects' = {} /\ flush' = effects
  /\ UNCHANGED <<ran, done, died>>

(* The loop of afterTransactionCommit, in the order of registration; an    *)
(* effect that throws is logged and the next one runs.                     *)
RunEffect ==
  /\ ~died
  /\ \E e \in flush :
       /\ \A f \in flush : e.work <= f.work
       /\ flush' = flush \ {e}
       /\ ran' = ran \cup {e.work}
  /\ UNCHANGED <<open, writes, durable, depth, effects, done, died>>

(* ROLLBACK TO SAVEPOINT, or ROLLBACK, then afterTransactionRollback.      *)
RollbackSavepoint ==
  /\ CallerRuns /\ open > 1
  /\ open' = open - 1
  /\ writes' = [writes EXCEPT ![open] = {}]
  /\ depth' = OneLess
  /\ effects' = {e \in effects : e.depth <= depth'}
  /\ UNCHANGED <<durable, flush, ran, done, died>>
Rollback ==
  /\ CallerRuns /\ open = 1
  /\ open' = 0
  /\ writes' = [writes EXCEPT ![1] = {}]
  /\ depth' = 0 /\ effects' = {}
  /\ UNCHANGED <<durable, flush, ran, done, died>>

(* The process dies: PostgreSQL rolls back, what was parked is lost.       *)
Die ==
  /\ ~died /\ died' = TRUE
  /\ open' = 0 /\ writes' = [l \in Levels |-> {}]
  /\ depth' = 0 /\ effects' = {} /\ flush' = {}
  /\ UNCHANGED <<durable, ran, done>>

Next ==
  \/ Start \/ RunAfterCommit \/ Release \/ Commit \/ RunEffect
  \/ RollbackSavepoint \/ Rollback \/ Die

Spec == Init /\ [][Next]_vars

-----------------------------------------------------------------------------
(* Properties.                                                             *)

(* Every variable keeps its type.                                          *)
TypeOK ==
  /\ open \in 0 .. MaxDepth /\ depth \in Nat
  /\ writes \in [Levels -> SUBSET Work]
  /\ durable \subseteq Work /\ ran \subseteq Work
  /\ effects \subseteq Effect /\ flush \subseteq Effect
  /\ done \in 0 .. MaxWork /\ died \in BOOLEAN

(* The effect of work that is not durable, or never will be, has not run   *)
(* and is not about to: the worker never looks for rows nobody can see.    *)
OnlyDurableWorkHasEffects == WorkOf(flush) \cup ran \subseteq durable

(* An effect that has run is parked nowhere: no later transaction of the   *)
(* same runner runs it again.                                              *)
EffectsRunOnce == WorkOf(flush \cup effects) \cap ran = {}

(* What the comment on nesting says: a savepoint's rollback drops only the *)
(* effects registered inside it.  So once the runner is idle, all the work *)
(* that is durable has had its effect, unless the process died.            *)
DurableWorkHasHadItsEffect ==
  open = 0 /\ flush = {} /\ ~died => durable \subseteq ran
=============================================================================
