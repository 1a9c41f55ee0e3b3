--------------------------- MODULE SchedulerLock ---------------------------
(***************************************************************************)
(* A scheduled job that fires on every replica of the API                  *)
(* (shared/scheduling/exclusive-job.ts) and claims each of its units of    *)
(* work in the database (shared/scheduler/scheduler-lock.service.ts).      *)
(*                                                                         *)
(* runExclusively takes an advisory lock on a connection of its own, which *)
(* lasts as long as the process.  runOnce inserts the claim of a key, does *)
(* the work and stamps the claim as finished; when either of the two       *)
(* throws it deletes the claim and throws on, which ends the firing.       *)
(* What the work is, and which keys a firing has, a client module says.    *)
(***************************************************************************)
EXTENDS Naturals

CONSTANTS
  Replicas, Keys,          \* processes; keys of scheduled_job_runs of one job
  NoReplica, NoKey,
  MaxFaults                \* bound: deaths, failed statements and the like

ASSUME LockAssumption ==
  NoReplica \notin Replicas /\ NoKey \notin Keys /\ MaxFaults \in Nat

VARIABLES
  claim,     \* key -> its row of scheduled_job_runs
  holder,    \* the replica that holds the advisory lock
  firing,    \* replica -> its firing: keys still to run, the key it is on
  faults

lockVars == <<claim, holder, firing, faults>>

ClaimStates == {"free", "claimed", "finished"}     \* free: no row
FiringLabels == {"idle", "next", "work", "finish", "release", "unlock"}
Firing == [pc : FiringLabels, todo : SUBSET Keys, key : Keys \cup {NoKey}]
NoFiring == [pc |-> "idle", todo |-> {}, key |-> NoKey]

LockTypeOK ==
  /\ claim \in [Keys -> ClaimStates]
  /\ holder \in Replicas \cup {NoReplica}
  /\ firing \in [Replicas -> Firing]
  /\ faults \in 0 .. MaxFaults

LockInit ==
  /\ claim = [k \in Keys |-> "free"]
  /\ holder = NoReplica
  /\ firing = [r \in Replicas |-> NoFiring]
  /\ faults = 0

Faulty == faults < MaxFaults /\ faults' = faults + 1

(* pg_try_advisory_lock, then the job works out its keys.                  *)
TakeLockAnyway(r, keys) ==            \* mutant: no replica excludes another
  /\ firing[r].pc = "idle"
  /\ holder' = r
  /\ firing' = [firing EXCEPT ![r] = [pc |-> "next", todo |-> keys, key |-> NoKey]]
  /\ UNCHANGED <<claim, faults>>
TakeLock(r, keys) ==
  /\ firing[r].pc = "idle" /\ holder = NoReplica
  /\ holder' = r
  /\ firing' = [firing EXCEPT ![r] = [pc |-> "next", todo |-> keys, key |-> NoKey]]
  /\ UNCHANGED <<claim, faults>>

(* INSERT ... ON CONFLICT DO NOTHING RETURNING: the row, or none.          *)
Claim(r, k) ==
  /\ firing[r].pc = "next" /\ k \in firing[r].todo
  /\ claim[k] = "free"
  /\ claim' = [claim EXCEPT ![k] = "claimed"]
  /\ firing' = [firing EXCEPT ![r].pc = "work", ![r].key = k]
  /\ UNCHANGED <<holder, faults>>
SkipClaimed(r, k) ==
  /\ firing[r].pc = "next" /\ k \in firing[r].todo
  /\ claim[k] # "free"
  /\ firing' = [firing EXCEPT ![r].todo = @ \ {k}]
  /\ UNCHANGED <<claim, holder, faults>>

(* The client's work, which returns or throws.                             *)
WorkReturns(r) ==
  /\ firing[r].pc = "work"
  /\ firing' = [firing EXCEPT ![r].pc = "finish"]
  /\ UNCHANGED <<claim, holder, faults>>
WorkThrows(r) ==
  /\ firing[r].pc = "work" /\ Faulty
  /\ firing' = [firing EXCEPT ![r].pc = "release"]
  /\ UNCHANGED <<claim, holder>>

(* UPDATE ... SET finished_at, and on with the next key.                   *)
Finish(r) ==
  LET k == firing[r].key IN
  /\ firing[r].pc = "finish"
  /\ claim' = [claim EXCEPT ![k] = "finished"]
  /\ firing' = [firing EXCEPT ![r] = [pc |-> "next", todo |-> @.todo \ {k}, key |-> NoKey]]
  /\ UNCHANGED <<holder, faults>>
FinishThrows(r) ==
  /\ firing[r].pc = "finish" /\ Faulty
  /\ firing' = [firing EXCEPT ![r].pc = "release"]
  /\ UNCHANGED <<claim, holder>>

(* DELETE of the claim, then the error goes up; a DELETE that fails leaves *)
(* the claim, and the error is its own.                                    *)
Release(r) ==
  /\ firing[r].pc = "release"
  /\ claim' = [claim EXCEPT ![firing[r].key] = "free"]
  /\ firing' = [firing EXCEPT ![r] = [pc |-> "unlock", todo |-> {}, key |-> NoKey]]
  /\ UNCHANGED <<holder, faults>>
ReleaseThrows(r) ==
  /\ firing[r].pc = "release" /\ Faulty
  /\ firing' = [firing EXCEPT ![r] = [pc |-> "unlock", todo |-> {}, key |-> NoKey]]
  /\ UNCHANGED <<claim, holder>>

(* The job is over, well or not: pg_advisory_unlock.                       *)
Unlock(r) ==
  /\ \/ firing[r].pc = "next" /\ firing[r].todo = {}
     \/ firing[r].pc = "unlock"
  /\ firing' = [firing EXCEPT ![r] = NoFiring]
  /\ holder' = NoReplica
  /\ UNCHANGED <<claim, faults>>

(* The replica dies in the middle and starts again: its connection, and    *)
(* the advisory lock with it, is gone; its claim is not.                   *)
Die(r) ==
  /\ firing[r].pc # "idle" /\ Faulty
  /\ firing' = [firing EXCEPT ![r] = NoFiring]
  /\ holder' = IF holder = r THEN NoReplica ELSE holder
  /\ UNCHANGED claim
=============================================================================
