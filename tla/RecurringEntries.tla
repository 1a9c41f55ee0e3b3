-------------------------- MODULE RecurringEntries --------------------------
(***************************************************************************)
(* Recurring journal entries: the nightly cron queues every occurrence     *)
(* that is due and not posted (recurring-journal-entries.service.ts), each *)
(* under a claim of SchedulerLock; a worker posts it                       *)
(* (recurring-entries.processor.ts).  One tenant; occurrences are dates    *)
(* 1, 2, ... of every template.                                            *)
(*                                                                         *)
(* The queue is BullMQ as the code configures it: a job's id names its     *)
(* occurrence, and an id that is there is not added again; a finished job  *)
(* is removed, a failed one is kept (queues.module.ts); a job whose worker *)
(* does not renew its lock is stalled and goes back, once, although the    *)
(* worker may still be running it.                                         *)
(***************************************************************************)
EXTENDS SchedulerLock, FiniteSets

CONSTANTS
  Templates, Workers, NoWorker,
  MaxDate,                \* bound: the last day
  MaxCatchUp,             \* MAX_CATCH_UP
  MaxAttempts,            \* attempts of a job
  MaxStalls               \* maxStalledCount of the queue

Dates == 1 .. MaxDate

ASSUME EntriesAssumption ==
  /\ Keys = Templates \X Dates
  /\ NoWorker \notin Workers
  /\ MaxDate \in Nat \ {0} /\ MaxCatchUp \in Nat \ {0}
  /\ MaxAttempts \in Nat \ {0} /\ MaxStalls \in Nat

VARIABLES
  today,
  template,   \* template -> active, paused or removed
  lastRun,    \* template -> last_run_date; 0 is null
  entries,    \* keys of the posted occurrences
  job,        \* key -> its job in the queue
  work,       \* worker -> what it is doing, for which key
  lock        \* template -> the worker whose transaction has its row locked

vars == <<lockVars, today, template, lastRun, entries, job, work, lock>>

Job == [state : {"none", "waiting", "active", "failed"},
        attempts : 0 .. MaxAttempts, stalls : 0 .. MaxStalls,
        owner : Workers \cup {NoWorker}]
NoJob == [state |-> "none", attempts |-> 0, stalls |-> 0, owner |-> NoWorker]
NewJob == [NoJob EXCEPT !.state = "waiting"]
Work == [pc : {"idle", "begin", "post", "returned", "threw"}, key : Keys \cup {NoKey}]
NoWork == [pc |-> "idle", key |-> NoKey]

Init ==
  /\ LockInit
  /\ today = 1
  /\ template \in [Templates -> {"active", "paused"}]
  /\ lastRun = [t \in Templates |-> 0] /\ entries = {}
  /\ job = [k \in Keys |-> NoJob]
  /\ work = [w \in Workers |-> NoWork]
  /\ lock = [t \in Templates |-> NoWorker]

-----------------------------------------------------------------------------
(* The cron.                                                               *)

(* dueDates: the oldest MaxCatchUp dates after the last one posted.        *)
Ahead(t) == {d \in Dates : lastRun[t] < d /\ d <= today}
DueToday(t) == Ahead(t) \cap {today}        \* mutant: only what is due today
DueDates(t) == {d \in Ahead(t) : Cardinality({e \in Ahead(t) : e < d}) < MaxCatchUp}

Fire(r) ==
  /\ TakeLock(r, {k \in Keys : template[k[1]] = "active" /\ k[2] \in DueDates(k[1])})
  /\ UNCHANGED <<today, template, lastRun, entries, job, work, lock>>

(* enqueue, oldest date first.                                             *)
IsOldest(r, k) == \A j \in firing[r].todo : j[1] = k[1] => k[2] <= j[2]
EnqueueNext(r) ==
  /\ \E k \in firing[r].todo : IsOldest(r, k) /\ (Claim(r, k) \/ SkipClaimed(r, k))
  /\ UNCHANGED <<today, template, lastRun, entries, job, work, lock>>

(* queue.add, which may throw after the job is in the queue.               *)
AddJob(k) ==
  job' = [job EXCEPT ![k] = IF @.state = "none" THEN NewJob ELSE @]
Add(r) ==
  /\ WorkReturns(r) /\ AddJob(firing[r].key)
  /\ UNCHANGED <<today, template, lastRun, entries, work, lock>>
AddFails(r) ==
  /\ WorkThrows(r)
  /\ AddJob(firing[r].key) \/ UNCHANGED job
  /\ UNCHANGED <<today, template, lastRun, entries, work, lock>>

EndFiring(r) ==
  /\ Finish(r) \/ FinishThrows(r) \/ Release(r) \/ ReleaseThrows(r) \/ Unlock(r) \/ Die(r)
  /\ UNCHANGED <<today, template, lastRun, entries, job, work, lock>>

-----------------------------------------------------------------------------
(* The worker.                                                             *)

Take(w, k) ==
  /\ work[w].pc = "idle" /\ job[k].state = "waiting"
  /\ job' = [job EXCEPT ![k].state = "active", ![k].owner = w]
  /\ work' = [work EXCEPT ![w] = [pc |-> "begin", key |-> k]]
  /\ UNCHANGED <<lockVars, today, template, lastRun, entries, lock>>

(* The template FOR UPDATE, re-read after the wait.  A missing one throws, *)
(* a paused one, or an occurrence already posted, returns.                 *)
BeginUnlocked(w) ==                         \* mutant: the template is not locked
  LET k == work[w].key IN
  /\ work[w].pc = "begin"
  /\ work' = [work EXCEPT ![w].pc =
       IF template[k[1]] = "removed" THEN "threw"
       ELSE IF template[k[1]] = "paused" \/ k \in entries THEN "returned" ELSE "post"]
  /\ UNCHANGED <<lockVars, today, template, lastRun, entries, job, lock>>
BeginPaused(w) ==                           \* mutant: isActive is not tested
  LET k == work[w].key IN
  /\ work[w].pc = "begin" /\ lock[k[1]] = NoWorker
  /\ template[k[1]] # "removed" /\ k \notin entries
  /\ work' = [work EXCEPT ![w].pc = "post"]
  /\ lock' = [lock EXCEPT ![k[1]] = w]
  /\ UNCHANGED <<lockVars, today, template, lastRun, entries, job>>
Begin(w) ==
  LET k == work[w].key IN
  /\ work[w].pc = "begin" /\ lock[k[1]] = NoWorker
  /\ template[k[1]] = "active" /\ k \notin entries
  /\ work' = [work EXCEPT ![w].pc = "post"]
  /\ lock' = [lock EXCEPT ![k[1]] = w]
  /\ UNCHANGED <<lockVars, today, template, lastRun, entries, job>>
BeginReturns(w) ==
  LET k == work[w].key IN
  /\ work[w].pc = "begin" /\ lock[k[1]] = NoWorker
  /\ \/ template[k[1]] = "paused"
     \/ template[k[1]] = "active" /\ k \in entries
  /\ work' = [work EXCEPT ![w].pc = "returned"]
  /\ UNCHANGED <<lockVars, today, template, lastRun, entries, job, lock>>
BeginThrows(w) ==
  LET k == work[w].key IN
  /\ work[w].pc = "begin" /\ lock[k[1]] = NoWorker
  /\ template[k[1]] = "removed"
  /\ work' = [work EXCEPT ![w].pc = "threw"]
  /\ UNCHANGED <<lockVars, today, template, lastRun, entries, job, lock>>

(* createWithQueryRunner under the occurrence's key, lastRunDate, COMMIT.  *)
PostAlwaysStamps(w) ==                      \* mutant: lastRunDate is not compared
  LET k == work[w].key IN
  /\ work[w].pc = "post" /\ k \notin entries
  /\ entries' = entries \cup {k}
  /\ lastRun' = [lastRun EXCEPT ![k[1]] = k[2]]
  /\ work' = [work EXCEPT ![w].pc = "returned"]
  /\ lock' = [lock EXCEPT ![k[1]] = NoWorker]
  /\ UNCHANGED <<lockVars, today, template, job>>
Post(w) ==
  LET k == work[w].key IN
  /\ work[w].pc = "post" /\ k \notin entries
  /\ entries' = entries \cup {k}
  /\ lastRun' = [lastRun EXCEPT ![k[1]] = IF @ < k[2] THEN k[2] ELSE @]
  /\ work' = [work EXCEPT ![w].pc = "returned"]
  /\ lock' = [lock EXCEPT ![k[1]] = NoWorker]
  /\ UNCHANGED <<lockVars, today, template, job>>
(* A closed period, no ledger, an SQL error: ROLLBACK.                     *)
PostFails(w) ==
  /\ work[w].pc = "post"
  /\ work' = [work EXCEPT ![w].pc = "threw"]
  /\ lock' = [lock EXCEPT ![work[w].key[1]] = NoWorker]
  /\ UNCHANGED <<lockVars, today, template, lastRun, entries, job>>

(* The queue hears of the end only from the worker it gave the job to.     *)
Owns(w) == job[work[w].key].owner = w
Acknowledge(w) ==
  LET k == work[w].key IN
  /\ work[w].pc = "returned"
  /\ job' = [job EXCEPT ![k] = IF Owns(w) THEN NoJob ELSE @]
  /\ work' = [work EXCEPT ![w] = NoWork]
  /\ UNCHANGED <<lockVars, today, template, lastRun, entries, lock>>
AlwaysOneMore(j) ==                         \* mutant: it never gives up
  [j EXCEPT !.state = "waiting", !.attempts = @ + 1, !.owner = NoWorker]
OneMoreAttempt(j) ==
  IF j.attempts + 1 < MaxAttempts
  THEN [j EXCEPT !.state = "waiting", !.attempts = @ + 1, !.owner = NoWorker]
  ELSE [j EXCEPT !.state = "failed", !.attempts = MaxAttempts, !.owner = NoWorker]
Fail(w) ==
  LET k == work[w].key IN
  /\ work[w].pc = "threw"
  /\ job' = [job EXCEPT ![k] = IF Owns(w) THEN OneMoreAttempt(@) ELSE @]
  /\ work' = [work EXCEPT ![w] = NoWork]
  /\ UNCHANGED <<lockVars, today, template, lastRun, entries, lock>>

(* The worker dies: its transaction is rolled back, its job stays active.  *)
DieWorker(w) ==
  LET k == work[w].key IN
  /\ work[w].pc # "idle" /\ Faulty
  /\ work' = [work EXCEPT ![w] = NoWork]
  /\ lock' = [t \in Templates |-> IF lock[t] = w THEN NoWorker ELSE lock[t]]
  /\ job' = [job EXCEPT ![k].owner = IF Owns(w) THEN NoWorker ELSE @]
  /\ UNCHANGED <<claim, holder, firing, today, template, lastRun, entries>>

(* The stalled check of the queue, with the job's worker dead or only slow.*)
OneMoreStall(j) ==
  IF j.stalls < MaxStalls
  THEN [j EXCEPT !.state = "waiting", !.stalls = @ + 1, !.owner = NoWorker]
  ELSE [j EXCEPT !.state = "failed", !.owner = NoWorker]
Stalled(k) ==
  /\ job[k].state = "active"
  /\ \/ job[k].owner = NoWorker /\ UNCHANGED faults
     \/ job[k].owner # NoWorker /\ Faulty
  /\ job' = [job EXCEPT ![k] = OneMoreStall(@)]
  /\ UNCHANGED <<claim, holder, firing, today, template, lastRun, entries, work, lock>>

-----------------------------------------------------------------------------
(* The company.                                                            *)

(* update, which locks the template, and remove, whose DELETE waits for it.*)
ChangeTemplate(t, was, is) ==
  /\ lock[t] = NoWorker /\ template[t] = was
  /\ template' = [template EXCEPT ![t] = is]
  /\ UNCHANGED <<lockVars, today, lastRun, entries, job, work, lock>>
Pause(t) == ChangeTemplate(t, "active", "paused")
Resume(t) == ChangeTemplate(t, "paused", "active")
Remove(t) == \E s \in {"active", "paused"} : ChangeTemplate(t, s, "removed")

NextDay ==
  /\ today < MaxDate /\ today' = today + 1
  /\ UNCHANGED <<lockVars, template, lastRun, entries, job, work, lock>>

Cron(r) == Fire(r) \/ EnqueueNext(r) \/ Add(r) \/ AddFails(r) \/ EndFiring(r)
Processor(w) ==
  \/ \E k \in Keys : Take(w, k)
  \/ Begin(w) \/ BeginReturns(w) \/ BeginThrows(w)
  \/ Post(w) \/ PostFails(w) \/ Acknowledge(w) \/ Fail(w) \/ DieWorker(w)
Company == NextDay \/ \E t \in Templates : Pause(t) \/ Resume(t) \/ Remove(t)

Next ==
  \/ \E r \in Replicas : Cron(r)
  \/ \E w \in Workers : Processor(w)
  \/ \E k \in Keys : Stalled(k)
  \/ Company

(* The cron fires every night on some replica and a firing goes on; the    *)
(* workers go on; the queue notices that a worker is dead.  Nothing is     *)
(* assumed of days, companies, failures, or of the check of a live worker. *)
CronGoesOn(r) ==
  EnqueueNext(r) \/ Add(r) \/ (EndFiring(r) /\ faults' = faults)
WorkerGoesOn(w) == Processor(w) /\ faults' = faults
Fairness ==
  /\ WF_vars(\E r \in Replicas : Fire(r))
  /\ \A r \in Replicas : WF_vars(CronGoesOn(r))
  /\ \A w \in Workers : WF_vars(WorkerGoesOn(w))
  /\ \A k \in Keys : WF_vars(Stalled(k) /\ faults' = faults)

Spec == Init /\ [][Next]_vars
FairSpec == Spec /\ Fairness

-----------------------------------------------------------------------------
(* Properties.                                                             *)

(* Every variable keeps its type.                                          *)
TypeOK ==
  /\ LockTypeOK
  /\ today \in Dates
  /\ template \in [Templates -> {"active", "paused", "removed"}]
  /\ lastRun \in [Templates -> 0 .. MaxDate]
  /\ entries \subseteq Keys
  /\ job \in [Keys -> Job]
  /\ work \in [Workers -> Work]
  /\ lock \in [Templates -> Workers \cup {NoWorker}]

(* The cron asks only for dates after the last one posted.  So an          *)
(* occurrence whose claim is free, because the cron has not come to it or  *)
(* released it on an error, must not be overtaken: it is posted, or queued *)
(* already, or later than the last one posted, where the next run finds it.*)
NextRunFindsIt ==
  \A k \in Keys :
    claim[k] = "free" /\ job[k].state = "none" /\ k \notin entries
      => lastRun[k[1]] < k[2]

(* A job delivered twice, even to two workers at once, does not reach the  *)
(* unique index: who is about to post finds its occurrence not posted.     *)
RedeliveryIsHarmless ==
  \A w \in Workers : work[w].pc = "post" => work[w].key \notin entries

(* lastRunDate is the latest date posted, in whatever order the jobs of a  *)
(* catch-up ran.                                                           *)
LastRunIsTheLatest ==
  \A t \in Templates :
    /\ lastRun[t] # 0 => <<t, lastRun[t]>> \in entries
    /\ \A d \in Dates : <<t, d>> \in entries => d <= lastRun[t]

(* Crons, claims, queue and workers implement the promise.                 *)
Schedule == INSTANCE RecurringSchedule
ImplementsSchedule == Schedule!Spec

(* An occurrence nothing will post any more: its claim is taken and nobody *)
(* is at it, or its job gave up.                                           *)
Lost(k) ==
  /\ k \notin entries
  /\ \/ job[k].state = "failed"
     \/ /\ claim[k] # "free" /\ job[k].state = "none"
        /\ \A r \in Replicas : firing[r].key # k

(* A due occurrence of a template that stays active is posted, or lost, or *)
(* behind so many lost ones that the catch-up ends before it.              *)
EveryOccurrenceIsPosted ==
  \A k \in Keys :
    <>[](template[k[1]] = "active" /\ k[2] <= today)
      => <>(\/ k \in entries \/ Lost(k)
            \/ Cardinality({j \in Keys : j[1] = k[1] /\ j[2] < k[2] /\ Lost(j)}) >= MaxCatchUp)

(* The comment on update: pausing stops the posting without losing the     *)
(* schedule, resuming catches up what fell due meanwhile.  So an           *)
(* occurrence whose work was queued is not left behind when the template   *)
(* is active again.                                                        *)
PauseLosesNothing ==
  \A k \in Keys :
    template[k[1]] = "active" /\ claim[k] = "finished" /\ job[k].state = "none"
      => k \in entries
=============================================================================
