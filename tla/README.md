# Virtex: a verification project

TLA+ models of the Virtex back end (`src/apps/backend/api`), checked with TLC and,
for the parts that matter most, proved with TLAPS. Paths below are relative to
`src/apps/backend/api/src/app/` unless they begin with `src/`.

Virtex is an accounting and ERP system: a NestJS API over TypeORM and PostgreSQL
(READ COMMITTED), Redis/BullMQ for queues, an Angular client, POS and desktop
shells, a Python forecasting engine. The API has some seventy modules; most are
CRUD and arithmetic around a few cores that carry protocols of their own. The
protocols live in database transactions that race each other: nearly every hard
behaviour of this program is a question of *what a transaction read without a
lock, and what had become of it when it wrote*. That is what the models are about.

## 1. Inventory

### Components with a protocol of their own

| Component | State | Operations | Talks to | Correct when |
|---|---|---|---|---|
| **Workflow engine** (`workflow-engine/workflow-engine.service.ts`) | `workflow_instances` (status, token, nextWakeAt), `workflow_tasks`, the bell's notices | `start`, `completeTask`, `cancel`, `retry`, the `run` loop; crons: timer sweep, overdue escalation | definitions (read only), after-commit effects, notifier, subprocesses | an open task is the one its instance is parked on; nothing is left running with nothing to wait for; a token advances once per cause; due timers fire |
| **After-commit effects** (`shared/after-commit/`) | per query runner: depth, parked effects | `runAfterCommit`, three TypeORM subscriber hooks | every service with a side effect (queues, mail, notices) | an effect runs once, only for durable work, and for all of it |
| **Approval engine** (`workflows/`) | `approval_policies`/steps, `approval_requests`, `approval_step_actions` | `startApprovalProcess`, `approve`, `reject`, policy administration | handlers per document type (journal entries, vendor bills, ...) inside its transaction | a document is posted once, after its whole chain, and never waits without a decidable request |
| **Journal entries** (`journal-entries/`) | `journal_entries` and lines, number sequences; immutability and balance triggers of the database | `create`, `submitForApproval`, `postApproved`, `markPosted`, reversals | periods, approvals, numbering, account locks | balanced, immutable once posted, numbered without gaps, in an open period |
| **Accounting periods and year-end** (`accounting/period-*.ts`, `year-end-close.service.ts`, `result-transfer.service.ts`) | `accounting_periods` (status, per-module windows), `fiscal_years`, closing entries | `resolvePostingPeriod`, close/reopen of a period, a module window, a year | journal entries, balances, audit adjustments | nothing enters a closed period; nothing undecided is closed over; the result moves exactly once |
| **Recurring journal entries** (`journal-entries/recurring-*.ts`) | `recurring_journal_entries` (active, `last_run_date`), jobs of a BullMQ queue | nightly cron, worker, update, remove | scheduled jobs, the queue, journal entries | every occurrence is posted once, when due, while its template is active, and none is overtaken |
| **Scheduled jobs** (`shared/scheduler/`, `shared/scheduling/`) | `scheduled_job_runs` (claims), advisory locks | `runOnce`, `runExclusively` | every cron of the API, one per replica | one replica runs a unit of work; a failure releases it |
| **Electronic invoicing** (`einvoicing/`) | `ecf_submissions` (status, trackId, attempts) | `submitInvoice`, `pollStatus`, crons `retryPending` and `pollPending` | the tax authority (DGII), invoices | a document is not sent blindly twice, its verdict is the authority's, and it gets one |
| **Idempotency interceptor** (`shared/idempotency/`) | `idempotency_records` | claim, replay, refuse, complete, release | every mutating endpoint that opts in | at most one success per key; a retry gets the same answer |
| **Receivables** (`customers/customer-payments.service.ts`, credit notes of `invoices/invoices.service.ts`) | `invoices` (balance, status, creditedTotal), `customer_payments` and lines, the advances they leave | receive, void, credit note | numbering, journal entries | the ledger is what the documents say; nothing is collected or credited twice |
| **Workflow definitions** (`workflow-engine/workflow-definitions.service.ts`) | definition rows, versions, draft/published | create, update, publish, createVersion, remove, unpublish | engine, triggers | what instances run on never changes under them |
| **Tenant connections** (`shared/tenancy/`) | the pinned connection of a request, its GUC, its savepoints | acquire, pin, release with grace | every repository | a statement runs for the tenant of its request, in its own transaction |
| **Audit adjustments** (`journal-entries/adjustments.service.ts`) | proposals, postings into closed years | propose, approve, post | period close, result transfer | the year's result follows each adjustment |

### The rest of the API

`accounts-payable`, `analytical-reporting`, `audit`, `auth`, `bi`, `budgets`, `chart-of-accounts`,
`collections`, `compliance`, `consolidation`, `contracts`, `currencies`, `customers`,
`data-transfer`, `dimensions`, `documents`, `financial-reporting`,
`fixed-assets`, `hcm`, `inbound-mail`, `intercompany`, `inventory`, `invoices`,
`manufacturing`, `notifications`, `payment`, `payroll`, `pos`, `price-lists`,
`procurement`, `projects`, `reconciliation`, `roles`, `sales`, `supply-chain`, `taxes`,
`treasury`, `users`, ... keep rows of their own and post through the journal-entry
port. Their hard behaviour is inherited from the cores above (an approval, a
period, a numbering, an after-commit effect). `src/apps/core/client-web`,
`src/apps/pos`, `src/apps/desktop`, `src/apps/ai-engine`, `src/libs/shared` and
`src/tools` are presentation, numeric code or build scripts.

### What is hard here

* **Unlocked reads**: `findOne`, checks, then `save` of the entity read. TypeORM's
  `save` reads the row again and writes the columns that differ from *that*; a
  change committed in between is silently overwritten, or merged by column.
* **Lock order**: `FOR UPDATE`, `FOR SHARE`, `SKIP LOCKED` and implicit UPDATE locks
  taken in different orders by different operations.
* **Effects after commit**: run outside any transaction, unordered with those of
  other transactions, lost when the process dies.
* **Savepoints**: a request pins one connection, so that a service's own
  `transaction()` is a savepoint of somebody else's.
* **Crons on several replicas** over the same rows, and deliveries that come twice.
* **Answers that are lost**: a request to the authority, a job's acknowledgement, a
  commit's answer; who tries again must know what has happened.
* **Work done after the answer**, which a crash or a failed statement leaves undone.
* **Sequences of legal calls** (close, reopen, close again; reject one request and
  approve the other) that no test walks through.

`PROJECT.json` lists each place under `hazards`, with the property that would catch
it going wrong, or the reason none does yet.

## 2. The modules

| Module | Models | Checked by | Proved in |
|---|---|---|---|
| `WorkflowEngine` | the engine, both sweeps, row locks, commits, effects | `MCWorkflowEngine` | `WorkflowEngineProofs` |
| `AfterCommit` | one query runner, its savepoints, the service's hooks | itself | `AfterCommitProofs` |
| `ApprovalChain` | the approval engine with the journal entry's handler, posting and numbering | `MCApprovalChain` | `ApprovalChainProofs` |
| `PeriodClose` | postings against the calendar; closes and reopenings of periods, windows and the year | `MCPeriodClose` | `PeriodCloseProofs` |
| `SchedulerLock` | claims and the advisory lock of a job on every replica; composed into its client | with `RecurringEntries` | with `RecurringEntries` |
| `RecurringSchedule` | abstract: what recurring entries promise | refinement of `RecurringEntries` | `RecurringEntriesProofs` |
| `RecurringEntries` | cron, queue, workers and changes of templates, over `SchedulerLock` | `MCRecurringEntries` | `RecurringEntriesProofs` |
| `EcfSubmission` | the transmission of one electronic invoice, and the authority | itself | `EcfSubmissionProofs` |
| `OnceAnswered` | abstract: what an Idempotency-Key promises its callers | refinement of `IdempotencyKeys` | `IdempotencyKeysProofs` |
| `IdempotencyKeys` | the interceptor, for the requests of one key | itself | `IdempotencyKeysProofs` |
| `Collections` | abstract: what a receipt, a void and a credit note do to an invoice | refinement of `Receivables` | `ReceivablesProofs` |
| `Receivables` | the three operations with their locks, reads and commits | `MCReceivables` | `ReceivablesProofs` |

All model PostgreSQL at READ COMMITTED. A committed row is a variable; what a
transaction or a request has in memory is a record per caller (`tx[c]`, `call[c]`,
`work[w]`), which nobody else sees, with a position `pc` (`at`). It is split into steps exactly
where another one can come in between: where it waits for a row lock, and where it
reads a row it has not locked. A commit writes and releases the locks, a rollback
only releases them. A lock that is not free is waited for (its action is not enabled).
TypeORM's `save` of an entity is two steps: it selects the row, then updates the columns
in which the entity differs from what it selected.

### WorkflowEngine

`inst`, `task` are the rows; `ilock`, `tlock` their locks; `tx[p].work` is the instance
entity in memory; `scan` is what a sweep's query returned (ids, stale when they are
visited); `notices` are the tasks with an unread notice; `now` is a clock.

* `Start`, `Complete` (`CompleteLockTask`, `CompleteLockInstance`), `Cancel`
  (`CancelLockInstance`, `CancelReadTasks`, `CancelTask`, `CancelTasksClosed`) and `Retry`
  (`RetryLockInstance`) are the service's operations, in the order they lock and read.
* `StepStart` ... `StepTimer` are the iterations of `run`, one per node type; `RunFails` is
  a throw, a missing edge or the step limit, `RunParks` the end of a run.
* `ScanTimers`, `SweepSkips` (SKIP LOCKED), `SweepWakes`, `SweepCorrects` and `ScanOverdue`,
  `EscalationSkips`, `Escalate` are the crons, one `TimerSweeps` member per replica.
* `RunEffect` runs the effects queued before the commit, `Lose` is an SQL error or
  a crash, and `DeadlockVictim` is PostgreSQL ending a wait cycle.

The graph is a constant: any nodes, edges, outcomes. What an action answers and
which condition holds is left open. A single task, token and timer per instance
is what the code keeps (there are no parallel gateways).

### AfterCommit

`open` and `writes` are the database's view of the nesting, `depth` and `effects` are
the service's; the model keeps both because the service can only infer the first
from events. `Release` is RELEASE SAVEPOINT, for which TypeORM announces a commit.

### ApprovalChain

`document` and `request` rows, `actions` (the signatures), `next` (the number
sequence). `Decide` reads the request without a lock; `SelectRequest` and `UpdateRequest`
are the two statements of TypeORM's `save`, with its by-column merge; `OnApproved`,
`AllocateNumber`, `SavePosted`, `OnRejected` are the handler inside the transaction;
`MayChange` is the database trigger that freezes a posted entry.

### PeriodClose

`period` rows with a status and one window per subledger, the `year`, the `entries`
(their kind, period and effect on the profit-and-loss accounts). `share` and `hold` are
row locks; row 0 is the fiscal year's. Postings share their period (`Post`, `Submit`,
`Approve`), `ClosePeriod` locks it and then makes three unlocked reads. The reopening reads
everything before it saves, twice: once to open the row (`ReopenSelect`, `ReopenUpdate`), once
more after the reversals (the same two from `selectAgain`, `updateAgain`). A save that finds
nothing to change issues no UPDATE and takes no lock: a reopening that finds the row open looks
for the closing entries (`ReopenFind`) without holding it, and reverses them (`ReopenReverse`)
under the share lock of the posting only. What it found may have been reversed in between;
`Reversible` stands for the check of `isReversed` and for the unique index on `reverses_entry_id`
(`BaselineSchema`), which sees what was committed. Of two reversals that are both
uncommitted, the locks let only one end. `CloseYear...Transfer` and
`ReopenYear...ReverseAll` are the annual close, `OpenLast` the temporary opening of
the last period, `AuditRead`/`AuditPost` the audit adjustment.

### SchedulerLock, RecurringEntries

`claim` are the rows of `scheduled_job_runs`, `holder` is who has the advisory lock, `firing[r]`
how far replica `r` is: `TakeLock`, `Claim` or `SkipClaimed` (INSERT ... ON CONFLICT), the
client's work, `Finish` or `Release`, `Unlock`. Each statement may fail, and `Die` ends a replica
anywhere: its connection takes the advisory lock along, its claim stays.

`RecurringEntries` extends it with what the work is. `Fire` computes the due dates
(`DueDates`: the oldest `MAX_CATCH_UP` after `lastRun`), `EnqueueNext` takes them oldest
first, `Add` puts the job in the queue (`AddFails`: throws, perhaps after it did). The queue
is BullMQ as `queues.module.ts` configures it: the job's id is its occurrence; a finished job
is removed, a failed one kept; `Stalled` gives a job back whose worker did not renew its
lock, even when that worker is alive. A worker locks the template (`Begin`), posts and
stamps in one commit (`Post`), and acknowledges (`Acknowledge`, `Fail`), which the queue believes
only of the worker it gave the job to. `Pause`, `Resume` and `Remove` are the
service's. `RecurringSchedule` knows only days, templates and entries.

### EcfSubmission

`row` is the `ecf_submissions` row, `authority` what the DGII has and has decided, `call[c]` an
attempt with the *entity* it loaded. Nothing locks the row. `ReadRow`, `Sign` (counts the
attempt before anything leaves), `GetToken`, `LookupFinds` and its kin (ask before repeating),
`SendAnswered`, `SendFails` are `submitInvoice`; `RecordFailure` its catch; `ListRetriable`,
`ListPollable`, `QueryStatus` the crons. `then` and `orElse` say where an attempt goes when its save
succeeds or throws, which differs with what the code awaits inside its `try`. A repeated
document is refused with a 4xx (`Receive`), as the service's own comment says; the transport
takes that for a verdict.

### IdempotencyKeys

`record` is the key's row, or `Absent`; `call[r]` a request; `performed` the requests whose handler
committed. `Insert` is the atomic claim, `Replay` and `Refuse` what a second request is
told, `Answer` then `Store` the success path (the answer leaves first), `HandlerThrows` then
`Release` the other. `OnceAnswered` is what a caller may rely on: one success by itself, all
others its repetition.

### Receivables

`invoice`, `receipt` are rows, `notes` the sum of the credit notes of an invoice, `receivable` what
its entries left in the control account, `beyond` a history variable: what notes credited of
what their invoice no longer owed (`Excess`), which the code does not keep. `call[c]` is a
clerk's transaction with the rows it holds and what it read. `Receive`, `Void` and `Credit`
arrive; `LockNext` takes invoices in id order; `ReadInvoices`, `ReadForVoid`, `ReadForCredit`
read what they locked; `Apply` takes the receipt's number (and the lock of the series) and checks; the commits apply `AfterReceipt`, `AfterVoid`,
`AfterCredit`. `Outstanding`, what a customer has on account, is a sum over receipts' rows that
nobody locks, as in the code. `Collections` is the same, one document at a time.

## 3. Runs

| Run | Question | Instance |
|---|---|---|
| `workflow_races` | do racing requests and sweeps keep instances, tasks and timers consistent? | 1 instance, 3 tasks, 3 requests, 2 sweep replicas, the escalation; a graph with every node type, a way back to the approval, and a loop of automatic nodes round a failing action |
| `workflow_progress` | is every request answered and every due timer fired? | 1 task, 3 requests, 1 sweep, 1 lost transaction; the graph without its loops |
| `after_commit` | do effects run once, for durable work only? | 3 levels, 5 pieces of work |
| `approval_chain` | posted once, after a full chain, without gaps, never stuck? | 2 documents (one needs steps 10 and 20, both of which one person may sign; one needs none), 2 requests, 3 submissions, 3 decisions |
| `period_close` | does anything enter a closed period, is anything undecided closed over, does a result move back twice? | 2 periods, 2 windows, 10 calls, one of each kind, two closes and two reopenings of a period; `PostingsOrReopenings` |
| `year_reclosed` | *violated*: a closed year leaves nothing on the profit-and-loss accounts | a posting, two closes, the annual close twice, the year's reopening; one call at a time |
| `recurring_entries` | is every occurrence posted once, in time, not overtaken, and posted at all? | 1 template, 2 dates, 2 replicas, 2 workers, 2 attempts, 1 stall per job, 1 fault |
| `ecf_submission` | is a document sent blindly, is a verdict invented, is it settled? | 1 first attempt, both crons, 3 attempts, 1 fault |
| `ecf_rejected` | *violated*: REJECTED is the authority's verdict | the same, no faults |
| `idempotency` | does one key mean one success, and come free again? | 4 requests, 2 bodies, 2 faults |
| `receivables` | does every commit do what it would have done alone, and every request end? | 2 clerks, invoices of 2 and 1, 2 receipts, cash and advances up to 1 |
| `advances_overdrawn` | *violated*: a customer's balance on account is not negative | the same |

**Why the bounds are enough.** The engine locks per instance and tasks never name two,
so instances do not interact: one is enough for the races, and the proofs cover any
number. Three requests make two operations meet a third that changed what both read;
two sweeps race each other. Three tasks allow two trips round the loop
(`MaxSteps = 4` is reached on the automatic nodes: an action that fails leads to a condition
whose default edge leads back to it). The
clock has two ticks: a timer set and a timer due. For savepoints, depth three has a
middle level with a level on either side, and five pieces of work put two on one
level and one on each other. In the calendar, two periods are an earlier and a later
one, which is also the last one; a call runs once, so a sequence such as
close-reopen-close needs one member of `Calls` per step, which the violation runs
choose. All ten calls at once are too many states, so the constraint `PostingsOrReopenings`
lets the postings and the window race with the closes, the year and one reopening, and both
reopenings and the audit adjustment with the closes and the year. That is enough for a
reopening to reverse without the lock and to find its closing entry reversed by another;
with three reopenings the run passes as well (563 419 states). The document with an empty chain and the one with a chain of two steps
whose orders are not consecutive are the two ways through `applicableSteps`.

Templates share nothing but the advisory lock and documents and keys nothing at all,
so one of each is enough; two dates are an earlier and a later occurrence, which is
what overtaking needs; a second replica, worker or clerk is the one that races. Two
attempts and one stall let a job come back, come back while it runs, and give up. `MaxCatchUp
= 2` does not bite with two dates; with 1 the run passes as well. Three
attempts of a submission are a first, a repeated and a last one; with two faults its
safety properties also hold (3.3 million states). Four requests are one that works, one
that repeats it, one with another body and one that comes after a release. Two invoices
of 2 and 1 allow a partial and a full payment and a receipt that names both; two
receipts are one that leaves an advance and one that draws on it; with cash up to 2
the safety properties hold too.

`MaxTime`, `MaxFaults`, `MaxDepth`, `MaxWork`, `MaxDate`, `Receipts`, `MaxCash` and `MaxAdvance` are the only
bounds in guards that the code does not have, `PostingsOrReopenings` the only one outside them; `MaxCatchUp`, `MaxAttempts` and `MaxStalls` are the
code's own limits, with smaller values.

`CHECK_DEADLOCK FALSE` appears where a run may really stop: all requests answered,
nothing due, the clock at its bound, the runner out of work. `receivables` checks
deadlock.

**Fairness.** Nothing is assumed of arrivals, failures, users, companies or the clock.

* `workflow_progress`: weak fairness of `Acquire` (a free row lock is granted to who waits for
  it), of `Proceed` (the event loop runs what is ready) and of `Sweep` (the crons fire every
  minute). `DueTimersFire` does not assume that a sweep finds the row unlocked: it skips and
  must come again.
* `recurring_entries`: weak fairness of `Fire` on *some* replica (the cron is nightly), of a
  firing that has begun, of the workers, and of the queue's check for stalled jobs; not
  of that check of a live worker, and not of faults.
* `ecf_submission`: weak fairness of both crons and what they do with what they list, and of the
  authority's decision; none of the first attempt.
* `idempotency`: weak fairness of the steps of a request that has begun.
* `receivables`: strong fairness of each transaction's next step. PostgreSQL queues the
  waiters of a row, so who waits for a row that keeps coming free gets it; weak fairness
  would let others pass it for ever.

## 4. Findings

* `year_reclosed`: the reversal of a closing entry is typed SYSTEM_GENERATED, not
  CLOSING_ENTRY, so closing a reopened year again takes it for a movement of the year.
* `ecf_rejected`: the retry cron also sends what the first attempt is sending; the authority
  refuses the repetition, and the refusal is recorded as its final verdict on a document
  it may accept.
* `advances_overdrawn`: a draw on a customer's advance and the void of the receipt that
  created it each compare with a sum over rows that neither locks; both commit.

### Other disagreements between code and comments

Each of these definitions is in the module named, and TLC refutes it when its name is
added to the INVARIANTS of that module's configuration.

* `WorkflowEngine!NoWaitCycle`: the engine's class comment says every state change first
  locks the instance. `completeTask` locks the task first, `cancel` the instance first: they
  can deadlock, and PostgreSQL answers one of them with an error.
* `WorkflowEngine!NoNoticeOfAClosedTask`: a task's created-notice is an effect after a
  commit. It may run after the task was closed and its notices were marked read, so the
  bell keeps asking.
* `AfterCommit!DurableWorkHasHadItsEffect`: a savepoint's rollback also drops the effects of
  an earlier savepoint of the same depth that was released, and whose work commits.
* `ApprovalChain!ApprovedRequestIsPosted`: `approve` saves a request it read without a lock.
  A rejection that commits in between is overwritten; the request is approved, its
  document rejected. It takes no race of decisions when a draft was submitted twice at
  once: one request is rejected, and its document with it, the other is approved later.
* `PeriodClose!SettledYearStaysShut`: `reopenPeriod` reads the year before it waits for the
  period that the annual close holds: a period of a settled year is open afterwards. For
  the same reason `ClosedYearIsSettled` fails without any reopening of the year when two
  annual closes overlap: both read the year open, and both transfer the result.
* `RecurringEntries!PauseLosesNothing`: resuming a template "catches up what fell due
  meanwhile" (`recurring-journal-entries.service.ts:105-107`). A job taken while its template
  is paused returns (`recurring-entries.processor.ts:89-92`) with its claim finished; the
  cron skips that occurrence for ever.

### What the models make plain

* Recurring entries: a replica that dies between claim and queue orphans the claim
  (the comment of `pruneFinished`, that an unfinished row is running or was released, is
  then false), and a job that gave up is kept under its id, so it is never queued again.
  `EveryOccurrenceIsPosted` says of such an occurrence that it is `Lost`, and that it does not
  take others with it until `MAX_CATCH_UP` of them are.
* e-CF: two overlapping attempts can leave the row SENT without a trackId, by a stale save and
  without any fault, and one attempt alone can when the authority's answer names none
  (`dgii-transport.service.ts:77`); no cron lists it then (`SentHasTrackId`, which
  `EveryNumberIsSettled` assumes). A document in ERROR is retried by no cron either, as the
  service says (`ecf-submission.service.ts:309-310`); the comments of the reconciler
  (`ecf-reconciler.service.ts:12`) and of the status (`ecf-submission.entity.ts:27`) say that it is. An attempt that fails after signing counts twice, so the 144 attempts called
  "a day of retries" are 72.
* Idempotency: a crash or a lost update leaves the key in progress, and every retry is
  refused for good. An error after the commit frees the key, and a retry performs the effect
  again (`PerformedOnce` says that its caller was then told of a failure).
* Periods: a reopening that found the row open checks `isReversed` before it waits for the
  posting's share of the row. Another may reverse the same closing entry while it waits, and then
  the unique index on `reverses_entry_id` alone refuses the second reversal, as an SQL error.
* Receivables: an invoice credited in full after it was paid, whose receipt is then voided,
  goes from Void back to Pending and owes its total.

## 5. Proofs

TLC checks an instance; the theorems hold for every value of the constants that
satisfies the named assumptions (`GraphAssumption`, `BoundAssumption`,
`NullAssumption`, `PolicyAssumption`, `CalendarAssumption`, `CallAssumption`, `LockAssumption`,
`EntriesAssumption`, `EcfAssumption`, `KeysAssumption`, `ReceivablesAssumption`): any graph, any number
of instances, requests, sweeps, levels, documents, approval steps, periods, subledgers,
calls, templates, replicas, workers, attempts, faults, invoices, receipts and clerks. Each
module proves type correctness, then that an inductive invariant `IInv` holds, with one
lemma per action (or group of actions with the same footprint), and reads the
theorems off it. Every invariant was first checked with TLC.

Sums (of lines over receipts, of amounts over entries) are folds, which go through a set one
element at a time. What would be proved of them by induction is proved by a least
counterexample: among the subsets of a finite set for which a statement fails there is a
smallest one (`LeastSet`, from the well-foundedness of strict inclusion), and adding the
element that CHOOSE takes contradicts it. From there a sum is an integer, does not depend on
the order, and changes by the one element added (`SumWith`, `AmountWith`).

**Where the line runs.** A definition that TLC refutes says that something can go wrong, not
what it takes. For six of them a theorem says so: the definition is invariant under a
specification whose `Next` lacks the steps named on the right, and no others.

| Refuted by TLC | Holds, by theorem, when |
|---|---|
| `AdvancesAreNotOverdrawn` | one transaction is under way at a time (`AloneNothingIsOverdrawn`) |
| `RejectedMeansRejected` | attempts on the number take turns, and an attempt whose question to the authority is lost does not go on (`InTurnRejectedMeansRejected`) |
| `ClosedYearIsSettled` | the year is never reopened, its annual closes take turns, and none of them overlaps the reopening of a period (`UnreopenedYearIsSettled`) |
| `SettledYearStaysShut` | no reopening of a period overlaps an annual close (`ApartSettledYearStaysShut`) |
| `ApprovedRequestIsPosted` | the decisions of one request take turns, and the submissions of one document (`InTurnApprovedRequestIsPosted`) |
| `DurableWorkHasHadItsEffect` | a rolled-back savepoint drops no effect of a released sibling (`OnlyASiblingLosesEffects`) |

Each is what a repair has to establish (a lock on the row, a check under it), and says
that nothing more is needed for that property.

**WorkflowEngineProofs.** `OpenTasksAreParked` and
`NoInstanceIsStuck` state facts about committed rows; a commit writes a working copy
made many steps before. So `IInv` says, for each `pc` label, what a transaction knows:
it holds the lock of its instance row and of the tasks it will close
(`HoldsItsRows`), every open task of its instance is among those (`Covers`: nobody else
can have added one, for that needs the instance's lock), and what it will write is
parked, ended, or what it read (`AtCommit`). Other transactions keep this because they
cannot hold the same rows. The action properties need one more invariant, `CauseInv`:
the reason for which a transaction may move its instance (an open task it closes, a due
timer, a cancellation, a failure to retry) is still there at its commit, and a sweep
that found nothing due writes back exactly the row it read (`AdvancesHaveACause`,
`DecisionsAreFinal`).

**AfterCommitProofs.** The service's `depth` equals the database's `open` (`CountsNesting`);
writes stand on open levels and are not durable yet, and those of a parked effect
stand on a level at most the depth it is parked at (`EffectsHaveWrites`). So what a
rollback keeps is still going to commit, and a flush, which happens outside any
transaction only, takes durable work. `OnlyASiblingLosesEffects` needs the converse, `SafeInv`:
a piece of work stands on one level (`OneLevel`), as long as it stands there its effect is
parked (`WritesHaveEffects`), and what is durable has had its effect or is in the flush
(`DurableIsOwed`). Only a savepoint's rollback that drops another level's effect breaks it.

**ApprovalChainProofs.** A decision saves an entity that may be stale, and its `save` may
merge it with a row another decision wrote. What holds of every entity, merged row
and committed row alike is that all steps *below* its step were signed on that request
(`SignedBelow` in `RequestsInv` and `Deciding`): signatures are only added, and the
next step is the least one above the one just signed. An entity that says APPROVED has
them all: `PostedOnAFullChain`. `TxInv` also says which locks a transaction holds: a
numbered one has the sequence's row and carries its committed `next`
(`NumbersAreGapless`); a document's lock is the last one taken, by somebody who saw it
not posted, and nobody else can write it since (`LockedIsNotPosted`, hence
`PostedDocumentsAreFinal`). A pending document is `Accompanied`: whoever is about to
commit a decision of its request holds the document as well, so the two leave PENDING
together (`PendingDocumentsCanBeDecided`). Orders of steps are natural numbers above 0
and the policy does not change (`PolicyAssumption`). For `InTurnApprovedRequestIsPosted`,
`OrderlyInv` adds that a document has one request, from the moment it is no draft any more
(`AskedOnce`), that both wait together (`PendingTogether`), and that what a call has read still
stands (`SubmitsADraft`, `DecidesPending`), so that a save merges nothing. TLC refutes it when
either kind of turn is dropped.

**PeriodCloseProofs.** `Exclusive`: whoever locked a row shares it with nobody. An
ordinary entry in a working copy is admitted *and* its call shares or holds the row
that says so (`AddsAdmitted`); a row changes only when its holder commits, so it is
still admitted at the commit: `PostingsAreAdmitted`. A close holds its period from
its first step to its commit, so nobody can commit a pending entry into it after
the count: `ClosedMonthsAreDecided`. A transaction that is going to add reversals
holds the last period's row by its commit; a reopening that only shares it is still before
its second save, which locks it (`GuardsLast`). So nobody commits a reversal beside another
one of the same entry, and a call writes at most one closing entry:
`ReversedAtMostOnce`. Entries are finitely many (`Finite`), so
that the result is an integer.

`ApartSettledYearStaysShut` rests on `ShutInv`: which rows a call holds by what it is
(`HoldsRows`), that only a reopening leaves a period more open than it was (`LeavesStatus`),
that a reopening past its check of the year still has it open (`KnowsOpenYear`), and that an
annual close past its check of the periods still has them shut, the last one by its own lock
(`Closes`). On top of it, `UnreopenedYearIsSettled` rests on `SettledInv`: an open year has
ordinary entries only, so its result is all they amount to; no call can add one
to a year that is shut, so the result an annual close has taken is still the result when it
commits (`AddsByOp`); and each adjustment made after comes with the transfer that takes its
amount back. When annual closes overlap, both transfer the result, and TLC refutes it.

**RecurringEntriesProofs.** What could go wrong is order: the cron asks only for dates after
the last one posted, so an occurrence with a free claim that is overtaken is lost. `OrderOK`
says that once anybody has come to an occurrence (`Touched`), all earlier ones of its
template are `Passed`: posted, or claimed with nobody left who would give the claim back;
and that who fires has every earlier one still to do, or passed. It holds because one
replica fires at a time (`FiringOK`: the advisory lock), oldest date first, and a release ends
the firing. Hence `NothingIsOvertaken`. `WorkOK`: a worker about to post has the template
locked, active, and its occurrence not posted (`RedeliveriesAreHarmless`), so every step is
one of `RecurringSchedule` or changes nothing it sees (`SpecImplementsSchedule`). The assumption
that matters is that `MaxCatchUp` is at least 1.

**EcfSubmissionProofs.** `CallOK` counts: what left was counted by a saved attempt
(`RowOK`), every later entity carries a count, and one that was read when the authority had
the document carries more than one when it gets its token, so it asks and does not send
(`NothingIsSentBlindly`), although saves are stale and merge by column. `Given` says of row
and of every entity in memory that its verdict was given; verdicts do not change
(`Advance`), so stale ones stay true (`VerdictsAreGiven`). `InTurnRejectedMeansRejected` adds
`TurnsInv`: who may still send knows of the document if the authority has it (`Aware`), so it
asks first and never repeats it, whatever else fails.

**IdempotencyKeysProofs.** `RecordOK` and `CallOK`: a request that works owns the record, and an
answer is its owner's. Nobody deletes the record of another, so a success holds the key
(`SuccessIsFinal`), two effects mean that one caller heard of a failure (`EffectsHappenOnce`), and
the winner of the refinement is unique (`SpecKeepsThePromise`).

**ReceivablesProofs.** A transaction holds the invoices it has reached (`Reached`), nobody
shares a row (`Exclusive`), so what it read is still there at its commit (`Current`) and what
it checked still true (`Checked`). The commits then keep `Documents` (the properties of the run
and `WithinItsTotal`): a receipt and a void move a balance and its account alike; a note moves both
until the balance is zero, the rest goes to `beyond`, and one that credits the last of an invoice
sets the balance to zero (`BalancesAgreeWithTheLedger`). Each is the step of `Collections` with the same amounts
(`SpecImplementsCollections`). `TheLedgerAddsUp` needs a second invariant, `LInv`, about who is
going to change the sum over the receipts in force: a receipt on its way has a number that is
nobody else's and not in the books (`NumberedApart`, `Filed`), a void past its check holds the
receipt it will take out, still in force, with the lines it will give back (`Filed`). So each
commit changes the sum by one receipt, by what it books. `AloneNothingIsOverdrawn` needs a
third, `SInv`: what a draw or a void has weighed it against is still so at its commit, which
is true with one transaction at a time only.

**Model-checked only.** Liveness (`RequestsAreAnswered`, `DueTimersFire`, `EveryOccurrenceIsPosted`,
`EveryNumberIsSettled`, `KeysAreReleased`, `EveryRequestEnds`), which is out of the prover's reach.
That the violated definitions are violated is TLC's too; theorems say where they hold. Every
safety property a passing run checks is a theorem.

## 6. Not modelled

* In the modelled parts: policies changing while requests are open, vendor bills' own
  approval handler, account locks, opening years on demand, archiving, more than one
  fiscal year; changes of a template's dates and frequency and its end date; `runOnce` inside a
  caller's transaction and `pruneFinished`; certificates, building and signing of documents and other
  countries' regimes; currencies, withholding, discounts, stock, cheques and refunds in
  receivables. The content of predicates, actions, notices and entries is left open
  everywhere, and so is authorisation beyond an approver's role.
* **Tenant connections**: what a request's pinned connection does to nested transactions
  is in `AfterCommit`; when it goes back to the pool depends on the driver and on the order in
  which RxJS runs its callbacks, which is not in this repository. Two hazards of it are
  listed: sibling transactions of one request as savepoints of each other, and a pool whose
  connections are all held by requests that wait for a second one.
* **Workflow definitions**: the engine runs over one published graph, a constant. The
  unlocked update of a draft that is published meanwhile is listed as a hazard.
* **Subprocesses and triggers**: a start is a start, whoever asks for it.
* **Accounts payable, audit adjustments, point of sale and the other modules** of the API are
  CRUD and arithmetic around the cores above, or repeat their shape: a vendor bill is
  approved as `ApprovalChain` says, without the trigger; an adjustment's posting is in `PeriodClose`.
* **Clients, libraries and the forecasting engine** are presentation and numeric code.

The models cover the protocols of the back end, a small share of its lines: most of
the repository is screens, validation, queries and formatting, about which there is nothing to
say in terms of interleavings.

## 7. Plan

What would come next, in this order.

1. Policy administration in `ApprovalChain`: the chain becomes a variable, read by
   `startApprovalProcess` and by every decision.
2. The vendor bill's handler as a second instance of the approval chain, without
   the trigger.
3. `WorkflowDefinitions`: draft, publish, version and remove, composed with the engine's view.
4. Archiving and account locks in `PeriodClose`; a second fiscal year.
5. Theorems like those of section 5's table for `NoNoticeOfAClosedTask` and `PauseLosesNothing`.
6. `TenantConnection` over a pool as its driver documents it, composed with `AfterCommit`.
