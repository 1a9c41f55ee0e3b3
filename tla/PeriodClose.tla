---------------------------- MODULE PeriodClose ----------------------------
(***************************************************************************)
(* The accounting calendar of one fiscal year: postings that resolve their *)
(* period (period-status.ts), the close and reopening of a period and of   *)
(* one subledger's window on it (period-closing.service.ts), and the       *)
(* annual close that moves the result of the year to retained earnings     *)
(* (year-end-close.service.ts, result-transfer.service.ts).                *)
(*                                                                         *)
(* A posting holds its period FOR SHARE, a close FOR UPDATE, and an UPDATE *)
(* locks the row it writes; every other read is of the last committed rows *)
(* and locks nothing, so a transaction is split at each of them.           *)
(***************************************************************************)
EXTENDS Integers, FiniteSets, FiniteSetsExt

CONSTANTS
  LastPeriod,          \* the periods of the year are 1 .. LastPeriod
  Calls, OpOf,         \* service calls, and what each one is
  Modules, GL,         \* the ledger and subledgers with a window of their own
  NoCall

Periods == 1 .. LastPeriod
Ops == {"create", "decide", "close", "reopen", "module", "closeYear",
        "reopenYear", "audit"}

ASSUME CalendarAssumption == LastPeriod \in Nat \ {0}
ASSUME CallAssumption ==
  /\ OpOf \in [Calls -> Ops] /\ NoCall \notin Calls /\ GL \in Modules

VARIABLES
  period,    \* committed accounting_periods rows
  year,      \* status of the committed fiscal_years row
  entries,   \* committed journal_entries rows
  share,     \* period row -> the calls that hold it FOR SHARE
  hold,      \* period row, or 0 for the year's -> the call that locked it
  pc,        \* where each call is
  tx         \* the transaction of each call

vars == <<period, year, entries, share, hold, pc, tx>>

Status == {"open", "closed"}
PeriodRow == [status : Status, module : [Modules -> Status]]
Opened == [status |-> "open", module |-> [m \in Modules |-> "open"]]
Closed == [status |-> "closed", module |-> [m \in Modules |-> "closed"]]

(* An entry: who wrote it, the window it went through, what it moves on    *)
(* the profit-and-loss accounts, and, of a reversal, whose closing entry   *)
(* it reverses. Only a closing entry has the type CLOSING_ENTRY.           *)
Kinds == {"ordinary", "closing", "reversal", "audit"}
Entry == [by : Calls, kind : Kinds, of : Calls \cup {NoCall}, module : Modules,
          period : Periods, amount : Int, status : {"pending", "posted"}]
Ordinary(c, p, m, status) ==
  [by |-> c, kind |-> "ordinary", of |-> NoCall, module |-> m, period |-> p,
   amount |-> 1, status |-> status]
ClosingTheDayAfter(c, amount) ==                 \* mutant: dated after the year
  [by |-> c, kind |-> "closing", of |-> NoCall, module |-> GL,
   period |-> LastPeriod + 1, amount |-> amount, status |-> "posted"]
Closing(c, amount) ==
  [by |-> c, kind |-> "closing", of |-> NoCall, module |-> GL,
   period |-> LastPeriod, amount |-> amount, status |-> "posted"]
Audit(c) == [Ordinary(c, LastPeriod, GL, "posted") EXCEPT !.kind = "audit"]

(* A transaction: the period it is about, the row it read and the one it   *)
(* leaves there, the module it is about, the closing entries it found, and *)
(* the entries it adds and replaces.                                       *)
TxRow == [period : Periods, saw : PeriodRow, row : PeriodRow, module : Modules,
          closings : SUBSET Entry, adds : SUBSET Entry, gone : SUBSET Entry]
NoTx == [period |-> LastPeriod, saw |-> Opened, row |-> Opened, module |-> GL,
         closings |-> {}, adds |-> {}, gone |-> {}]
PcLabels ==
  {"idle", "earlier", "unposted", "yearOpen", "reopenYear", "later", "select",
   "update", "closings", "reverse", "selectAgain", "updateAgain", "module", "periods",
   "count", "find", "openLast", "transfer", "reverseAll", "saveYear", "auditPost",
   "commit", "answered"}

-----------------------------------------------------------------------------
Year == 0
Rows == Periods \cup {Year}
committed == <<period, year, entries>>

Put(c, t) == tx' = [tx EXCEPT ![c] = t]
Goto(c, label) == pc' = [pc EXCEPT ![c] = label]
Begin(c, op) == OpOf[c] = op /\ pc[c] = "idle"

(* A row lock is waited for; a share of it may be had with other sharers.  *)
Shareable(row) == hold[row] = NoCall
Lockable(c, row) == hold[row] = NoCall /\ share[row] \subseteq {c}
Share(c, row) == share' = [share EXCEPT ![row] = @ \cup {c}] /\ UNCHANGED hold
Lock(c, row) == hold' = [hold EXCEPT ![row] = c] /\ UNCHANGED share

(* The two tests of resolvePostingPeriod.                                  *)
Admits(p, m) == period[p].status = "open" /\ period[p].module[m] = "open"

Unposted(p) == {e \in entries : e.period = p /\ e.status = "pending"}
Reversed(e) == \E r \in entries : r.kind = "reversal" /\ r.of = e.by
StandingClosings == {e \in entries : e.kind = "closing" /\ ~Reversed(e)}
Amount(es) == MapThenSumSet(LAMBDA e : e.amount, es)

-----------------------------------------------------------------------------
(* Postings. The period is shared and its status read under the lock, both *)
(* when the entry is prepared and when it is marked posted; one that waits *)
(* for approval is admitted again, as a GL entry, when it is granted.      *)
AdmitsUnlocked(c, p, m) == Admits(p, m) /\ UNCHANGED <<share, hold>>  \* mutant: no FOR SHARE
ResolvePostingPeriod(c, p, m) == Shareable(p) /\ Admits(p, m) /\ Share(c, p)

Post(c, p, m) ==
  /\ Begin(c, "create")
  /\ ResolvePostingPeriod(c, p, m)
  /\ Put(c, [NoTx EXCEPT !.adds = {Ordinary(c, p, m, "posted")}])
  /\ Goto(c, "commit")
  /\ UNCHANGED committed

Submit(c, p) ==
  /\ Begin(c, "create")
  /\ ResolvePostingPeriod(c, p, GL)
  /\ Put(c, [NoTx EXCEPT !.adds = {Ordinary(c, p, GL, "pending")}])
  /\ Goto(c, "commit")
  /\ UNCHANGED committed

Approve(c, e) ==
  /\ Begin(c, "decide") /\ e.status = "pending"
  /\ ResolvePostingPeriod(c, e.period, GL)
  /\ Put(c, [NoTx EXCEPT !.gone = {e}, !.adds = {[e EXCEPT !.status = "posted"]}])
  /\ Goto(c, "commit")
  /\ UNCHANGED committed

Reject(c, e) ==
  /\ Begin(c, "decide") /\ e.status = "pending"
  /\ Put(c, [NoTx EXCEPT !.gone = {e}])
  /\ Goto(c, "commit")
  /\ UNCHANGED <<committed, share, hold>>

(* createAuditAdjustment: for a closed year, into its last period whatever *)
(* its status, together with the transfer of its own result.               *)
AuditRead(c) ==
  /\ Begin(c, "audit") /\ year = "closed"
  /\ Goto(c, "auditPost")
  /\ UNCHANGED <<committed, share, hold, tx>>
AuditPost(c) ==
  /\ pc[c] = "auditPost" /\ Shareable(LastPeriod)
  /\ Share(c, LastPeriod)
  /\ Put(c, [NoTx EXCEPT !.adds = {Audit(c), Closing(c, -1)}])
  /\ Goto(c, "commit")
  /\ UNCHANGED committed

-----------------------------------------------------------------------------
(* closePeriod: the row is locked, then come three unlocked reads. What    *)
(* runPreClosingTasks posts is one entry or none.                          *)
CloseWithoutLock(c, p) ==                        \* mutant: no FOR UPDATE
  /\ Begin(c, "close") /\ period[p].status = "open"
  /\ Put(c, [NoTx EXCEPT !.period = p, !.row = Closed])
  /\ Goto(c, "earlier")
  /\ hold' = [hold EXCEPT ![p] = c]
  /\ UNCHANGED <<committed, share>>
ClosePeriod(c, p) ==
  /\ Begin(c, "close") /\ Lockable(c, p) /\ period[p].status = "open"
  /\ Lock(c, p)
  /\ Put(c, [NoTx EXCEPT !.period = p, !.row = Closed])
  /\ Goto(c, "earlier")
  /\ UNCHANGED committed
CloseEarlier(c) ==
  /\ pc[c] = "earlier"
  /\ \A q \in Periods : q < tx[c].period => period[q].status = "closed"
  /\ Goto(c, "unposted")
  /\ UNCHANGED <<committed, share, hold, tx>>
CloseUnposted(c) ==
  /\ pc[c] = "unposted" /\ Unposted(tx[c].period) = {}
  /\ Goto(c, "yearOpen")
  /\ UNCHANGED <<committed, share, hold, tx>>
CloseYearOpen(c) ==
  LET p == tx[c].period IN
  /\ pc[c] = "yearOpen" /\ year = "open"
  /\ \/ UNCHANGED tx
     \/ /\ period[p].module[GL] = "open"
        /\ Put(c, [tx[c] EXCEPT !.adds = {Ordinary(c, p, GL, "posted")}])
  /\ Goto(c, "commit")
  /\ UNCHANGED <<committed, share, hold>>

(* reopenPeriod: nothing is locked before it saves.  It saves twice, the   *)
(* closing entries being reversed in between, and each save reads the row  *)
(* again and updates the columns that are not open in it.                  *)
ReopenPeriod(c, p) ==
  /\ Begin(c, "reopen") /\ period[p].status = "closed"
  /\ Put(c, [NoTx EXCEPT !.period = p])
  /\ Goto(c, "reopenYear")
  /\ UNCHANGED <<committed, share, hold>>
ReopenYearOpen(c) ==
  /\ pc[c] = "reopenYear" /\ year = "open"
  /\ Goto(c, "later")
  /\ UNCHANGED <<committed, share, hold, tx>>
ReopenLater(c) ==
  /\ pc[c] = "later"
  /\ \A q \in Periods : q > tx[c].period => period[q].status = "open"
  /\ Goto(c, "select")
  /\ UNCHANGED <<committed, share, hold, tx>>
ItsRow(c) ==                                     \* as its own transaction sees it
  IF hold[tx[c].period] = c THEN tx[c].row ELSE period[tx[c].period]
ReopenSelect(c) ==
  LET same == ItsRow(c) = Opened IN
  /\ pc[c] \in {"select", "selectAgain"}
  /\ Put(c, [tx[c] EXCEPT !.saw = ItsRow(c)])
  /\ Goto(c, IF pc[c] = "select" THEN IF same THEN "closings" ELSE "update"
             ELSE IF same /\ tx[c].adds = {} THEN "commit" ELSE "updateAgain")
  /\ UNCHANGED <<committed, share, hold>>

Merged(saw, row) ==
  [status |-> IF saw.status # "open" THEN "open" ELSE row.status,
   module |-> [m \in Modules |-> IF saw.module[m] # "open" THEN "open" ELSE row.module[m]]]
ReopenUpdate(c) ==
  LET p == tx[c].period IN
  /\ pc[c] \in {"update", "updateAgain"}
  /\ \/ hold[p] = c /\ UNCHANGED <<share, hold>>
     \/ Lockable(c, p) /\ Lock(c, p)
  /\ Put(c, [tx[c] EXCEPT !.row = Merged(tx[c].saw, ItsRow(c))])
  /\ Goto(c, IF pc[c] = "update" THEN "closings" ELSE "commit")
  /\ UNCHANGED committed

(* The closing entries found are reversed, with or without the lock.  One  *)
(* that is reversed meanwhile is refused: isReversed is asked, and in the  *)
(* end the index on reverses_entry_id is unique.  A reversal is an         *)
(* ordinary posting of type SYSTEM_GENERATED.  Its entry in the period's   *)
(* row, which the second save writes, is what the adds stand for there.    *)
ReopenFind(c) ==
  LET found == {e \in StandingClosings : e.period = tx[c].period} IN
  /\ pc[c] = "closings"
  /\ Put(c, [tx[c] EXCEPT !.closings = found])
  /\ Goto(c, IF found = {} THEN "selectAgain" ELSE "reverse")
  /\ UNCHANGED <<committed, share, hold>>

ReversibleAlways(es) == TRUE                     \* mutant: reversed again
Reversible(es) == \A e \in es : ~Reversed(e)
Reversals(c, es) ==
  {[by |-> c, kind |-> "reversal", of |-> e.by, module |-> GL,
    period |-> LastPeriod, amount |-> -e.amount, status |-> "posted"] : e \in es}
AdmitsReversal(c, p) ==
  IF hold[p] = c
  THEN tx[c].row.status = "open" /\ tx[c].row.module[GL] = "open" /\ UNCHANGED <<share, hold>>
  ELSE ResolvePostingPeriod(c, p, GL)
ReopenReverse(c) ==
  /\ pc[c] = "reverse" /\ Reversible(tx[c].closings)
  /\ AdmitsReversal(c, tx[c].period)
  /\ Put(c, [tx[c] EXCEPT !.adds = Reversals(c, tx[c].closings)])
  /\ Goto(c, "selectAgain")
  /\ UNCHANGED committed

(* closeModulePeriod and reopenModulePeriod; only the second looks at the  *)
(* period's status, before its transaction.                                *)
CloseModule(c, p, m) ==
  /\ Begin(c, "module") /\ Lockable(c, p)
  /\ Lock(c, p)
  /\ Put(c, [NoTx EXCEPT !.period = p,
                         !.row = [period[p] EXCEPT !.module[m] = "closed"]])
  /\ Goto(c, "commit")
  /\ UNCHANGED committed
ReopenModule(c, p, m) ==
  /\ Begin(c, "module") /\ period[p].status = "open"
  /\ Put(c, [NoTx EXCEPT !.period = p, !.module = m])
  /\ Goto(c, "module")
  /\ UNCHANGED <<committed, share, hold>>
SetModuleOpen(c) ==
  LET p == tx[c].period IN
  /\ pc[c] = "module" /\ Lockable(c, p)
  /\ Lock(c, p)
  /\ Put(c, [tx[c] EXCEPT !.row = [period[p] EXCEPT !.module[tx[c].module] = "open"]])
  /\ Goto(c, "commit")
  /\ UNCHANGED committed

-----------------------------------------------------------------------------
(* closeFiscalYear: the year, its periods and its unposted entries are     *)
(* read without a lock.                                                    *)
CloseYear(c) ==
  /\ Begin(c, "closeYear") /\ year = "open"
  /\ Goto(c, "periods")
  /\ UNCHANGED <<committed, share, hold, tx>>
CloseYearPeriods(c) ==
  /\ pc[c] = "periods" /\ OpOf[c] = "closeYear"
  /\ \A p \in Periods : period[p].status = "closed"
  /\ Put(c, [NoTx EXCEPT !.saw = period[LastPeriod]])
  /\ Goto(c, "count")
  /\ UNCHANGED <<committed, share, hold>>
CloseYearCount(c) ==
  /\ pc[c] = "count" /\ \A p \in Periods : Unposted(p) = {}
  /\ Goto(c, "openLast")
  /\ UNCHANGED <<committed, share, hold, tx>>

(* withPeriodTemporarilyOpen: the UPDATE locks the last period's row until *)
(* the end; what it is put back to is what the periods' read had found.    *)
OpenLast(c) ==
  /\ pc[c] = "openLast" /\ Lockable(c, LastPeriod)
  /\ Lock(c, LastPeriod)
  /\ Put(c, [tx[c] EXCEPT !.row = tx[c].saw])
  /\ Goto(c, IF OpOf[c] = "closeYear" THEN "transfer" ELSE "reverseAll")
  /\ UNCHANGED committed

(* transfer: the movement of every entry that is not typed CLOSING_ENTRY.  *)
Result == Amount({e \in entries : e.status = "posted" /\ e.kind # "closing"})
Transfer(c) ==
  /\ pc[c] = "transfer"
  /\ Put(c, [tx[c] EXCEPT !.adds = IF Result = 0 THEN {} ELSE {Closing(c, -Result)}])
  /\ Goto(c, "saveYear")
  /\ UNCHANGED <<committed, share, hold>>

(* reopenFiscalYear: the closing entries found are reversed, each one that *)
(* was reversed meanwhile failing the transaction; the periods stay closed.*)
ReopenYear(c) ==
  /\ Begin(c, "reopenYear") /\ year = "closed"
  /\ Goto(c, "periods")
  /\ UNCHANGED <<committed, share, hold, tx>>
ReopenYearPeriods(c) ==
  /\ pc[c] = "periods" /\ OpOf[c] = "reopenYear"
  /\ Put(c, [NoTx EXCEPT !.saw = period[LastPeriod]])
  /\ Goto(c, "find")
  /\ UNCHANGED <<committed, share, hold>>
ReopenYearFind(c) ==
  /\ pc[c] = "find"
  /\ Put(c, [tx[c] EXCEPT !.closings = StandingClosings])
  /\ Goto(c, IF StandingClosings = {} THEN "saveYear" ELSE "openLast")
  /\ UNCHANGED <<committed, share, hold>>
ReverseAll(c) ==
  /\ pc[c] = "reverseAll" /\ Reversible(tx[c].closings)
  /\ Put(c, [tx[c] EXCEPT !.adds = Reversals(c, tx[c].closings)])
  /\ Goto(c, "saveYear")
  /\ UNCHANGED <<committed, share, hold>>

YearBecomes(c) == IF OpOf[c] = "closeYear" THEN "closed" ELSE "open"
SaveYear(c) ==
  /\ pc[c] = "saveYear"
  /\ \/ year # YearBecomes(c) /\ Lockable(c, Year) /\ Lock(c, Year)
     \/ year = YearBecomes(c) /\ UNCHANGED <<share, hold>>
  /\ Goto(c, "commit")
  /\ UNCHANGED <<committed, tx>>

-----------------------------------------------------------------------------
Release(c) ==
  /\ share' = [r \in Rows |-> share[r] \ {c}]
  /\ hold' = [r \in Rows |-> IF hold[r] = c THEN NoCall ELSE hold[r]]
  /\ Put(c, NoTx)
  /\ Goto(c, "answered")

Commit(c) ==
  /\ pc[c] = "commit"
  /\ period' = [p \in Periods |-> IF hold[p] = c THEN tx[c].row ELSE period[p]]
  /\ year' = IF hold[Year] = c THEN YearBecomes(c) ELSE year
  /\ entries' = (entries \ tx[c].gone) \cup tx[c].adds
  /\ Release(c)

(* A refusal, a deadlock or an SQL error ends the transaction.             *)
RollBack(c) ==
  /\ pc[c] \notin {"idle", "answered"}
  /\ Release(c)
  /\ UNCHANGED committed

Init ==
  /\ period = [p \in Periods |-> Opened] /\ year = "open" /\ entries = {}
  /\ share = [r \in Rows |-> {}] /\ hold = [r \in Rows |-> NoCall]
  /\ pc = [c \in Calls |-> "idle"] /\ tx = [c \in Calls |-> NoTx]

Step(c) ==
  \/ \E p \in Periods :
       \/ Submit(c, p) \/ ClosePeriod(c, p) \/ ReopenPeriod(c, p)
       \/ \E m \in Modules : Post(c, p, m) \/ CloseModule(c, p, m) \/ ReopenModule(c, p, m)
  \/ \E e \in entries : Approve(c, e) \/ Reject(c, e)
  \/ AuditRead(c) \/ AuditPost(c)
  \/ CloseEarlier(c) \/ CloseUnposted(c) \/ CloseYearOpen(c)
  \/ ReopenYearOpen(c) \/ ReopenLater(c) \/ ReopenSelect(c) \/ ReopenUpdate(c)
  \/ ReopenFind(c) \/ ReopenReverse(c) \/ SetModuleOpen(c)
  \/ CloseYear(c) \/ CloseYearPeriods(c) \/ CloseYearCount(c) \/ OpenLast(c) \/ Transfer(c)
  \/ ReopenYear(c) \/ ReopenYearPeriods(c) \/ ReopenYearFind(c) \/ ReverseAll(c)
  \/ SaveYear(c) \/ Commit(c) \/ RollBack(c)

Next == \E c \in Calls : Step(c)
Spec == Init /\ [][Next]_vars

-----------------------------------------------------------------------------
(* Properties.                                                             *)

(* Every variable keeps its type.                                          *)
TypeOK ==
  /\ period \in [Periods -> PeriodRow] /\ year \in Status
  /\ entries \subseteq Entry
  /\ share \in [Rows -> SUBSET Calls] /\ hold \in [Rows -> Calls \cup {NoCall}]
  /\ pc \in [Calls -> PcLabels] /\ tx \in [Calls -> TxRow]

(* No ordinary entry becomes part of a period that is closed, as a whole   *)
(* or for the subledger the entry goes through, at the moment it commits:  *)
(* what was checked when the posting began still holds when it ends.       *)
NothingEntersAClosedPeriod ==
  [][\A e \in entries' \ entries :
       e.kind = "ordinary" => Admits(e.period, e.module)]_vars

(* When closePeriod closes a period, no entry in it waits for approval:    *)
(* none was submitted, under the close, after the close had counted them.  *)
ClosedMonthIsDecided ==
  [][\A c \in Calls, p \in Periods :
       OpOf[c] = "close" /\ period[p].status = "open" /\ hold[p] = c
         /\ period'[p].status = "closed" => Unposted(p)' = {}]_vars

(* A closing entry is reversed once, whoever reopens the year or its last  *)
(* period at the same time: the result never moves back twice.             *)
ClosingReversedOnce ==
  \A r, s \in entries :
    r.kind = "reversal" /\ s.kind = "reversal" /\ r.of = s.of => r = s

(* What reopenPeriod's comment says: a period inside a settled year is not *)
(* reopenable on its own.  A closed year has only closed periods.          *)
SettledYearStaysShut ==
  year = "closed" => \A p \in Periods : period[p].status = "closed"

(* What transfer's comment says of closing a reopened year again: that it  *)
(* closes what is left.  Whenever the year is closed, what its entries     *)
(* leave on the profit-and-loss accounts is nothing.                       *)
ClosedYearIsSettled ==
  year = "closed" => Amount({e \in entries : e.status = "posted"}) = 0

(* Calls that take turns: none begins before the last one has ended.       *)
OneAtATime ==
  Cardinality({c \in Calls : pc[c] \notin {"idle", "answered"}}) <= 1
SequentialSpec == Init /\ [][Next /\ OneAtATime']_vars
=============================================================================
