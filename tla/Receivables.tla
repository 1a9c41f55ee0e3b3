---------------------------- MODULE Receivables ----------------------------
(***************************************************************************)
(* CustomerPaymentsService.create and voidPayment, and createCreditNote of *)
(* InvoicesService: the three that move what an issued invoice owes.  Each *)
(* is one transaction, at READ COMMITTED: it takes row locks (always in id *)
(* order), reads, and writes at its commit.  One customer, one currency at *)
(* rate 1, no withholding or discount: an amount is a natural number.      *)
(* What others see of a transaction is its commit, so its writes are one   *)
(* step; the number of a receipt is taken earlier, and holds the series.   *)
(***************************************************************************)
EXTENDS Integers, FiniteSets, Functions

CONSTANTS
  Clerks,      \* requests served at one time
  Invoices,    \* the ids of issued invoices, ordered as numbers are
  Net,         \* invoice -> netReceivable, what it was issued for
  Receipts,    \* bound: receipts ever raised, in the order of their numbers
  MaxCash,     \* bound: what one receipt may bring in
  MaxAdvance,  \* bound: what it may leave on account, or draw from it
  None

ASSUME ReceivablesAssumption ==
  /\ Invoices \subseteq Nat /\ Net \in [Invoices -> Nat \ {0}]
  /\ Receipts \subseteq Nat /\ MaxCash \in Nat /\ MaxAdvance \in Nat /\ None \notin Receipts

VARIABLES
  invoice,      \* invoice -> its row: balance, status, creditedTotal
  receipt,      \* receipt -> its row with its lines
  notes,        \* invoice -> the sum of the credit notes issued against it
  receivable,   \* invoice -> what the entries about it left in the control account
  beyond,       \* history: invoice -> what notes credited beyond what it still owed
  call          \* clerk -> the transaction it runs

vars == <<invoice, receipt, notes, receivable, beyond, call>>

Amounts == [Invoices -> Nat]
Nothing == [i \in Invoices |-> 0]
Named(lines) == {i \in Invoices : lines[i] > 0}

Invoice ==
  [balance : Nat, status : {"Pending", "Partially Paid", "Paid", "Void"}, credited : Nat]
Open == {"Pending", "Partially Paid"}
Receipt ==
  [status : {"none", "Posted", "Void"}, lines : Amounts, unapplied : Nat, drawn : Nat]
Unused == [status |-> "none", lines |-> Nothing, unapplied |-> 0, drawn |-> 0]

Series == <<"series", 0>>    \* the row that numbers the year's receipts
Rows == ({"invoice"} \X Invoices) \cup ({"receipt"} \X Receipts) \cup {Series}
Call ==
  [op : {"none", "receive", "void", "credit"},
   at : {"idle", "receipt", "lock", "apply", "commit"},
   lines : Amounts, cash : Nat, draw : Nat, receipt : Receipts \cup {None},
   todo : SUBSET Invoices, seen : [Invoices -> Invoice], held : SUBSET Rows]
Unread == [i \in Invoices |-> [balance |-> 0, status |-> "Void", credited |-> 0]]
Idle ==
  [op |-> "none", at |-> "idle", lines |-> Nothing, cash |-> 0, draw |-> 0,
   receipt |-> None, todo |-> {}, seen |-> Unread, held |-> {}]

Init ==
  /\ invoice = [i \in Invoices |-> [balance |-> Net[i], status |-> "Pending", credited |-> 0]]
  /\ receipt = [r \in Receipts |-> Unused]
  /\ notes = Nothing /\ receivable = Net /\ beyond = Nothing
  /\ call = [c \in Clerks |-> Idle]

-----------------------------------------------------------------------------
(* Transactions and locks.                                                 *)
IsFree(row) == \A c \in Clerks : row \notin call[c].held
Begin(c, new) ==
  /\ call[c] = Idle
  /\ call' = [call EXCEPT ![c] = new]
  /\ UNCHANGED <<invoice, receipt, notes, receivable, beyond>>
Goes(c, new) ==
  /\ call' = [call EXCEPT ![c] = new]
  /\ UNCHANGED <<invoice, receipt, notes, receivable, beyond>>
Holding(c, row) == [call[c] EXCEPT !.held = @ \cup {row}]
Reading(c) == [i \in Invoices |-> IF i \in Named(call[c].lines) THEN invoice[i] ELSE Unread[i]]

(* The transaction rolls back: a later check refuses, or a statement fails. *)
Fails(c) == call[c] # Idle /\ Goes(c, Idle)

LockInAnyOrder(c) ==                    \* mutant: the order of the request
  \E i \in call[c].todo :
    /\ call[c].at = "lock" /\ IsFree(<<"invoice", i>>)
    /\ Goes(c, [Holding(c, <<"invoice", i>>) EXCEPT !.todo = @ \ {i}])
JustRead(c) ==                          \* mutant: SELECT without FOR UPDATE
  /\ call[c].at = "lock" /\ call[c].todo # {}
  /\ Goes(c, [call[c] EXCEPT !.todo = {}])
LockNext(c) ==
  \E i \in call[c].todo :
    /\ call[c].at = "lock" /\ (\A j \in call[c].todo : i <= j)
    /\ IsFree(<<"invoice", i>>)
    /\ Goes(c, [Holding(c, <<"invoice", i>>) EXCEPT !.todo = @ \ {i}])
Locked(c, op) == call[c].op = op /\ call[c].at = "lock" /\ call[c].todo = {}

(* The customer's advances: over the receipts in force.                    *)
Total(amounts) == FoldFunction(LAMBDA x, y : x + y, 0, amounts)
Advanced(r) == receipt[r].unapplied - receipt[r].drawn
InForce == {r \in Receipts : receipt[r].status = "Posted"}
Outstanding == Total([r \in InForce |-> Advanced(r)])

-----------------------------------------------------------------------------
(* create: a receipt of cash, of advances, or of both.                     *)
NextReceipt(r) ==
  LET taken == {s \in Receipts : receipt[s] # Unused} \cup {call[c].receipt : c \in Clerks}
  IN r \notin taken /\ \A s \in Receipts \ taken : r <= s
Surplus(new) == new.cash + new.draw - Total(new.lines)

(* What its figures would have refused in any case is not asked for: more  *)
(* applied than there are funds or than was invoiced, or advances drawn    *)
(* only to be put back.                                                    *)
Receive(c) ==
  \E r \in Receipts, cash \in 0 .. MaxCash, draw \in 0 .. MaxAdvance :
    \E lines \in [Invoices -> 0 .. MaxCash] :
      LET new == [Idle EXCEPT !.op = "receive", !.at = "lock", !.receipt = r, !.cash = cash,
                              !.draw = draw, !.lines = lines, !.todo = Named(lines)] IN
      /\ NextReceipt(r) /\ cash + draw > 0 /\ \A i \in Invoices : lines[i] <= Net[i]
      /\ Surplus(new) \in 0 .. MaxAdvance /\ (draw > 0 => Surplus(new) = 0)
      /\ Begin(c, new)
ReadInvoices(c) ==
  Locked(c, "receive") /\ Goes(c, [call[c] EXCEPT !.at = "apply", !.seen = Reading(c)])
Covered(c) ==                          \* every line fits what its invoice was seen to owe
  \A i \in Named(call[c].lines) :
    call[c].seen[i].status \in Open /\ call[c].lines[i] <= call[c].seen[i].balance
Funded(c) == call[c].draw > 0 => call[c].draw <= Outstanding
(* The number is taken, which locks the series, and the figures checked.   *)
Apply(c) ==
  /\ call[c].at = "apply" /\ IsFree(Series)
  /\ \/ Covered(c) /\ Funded(c) /\ Goes(c, [Holding(c, Series) EXCEPT !.at = "commit"])
     \/ ~(Covered(c) /\ Funded(c)) /\ Goes(c, Idle)
AlwaysPartial(row, line) ==             \* mutant: the last payment is not told apart
  [row EXCEPT !.balance = @ - line, !.status = "Partially Paid"]
AfterReceipt(row, line) ==
  [row EXCEPT !.balance = @ - line,
              !.status = IF row.balance = line THEN "Paid" ELSE "Partially Paid"]
CommitReceipt(c) ==
  /\ call[c].op = "receive" /\ call[c].at = "commit"
  /\ invoice' = [i \in Invoices |->
       IF i \in Named(call[c].lines) THEN AfterReceipt(call[c].seen[i], call[c].lines[i])
       ELSE invoice[i]]
  /\ receipt' = [receipt EXCEPT ![call[c].receipt] =
       [status |-> "Posted", lines |-> call[c].lines, unapplied |-> Surplus(call[c]),
        drawn |-> call[c].draw]]
  /\ receivable' = [i \in Invoices |-> receivable[i] - call[c].lines[i]]
  /\ call' = [call EXCEPT ![c] = Idle]
  /\ UNCHANGED <<notes, beyond>>

-----------------------------------------------------------------------------
(* voidPayment: the receipt is locked and read, then its invoices.         *)
Void(c) ==
  \E r \in Receipts :
    /\ receipt[r].status # "none"
    /\ Begin(c, [Idle EXCEPT !.op = "void", !.at = "receipt", !.receipt = r])
ReadReceipt(c, locking) ==
  LET r == call[c].receipt IN
  /\ call[c].at = "receipt"
  /\ \/ receipt[r].status = "Void" /\ Goes(c, Idle)
     \/ /\ receipt[r].status = "Posted"
        /\ Goes(c, [call[c] EXCEPT !.at = "lock", !.lines = receipt[r].lines,
                    !.todo = Named(receipt[r].lines), !.held = @ \cup locking])
ReadUnlocked(c) == ReadReceipt(c, {})   \* mutant: two voids of one receipt
LockReceipt(c) ==
  IsFree(<<"receipt", call[c].receipt>>) /\ ReadReceipt(c, {<<"receipt", call[c].receipt>>})
Unspent(r) == Advanced(r) > 0 => Outstanding - Advanced(r) >= 0
Restorable(c) ==
  \A i \in Named(call[c].lines) : Reading(c)[i].balance + call[c].lines[i] <= Net[i]
ReadForVoid(c) ==
  LET fine == Unspent(call[c].receipt) /\ Restorable(c) IN
  /\ Locked(c, "void")
  /\ \/ fine /\ Goes(c, [call[c] EXCEPT !.at = "commit", !.seen = Reading(c)])
     \/ ~fine /\ Goes(c, Idle)
AfterVoid(i, row, line) ==
  [row EXCEPT !.balance = @ + line,
              !.status = IF row.balance + line >= Net[i] THEN "Pending" ELSE "Partially Paid"]
CommitVoid(c) ==
  /\ call[c].op = "void" /\ call[c].at = "commit"
  /\ invoice' = [i \in Invoices |->
       IF i \in Named(call[c].lines) THEN AfterVoid(i, call[c].seen[i], call[c].lines[i])
       ELSE invoice[i]]
  /\ receipt' = [receipt EXCEPT ![call[c].receipt] = [@ EXCEPT !.status = "Void"]]
  /\ receivable' = [i \in Invoices |-> receivable[i] + call[c].lines[i]]
  /\ call' = [call EXCEPT ![c] = Idle]
  /\ UNCHANGED <<notes, beyond>>

-----------------------------------------------------------------------------
(* createCreditNote: part or all of one invoice.                           *)
Credit(c) ==
  \E i \in Invoices : \E amount \in 1 .. Net[i] :
    Begin(c, [Idle EXCEPT !.op = "credit", !.at = "lock", !.todo = {i},
              !.lines = [Nothing EXCEPT ![i] = amount]])
CreditableIfOpen(i, row, amount) ==     \* mutant: the notes so far are not counted
  row.status # "Void"
Creditable(i, row, amount) == row.status # "Void" /\ amount <= Net[i] - row.credited
ReadForCredit(c) ==
  LET fine == \A i \in Named(call[c].lines) : Creditable(i, invoice[i], call[c].lines[i]) IN
  /\ Locked(c, "credit")
  /\ \/ fine /\ Goes(c, [call[c] EXCEPT !.at = "commit", !.seen = Reading(c)])
     \/ ~fine /\ Goes(c, Idle)
NotClamped(i, row, amount) ==           \* mutant: the credit is taken off as it is
  [balance |-> row.balance - amount, status |-> row.status, credited |-> row.credited + amount]
StillOwedInFull(i, row, amount) ==      \* mutant: a partial note leaves the balance alone
  LET full == amount = Net[i] - row.credited
  IN [balance |-> IF full THEN 0 ELSE row.balance,
      status |-> IF full THEN "Void" ELSE row.status,
      credited |-> row.credited + amount]
AfterCredit(i, row, amount) ==
  LET left == IF amount > row.balance THEN 0 ELSE row.balance - amount
      full == amount = Net[i] - row.credited
  IN [balance |-> IF full THEN 0 ELSE left,
      status |-> IF full THEN "Void" ELSE IF left = 0 THEN "Paid" ELSE row.status,
      credited |-> row.credited + amount]
(* What the note credits of what the invoice, at that moment, owes no more. *)
Excess(i, amount) == IF amount > invoice[i].balance THEN amount - invoice[i].balance ELSE 0
CommitCredit(c) ==
  /\ call[c].op = "credit" /\ call[c].at = "commit"
  /\ invoice' = [i \in Invoices |->
       IF i \in Named(call[c].lines) THEN AfterCredit(i, call[c].seen[i], call[c].lines[i])
       ELSE invoice[i]]
  /\ notes' = [i \in Invoices |-> notes[i] + call[c].lines[i]]
  /\ receivable' = [i \in Invoices |-> receivable[i] - call[c].lines[i]]
  /\ beyond' = [i \in Invoices |-> beyond[i] + Excess(i, call[c].lines[i])]
  /\ call' = [call EXCEPT ![c] = Idle]
  /\ UNCHANGED receipt

-----------------------------------------------------------------------------
Step(c) ==
  \/ LockNext(c)
  \/ ReadInvoices(c) \/ Apply(c) \/ CommitReceipt(c)
  \/ LockReceipt(c) \/ ReadForVoid(c) \/ CommitVoid(c)
  \/ ReadForCredit(c) \/ CommitCredit(c)
Next == \E c \in Clerks : Receive(c) \/ Void(c) \/ Credit(c) \/ Step(c) \/ Fails(c)

Spec == Init /\ [][Next]_vars
(* A transaction goes on, and PostgreSQL grants a row in the order it was  *)
(* asked for: who waits for one that keeps coming free gets it.            *)
FairSpec == Spec /\ \A c \in Clerks : SF_vars(Step(c))

-----------------------------------------------------------------------------
(* Every row is one the program can hold: no balance is ever negative.     *)
TypeOK ==
  /\ invoice \in [Invoices -> Invoice]
  /\ receipt \in [Receipts -> Receipt]
  /\ notes \in Amounts /\ beyond \in Amounts
  /\ receivable \in [Invoices -> Int]
  /\ call \in [Clerks -> Call]

(* Four receipts at once for the price of one invoice: the ledger's        *)
(* receivable fell below zero while the invoice showed paid (the comment   *)
(* at create's lock); a partial note left the customer owing the full      *)
(* amount (the comment of createCreditNote).  What an invoice owes is what *)
(* the control account holds for it, plus only what its notes credited     *)
(* beyond what it then owed.  A note that credits the rest of it writes    *)
(* off what it owes: from then on it does not owe more than that.          *)
BalancesAreBooked ==
  \A i \in Invoices :
    /\ invoice[i].balance <= receivable[i] + beyond[i]
    /\ notes[i] < Net[i] => invoice[i].balance = receivable[i] + beyond[i]

(* The control account is what the documents add up to: every receipt in   *)
(* force counts once, a voided one not at all ("two voids of the same      *)
(* receipt used to both give its amount back").                            *)
Applied(i) == Total([r \in InForce |-> receipt[r].lines[i]])
LedgerIsTheDocuments ==
  \A i \in Invoices : receivable[i] = Net[i] - Applied(i) - notes[i]

(* Two notes that check the remainder at once do not credit an invoice     *)
(* beyond its total, and its creditedTotal is the sum of its notes.        *)
CreditsWithinTheInvoice ==
  \A i \in Invoices : notes[i] <= Net[i] /\ invoice[i].credited = notes[i]

(* The reports and the next receipt go by the status: an invoice is open   *)
(* exactly as long as something is owed on it.                             *)
OpenWhileOwing ==
  \A i \in Invoices : invoice[i].status \in Open <=> invoice[i].balance > 0

(* Receipts, voids and credit notes that name the same rows never wait for *)
(* each other in a circle ("always in id order ... cannot deadlock"):      *)
(* every one ends, without the database's having to break a deadlock.      *)
EveryRequestEnds == \A c \in Clerks : call[c] # Idle ~> call[c] = Idle

(* Whatever overlaps, each commit does to the documents what it would have *)
(* done alone.                                                             *)
Collected == INSTANCE Collections WITH
  owed <- [i \in Invoices |-> invoice[i].balance],
  credited <- [i \in Invoices |-> invoice[i].credited]
ImplementsCollections == Collected!Spec

(* "neither figure can go negative, so no future writer can quietly leave  *)
(* a customer holding a negative balance on account"                       *)
(* (customer-payment.entity.ts): violated.  The sum is read without a lock *)
(* by the receipt that draws on it and by the void that takes it away.     *)
AdvancesAreNotOverdrawn == Outstanding >= 0
=============================================================================
