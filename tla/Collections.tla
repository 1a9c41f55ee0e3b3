---------------------------- MODULE Collections ----------------------------
(***************************************************************************)
(* What the receivables promise, one document at a time: an invoice is     *)
(* never collected beyond what it owes, giving an amount back never makes  *)
(* it owe more than it was issued for (customer-payments.service.ts), and  *)
(* credit notes never exceed it (invoices.service.ts).                     *)
(***************************************************************************)
EXTENDS Integers

CONSTANTS Invoices, Net

VARIABLES
  owed,         \* invoice -> what is still to be collected
  credited,     \* invoice -> the total of its credit notes
  receivable    \* invoice -> what it left in the ledger's control account

vars == <<owed, credited, receivable>>

Amounts == [Invoices -> UNION {0 .. Net[i] : i \in Invoices}]

Init ==
  /\ owed = Net
  /\ credited = [i \in Invoices |-> 0]
  /\ receivable = Net

Collect ==
  \E part \in Amounts :
    /\ \A i \in Invoices : part[i] <= owed[i]
    /\ owed' = [i \in Invoices |-> owed[i] - part[i]]
    /\ receivable' = [i \in Invoices |-> receivable[i] - part[i]]
    /\ UNCHANGED credited

GiveBack ==
  \E part \in Amounts :
    /\ \A i \in Invoices : part[i] > 0 => owed[i] + part[i] <= Net[i]
    /\ owed' = [i \in Invoices |-> owed[i] + part[i]]
    /\ receivable' = [i \in Invoices |-> receivable[i] + part[i]]
    /\ UNCHANGED credited

Credit(i, amount) ==
  /\ credited[i] + amount <= Net[i]
  /\ credited' = [credited EXCEPT ![i] = @ + amount]
  /\ receivable' = [receivable EXCEPT ![i] = @ - amount]
  /\ owed' = [owed EXCEPT ![i] = IF amount > @ \/ credited'[i] = Net[i] THEN 0 ELSE @ - amount]

Next == Collect \/ GiveBack \/ \E i \in Invoices : \E amount \in 1 .. Net[i] : Credit(i, amount)

Spec == Init /\ [][Next]_vars
=============================================================================
