--------------------------- MODULE MCReceivables ---------------------------
(* Instances of Receivables for TLC: what the invoices were issued for.    *)
EXTENDS Receivables

MCNet == [i \in Invoices |-> IF i = 1 THEN 2 ELSE 1]
=============================================================================
