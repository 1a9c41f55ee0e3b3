------------------------- MODULE MCRecurringEntries -------------------------
(* Instances of RecurringEntries for TLC.                                  *)
EXTENDS RecurringEntries

CONSTANTS t1
MCTemplates == {t1}
MCKeys == MCTemplates \X (1 .. MaxDate)
=============================================================================
