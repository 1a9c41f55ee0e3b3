--------------------------- MODULE MCPeriodClose ----------------------------
(***************************************************************************)
(* A year of two periods and the calls that may race in it.                *)
(***************************************************************************)
EXTENDS PeriodClose, TLC

CONSTANTS create, decide, close1, close2, reopen, reopen2, window,
          closeYear1, closeYear2, reopenYear, audit

MCOpOf ==
  create :> "create" @@ decide :> "decide" @@ close1 :> "close" @@ close2 :> "close"
  @@ reopen :> "reopen" @@ reopen2 :> "reopen"
  @@ window :> "module" @@ closeYear1 :> "closeYear" @@ closeYear2 :> "closeYear"
  @@ reopenYear :> "reopenYear" @@ audit :> "audit"
MCCallsOp == [c \in Calls |-> MCOpOf[c]]
(* Postings race with no audit adjustment and with one reopening of a      *)
(* period at most: with all of them there are more states than TLC can     *)
(* visit in a few minutes.                                                 *)
PostingsOrReopenings ==
  \/ \A c \in Calls \cap {create, decide, window} : pc[c] = "idle"
  \/ /\ \A c \in Calls \cap {audit} : pc[c] = "idle"
     /\ Cardinality({c \in Calls : OpOf[c] = "reopen" /\ pc[c] # "idle"}) <= 1
Symmetry == Permutations({close1, close2}) \cup Permutations({reopen, reopen2})
=============================================================================
