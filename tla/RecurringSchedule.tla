------------------------- MODULE RecurringSchedule -------------------------
(***************************************************************************)
(* What recurring journal entries promise, whatever crons, queues and      *)
(* workers it takes: an occurrence is posted at most once, on its date or  *)
(* later, and only while its template exists and is not paused.            *)
(***************************************************************************)
EXTENDS Naturals

CONSTANTS Templates, MaxDate

VARIABLES today, template, entries

Init ==
  /\ today = 1 /\ entries = {}
  /\ template \in [Templates -> {"active", "paused"}]

NextDay ==
  /\ today' = today + 1
  /\ UNCHANGED <<template, entries>>

Change(t) ==
  /\ template[t] # "removed"
  /\ \E s \in {"active", "paused", "removed"} : template' = [template EXCEPT ![t] = s]
  /\ UNCHANGED <<today, entries>>

Post(t, d) ==
  /\ template[t] = "active" /\ d <= today /\ <<t, d>> \notin entries
  /\ entries' = entries \cup {<<t, d>>}
  /\ UNCHANGED <<today, template>>

Next ==
  \/ NextDay
  \/ \E t \in Templates : Change(t) \/ \E d \in 1 .. MaxDate : Post(t, d)

Spec == Init /\ [][Next]_<<today, template, entries>>
=============================================================================
