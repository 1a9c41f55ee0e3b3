-------------------------- MODULE IdempotencyKeys --------------------------
(***************************************************************************)
(* IdempotencyInterceptor: the requests that carry one Idempotency-Key of  *)
(* one tenant.  The insert of the key's record is the lock; the record is  *)
(* completed after the answer has left, by an update nobody awaits, and    *)
(* deleted when the handler throws.  Keys share nothing, so one is         *)
(* modelled; body stands for what is compared: method, route and hash.     *)
(***************************************************************************)
EXTENDS Naturals, FiniteSets

CONSTANTS
  Requests,
  Bodies,
  None,
  MaxFaults    \* bound: deaths, failed statements, errors after a commit

ASSUME KeysAssumption ==
  None \notin Requests /\ None \notin Bodies /\ "declined" \notin Requests
  /\ None # "declined" /\ MaxFaults \in Nat

VARIABLES
  record,      \* the key's row of idempotency_records
  call,        \* request -> how far it is, its body, what it was answered
  performed,   \* requests whose handler committed its effect
  faults

vars == <<record, call, performed, faults>>

Declined == "declined"
Absent == [owner |-> None, body |-> None, status |-> "none"]
Record ==
  [owner : Requests \cup {None}, body : Bodies \cup {None},
   status : {"none", "in_progress", "completed"}]
Call ==
  [pc : {"idle", "insert", "read", "handler", "answer", "store", "release", "done"},
   body : Bodies \cup {None}, answer : Requests \cup {None, Declined}]

Init ==
  /\ record = Absent
  /\ call = [r \in Requests |-> [pc |-> "idle", body |-> None, answer |-> None]]
  /\ performed = {} /\ faults = 0

Faulty == faults < MaxFaults /\ faults' = faults + 1
Goes(r, label) == call' = [call EXCEPT ![r] = [@ EXCEPT !.pc = label]]
Answers(r, answer, label) ==
  call' = [call EXCEPT ![r] = [@ EXCEPT !.pc = label, !.answer = answer]]

Arrive(r) ==
  /\ call[r].pc = "idle"
  /\ \E body \in Bodies : call' = [call EXCEPT ![r] = [@ EXCEPT !.pc = "insert", !.body = body]]
  /\ UNCHANGED <<record, performed, faults>>

(* claim: the insert, and the read when there is a record already.         *)
InsertAnyway(r) ==                      \* mutant: no unique index stops the second
  /\ call[r].pc = "insert"
  /\ record' = [owner |-> r, body |-> call[r].body, status |-> "in_progress"]
  /\ Goes(r, "handler")
  /\ UNCHANGED <<performed, faults>>
Insert(r) ==
  /\ call[r].pc = "insert" /\ record = Absent
  /\ record' = [owner |-> r, body |-> call[r].body, status |-> "in_progress"]
  /\ Goes(r, "handler")
  /\ UNCHANGED <<performed, faults>>
InsertIgnored(r) ==
  /\ call[r].pc = "insert" /\ record # Absent
  /\ Goes(r, "read")
  /\ UNCHANGED <<record, performed, faults>>
Replayable(r) == record.status = "completed" /\ record.body = call[r].body
ReplayAnyBody(r) ==                     \* mutant: the hash is not compared
  /\ call[r].pc = "read" /\ record.status = "completed"
  /\ Answers(r, record.owner, "done")
  /\ UNCHANGED <<record, performed, faults>>
Replay(r) ==
  /\ call[r].pc = "read" /\ Replayable(r)
  /\ Answers(r, record.owner, "done")
  /\ UNCHANGED <<record, performed, faults>>
Refuse(r) ==
  /\ call[r].pc = "read" /\ ~Replayable(r)
  /\ Answers(r, Declined, "done")
  /\ UNCHANGED <<record, performed, faults>>

(* The handler: its transaction commits or not.  It may also throw, or     *)
(* lose its connection, when the commit has happened.                      *)
Perform(r) ==
  /\ call[r].pc = "handler"
  /\ performed' = performed \cup {r}
  /\ Goes(r, "answer")
  /\ UNCHANGED <<record, faults>>
HandlerThrows(r) ==
  /\ call[r].pc = "handler"
  /\ Answers(r, Declined, "release")
  /\ \/ UNCHANGED <<performed, faults>>
     \/ performed' = performed \cup {r} /\ Faulty
  /\ UNCHANGED record

(* tap: the answer leaves, then the record is completed or deleted.        *)
AnswerOnly(r) ==                        \* mutant: the success is not remembered
  /\ call[r].pc = "answer"
  /\ Answers(r, r, "release")
  /\ UNCHANGED <<record, performed, faults>>
Answer(r) ==
  /\ call[r].pc = "answer"
  /\ Answers(r, r, "store")
  /\ UNCHANGED <<record, performed, faults>>
Store(r) ==
  /\ call[r].pc = "store"
  /\ record' = IF record.owner = r THEN [record EXCEPT !.status = "completed"] ELSE record
  /\ Goes(r, "done")
  /\ UNCHANGED <<performed, faults>>
MarkFailed(r) ==                        \* mutant: the row stays, as a failed one
  /\ call[r].pc = "release"
  /\ record' = [record EXCEPT !.status = "failed"]
  /\ Goes(r, "done")
  /\ UNCHANGED <<performed, faults>>
KeepTheKey(r) ==                        \* mutant: a failure locks the key
  /\ call[r].pc = "release"
  /\ Goes(r, "done")
  /\ UNCHANGED <<record, performed, faults>>
Release(r) ==
  /\ call[r].pc = "release"
  /\ record' = IF record.owner = r THEN Absent ELSE record
  /\ Goes(r, "done")
  /\ UNCHANGED <<performed, faults>>

(* The process dies, or a statement fails: what follows does not happen.   *)
(* A failed statement of claim is answered, a failed update or delete was  *)
(* answered before.                                                        *)
Die(r) ==
  /\ call[r].pc \notin {"idle", "done"} /\ Faulty
  /\ IF call[r].pc \in {"insert", "read"}
     THEN Answers(r, Declined, "done") ELSE Goes(r, "done")
  /\ UNCHANGED <<record, performed>>

Step(r) ==
  \/ Insert(r) \/ InsertIgnored(r) \/ Replay(r) \/ Refuse(r)
  \/ Perform(r) \/ HandlerThrows(r) \/ Answer(r) \/ Store(r) \/ Release(r)
Next == \E r \in Requests : Arrive(r) \/ Step(r) \/ Die(r)

(* What a request has begun goes on unless its process dies.               *)
Fairness == \A r \in Requests : WF_vars(Step(r) /\ faults' = faults)
Spec == Init /\ [][Next]_vars
FairSpec == Spec /\ Fairness

-----------------------------------------------------------------------------
(* Properties.                                                             *)

(* Every variable keeps its type.                                          *)
TypeOK ==
  /\ record \in Record /\ call \in [Requests -> Call]
  /\ performed \subseteq Requests /\ faults \in 0 .. MaxFaults

(* The double click, the proxy's retry, the lost answer: an effect happens *)
(* twice only if the caller was told that one of the two had failed.       *)
PerformedOnce ==
  \A r, s \in performed : r # s => Declined \in {call[r].answer, call[s].answer}

(* A success is never withdrawn: as long as the caller may repeat the      *)
(* request the key is taken, and nobody is told of another success.        *)
SuccessHoldsTheKey ==
  \A r \in Requests :
    call[r].answer \in Requests => record.owner = call[r].answer

(* Only a failure of the process or of the database leaves a key locked.   *)
KeysAreReleased ==
  [](faults = 0) => (record.status = "in_progress" ~> record.status # "in_progress")

(* The requests see what OnceAnswered promises them.                       *)
Winners == {r \in Requests : call[r].answer = r}
Promise == INSTANCE OnceAnswered WITH
  asked <- [r \in Requests |-> call[r].body],
  answer <- [r \in Requests |-> call[r].answer],
  winner <- IF Winners = {} THEN None ELSE CHOOSE r \in Winners : TRUE
KeepsThePromise == Promise!Spec
=============================================================================
