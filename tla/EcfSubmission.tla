--------------------------- MODULE EcfSubmission ---------------------------
(***************************************************************************)
(* The transmission of an electronic invoice to the tax authority          *)
(* (ecf-submission.service.ts, ecf-reconciler.service.ts).  The document   *)
(* was issued, and its PENDING row committed with it (registerPending);    *)
(* now the first attempt runs on a connection of its own, users submit by  *)
(* hand, one cron retries and another polls.  Nothing locks the row.       *)
(*                                                                         *)
(* TypeORM's save reads the row again and writes the columns in which the  *)
(* entity in memory differs from it; an undefined column is not written.   *)
(* The authority answers a document it already holds with a 4xx, which the *)
(* transport takes for a verdict (dgii-transport.service.ts).  Documents   *)
(* share nothing, so one is modelled.                                      *)
(***************************************************************************)
EXTENDS Naturals

CONSTANTS
  Submits,         \* calls of submitInvoice: the first attempt, users
  Retry, Poll,     \* the crons
  MaxAttempts,     \* MAX_CONTINGENCY_ATTEMPTS
  MaxFaults        \* bound: failed requests, failed statements, deaths

Callers == Submits \cup {Retry, Poll}

ASSUME EcfAssumption ==
  /\ Retry \notin Submits /\ Poll \notin Submits /\ Retry # Poll
  /\ MaxAttempts \in Nat \ {0} /\ MaxFaults \in Nat

VARIABLES
  row,         \* the committed ecf_submissions row
  authority,   \* what became of the document at the authority
  repeated,    \* it received the document when it had it already
  call,        \* caller -> its attempt
  faults

vars == <<row, authority, repeated, call, faults>>

Statuses == {"PENDING", "SIGNED", "SENT", "ACCEPTED", "REJECTED", "CONTINGENCY", "ERROR"}
Terminal == {"ACCEPTED", "REJECTED"}
Row == [status : Statuses, track : {"null", "trackId"}, attempts : Nat]
Entity == [status : Statuses, track : {"null", "trackId", "undefined"}, attempts : Nat]
NewRow == [status |-> "PENDING", track |-> "null", attempts |-> 0]

(* unsent; processing, accepted, rejected: it has a trackId; refused: 4xx. *)
AuthorityStates == {"unsent", "processing", "accepted", "rejected", "refused"}
Holds == authority \in {"processing", "accepted", "rejected"}

(* then, orElse: where the attempt goes when its save succeeds or throws.  *)
(* known: the authority held the document when the row was read, and the   *)
(* question whether it does was not lost.                                  *)
Labels == {"idle", "listed", "build", "token", "lookup", "send", "ask", "select", "update",
           "throw", "done"}
Call == [pc : Labels, entity : Entity, saw : Row, then : Labels, orElse : Labels,
         known : BOOLEAN]
Idle == [pc |-> "idle", entity |-> NewRow, saw |-> NewRow, then |-> "idle",
         orElse |-> "idle", known |-> FALSE]

Init ==
  /\ row = NewRow /\ authority = "unsent" /\ repeated = FALSE
  /\ call = [c \in Callers |-> Idle] /\ faults = 0

Faulty == faults < MaxFaults /\ faults' = faults + 1
Fine == UNCHANGED faults

(* An attempt is over; a call of submitInvoice does not come again.        *)
End(c) == IF c \in Submits THEN "done" ELSE "idle"
Goes(c, label) ==
  call' = [call EXCEPT ![c] =
             IF label \in {"idle", "listed", "done"} THEN [Idle EXCEPT !.pc = label]
             ELSE [call[c] EXCEPT !.pc = label, !.saw = NewRow, !.then = "idle", !.orElse = "idle"]]
Saves(c, e, then, orElse) ==
  call' = [call EXCEPT ![c] = [@ EXCEPT !.pc = "select", !.entity = e,
                                        !.then = then, !.orElse = orElse]]

-----------------------------------------------------------------------------
(* submitInvoice.                                                          *)

OutagesOnly == {"CONTINGENCY"}          \* mutant: a lost first attempt is not seen
Retriable == {"CONTINGENCY", "PENDING", "SIGNED"}
ListRetriable ==
  /\ call[Retry].pc = "idle" /\ row.status \in Retriable
  /\ Goes(Retry, "listed")
  /\ UNCHANGED <<row, authority, repeated, faults>>

Arrives(c) ==
  \/ c \in Submits /\ call[c].pc = "idle"
  \/ c = Retry /\ call[c].pc = "listed"
ReturnTerminal(c) ==
  /\ Arrives(c) /\ row.status \in Terminal
  /\ Goes(c, End(c))
  /\ UNCHANGED <<row, authority, repeated, faults>>
ReadRow(c) ==
  /\ Arrives(c) /\ row.status \notin Terminal
  /\ call' = [call EXCEPT ![c] = [Idle EXCEPT !.pc = "build", !.entity = row, !.known = Holds]]
  /\ UNCHANGED <<row, authority, repeated, faults>>

(* recordFailure: an invalid document, or one the tenant has to fix, is an *)
(* error; anything else is retried, as often as MaxAttempts allows.        *)
Invalid(e) == [e EXCEPT !.status = "ERROR", !.attempts = @ + 1]
Outage(e) ==
  [e EXCEPT !.status = IF e.attempts + 1 < MaxAttempts THEN "CONTINGENCY" ELSE "ERROR",
            !.attempts = @ + 1]
RecordFailure(c, failed) == Saves(c, failed, End(c), End(c))

BuildFails(c) ==
  /\ call[c].pc = "build"
  /\ \/ RecordFailure(c, Invalid(call[c].entity)) /\ Fine
     \/ RecordFailure(c, Outage(call[c].entity)) /\ Faulty
  /\ UNCHANGED <<row, authority, repeated>>
SignUncounted(c) ==                     \* mutant: counted only when it fails
  /\ call[c].pc = "build"
  /\ Saves(c, [call[c].entity EXCEPT !.status = "SIGNED"], "token", "throw")
  /\ UNCHANGED <<row, authority, repeated, faults>>
Sign(c) ==
  /\ call[c].pc = "build"
  /\ Saves(c, [call[c].entity EXCEPT !.status = "SIGNED", !.attempts = @ + 1], "token", "throw")
  /\ UNCHANGED <<row, authority, repeated, faults>>

GetToken(c) ==
  /\ call[c].pc = "token"
  /\ Goes(c, IF call[c].entity.attempts <= 1 THEN "send" ELSE "lookup")
  /\ UNCHANGED <<row, authority, repeated, faults>>
Throws(c) ==
  /\ \/ call[c].pc = "token" /\ Faulty
     \/ call[c].pc = "throw" /\ Fine
  /\ RecordFailure(c, Outage(call[c].entity))
  /\ UNCHANGED <<row, authority, repeated>>

(* adoptExistingTrackId: a query that fails is ignored.  The save is       *)
(* returned and not awaited inside the try: when it fails, it throws.      *)
Optimistic(verdict) ==                  \* mutant: no verdict yet is taken for yes
  IF verdict \in {"rejected", "refused"} THEN "REJECTED" ELSE "ACCEPTED"
StatusOf(verdict) ==
  CASE verdict = "accepted" -> "ACCEPTED"
    [] verdict \in {"rejected", "refused"} -> "REJECTED"
    [] OTHER -> "SENT"
LookupFinds(c) ==
  /\ call[c].pc = "lookup" /\ Holds
  /\ Saves(c, [call[c].entity EXCEPT !.track = "trackId", !.status = StatusOf(authority)],
           End(c), "throw")
  /\ UNCHANGED <<row, authority, repeated, faults>>
LookupFindsNothing(c) ==
  /\ call[c].pc = "lookup" /\ ~Holds
  /\ Goes(c, "send")
  /\ UNCHANGED <<row, authority, repeated, faults>>
LookupFails(c) ==
  /\ call[c].pc = "lookup" /\ Faulty
  /\ call' = [call EXCEPT ![c] = [@ EXCEPT !.pc = "send", !.known = FALSE]]
  /\ UNCHANGED <<row, authority, repeated>>

(* sendEcf, answered: with a 4xx, or with perhaps a verdict and a trackId, *)
(* which the transport takes from the answer if it is in it.               *)
Receive(answer) ==
  IF Holds THEN answer = "refused" /\ authority' = authority /\ repeated' = TRUE
  ELSE /\ IF authority = "refused" THEN answer = "refused"
          ELSE answer \in {"processing", "accepted", "rejected", "refused"}
       /\ authority' = answer /\ UNCHANGED repeated
SendAnswered(c) ==
  /\ call[c].pc = "send"
  /\ \E answer \in AuthorityStates, track \in {"trackId", "undefined"} :
       /\ Receive(answer) /\ (answer = "refused" => track = "undefined")
       /\ Saves(c, [call[c].entity EXCEPT !.status = StatusOf(answer), !.track = track],
                End(c), "throw")
  /\ UNCHANGED <<row, faults>>
(* A timeout, a 5xx: the document may have arrived.                        *)
SendFails(c) ==
  /\ call[c].pc = "send" /\ Faulty
  /\ \/ UNCHANGED <<authority, repeated>>
     \/ \E answer \in AuthorityStates : Receive(answer)
  /\ RecordFailure(c, Outage(call[c].entity))
  /\ UNCHANGED row

-----------------------------------------------------------------------------
(* The cron that polls: findPollable, then pollStatus of the entity found. *)

ListPollable ==
  /\ call[Poll].pc = "idle" /\ row.track # "null" /\ row.status = "SENT"
  /\ call' = [call EXCEPT ![Poll] = [Idle EXCEPT !.pc = "ask", !.entity = row]]
  /\ UNCHANGED <<row, authority, repeated, faults>>
QueryStatus ==
  /\ call[Poll].pc = "ask"
  /\ Saves(Poll, [call[Poll].entity EXCEPT !.status = StatusOf(authority)], "idle", "idle")
  /\ UNCHANGED <<row, authority, repeated, faults>>
QueryFails ==
  /\ call[Poll].pc = "ask" /\ Faulty
  /\ Goes(Poll, "idle")
  /\ UNCHANGED <<row, authority, repeated>>

-----------------------------------------------------------------------------
(* save, and what may happen to any caller.                                *)

SelectRow(c) ==
  /\ call[c].pc = "select"
  /\ call' = [call EXCEPT ![c] = [@ EXCEPT !.pc = "update", !.saw = row]]
  /\ UNCHANGED <<row, authority, repeated, faults>>
MergedAll(e, saw) ==                    \* mutant: undefined columns are written
  [status |-> IF e.status # saw.status THEN e.status ELSE row.status,
   track |-> IF e.track # saw.track THEN e.track ELSE row.track,
   attempts |-> IF e.attempts # saw.attempts THEN e.attempts ELSE row.attempts]
Merged(e, saw) ==
  [status |-> IF e.status # saw.status THEN e.status ELSE row.status,
   track |-> IF e.track # "undefined" /\ e.track # saw.track THEN e.track ELSE row.track,
   attempts |-> IF e.attempts # saw.attempts THEN e.attempts ELSE row.attempts]
UpdateRow(c) ==
  /\ call[c].pc = "update"
  /\ row' = Merged(call[c].entity, call[c].saw)
  /\ Goes(c, call[c].then)
  /\ UNCHANGED <<authority, repeated, faults>>
SaveFails(c) ==
  /\ call[c].pc \in {"select", "update"} /\ Faulty
  /\ Goes(c, call[c].orElse)
  /\ UNCHANGED <<row, authority, repeated>>
Die(c) ==
  /\ call[c].pc \notin {"idle", "done"} /\ Faulty
  /\ Goes(c, End(c))
  /\ UNCHANGED <<row, authority, repeated>>

(* The authority decides on what it received.                              *)
Decide ==
  /\ authority = "processing"
  /\ authority' \in {"accepted", "rejected"}
  /\ UNCHANGED <<row, repeated, call, faults>>

Submit(c) ==
  \/ ReturnTerminal(c) \/ ReadRow(c) \/ BuildFails(c) \/ Sign(c) \/ GetToken(c) \/ Throws(c)
  \/ LookupFinds(c) \/ LookupFindsNothing(c) \/ LookupFails(c)
  \/ SendAnswered(c) \/ SendFails(c)
Save(c) == SelectRow(c) \/ UpdateRow(c) \/ SaveFails(c) \/ Die(c)

Next ==
  \/ ListRetriable \/ ListPollable \/ QueryStatus \/ QueryFails \/ Decide
  \/ \E c \in Callers : Submit(c) \/ Save(c)

(* The crons fire every few minutes and go on with what they list; the     *)
(* authority decides.  Nothing is assumed of the first attempt, of users,  *)
(* or of failures.                                                         *)
RetryGoesOn == (ListRetriable \/ Submit(Retry) \/ Save(Retry)) /\ faults' = faults
PollGoesOn == (ListPollable \/ QueryStatus \/ Save(Poll)) /\ faults' = faults
Fairness == WF_vars(RetryGoesOn) /\ WF_vars(PollGoesOn) /\ WF_vars(Decide)

Spec == Init /\ [][Next]_vars
FairSpec == Spec /\ Fairness

-----------------------------------------------------------------------------
(* Properties.                                                             *)

(* Every variable keeps its type.                                          *)
TypeOK ==
  /\ row \in Row /\ authority \in AuthorityStates /\ repeated \in BOOLEAN
  /\ call \in [Callers -> Call] /\ faults \in 0 .. MaxFaults

(* The reason for counting the attempts before sending: a document the     *)
(* authority already held when the attempt read its row, because an answer *)
(* was lost or a process died, is asked for and never simply sent again,   *)
(* unless the question itself failed.                                      *)
NoBlindRetransmission ==
  \A c \in Callers : call[c].pc = "send" => ~call[c].known

(* A verdict on the row is one the authority gave: it accepted what is     *)
(* ACCEPTED, and what is REJECTED it rejected, or refused, at least as a   *)
(* repetition, however stale the entities that are saved.                  *)
VerdictsComeFromTheAuthority ==
  /\ row.status = "ACCEPTED" => authority = "accepted"
  /\ row.status = "REJECTED" => authority \in {"rejected", "refused"} \/ repeated

(* The comment of SENT: it was transmitted and a trackId was obtained, so  *)
(* that the status can be asked for.                                       *)
SentHasTrackId == row.status = "SENT" => row.track # "null"

(* What findPollable and findRetriable are for: no assigned number stays   *)
(* undecided for ever: there is a verdict, or an error the tenant sees,    *)
(* unless a SENT document has no trackId, because a stale save took it     *)
(* away or the authority's answer did not name it.                         *)
EveryNumberIsSettled ==
  []SentHasTrackId => []<>(row.status \in Terminal \cup {"ERROR"})

(* The comments of EcfStatus: REJECTED is the authority's final verdict.   *)
RejectedMeansRejected ==
  row.status = "REJECTED" => authority \in {"rejected", "refused"}
=============================================================================
