--------------------------- MODULE ApprovalChain ---------------------------
(***************************************************************************)
(* The approval engine (workflows.service.ts): a document is submitted, a  *)
(* request walks the steps of its policy, and the transaction that grants  *)
(* the last step posts the document (journal-entry-approval.handler.ts,    *)
(* postApproved and markPosted of journal-entries.service.ts).             *)
(* The policy does not change while its requests are open.                 *)
(*                                                                         *)
(* A request or document row is read without a lock.  TypeORM's save then  *)
(* reads the row once more, and writes the columns in which the entity     *)
(* that was read at first differs from it, changed by this call or not.    *)
(* The UPDATE waits for the row's lock and holds it to the end of the      *)
(* transaction, whose writes nobody sees before it commits.  A trigger of  *)
(* the database refuses the UPDATE of an entry that is posted by then.     *)
(***************************************************************************)
EXTENDS Naturals, FiniteSets

CONSTANTS
  Documents, Requests,
  Submissions,        \* calls of submitForApproval
  Decisions,          \* calls of approve and reject
  DocumentOf,         \* submission -> its document
  Users, Author,      \* Author submits every document
  Steps,              \* the policy's steps, by their order
  MaySign,            \* step -> the users that hold its role
  Chain,              \* document -> the steps its amount calls for
  NoCall, NoRequest, NoDocument

Calls == Submissions \cup Decisions

ASSUME PolicyAssumption ==
  /\ Steps \subseteq Nat \ {0}
  /\ MaySign \in [Steps -> SUBSET Users]
  /\ Chain \in [Documents -> SUBSET Steps]
  /\ DocumentOf \in [Submissions -> Documents]
  /\ Author \in Users
ASSUME NullAssumption ==
  /\ NoCall \notin Calls /\ NoRequest \notin Requests /\ NoDocument \notin Documents
  /\ Submissions \cap Decisions = {} /\ Documents \cap Requests = {}
  /\ "sequence" \notin Documents \cup Requests

VARIABLES
  document,   \* committed journal_entries rows
  request,    \* committed approval_requests rows
  actions,    \* committed approval_step_actions rows
  next,       \* committed next number of the journal's sequence
  lock,       \* row -> the call whose transaction holds its lock
  pc,         \* where each call is
  tx          \* the transaction of each call

vars == <<document, request, actions, next, lock, pc, tx>>

DocumentRow == [status : {"draft", "pending", "posted", "rejected"}, number : Nat]
(* approved and rejected stand for who decided and when; the step of a row *)
(* that does not exist is 0, as is the number of one that is not posted.   *)
RequestRow ==
  [status : {"none", "PENDING", "APPROVED", "REJECTED"},
   document : Documents \cup {NoDocument}, step : Steps \cup {0},
   approved : Calls \cup {NoCall}, rejected : Calls \cup {NoCall}]
BlankRequest == [status |-> "none", document |-> NoDocument, step |-> 0,
                 approved |-> NoCall, rejected |-> NoCall]
Action == [request : Requests, step : Steps, user : Users,
           decision : {"APPROVED", "REJECTED"}]

(* The rows that can be locked; one sequence row numbers the journal.      *)
Rows == Documents \cup Requests \cup {"sequence"}

(* A transaction: the request it is about, the entity it saves, the row    *)
(* save compared it with, what it will have written of the request and the *)
(* document, its step action, and whether it took a number.                *)
TxRow == [request : Requests \cup {NoRequest}, entity : RequestRow, saw : RequestRow,
          row : RequestRow, document : Documents \cup {NoDocument},
          becomes : DocumentRow, actions : SUBSET Action, numbered : BOOLEAN]
BlankDocument == [status |-> "draft", number |-> 0]
NoTx == [request |-> NoRequest, entity |-> BlankRequest, saw |-> BlankRequest,
         row |-> BlankRequest, document |-> NoDocument, becomes |-> BlankDocument,
         actions |-> {}, numbered |-> FALSE]
PcLabels == {"idle", "select", "update", "handle", "number", "saveDocument",
             "rejectDocument", "submit", "commit", "answered"}

-----------------------------------------------------------------------------
(* The chain (applicableSteps, sorted by order).                           *)
FirstStep(d) == CHOOSE s \in Chain[d] : \A u \in Chain[d] : s <= u
LaterSteps(d, s) == {u \in Chain[d] : u > s}
NextStep(d, s) == CHOOSE u \in LaterSteps(d, s) : \A v \in LaterSteps(d, s) : u <= v

Put(p, t) == tx' = [tx EXCEPT ![p] = t]
Goto(p, label) == pc' = [pc EXCEPT ![p] = label]
Free(row) == lock[row] = NoCall
Lock(p, row) == lock' = [lock EXCEPT ![row] = p]
ReleaseAll(p) == lock' = [r \in Rows |-> IF lock[r] = p THEN NoCall ELSE lock[r]]
committed == <<document, request, actions, next>>

(* virtex_guard_posted_entry_update: the columns written here are frozen   *)
(* once the row is posted; the statement raises and its transaction fails. *)
AnyRowMayChange(d) == TRUE                      \* mutant: there is no trigger
MayChange(d) == document[d].status # "posted"

-----------------------------------------------------------------------------
(* submitForApproval: the draft is read, a request is opened for it (its   *)
(* id is new, so nobody else sees or locks it), and the draft is saved.    *)
Submit(p, r) ==
  LET d == DocumentOf[p] IN
  /\ p \in Submissions /\ pc[p] = "idle"
  /\ document[d].status = "draft"
  /\ Chain[d] # {}
  /\ request[r].status = "none" /\ \A q \in Calls : tx[q].request # r
  /\ Put(p, [NoTx EXCEPT
       !.request = r, !.document = d,
       !.row = [BlankRequest EXCEPT !.status = "PENDING", !.document = d,
                                    !.step = FirstStep(d)],
       !.becomes = [document[d] EXCEPT !.status = "pending"]])
  /\ Goto(p, "submit")
  /\ UNCHANGED <<committed, lock>>

(* No step applies to the amount: the draft is posted at once.             *)
SubmitAndPost(p) ==
  LET d == DocumentOf[p] IN
  /\ p \in Submissions /\ pc[p] = "idle"
  /\ document[d].status = "draft"
  /\ Chain[d] = {}
  /\ Put(p, [NoTx EXCEPT !.document = d])
  /\ Goto(p, "number")
  /\ UNCHANGED <<committed, lock>>

(* save(entry): both columns follow the entity, which was a draft without  *)
(* a number; with nothing to change there is no UPDATE and no lock.        *)
SaveSubmitted(p) ==
  LET d == tx[p].document IN
  /\ pc[p] = "submit"
  /\ \/ Free(d) /\ MayChange(d) /\ Lock(p, d)
     \/ document[d] = tx[p].becomes /\ UNCHANGED lock
  /\ Goto(p, "commit")
  /\ UNCHANGED <<committed, tx>>

-----------------------------------------------------------------------------
(* loadDecidable and what follows it up to save: the request is read, the  *)
(* step action inserted, the entity changed.                               *)
DecidableByAnyRole(r, u) ==                     \* mutant: the step's role is not asked for
  request[r].status = "PENDING"
Decidable(r, u) ==
  /\ request[r].status = "PENDING"
  /\ u \in MaySign[request[r].step]

Decide(p, r, u, decision, entity) ==
  /\ p \in Decisions /\ pc[p] = "idle"
  /\ Decidable(r, u)
  /\ Put(p, [NoTx EXCEPT
       !.request = r, !.document = request[r].document, !.entity = entity,
       !.actions = {[request |-> r, step |-> request[r].step, user |-> u,
                     decision |-> decision]}])
  /\ Goto(p, "select")
  /\ UNCHANGED <<committed, lock>>

GrantedByIndex(p, r) ==                         \* mutant: orders taken for indices
  [request[r] EXCEPT !.step = request[r].step + 1]
Granted(p, r) ==
  LET d == request[r].document  s == request[r].step
  IN  IF LaterSteps(d, s) # {}
        THEN [request[r] EXCEPT !.step = NextStep(d, s)]
        ELSE [request[r] EXCEPT !.status = "APPROVED", !.approved = p]

Approve(p, r, u) == u # Author /\ Decide(p, r, u, "APPROVED", Granted(p, r))
Reject(p, r, u) ==
  Decide(p, r, u, "REJECTED",
         [request[r] EXCEPT !.status = "REJECTED", !.rejected = p])

(* save(request): the second read, and the UPDATE of the columns in which  *)
(* the entity differs from it.                                             *)
SelectRequest(p) ==
  /\ pc[p] = "select"
  /\ Put(p, [tx[p] EXCEPT !.saw = request[tx[p].request]])
  /\ Goto(p, "update")
  /\ UNCHANGED <<committed, lock>>

Merged(entity, saw, row) ==
  [c \in DOMAIN row |-> IF entity[c] # saw[c] THEN entity[c] ELSE row[c]]

UpdateRequest(p) ==
  LET r == tx[p].request IN
  /\ pc[p] = "update" /\ Free(r)
  /\ Lock(p, r)
  /\ Put(p, [tx[p] EXCEPT !.row = Merged(tx[p].entity, tx[p].saw, request[r])])
  /\ Goto(p, CASE tx[p].entity.status = "PENDING" -> "commit"
               [] tx[p].entity.status = "APPROVED" -> "handle"
               [] tx[p].entity.status = "REJECTED" -> "rejectDocument")
  /\ UNCHANGED committed

(* The entity is the row already: an equal step was written meanwhile.     *)
NothingToUpdate(p) ==
  /\ pc[p] = "update" /\ tx[p].entity = tx[p].saw
  /\ Put(p, [tx[p] EXCEPT !.request = NoRequest])
  /\ Goto(p, "commit")
  /\ UNCHANGED <<committed, lock>>

(* onApproved: a document that is not pending any more needs no posting.   *)
OnApproved(p) ==
  /\ pc[p] = "handle"
  /\ \/ document[tx[p].document].status = "pending" /\ Goto(p, "number")
     \/ document[tx[p].document].status # "pending" /\ Goto(p, "commit")
  /\ UNCHANGED <<committed, lock, tx>>

(* markPosted: the number is allocated under the sequence row's lock; the  *)
(* entry is saved with it, whatever its row says by then, posted excepted. *)
AllocateUnlocked(p) ==                          \* mutant: the row is not locked
  /\ pc[p] = "number"
  /\ Put(p, [tx[p] EXCEPT !.numbered = TRUE,
               !.becomes = [status |-> "posted", number |-> next]])
  /\ Goto(p, "saveDocument")
  /\ UNCHANGED <<committed, lock>>
AllocateNumber(p) ==
  /\ pc[p] = "number" /\ Free("sequence")
  /\ Lock(p, "sequence")
  /\ Put(p, [tx[p] EXCEPT !.numbered = TRUE,
               !.becomes = [status |-> "posted", number |-> next]])
  /\ Goto(p, "saveDocument")
  /\ UNCHANGED committed

SavePosted(p) ==
  /\ pc[p] = "saveDocument" /\ Free(tx[p].document) /\ MayChange(tx[p].document)
  /\ Lock(p, tx[p].document)
  /\ Goto(p, "commit")
  /\ UNCHANGED <<committed, tx>>

(* onRejected: UPDATE ... WHERE status = pending, which waits for a locked *)
(* row that matched and then looks again.                                  *)
OnRejectedNever(p) ==                           \* mutant: the handler is not called
  /\ pc[p] = "rejectDocument"
  /\ Put(p, [tx[p] EXCEPT !.document = NoDocument])
  /\ Goto(p, "commit")
  /\ UNCHANGED <<committed, lock>>
OnRejected(p) ==
  LET d == tx[p].document IN
  /\ pc[p] = "rejectDocument"
  /\ \/ /\ document[d].status = "pending" /\ Free(d)
        /\ Lock(p, d)
        /\ Put(p, [tx[p] EXCEPT !.becomes = [document[d] EXCEPT !.status = "rejected"]])
     \/ /\ document[d].status # "pending"
        /\ Put(p, [tx[p] EXCEPT !.document = NoDocument])
        /\ UNCHANGED lock
  /\ Goto(p, "commit")
  /\ UNCHANGED committed

-----------------------------------------------------------------------------
Commit(p) ==
  LET t == tx[p] IN
  /\ pc[p] = "commit"
  /\ request' = [r \in Requests |-> IF r = t.request THEN t.row ELSE request[r]]
  /\ document' = [d \in Documents |->
       IF lock[d] = p THEN t.becomes ELSE document[d]]
  /\ actions' = actions \cup t.actions
  /\ next' = IF t.numbered THEN next + 1 ELSE next
  /\ ReleaseAll(p)
  /\ Put(p, NoTx)
  /\ Goto(p, "answered")

(* The transaction fails: a posting refused (closed period, exhausted      *)
(* budget), a lost connection.                                             *)
RollBack(p) ==
  /\ pc[p] \notin {"idle", "answered"}
  /\ ReleaseAll(p)
  /\ Put(p, NoTx)
  /\ Goto(p, "answered")
  /\ UNCHANGED committed

Init ==
  /\ document = [d \in Documents |-> BlankDocument]
  /\ request = [r \in Requests |-> BlankRequest]
  /\ actions = {} /\ next = 1
  /\ lock = [r \in Rows |-> NoCall]
  /\ pc = [p \in Calls |-> "idle"]
  /\ tx = [p \in Calls |-> NoTx]

Step(p) ==
  \/ (\E r \in Requests : Submit(p, r)) \/ SubmitAndPost(p) \/ SaveSubmitted(p)
  \/ \E r \in Requests, u \in Users : Approve(p, r, u) \/ Reject(p, r, u)
  \/ SelectRequest(p) \/ UpdateRequest(p) \/ NothingToUpdate(p)
  \/ OnApproved(p) \/ AllocateNumber(p) \/ SavePosted(p) \/ OnRejected(p)
  \/ Commit(p) \/ RollBack(p)

Next == \E p \in Calls : Step(p)
Spec == Init /\ [][Next]_vars

-----------------------------------------------------------------------------
(* Properties.                                                             *)

(* Every variable keeps its type.                                          *)
TypeOK ==
  /\ document \in [Documents -> DocumentRow]
  /\ request \in [Requests -> RequestRow]
  /\ actions \subseteq Action /\ next \in Nat
  /\ lock \in [Rows -> Calls \cup {NoCall}]
  /\ pc \in [Calls -> PcLabels]
  /\ tx \in [Calls -> TxRow]

Signed(r, s) ==
  \E a \in actions : /\ a.request = r /\ a.step = s /\ a.decision = "APPROVED"
                     /\ a.user \in MaySign[s] \ {Author}

(* No document is posted before every step its amount calls for was signed *)
(* on one request of it, by somebody who holds the step's role and did not *)
(* submit it - whatever stale rows the calls that raced for it had read.   *)
PostedOnlyOnAFullChain ==
  \A d \in Documents :
    document[d].status = "posted" /\ Chain[d] # {} =>
      \E r \in Requests : request[r].document = d /\ \A s \in Chain[d] : Signed(r, s)

(* The numbers given out are those of the posted documents, one each: no   *)
(* document is posted twice, no number is skipped or lost.                 *)
NumbersHaveNoGap ==
  LET posted == {d \in Documents : document[d].status = "posted"} IN
  /\ {document[d].number : d \in posted} = 1 .. (next - 1)
  /\ Cardinality(posted) = next - 1

(* A document that waits has a request somebody can still decide: it never *)
(* stays pending with its request decided, which blocks the period's close.*)
PendingDocumentHasAPendingRequest ==
  \A d \in Documents : document[d].status = "pending" =>
    \E r \in Requests : request[r].status = "PENDING" /\ request[r].document = d

(* A posted document keeps its status and its number, whatever the calls   *)
(* that read it while it was a draft or pending still mean to write.       *)
PostedDocumentIsFinal ==
  [][\A d \in Documents :
       document[d].status = "posted" => document'[d] = document[d]]_vars

(* What the comment in approve says the posting inside the transaction is  *)
(* for: no request is approved whose document did not post.                *)
ApprovedRequestIsPosted ==
  \A r \in Requests : request[r].status = "APPROVED" =>
    document[request[r].document].status = "posted"
=============================================================================
