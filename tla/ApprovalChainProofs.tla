------------------------- MODULE ApprovalChainProofs -------------------------
(***************************************************************************)
(* What holds of approvals for every policy and every number of documents, *)
(* requests and racing calls.                                              *)
(***************************************************************************)
EXTENDS ApprovalChain, FiniteSetTheorems, WellFoundedInduction, TLAPS

(* Signatures among the actions as; Signed(r, s) is SignedIn(actions, ..). *)
SignedIn(as, r, s) ==
  \E a \in as : /\ a.request = r /\ a.step = s /\ a.decision = "APPROVED"
                /\ a.user \in MaySign[s] \ {Author}
SignedBelow(as, r, d, s) == \A u \in Chain[d] : u < s => SignedIn(as, r, u)
SignedAll(as, r, d) == \A u \in Chain[d] : SignedIn(as, r, u)

(* A submission on its way opens a request nobody else knows of yet, or    *)
(* posts a document whose amount calls for no step.                        *)
AtOpening(p) ==
  p \in Submissions /\ tx[p].request # NoRequest =>
    /\ pc[p] \in {"submit", "commit"}
    /\ tx[p].request \in Requests /\ request[tx[p].request].status = "none"
    /\ \A q \in Calls : tx[q].request = tx[p].request => q = p
    /\ tx[p].document \in Documents /\ tx[p].row.status = "PENDING"
    /\ tx[p].row.document = tx[p].document /\ tx[p].row.step \in Steps
    /\ \A u \in Chain[tx[p].document] : tx[p].row.step <= u
    /\ tx[p].becomes.status = "pending" /\ ~tx[p].numbered
AtDirect(p) ==
  p \in Submissions /\ tx[p].request = NoRequest /\ pc[p] \notin {"idle", "answered"} =>
    /\ pc[p] \in {"number", "saveDocument", "commit"}
    /\ tx[p].document \in Documents /\ Chain[tx[p].document] = {}
    /\ pc[p] = "commit" => tx[p].numbered

(* A decision on its way: whatever it has read is stale, but the steps it  *)
(* believes signed were signed, and it holds the row it has written.       *)
Deciding(p) ==
  LET r == tx[p].request  d == request[r].document  as == actions \cup tx[p].actions IN
  /\ r \in Requests /\ request[r].status # "none"
  /\ IF pc[p] = "commit" THEN tx[p].document \in {d, NoDocument} ELSE tx[p].document = d
  /\ tx[p].entity.document = d /\ tx[p].entity.status # "none" /\ tx[p].entity.step \in Steps
  /\ SignedBelow(as, r, d, tx[p].entity.step)
  /\ tx[p].entity.status = "APPROVED" => SignedAll(as, r, d)
  /\ pc[p] = "update" => tx[p].saw.document = d /\ tx[p].saw.status # "none"
  /\ pc[p] \notin {"select", "update"} =>
       /\ lock[r] = p /\ tx[p].row.document = d /\ tx[p].row.status # "none"
       /\ tx[p].row.step \in Steps /\ SignedBelow(as, r, d, tx[p].row.step)
  /\ pc[p] \in {"handle", "number"} \/ tx[p].numbered => tx[p].entity.status = "APPROVED"
AtDecision(p) ==
  p \in Decisions /\ pc[p] \notin {"idle", "answered"} =>
    /\ pc[p] # "submit"
    /\ IF tx[p].request = NoRequest
         THEN pc[p] = "commit" /\ ~tx[p].numbered /\ \A d \in Documents : lock[d] # p
         ELSE Deciding(p)

(* A document's lock is the last one taken; it says what the document will *)
(* become, which is pending only together with the request it waits for.   *)
HoldsDocument(p) ==
  \A d \in Documents : lock[d] = p =>
    /\ pc[p] = "commit" /\ d = tx[p].document
    /\ tx[p].numbered \/ tx[p].becomes.status \in {"pending", "rejected"}
    /\ tx[p].becomes.status = "pending" => p \in Submissions /\ tx[p].request # NoRequest
Numbering(p) ==
  /\ pc[p] = "saveDocument" => tx[p].numbered
  /\ tx[p].numbered =>
       /\ pc[p] \in {"saveDocument", "commit"} /\ lock["sequence"] = p
       /\ tx[p].becomes.status = "posted" /\ tx[p].becomes.number = next
       /\ tx[p].document \in Documents
       /\ pc[p] = "commit" => lock[tx[p].document] = p
Resting(p) == pc[p] \in {"idle", "answered"} => tx[p] = NoTx

TxInv(p) ==
  /\ AtOpening(p) /\ AtDirect(p) /\ AtDecision(p)
  /\ HoldsDocument(p) /\ Numbering(p) /\ Resting(p)

(* What is committed.                                                      *)
LockedIsNotPosted ==
  \A d \in Documents : lock[d] # NoCall => document[d].status # "posted"
RequestsInv ==
  \A r \in Requests :
    IF request[r].status = "none" THEN request[r].document = NoDocument
    ELSE /\ request[r].document \in Documents /\ request[r].step \in Steps
         /\ SignedBelow(actions, r, request[r].document, request[r].step)
Posted == {d \in Documents : document[d].status = "posted"}

(* A pending document has a request that keeps it company: whoever is      *)
(* about to decide that request is about to decide the document with it.   *)
Accompanied(d, r) ==
  /\ request[r].status = "PENDING" /\ request[r].document = d
  /\ \A p \in Calls :
       pc[p] = "commit" /\ tx[p].request = r /\ tx[p].row.status # "PENDING" => lock[d] = p
PendingInv ==
  \A d \in Documents : document[d].status = "pending" =>
    \E r \in Requests : Accompanied(d, r)

IInv ==
  /\ TypeOK /\ LockedIsNotPosted /\ RequestsInv /\ PendingInv
  /\ PostedOnlyOnAFullChain /\ NumbersHaveNoGap /\ IsFiniteSet(Posted)
  /\ \A p \in Calls : TxInv(p)

-----------------------------------------------------------------------------
(* The chain.                                                              *)
LEMMA LeastStep ==
  ASSUME NEW T \in SUBSET Steps, T # {}
  PROVE  \E s \in T : \A u \in T : s <= u
  <1>1. T \subseteq Nat
    BY PolicyAssumption
  <1>2. PICK s \in T : \A u \in T : ~(<<u, s>> \in OpToRel(<, Nat))
    BY <1>1, NatLessThanWellFounded, WFMin
  <1>3. \A u \in T : ~(u < s)
    BY <1>1, <1>2 DEF OpToRel
  <1> QED BY <1>1, <1>3

LEMMA FirstStepIsLeast ==
  ASSUME NEW d \in Documents, Chain[d] # {}
  PROVE  FirstStep(d) \in Steps /\ \A u \in Chain[d] : FirstStep(d) <= u
  <1>1. Chain[d] \in SUBSET Steps
    BY PolicyAssumption
  <1> QED BY <1>1, LeastStep DEF FirstStep

LEMMA NextStepIsNext ==
  ASSUME NEW d \in Documents, NEW s \in Steps \cup {0}, LaterSteps(d, s) # {}
  PROVE  /\ NextStep(d, s) \in Steps
         /\ \A u \in Chain[d] : u < NextStep(d, s) => u <= s
  <1>1. LaterSteps(d, s) \in SUBSET Steps /\ Chain[d] \in SUBSET Steps /\ Steps \subseteq Nat
    BY PolicyAssumption DEF LaterSteps
  <1>2. NextStep(d, s) \in LaterSteps(d, s)
        /\ \A v \in LaterSteps(d, s) : NextStep(d, s) <= v
    BY <1>1, LeastStep DEF NextStep
  <1>3. s \in Nat /\ NextStep(d, s) \in Nat /\ \A u \in Chain[d] : u \in Nat
    <2>1. s \in Nat
      BY PolicyAssumption
    <2>2. NextStep(d, s) \in Steps
      BY <1>1, <1>2
    <2> QED BY <1>1, <2>1, <2>2
  <1>4. \A u \in Chain[d] : u \in LaterSteps(d, s) \/ u <= s
    BY <1>3 DEF LaterSteps
  <1>5. \A u \in Chain[d] : u < NextStep(d, s) => u <= s
    BY <1>2, <1>3, <1>4
  <1> QED BY <1>1, <1>2, <1>5

-----------------------------------------------------------------------------
(* Type correctness, and what a step of a call may touch at all.           *)
LEMMA NullTypes ==
  BlankRequest \in RequestRow /\ BlankDocument \in DocumentRow /\ NoTx \in TxRow
  BY DEF BlankRequest, RequestRow, BlankDocument, DocumentRow, NoTx, TxRow

(* What save writes of each column is the entity's or the row's.           *)
LEMMA MergedColumns ==
  ASSUME NEW e \in RequestRow, NEW s \in RequestRow, NEW r \in RequestRow
  PROVE  LET m == Merged(e, s, r) IN
         /\ m \in RequestRow
         /\ m.status = IF e.status # s.status THEN e.status ELSE r.status
         /\ m.document = IF e.document # s.document THEN e.document ELSE r.document
         /\ m.step = IF e.step # s.step THEN e.step ELSE r.step
  <1> DEFINE m == Merged(e, s, r)
  <1>1. DOMAIN r = {"status", "document", "step", "approved", "rejected"}
    BY DEF RequestRow
  <1>2. m = [status |-> IF e.status # s.status THEN e.status ELSE r.status,
             document |-> IF e.document # s.document THEN e.document ELSE r.document,
             step |-> IF e.step # s.step THEN e.step ELSE r.step,
             approved |-> IF e.approved # s.approved THEN e.approved ELSE r.approved,
             rejected |-> IF e.rejected # s.rejected THEN e.rejected ELSE r.rejected]
    BY <1>1 DEF Merged
  <1> QED BY <1>2 DEF RequestRow

Footprint(p) ==
  /\ \E label \in PcLabels : Goto(p, label)
  /\ \E t \in TxRow : Put(p, t)
  /\ \/ UNCHANGED lock \/ ReleaseAll(p)
     \/ \E row \in Rows : Free(row) /\ Lock(p, row)
  /\ UNCHANGED committed \/ Commit(p)

LEMMA GrantedType ==
  ASSUME TypeOK, NEW p \in Calls, NEW r \in Requests, request[r].document \in Documents
  PROVE  /\ Granted(p, r) \in RequestRow
         /\ [request[r] EXCEPT !.status = "REJECTED", !.rejected = p] \in RequestRow
  <1>1. request[r] \in RequestRow /\ request[r].step \in Steps \cup {0}
    BY DEF TypeOK, RequestRow
  <1>2. LaterSteps(request[r].document, request[r].step) # {} =>
          NextStep(request[r].document, request[r].step) \in Steps
    BY <1>1, NextStepIsNext
  <1> QED BY <1>1, <1>2 DEF Granted, RequestRow

LEMMA StepFootprint ==
  ASSUME TypeOK, RequestsInv, \A q \in Calls : TxInv(q), NEW p \in Calls, Step(p)
  PROVE  Footprint(p)
  <1>1. /\ tx[p] \in TxRow /\ tx[p].entity \in RequestRow /\ tx[p].saw \in RequestRow
        /\ tx[p].request \in Requests \cup {NoRequest}
        /\ tx[p].document \in Documents \cup {NoDocument}
    BY DEF TypeOK, TxRow
  <1>2. UNCHANGED tx => \E t \in TxRow : Put(p, t)
    <2>1. UNCHANGED tx => Put(p, tx[p]) BY DEF Put, TypeOK
    <2> QED BY <1>1, <2>1
  <1>3. CASE \E r \in Requests : Submit(p, r)
    <2>1. PICK r \in Requests : Submit(p, r) BY <1>3
    <2> DEFINE d == DocumentOf[p]
               row == [BlankRequest EXCEPT !.status = "PENDING", !.document = d,
                                           !.step = FirstStep(d)]
               doc == [document[d] EXCEPT !.status = "pending"]
    <2>2. d \in Documents /\ FirstStep(d) \in Steps
      BY <2>1, PolicyAssumption, FirstStepIsLeast DEF Submit
    <2>3. row \in RequestRow
      BY <2>2 DEF BlankRequest, RequestRow
    <2>4. doc \in DocumentRow
      BY <2>2 DEF TypeOK, DocumentRow
    <2>5. [NoTx EXCEPT !.request = r, !.document = d, !.row = row, !.becomes = doc] \in TxRow
      BY <2>2, <2>3, <2>4, NullTypes DEF TxRow
    <2> QED BY <2>1, <2>5 DEF Submit, Footprint, PcLabels
  <1>4. CASE SubmitAndPost(p)
    <2>1. [NoTx EXCEPT !.document = DocumentOf[p]] \in TxRow
      BY <1>4, PolicyAssumption, NullTypes DEF SubmitAndPost, TxRow
    <2> QED BY <1>4, <2>1 DEF SubmitAndPost, Footprint, PcLabels
  <1>5. CASE SaveSubmitted(p)
    <2>1. tx[p].document \in Rows
      BY <1>5, NullAssumption DEF SaveSubmitted, Calls, TxInv, AtOpening, AtDirect, AtDecision, Rows
    <2> QED BY <1>2, <1>5, <2>1 DEF SaveSubmitted, Footprint, PcLabels
  <1>6. CASE \E r \in Requests, u \in Users : Approve(p, r, u) \/ Reject(p, r, u)
    <2>1. PICK r \in Requests, u \in Users : Approve(p, r, u) \/ Reject(p, r, u) BY <1>6
    <2>2. PICK decision \in {"APPROVED", "REJECTED"},
               entity \in {Granted(p, r),
                           [request[r] EXCEPT !.status = "REJECTED", !.rejected = p]} :
            Decide(p, r, u, decision, entity)
      BY <2>1 DEF Approve, Reject
    <2>3. request[r].status = "PENDING" /\ u \in MaySign[request[r].step]
      BY <2>2 DEF Decide, Decidable
    <2>4. request[r].document \in Documents
      BY <2>3 DEF RequestsInv
    <2>5. entity \in RequestRow
      BY <2>4, GrantedType
    <2> DEFINE act == [request |-> r, step |-> request[r].step, user |-> u,
                       decision |-> decision]
    <2>6. request[r].step \in Steps
      BY <2>3 DEF RequestsInv
    <2>7. act \in Action
      BY <2>6 DEF Action
    <2>8. [NoTx EXCEPT !.request = r, !.document = request[r].document, !.entity = entity,
                       !.actions = {act}] \in TxRow
      BY <2>4, <2>5, <2>7, NullTypes DEF TxRow
    <2> QED BY <2>2, <2>8 DEF Decide, Footprint, PcLabels
  <1>7. CASE SelectRequest(p)
    <2>1. tx[p].request \in Requests
      BY <1>7 DEF SelectRequest, Calls, TxInv, AtOpening, AtDirect, AtDecision, Deciding
    <2>2. [tx[p] EXCEPT !.saw = request[tx[p].request]] \in TxRow
      BY <1>1, <2>1 DEF TypeOK, TxRow
    <2> QED BY <1>7, <2>2 DEF SelectRequest, Footprint, PcLabels
  <1>8. CASE UpdateRequest(p)
    <2>1. tx[p].request \in Requests /\ tx[p].entity.status # "none"
      BY <1>8 DEF UpdateRequest, Calls, TxInv, AtOpening, AtDirect, AtDecision, Deciding
    <2>2. Merged(tx[p].entity, tx[p].saw, request[tx[p].request]) \in RequestRow
      BY <1>1, <2>1, MergedColumns DEF TypeOK
    <2>3. [tx[p] EXCEPT !.row = Merged(tx[p].entity, tx[p].saw, request[tx[p].request])]
            \in TxRow
      BY <1>1, <2>2 DEF TxRow
    <2>4. tx[p].entity.status \in {"PENDING", "APPROVED", "REJECTED"}
      BY <1>1, <2>1 DEF RequestRow
    <2>5. \E label \in PcLabels : Goto(p, label)
      BY <1>8, <2>4 DEF UpdateRequest, PcLabels
    <2>6. \E row \in Rows : Free(row) /\ Lock(p, row)
      BY <1>8, <2>1 DEF UpdateRequest, Rows
    <2> QED BY <1>8, <2>3, <2>5, <2>6 DEF UpdateRequest, Footprint
  <1>9. CASE NothingToUpdate(p)
    <2>1. [tx[p] EXCEPT !.request = NoRequest] \in TxRow
      BY <1>1 DEF TxRow
    <2> QED BY <1>9, <2>1 DEF NothingToUpdate, Footprint, PcLabels
  <1>10. CASE OnApproved(p)
    BY <1>2, <1>10 DEF OnApproved, Footprint, PcLabels
  <1>11. CASE AllocateNumber(p)
    <2>1. [status |-> "posted", number |-> next] \in DocumentRow
      BY DEF TypeOK, DocumentRow
    <2>2. [tx[p] EXCEPT !.numbered = TRUE,
                        !.becomes = [status |-> "posted", number |-> next]] \in TxRow
      BY <1>1, <2>1 DEF TxRow
    <2>3. \E row \in Rows : Free(row) /\ Lock(p, row)
      BY <1>11 DEF AllocateNumber, Rows
    <2> QED BY <1>11, <2>2, <2>3 DEF AllocateNumber, Footprint, PcLabels
  <1>12. CASE SavePosted(p)
    <2>1. tx[p].document \in Rows
      BY <1>12 DEF SavePosted, TxInv, Numbering, Rows
    <2> QED BY <1>2, <1>12, <2>1 DEF SavePosted, Footprint, PcLabels
  <1>13. CASE OnRejected(p)
    <2>1. tx[p].document \in Documents
      BY <1>13 DEF OnRejected, Calls, TxInv, AtOpening, AtDirect, AtDecision, Deciding, RequestsInv
    <2>2. [document[tx[p].document] EXCEPT !.status = "rejected"] \in DocumentRow
      BY <2>1 DEF TypeOK, DocumentRow
    <2>3. /\ [tx[p] EXCEPT !.becomes = [document[tx[p].document] EXCEPT !.status = "rejected"]]
               \in TxRow
          /\ [tx[p] EXCEPT !.document = NoDocument] \in TxRow
      BY <1>1, <2>2 DEF TxRow
    <2>4. UNCHANGED lock \/ \E row \in Rows : Free(row) /\ Lock(p, row)
      BY <1>13, <2>1 DEF OnRejected, Rows
    <2> QED BY <1>13, <2>3, <2>4 DEF OnRejected, Footprint, PcLabels
  <1>14. CASE Commit(p) \/ RollBack(p)
    BY <1>14, NullTypes DEF Commit, RollBack, Footprint, PcLabels
  <1> QED
    BY <1>3, <1>4, <1>5, <1>6, <1>7, <1>8, <1>9, <1>10, <1>11, <1>12, <1>13, <1>14 DEF Step

LEMMA FootprintType ==
  ASSUME TypeOK, NEW p \in Calls, Footprint(p)
  PROVE  TypeOK'
  <1>1. pc' \in [Calls -> PcLabels] BY DEF Footprint, Goto, TypeOK
  <1>2. tx' \in [Calls -> TxRow] BY DEF Footprint, Put, TypeOK
  <1>3. lock' \in [Rows -> Calls \cup {NoCall}]
    BY DEF Footprint, Lock, ReleaseAll, TypeOK
  <1>4. /\ document' \in [Documents -> DocumentRow] /\ request' \in [Requests -> RequestRow]
        /\ actions' \subseteq Action /\ next' \in Nat
    <2>1. CASE UNCHANGED committed BY <2>1 DEF committed, TypeOK
    <2>2. CASE Commit(p)
      <3>1. /\ tx[p].row \in RequestRow /\ tx[p].becomes \in DocumentRow
            /\ tx[p].actions \in SUBSET Action
        BY DEF TypeOK, TxRow
      <3> QED BY <2>2, <3>1 DEF Commit, TypeOK
    <2> QED BY <2>1, <2>2 DEF Footprint
  <1> QED BY <1>1, <1>2, <1>3, <1>4 DEF TypeOK

-----------------------------------------------------------------------------
(* What a step leaves alone: the other calls and their locks, and, when it *)
(* commits, the rows it has not written.                                   *)
LEMMA OthersFrame ==
  ASSUME TypeOK, NEW p \in Calls, NEW q \in Calls, q # p, Footprint(p)
  PROVE  /\ pc'[q] = pc[q] /\ tx'[q] = tx[q]
         /\ \A row \in Rows : lock'[row] = q <=> lock[row] = q
  <1>1. pc'[q] = pc[q] /\ tx'[q] = tx[q]
    BY DEF Footprint, Goto, Put, TypeOK
  <1>2. q # NoCall
    BY NullAssumption
  <1>3. \A row \in Rows : lock'[row] = q <=> lock[row] = q
    BY <1>2 DEF Footprint, Lock, Free, ReleaseAll, TypeOK
  <1> QED BY <1>1, <1>3

LEMMA CommitFrame ==
  ASSUME TypeOK, NEW p \in Calls, Commit(p)
  PROVE  /\ \A d \in Documents :
              document'[d] = IF lock[d] = p THEN tx[p].becomes ELSE document[d]
         /\ \A r \in Requests :
              request'[r] = IF tx[p].request = r THEN tx[p].row ELSE request[r]
         /\ actions' = actions \cup tx[p].actions
         /\ next' = IF tx[p].numbered THEN next + 1 ELSE next
         /\ pc[p] = "commit" /\ pc'[p] = "answered" /\ tx'[p] = NoTx
         /\ \A row \in Rows : lock'[row] # p
  BY NullAssumption DEF Commit, Put, Goto, ReleaseAll, TypeOK

(* A request that exists keeps its document; its signatures stay.          *)
LEMMA RequestsStay ==
  ASSUME IInv, NEW p \in Calls, Footprint(p), NEW r \in Requests, request[r].status # "none"
  PROVE  /\ request'[r].status # "none" /\ request'[r].document = request[r].document
         /\ actions \subseteq actions'
         /\ lock[r] # p => request'[r] = request[r]
  <1>1. CASE UNCHANGED committed
    BY <1>1 DEF committed
  <1>2. CASE Commit(p) /\ tx[p].request = r
    <2>1. p \in Decisions /\ pc[p] = "commit" /\ r # NoRequest
      BY <1>2, NullAssumption DEF IInv, Calls, TxInv, AtOpening, Commit
    <2>2. Deciding(p)
      BY <1>2, <2>1 DEF IInv, TxInv, AtDecision
    <2>3. lock[r] = p /\ tx[p].row.document = request[r].document /\ tx[p].row.status # "none"
      BY <1>2, <2>1, <2>2 DEF Deciding
    <2> QED BY <1>2, <2>3, CommitFrame DEF IInv
  <1>3. CASE Commit(p) /\ tx[p].request # r
    BY <1>3, CommitFrame DEF IInv
  <1> QED BY <1>1, <1>2, <1>3 DEF Footprint

LEMMA SignedMore ==
  ASSUME NEW as, NEW bs, as \subseteq bs, NEW r, NEW d
  PROVE  /\ \A s : SignedBelow(as, r, d, s) => SignedBelow(bs, r, d, s)
         /\ SignedAll(as, r, d) => SignedAll(bs, r, d)
  BY DEF SignedBelow, SignedAll, SignedIn

LEMMA OthersKeep ==
  ASSUME IInv, NEW p \in Calls, NEW q \in Calls, q # p, Step(p), Footprint(p)
  PROVE  TxInv(q)'
  <1>1. /\ pc'[q] = pc[q] /\ tx'[q] = tx[q]
        /\ \A row \in Rows : lock'[row] = q <=> lock[row] = q
    BY OthersFrame DEF IInv
  <1>2. /\ TxInv(q) /\ tx[q] \in TxRow /\ \A d \in Documents : d \in Rows
        /\ \A r \in Requests : r \in Rows
    BY DEF IInv, TypeOK, Rows
  <1>3. AtDirect(q)' /\ HoldsDocument(q)' /\ Resting(q)'
    BY <1>1, <1>2 DEF TxInv, AtDirect, HoldsDocument, Resting
  <1>4. Numbering(q)'
    <2>1. lock["sequence"] = q => next' = next
      <3>1. CASE UNCHANGED committed BY <3>1 DEF committed
      <3>2. CASE Commit(p)
        <4>1. tx[p].numbered => lock["sequence"] = p BY DEF IInv, TxInv, Numbering
        <4> QED BY <3>2, <4>1, CommitFrame DEF IInv
      <3> QED BY <3>1, <3>2 DEF Footprint
    <2> QED BY <1>1, <1>2, <2>1 DEF TxInv, Numbering, Rows
  <1>5. AtOpening(q)'
    <2> SUFFICES ASSUME q \in Submissions, tx[q].request # NoRequest
                 PROVE  AtOpening(q)'
      BY <1>1 DEF AtOpening
    <2> DEFINE r == tx[q].request
    <2>1. r \in Requests /\ request[r].status = "none" /\ tx[p].request # r
      BY <1>2 DEF TxInv, AtOpening
    <2>2. request'[r] = request[r]
      BY <2>1, CommitFrame DEF IInv, Footprint, committed
    <2>3. tx'[p].request # r
      <3>1. CASE \E s \in Requests : Submit(p, s)
        <4>1. PICK s \in Requests : Submit(p, s) BY <3>1
        <4>2. s # r /\ tx'[p].request = s
          BY <4>1 DEF Submit, Put, IInv, TypeOK, NoTx
        <4> QED BY <4>2
      <3>2. CASE \E s \in Requests, u \in Users : Approve(p, s, u) \/ Reject(p, s, u)
        <4>1. PICK s, u, decision, entity :
                s \in Requests /\ Decide(p, s, u, decision, entity)
          BY <3>2 DEF Approve, Reject
        <4>2. request[s].status = "PENDING" /\ tx'[p].request = s
          BY <4>1 DEF Decide, Decidable, Put, IInv, TypeOK, NoTx
        <4> QED BY <2>1, <4>2
      <3>3. CASE \/ SubmitAndPost(p) \/ SaveSubmitted(p) \/ OnApproved(p) \/ SavePosted(p)
                 \/ NothingToUpdate(p) \/ Commit(p) \/ RollBack(p)
        <4>1. tx'[p].request \in {tx[p].request, NoRequest}
          BY <3>3 DEF SubmitAndPost, SaveSubmitted, OnApproved, SavePosted, NothingToUpdate,
             Commit, RollBack, Put, IInv, TypeOK, TxRow, NoTx
        <4> QED BY <2>1, <4>1, NullAssumption
      <3>4. CASE \/ SelectRequest(p) \/ UpdateRequest(p) \/ AllocateNumber(p)
                 \/ OnRejected(p)
        <4>1. tx'[p].request = tx[p].request
          BY <3>4 DEF SelectRequest, UpdateRequest, AllocateNumber, OnRejected, Put, IInv,
             TypeOK, TxRow
        <4> QED BY <2>1, <4>1
      <3> QED BY <3>1, <3>2, <3>3, <3>4 DEF Step
    <2>4. \A c \in Calls : tx'[c].request = r => c = q
      <3>1. \A c \in Calls \ {p} : tx'[c] = tx[c]
        BY OthersFrame DEF IInv
      <3> QED BY <1>2, <2>3, <3>1 DEF TxInv, AtOpening
    <2> QED BY <1>1, <1>2, <2>1, <2>2, <2>4 DEF TxInv, AtOpening
  <1>6. AtDecision(q)'
    <2> SUFFICES ASSUME q \in Decisions, pc[q] \notin {"idle", "answered"}
                 PROVE  AtDecision(q)'
      BY <1>1 DEF AtDecision
    <2>1. CASE tx[q].request = NoRequest
      BY <1>1, <1>2, <2>1 DEF TxInv, AtDecision
    <2>2. CASE tx[q].request # NoRequest
      <3> DEFINE r == tx[q].request
      <3>1. Deciding(q) /\ pc[q] # "submit"
        BY <1>2, <2>2 DEF TxInv, AtDecision
      <3>2. /\ r \in Requests /\ request[r].status # "none"
            /\ request'[r].status # "none" /\ request'[r].document = request[r].document
            /\ actions \subseteq actions'
        BY <3>1, RequestsStay DEF Deciding
      <3>3. /\ \A s : SignedBelow(actions \cup tx[q].actions, r, request[r].document, s)
                        => SignedBelow(actions' \cup tx[q].actions, r, request[r].document, s)
            /\ SignedAll(actions \cup tx[q].actions, r, request[r].document)
                 => SignedAll(actions' \cup tx[q].actions, r, request[r].document)
        BY <3>2, SignedMore
      <3>4. Deciding(q)'
        BY <1>1, <1>2, <3>1, <3>2, <3>3 DEF Deciding
      <3> QED BY <1>1, <2>2, <3>1, <3>4 DEF AtDecision
    <2> QED BY <2>1, <2>2
  <1> QED BY <1>3, <1>4, <1>5, <1>6 DEF TxInv

-----------------------------------------------------------------------------
(* What a step leaves true of the call that takes it.                      *)
LEMMA PutRow ==
  ASSUME TypeOK, NEW p \in Calls
  PROVE  /\ \A t : Put(p, t) => tx'[p] = t
         /\ \A label : Goto(p, label) => pc'[p] = label
  BY DEF Put, Goto, TypeOK

LEMMA OwnSubmits ==
  ASSUME IInv, NEW p \in Calls, NEW r \in Requests, Submit(p, r)
  PROVE  TxInv(p)'
  <1> DEFINE d == DocumentOf[p]
             row == [BlankRequest EXCEPT !.status = "PENDING", !.document = d,
                                         !.step = FirstStep(d)]
  <1>1. /\ p \in Submissions /\ p \notin Decisions /\ d \in Documents
        /\ pc[p] = "idle" /\ pc'[p] = "submit" /\ r # NoRequest
        /\ UNCHANGED committed /\ UNCHANGED lock
    BY PutRow, PolicyAssumption, NullAssumption DEF IInv, Submit
  <1>2. tx'[p] = [NoTx EXCEPT !.request = r, !.document = d, !.row = row,
                              !.becomes = [document[d] EXCEPT !.status = "pending"]]
    BY PutRow DEF IInv, Submit
  <1>3. /\ tx'[p].request = r /\ tx'[p].document = d /\ tx'[p].row = row
        /\ ~tx'[p].numbered
    BY <1>2 DEF NoTx
  <1>4. tx'[p].becomes = [document[d] EXCEPT !.status = "pending"]
    BY <1>2 DEF NoTx
  <1>5. tx'[p].becomes.status = "pending"
    BY <1>1, <1>4 DEF IInv, TypeOK, DocumentRow
  <1>6. row.status = "PENDING" /\ row.document = d /\ row.step = FirstStep(d)
    BY DEF BlankRequest
  <1>7. FirstStep(d) \in Steps /\ \A u \in Chain[d] : FirstStep(d) <= u
    BY <1>1, FirstStepIsLeast DEF Submit
  <1>8. \A q \in Calls : tx'[q].request = r => q = p
    BY DEF Submit, Put, IInv, TypeOK
  <1>9. request'[r].status = "none"
    BY <1>1 DEF Submit, committed
  <1> HIDE DEF row, d
  <1>10. AtOpening(p)'
    BY <1>1, <1>3, <1>5, <1>6, <1>7, <1>8, <1>9 DEF AtOpening
  <1>11. AtDirect(p)' /\ AtDecision(p)' /\ Resting(p)' /\ Numbering(p)'
    BY <1>1, <1>3 DEF AtDirect, AtDecision, Resting, Numbering
  <1>12. HoldsDocument(p)'
    BY <1>1 DEF IInv, TxInv, HoldsDocument
  <1> QED BY <1>10, <1>11, <1>12 DEF TxInv

LEMMA OwnSubmitsDirectly ==
  ASSUME IInv, NEW p \in Calls, SubmitAndPost(p)
  PROVE  TxInv(p)'
  <1>1. /\ p \in Submissions /\ p \notin Decisions /\ DocumentOf[p] \in Documents
        /\ Chain[DocumentOf[p]] = {} /\ pc[p] = "idle" /\ pc'[p] = "number"
        /\ UNCHANGED committed /\ UNCHANGED lock
    BY PutRow, PolicyAssumption, NullAssumption DEF IInv, SubmitAndPost
  <1>2. tx'[p] = [NoTx EXCEPT !.document = DocumentOf[p]]
    BY PutRow DEF IInv, SubmitAndPost
  <1>3. tx'[p].request = NoRequest /\ tx'[p].document = DocumentOf[p] /\ ~tx'[p].numbered
    BY <1>2 DEF NoTx
  <1>4. AtOpening(p)' /\ AtDirect(p)' /\ AtDecision(p)' /\ Resting(p)' /\ Numbering(p)'
    BY <1>1, <1>3 DEF AtOpening, AtDirect, AtDecision, Resting, Numbering
  <1>5. HoldsDocument(p)'
    BY <1>1 DEF IInv, TxInv, HoldsDocument
  <1> QED BY <1>4, <1>5 DEF TxInv

LEMMA OwnSaves ==
  ASSUME IInv, NEW p \in Calls, SaveSubmitted(p)
  PROVE  TxInv(p)'
  <1> DEFINE d == tx[p].document
  <1>1. pc[p] = "submit" /\ pc'[p] = "commit" /\ tx' = tx /\ UNCHANGED committed
    BY PutRow DEF IInv, SaveSubmitted
  <1>2. p \in Submissions /\ p \notin Decisions /\ tx[p].request # NoRequest
    BY <1>1, NullAssumption DEF IInv, Calls, TxInv, AtDirect, AtDecision
  <1>3. AtOpening(p)'
    BY <1>1, <1>2 DEF IInv, TxInv, AtOpening, committed
  <1>4. AtDirect(p)' /\ AtDecision(p)' /\ Resting(p)'
    BY <1>1, <1>2 DEF AtDirect, AtDecision, Resting
  <1>5. \A e \in Documents : lock[e] # p
    BY <1>1 DEF IInv, TxInv, HoldsDocument
  <1>6. HoldsDocument(p)'
    <2>1. \A e \in Documents : lock'[e] = p => e = d
      BY <1>5 DEF SaveSubmitted, Lock, IInv, TypeOK, Rows
    <2>2. tx[p].becomes.status = "pending"
      BY <1>2 DEF IInv, TxInv, AtOpening
    <2> QED BY <1>1, <1>2, <2>1, <2>2 DEF HoldsDocument
  <1>7. Numbering(p)'
    BY <1>1, <1>2 DEF IInv, TxInv, AtOpening, Numbering
  <1> QED BY <1>3, <1>4, <1>6, <1>7 DEF TxInv

LEMMA OwnDecides ==
  ASSUME IInv, NEW p \in Calls, NEW r \in Requests, NEW u \in Users,
         Approve(p, r, u) \/ Reject(p, r, u)
  PROVE  TxInv(p)'
  <1> DEFINE d == request[r].document
             s == request[r].step
             act(decision) == [request |-> r, step |-> s, user |-> u, decision |-> decision]
  <1>1. PICK decision, entity :
          /\ Decide(p, r, u, decision, entity)
          /\ \/ decision = "APPROVED" /\ u # Author /\ entity = Granted(p, r)
             \/ decision = "REJECTED"
                /\ entity = [request[r] EXCEPT !.status = "REJECTED", !.rejected = p]
    BY DEF Approve, Reject
  <1>2. /\ p \in Decisions /\ p \notin Submissions /\ pc[p] = "idle" /\ pc'[p] = "select"
        /\ request[r].status = "PENDING" /\ u \in MaySign[s] /\ r # NoRequest
        /\ UNCHANGED committed /\ UNCHANGED lock
    BY <1>1, PutRow, NullAssumption DEF IInv, Decide, Decidable
  <1>3. tx'[p] = [NoTx EXCEPT !.request = r, !.document = d, !.entity = entity,
                              !.actions = {act(decision)}]
    BY <1>1, PutRow DEF IInv, Decide
  <1>4. /\ tx'[p].request = r /\ tx'[p].document = d /\ tx'[p].entity = entity
        /\ tx'[p].actions = {act(decision)} /\ ~tx'[p].numbered
    BY <1>3 DEF NoTx
  <1>5. d \in Documents /\ s \in Steps /\ SignedBelow(actions, r, d, s)
        /\ request[r] \in RequestRow
    BY <1>2 DEF IInv, RequestsInv, TypeOK
  <1> DEFINE as == actions' \cup tx'[p].actions
  <1>6. /\ entity.document = d /\ entity.status # "none" /\ entity.step \in Steps
        /\ SignedBelow(as, r, d, entity.step)
        /\ entity.status = "APPROVED" => SignedAll(as, r, d)
    <2>1. actions \subseteq as /\ act(decision) \in as
      BY <1>2, <1>4 DEF committed
    <2>2. SignedBelow(as, r, d, s)
      BY <1>5, <2>1, SignedMore
    <2>3. CASE decision = "REJECTED"
      <3>1. entity = [request[r] EXCEPT !.status = "REJECTED", !.rejected = p]
        BY <1>1, <2>3
      <3>2. entity.document = d /\ entity.step = s /\ entity.status = "REJECTED"
        BY <1>5, <3>1 DEF RequestRow
      <3> QED BY <1>5, <2>2, <3>2
    <2>4. CASE decision = "APPROVED"
      <3>1. u # Author /\ entity = Granted(p, r)
        BY <1>1, <2>4
      <3>2. SignedIn(as, r, s)
        BY <1>2, <2>1, <2>4, <3>1 DEF SignedIn
      <3>3. s \in Nat /\ \A v \in Chain[d] : v \in Nat
        BY <1>5, PolicyAssumption
      <3>4. CASE LaterSteps(d, s) # {}
        <4>1. entity = [request[r] EXCEPT !.step = NextStep(d, s)]
          BY <3>1, <3>4 DEF Granted
        <4>2. entity.document = d /\ entity.step = NextStep(d, s) /\ entity.status = "PENDING"
          BY <1>2, <1>5, <4>1 DEF RequestRow
        <4>3. /\ NextStep(d, s) \in Steps
              /\ \A v \in Chain[d] : v < NextStep(d, s) => v <= s
          BY <1>5, <3>4, NextStepIsNext
        <4>4. SignedBelow(as, r, d, NextStep(d, s))
          BY <2>2, <3>2, <3>3, <4>3 DEF SignedBelow
        <4> QED BY <4>2, <4>3, <4>4
      <3>5. CASE LaterSteps(d, s) = {}
        <4>1. entity = [request[r] EXCEPT !.status = "APPROVED", !.approved = p]
          BY <3>1, <3>5 DEF Granted
        <4>2. entity.document = d /\ entity.step = s /\ entity.status = "APPROVED"
          BY <1>5, <4>1 DEF RequestRow
        <4>3. \A v \in Chain[d] : v <= s
          BY <3>3, <3>5 DEF LaterSteps
        <4>4. SignedAll(as, r, d)
          BY <2>2, <3>2, <3>3, <4>3 DEF SignedBelow, SignedAll
        <4> QED BY <1>5, <2>2, <4>2, <4>4
      <3> QED BY <3>4, <3>5
    <2> QED BY <1>1, <2>3, <2>4
  <1> HIDE DEF act, as
  <1>7. Deciding(p)'
    <2>1. request'[r].document = d /\ request'[r].status # "none"
      BY <1>2 DEF committed
    <2> QED BY <1>2, <1>4, <1>6, <2>1 DEF Deciding, as
  <1>8. AtOpening(p)' /\ AtDirect(p)' /\ AtDecision(p)' /\ Resting(p)' /\ Numbering(p)'
    BY <1>2, <1>4, <1>7 DEF AtOpening, AtDirect, AtDecision, Resting, Numbering
  <1>9. HoldsDocument(p)'
    BY <1>2 DEF IInv, TxInv, HoldsDocument
  <1> QED BY <1>8, <1>9 DEF TxInv

(* A decision that has not reached its document yet.                       *)
LEMMA DecisionIs ==
  ASSUME IInv, NEW p \in Calls,
         pc[p] \in {"select", "update", "handle", "rejectDocument"}
  PROVE  /\ p \in Decisions /\ p \notin Submissions /\ Deciding(p)
         /\ tx[p].request \in Requests /\ tx[p].request # NoRequest /\ ~tx[p].numbered
         /\ tx[p].document \in Documents
         /\ \A d \in Documents : lock[d] # p
  <1>1. p \in Decisions /\ p \notin Submissions
    BY NullAssumption DEF IInv, Calls, TxInv, AtOpening, AtDirect
  <1>2. Deciding(p) /\ ~tx[p].numbered /\ \A d \in Documents : lock[d] # p
    BY <1>1 DEF IInv, TxInv, AtDecision, Numbering, HoldsDocument
  <1> QED BY <1>1, <1>2, NullAssumption DEF Deciding, IInv, RequestsInv

LEMMA OwnSelects ==
  ASSUME IInv, NEW p \in Calls, SelectRequest(p)
  PROVE  TxInv(p)'
  <1>1. /\ pc[p] = "select" /\ pc'[p] = "update" /\ UNCHANGED committed /\ UNCHANGED lock
        /\ tx'[p] = [tx[p] EXCEPT !.saw = request[tx[p].request]]
    BY PutRow DEF IInv, SelectRequest
  <1>2. tx[p] \in TxRow
    BY DEF IInv, TypeOK
  <1>3. /\ tx'[p].saw = request[tx[p].request] /\ tx'[p].request = tx[p].request
        /\ tx'[p].document = tx[p].document /\ tx'[p].entity = tx[p].entity
        /\ tx'[p].actions = tx[p].actions /\ tx'[p].numbered = tx[p].numbered
    BY <1>1, <1>2 DEF TxRow
  <1>4. Deciding(p)'
    BY <1>1, <1>3, DecisionIs DEF Deciding, committed
  <1>5. AtOpening(p)' /\ AtDirect(p)' /\ AtDecision(p)' /\ Resting(p)' /\ Numbering(p)'
        /\ HoldsDocument(p)'
    BY <1>1, <1>3, <1>4, DecisionIs
       DEF AtOpening, AtDirect, AtDecision, Resting, Numbering, HoldsDocument
  <1> QED BY <1>5 DEF TxInv

LEMMA OwnUpdates ==
  ASSUME IInv, NEW p \in Calls, UpdateRequest(p)
  PROVE  TxInv(p)'
  <1> DEFINE r == tx[p].request
             d == request[r].document
             m == Merged(tx[p].entity, tx[p].saw, request[r])
             as == actions \cup tx[p].actions
  <1>1. /\ pc[p] = "update" /\ UNCHANGED committed /\ lock' = [lock EXCEPT ![r] = p]
        /\ tx'[p] = [tx[p] EXCEPT !.row = m]
    BY PutRow DEF IInv, UpdateRequest, Lock
  <1>2. /\ tx[p] \in TxRow /\ tx[p].entity \in RequestRow /\ tx[p].saw \in RequestRow
        /\ r \in Requests /\ request[r] \in RequestRow
    BY <1>1, DecisionIs DEF IInv, TypeOK, TxRow
  <1>3. /\ tx'[p].row = m /\ tx'[p].request = r
        /\ tx'[p].document = tx[p].document /\ tx'[p].entity = tx[p].entity
        /\ tx'[p].actions = tx[p].actions /\ tx'[p].numbered = tx[p].numbered
    BY <1>1, <1>2 DEF TxRow
  <1>4. /\ tx[p].entity.document = d /\ tx[p].entity.status # "none"
        /\ tx[p].entity.step \in Steps /\ SignedBelow(as, r, d, tx[p].entity.step)
        /\ tx[p].saw.document = d /\ tx[p].document = d
        /\ request[r].status # "none"
        /\ tx[p].entity.status = "APPROVED" => SignedAll(as, r, d)
    BY <1>1, DecisionIs DEF Deciding
  <1>5. request[r].step \in Steps /\ SignedBelow(as, r, d, request[r].step)
    <2>1. request[r].step \in Steps /\ SignedBelow(actions, r, d, request[r].step)
      BY <1>2, <1>4 DEF IInv, RequestsInv
    <2> QED BY <2>1, SignedMore
  <1>6. /\ m.document = d /\ m.status # "none" /\ m.step \in Steps
        /\ SignedBelow(as, r, d, m.step)
    BY <1>2, <1>4, <1>5, MergedColumns
  <1>7. /\ pc'[p] \in {"commit", "handle", "rejectDocument"}
        /\ pc'[p] = "handle" => tx[p].entity.status = "APPROVED"
    <2>1. tx[p].entity.status \in {"PENDING", "APPROVED", "REJECTED"}
      BY <1>2, <1>4 DEF RequestRow
    <2> QED BY <2>1 DEF UpdateRequest, Goto, IInv, TypeOK
  <1>8. lock'[r] = p /\ \A e \in Documents : lock'[e] # p
    <2>1. r \in Rows /\ \A e \in Documents : e # r
      BY <1>2, NullAssumption DEF Rows
    <2> QED BY <1>1, <2>1, DecisionIs DEF IInv, TypeOK
  <1> HIDE DEF m
  <1>9. Deciding(p)'
    BY <1>1, <1>2, <1>3, <1>4, <1>6, <1>7, <1>8, DecisionIs DEF Deciding, committed
  <1>10. AtOpening(p)' /\ AtDirect(p)' /\ AtDecision(p)' /\ Resting(p)' /\ Numbering(p)'
         /\ HoldsDocument(p)'
    BY <1>1, <1>3, <1>7, <1>8, <1>9, DecisionIs
       DEF AtOpening, AtDirect, AtDecision, Resting, Numbering, HoldsDocument
  <1> QED BY <1>10 DEF TxInv

LEMMA OwnNothing ==
  ASSUME IInv, NEW p \in Calls, NothingToUpdate(p)
  PROVE  TxInv(p)'
  <1>1. /\ pc[p] = "update" /\ pc'[p] = "commit" /\ UNCHANGED lock
        /\ tx'[p] = [tx[p] EXCEPT !.request = NoRequest]
    BY PutRow DEF IInv, NothingToUpdate
  <1>2. tx'[p].request = NoRequest /\ tx'[p].numbered = tx[p].numbered
    BY <1>1 DEF IInv, TypeOK, TxRow
  <1>3. AtOpening(p)' /\ AtDirect(p)' /\ AtDecision(p)' /\ Resting(p)' /\ Numbering(p)'
        /\ HoldsDocument(p)'
    BY <1>1, <1>2, DecisionIs
       DEF AtOpening, AtDirect, AtDecision, Resting, Numbering, HoldsDocument
  <1> QED BY <1>3 DEF TxInv

LEMMA OwnHandles ==
  ASSUME IInv, NEW p \in Calls, OnApproved(p)
  PROVE  TxInv(p)'
  <1>1. /\ pc[p] = "handle" /\ pc'[p] \in {"number", "commit"} /\ tx' = tx
        /\ UNCHANGED committed /\ UNCHANGED lock
    BY PutRow DEF IInv, OnApproved
  <1>2. Deciding(p)'
    BY <1>1, DecisionIs DEF Deciding, committed
  <1>3. AtOpening(p)' /\ AtDirect(p)' /\ AtDecision(p)' /\ Resting(p)' /\ Numbering(p)'
        /\ HoldsDocument(p)'
    BY <1>1, <1>2, DecisionIs
       DEF AtOpening, AtDirect, AtDecision, Resting, Numbering, HoldsDocument
  <1> QED BY <1>3 DEF TxInv

LEMMA OwnRejects ==
  ASSUME IInv, NEW p \in Calls, OnRejected(p)
  PROVE  TxInv(p)'
  <1> DEFINE d == tx[p].document
             doc == [document[d] EXCEPT !.status = "rejected"]
  <1>1. /\ pc[p] = "rejectDocument" /\ pc'[p] = "commit" /\ UNCHANGED committed
        /\ p \in Decisions /\ p \notin Submissions /\ Deciding(p) /\ tx[p] \in TxRow
        /\ tx[p].request \in Requests /\ tx[p].request # NoRequest /\ d \in Documents
        /\ ~tx[p].numbered /\ \A e \in Documents : lock[e] # p
    BY PutRow, DecisionIs DEF IInv, OnRejected, TypeOK
  <1>2. CASE UNCHANGED lock /\ Put(p, [tx[p] EXCEPT !.document = NoDocument])
    <2>1. tx'[p] = [tx[p] EXCEPT !.document = NoDocument]
      BY <1>2, PutRow DEF IInv
    <2>2. /\ tx'[p].document = NoDocument /\ tx'[p].request = tx[p].request
          /\ tx'[p].entity = tx[p].entity /\ tx'[p].row = tx[p].row
          /\ tx'[p].actions = tx[p].actions /\ tx'[p].numbered = tx[p].numbered
      BY <1>1, <2>1 DEF TxRow
    <2>3. Deciding(p)'
      BY <1>1, <1>2, <2>2 DEF Deciding, committed
    <2>4. AtOpening(p)' /\ AtDirect(p)' /\ AtDecision(p)' /\ Resting(p)' /\ Numbering(p)'
          /\ HoldsDocument(p)'
      BY <1>1, <1>2, <2>2, <2>3
         DEF AtOpening, AtDirect, AtDecision, Resting, Numbering, HoldsDocument
    <2> QED BY <2>4 DEF TxInv
  <1>3. CASE Lock(p, d) /\ Put(p, [tx[p] EXCEPT !.becomes = doc])
    <2>1. tx'[p] = [tx[p] EXCEPT !.becomes = doc]
      BY <1>3, PutRow DEF IInv
    <2>2. /\ tx'[p].document = d /\ tx'[p].request = tx[p].request
          /\ tx'[p].entity = tx[p].entity /\ tx'[p].row = tx[p].row
          /\ tx'[p].actions = tx[p].actions /\ tx'[p].numbered = tx[p].numbered
          /\ tx'[p].becomes = doc
      BY <1>1, <2>1 DEF TxRow
    <2>3. doc.status = "rejected"
      BY <1>1 DEF IInv, TypeOK, DocumentRow
    <2>4. /\ lock'[tx[p].request] = lock[tx[p].request]
          /\ \A e \in Documents : lock'[e] = p => e = d
      BY <1>1, <1>3, NullAssumption DEF Lock, IInv, TypeOK, Rows
    <2>5. Deciding(p)'
      BY <1>1, <2>2, <2>4 DEF Deciding, committed
    <2> HIDE DEF doc
    <2>6. AtOpening(p)' /\ AtDirect(p)' /\ AtDecision(p)' /\ Resting(p)' /\ Numbering(p)'
      BY <1>1, <2>2, <2>5 DEF AtOpening, AtDirect, AtDecision, Resting, Numbering
    <2>7. HoldsDocument(p)'
      BY <1>1, <2>2, <2>3, <2>4 DEF HoldsDocument
    <2> QED BY <2>6, <2>7 DEF TxInv
  <1> QED BY <1>2, <1>3 DEF OnRejected

(* The posting, by a decision or by a submission no step applies to.       *)
LEMMA PosterIs ==
  ASSUME IInv, NEW p \in Calls, pc[p] \in {"number", "saveDocument"}
  PROVE  /\ tx[p].document \in Documents
         /\ \/ p \in Submissions /\ p \notin Decisions /\ tx[p].request = NoRequest
               /\ Chain[tx[p].document] = {}
            \/ p \in Decisions /\ p \notin Submissions /\ tx[p].request # NoRequest
               /\ tx[p].request \in Requests /\ Deciding(p)
         /\ \A d \in Documents : lock[d] # p
  <1>1. \A d \in Documents : lock[d] # p
    BY DEF IInv, TxInv, HoldsDocument
  <1>2. CASE p \in Submissions
    <2>1. p \notin Decisions /\ tx[p].request = NoRequest
      BY <1>2, NullAssumption DEF IInv, TxInv, AtOpening
    <2> QED BY <1>1, <1>2, <2>1 DEF IInv, TxInv, AtDirect
  <1>3. CASE p \in Decisions
    <2>1. p \notin Submissions /\ tx[p].request # NoRequest /\ Deciding(p)
      BY <1>3, NullAssumption DEF IInv, TxInv, AtDecision
    <2> QED BY <1>1, <1>3, <2>1 DEF Deciding, IInv, RequestsInv
  <1> QED BY <1>2, <1>3 DEF Calls

LEMMA OwnNumbers ==
  ASSUME IInv, NEW p \in Calls, AllocateNumber(p)
  PROVE  TxInv(p)'
  <1> DEFINE doc == [status |-> "posted", number |-> next]
  <1>1. /\ pc[p] = "number" /\ pc'[p] = "saveDocument" /\ UNCHANGED committed
        /\ tx'[p] = [tx[p] EXCEPT !.numbered = TRUE, !.becomes = doc]
        /\ lock' = [lock EXCEPT !["sequence"] = p] /\ tx[p] \in TxRow
    BY PutRow DEF IInv, AllocateNumber, Lock, TypeOK
  <1>2. /\ tx'[p].document = tx[p].document /\ tx'[p].request = tx[p].request
        /\ tx'[p].entity = tx[p].entity /\ tx'[p].row = tx[p].row
        /\ tx'[p].actions = tx[p].actions /\ tx'[p].numbered /\ tx'[p].becomes = doc
    BY <1>1 DEF TxRow
  <1>3. /\ lock'["sequence"] = p /\ \A r \in Requests : lock'[r] = lock[r]
        /\ \A d \in Documents : lock'[d] # p
    <2>1. \A row \in Documents \cup Requests : row \in Rows /\ row # "sequence"
      BY NullAssumption DEF Rows
    <2>2. "sequence" \in Rows BY DEF Rows
    <2> QED BY <1>1, <2>1, <2>2, PosterIs DEF IInv, TypeOK
  <1>4. p \in Decisions => Deciding(p)'
    <2> SUFFICES ASSUME p \in Decisions PROVE Deciding(p)'
      OBVIOUS
    <2>1. Deciding(p) /\ tx[p].request \in Requests
      BY <1>1, PosterIs
    <2>2. tx[p].entity.status = "APPROVED"
      BY <1>1, <2>1 DEF Deciding
    <2> QED BY <1>1, <1>2, <1>3, <2>1, <2>2 DEF Deciding, committed
  <1>5. AtOpening(p)' /\ AtDirect(p)' /\ AtDecision(p)' /\ Resting(p)'
    BY <1>1, <1>2, <1>4, PosterIs DEF AtOpening, AtDirect, AtDecision, Resting
  <1>6. Numbering(p)' /\ HoldsDocument(p)'
    BY <1>1, <1>2, <1>3, PosterIs DEF Numbering, HoldsDocument, committed
  <1> QED BY <1>5, <1>6 DEF TxInv

LEMMA OwnPosts ==
  ASSUME IInv, NEW p \in Calls, SavePosted(p)
  PROVE  TxInv(p)'
  <1> DEFINE d == tx[p].document
  <1>1. /\ pc[p] = "saveDocument" /\ pc'[p] = "commit" /\ tx' = tx /\ UNCHANGED committed
        /\ lock' = [lock EXCEPT ![d] = p]
    BY PutRow DEF IInv, SavePosted, Lock
  <1>2. /\ tx[p].numbered /\ lock["sequence"] = p /\ d \in Documents
        /\ tx[p].becomes.status = "posted" /\ tx[p].becomes.number = next
    BY <1>1 DEF IInv, TxInv, Numbering
  <1>3. /\ lock'[d] = p /\ lock'["sequence"] = p /\ \A r \in Requests : lock'[r] = lock[r]
        /\ \A e \in Documents : lock'[e] = p => e = d
    <2>1. d \in Rows /\ "sequence" \in Rows /\ d # "sequence" /\ d \notin Requests
          /\ \A row \in Documents \cup Requests : row \in Rows
      BY <1>2, NullAssumption DEF Rows
    <2> QED BY <1>1, <1>2, <2>1, PosterIs DEF IInv, TypeOK
  <1>4. p \in Decisions => Deciding(p)'
    <2> SUFFICES ASSUME p \in Decisions PROVE Deciding(p)'
      OBVIOUS
    <2>1. Deciding(p) /\ tx[p].request \in Requests
      BY <1>1, PosterIs
    <2> QED BY <1>1, <1>3, <2>1 DEF Deciding, committed
  <1>5. AtOpening(p)' /\ AtDirect(p)' /\ AtDecision(p)' /\ Resting(p)'
    BY <1>1, <1>2, <1>4, PosterIs DEF AtOpening, AtDirect, AtDecision, Resting
  <1>6. Numbering(p)' /\ HoldsDocument(p)'
    BY <1>1, <1>2, <1>3 DEF Numbering, HoldsDocument, committed
  <1> QED BY <1>5, <1>6 DEF TxInv

LEMMA OwnEnds ==
  ASSUME IInv, NEW p \in Calls, Commit(p) \/ RollBack(p)
  PROVE  TxInv(p)'
  <1>1. /\ pc'[p] = "answered" /\ tx'[p] = NoTx /\ \A row \in Rows : lock'[row] # p
    BY PutRow, NullAssumption DEF IInv, Commit, RollBack, ReleaseAll, TypeOK
  <1>2. tx'[p].request = NoRequest /\ ~tx'[p].numbered
    BY <1>1 DEF NoTx
  <1> QED BY <1>1, <1>2
          DEF TxInv, AtOpening, AtDirect, AtDecision, HoldsDocument, Numbering, Resting, Rows

LEMMA OwnKeep ==
  ASSUME IInv, NEW p \in Calls, Step(p)
  PROVE  TxInv(p)'
  <1>1. CASE \E r \in Requests : Submit(p, r)
    BY <1>1, OwnSubmits
  <1>2. CASE SubmitAndPost(p) \/ SaveSubmitted(p)
    BY <1>2, OwnSubmitsDirectly, OwnSaves
  <1>3. CASE \E r \in Requests, u \in Users : Approve(p, r, u) \/ Reject(p, r, u)
    BY <1>3, OwnDecides
  <1>4. CASE SelectRequest(p) \/ UpdateRequest(p) \/ NothingToUpdate(p)
    BY <1>4, OwnSelects, OwnUpdates, OwnNothing
  <1>5. CASE OnApproved(p) \/ AllocateNumber(p) \/ SavePosted(p) \/ OnRejected(p)
    BY <1>5, OwnHandles, OwnNumbers, OwnPosts, OwnRejects
  <1>6. CASE Commit(p) \/ RollBack(p)
    BY <1>6, OwnEnds
  <1> QED BY <1>1, <1>2, <1>3, <1>4, <1>5, <1>6 DEF Step

-----------------------------------------------------------------------------
(* What is committed: the locks of documents, the requests.                *)
LEMMA LockedKept ==
  ASSUME IInv, NEW p \in Calls, Step(p), Footprint(p)
  PROVE  LockedIsNotPosted'
  <1> SUFFICES ASSUME NEW d \in Documents, lock'[d] # NoCall
               PROVE  document'[d].status # "posted"
    BY DEF LockedIsNotPosted
  <1>1. d \in Rows /\ d # "sequence" /\ d \notin Requests
    BY NullAssumption DEF Rows
  <1>2. CASE Commit(p)
    <2>1. lock'[d] = lock[d] /\ lock[d] # p
      BY <1>1, <1>2 DEF Commit, ReleaseAll
    <2> QED BY <1>2, <2>1, CommitFrame DEF IInv, LockedIsNotPosted
  <1>3. CASE ~Commit(p)
    <2>1. document' = document
      BY <1>3 DEF Footprint, committed
    <2>2. CASE lock[d] # NoCall
      BY <2>1, <2>2 DEF IInv, LockedIsNotPosted
    <2>3. CASE lock[d] = NoCall
      <3>1. \A row \in Rows : Lock(p, row) => (lock'[d] # lock[d] => row = d)
        BY <1>1 DEF Lock, IInv, TypeOK
      <3>2. lock'[d] # lock[d] /\ ~ReleaseAll(p) /\ ~UNCHANGED lock
        BY <1>1, <2>3 DEF ReleaseAll
      <3>3. CASE SaveSubmitted(p) \/ SavePosted(p) \/ OnRejected(p)
        <4>1. tx[p].document = d
          <5>1. tx[p].document \in Rows => (Lock(p, tx[p].document) => tx[p].document = d)
            BY <3>1, <3>2
          <5>2. tx[p].document \in Documents
            <6>1. CASE SaveSubmitted(p)
              BY <6>1, NullAssumption
                 DEF SaveSubmitted, Calls, IInv, TxInv, AtOpening, AtDirect, AtDecision
            <6>2. CASE SavePosted(p)
              BY <6>2, PosterIs DEF SavePosted
            <6>3. CASE OnRejected(p)
              BY <6>3, DecisionIs DEF OnRejected
            <6> QED BY <3>3, <6>1, <6>2, <6>3
          <5> QED BY <3>2, <3>3, <5>1, <5>2 DEF SaveSubmitted, SavePosted, OnRejected, Rows
        <4> QED BY <2>1, <3>2, <3>3, <4>1
                DEF SaveSubmitted, SavePosted, OnRejected, MayChange
      <3>4. CASE UpdateRequest(p) \/ AllocateNumber(p)
        <4>1. tx[p].request \in Requests \/ AllocateNumber(p)
          BY <3>4, DecisionIs DEF UpdateRequest
        <4> QED BY <1>1, <3>1, <3>2, <3>4, <4>1 DEF UpdateRequest, AllocateNumber, Rows
      <3>5. CASE \/ \E r \in Requests : Submit(p, r)
                 \/ \E r \in Requests, u \in Users : Approve(p, r, u) \/ Reject(p, r, u)
                 \/ SubmitAndPost(p) \/ SelectRequest(p) \/ NothingToUpdate(p)
                 \/ OnApproved(p) \/ RollBack(p)
        BY <3>2, <3>5 DEF Submit, Approve, Reject, Decide, SubmitAndPost, SelectRequest,
           NothingToUpdate, OnApproved, RollBack
      <3> QED BY <1>3, <3>3, <3>4, <3>5 DEF Step
    <2> QED BY <2>2, <2>3
  <1> QED BY <1>2, <1>3

LEMMA RequestsKept ==
  ASSUME IInv, NEW p \in Calls, Footprint(p)
  PROVE  RequestsInv'
  <1>1. CASE UNCHANGED committed
    BY <1>1 DEF committed, IInv, RequestsInv
  <1>2. CASE Commit(p)
    <2> SUFFICES ASSUME NEW r \in Requests
                 PROVE  IF request'[r].status = "none" THEN request'[r].document = NoDocument
                        ELSE /\ request'[r].document \in Documents /\ request'[r].step \in Steps
                             /\ SignedBelow(actions', r, request'[r].document, request'[r].step)
      BY DEF RequestsInv
    <2>1. CASE tx[p].request # r
      <3>1. request'[r] = request[r] /\ actions \subseteq actions'
        BY <1>2, <2>1, CommitFrame DEF IInv
      <3>2. request[r].status # "none" =>
              SignedBelow(actions', r, request[r].document, request[r].step)
        BY <3>1, SignedMore DEF IInv, RequestsInv
      <3> QED BY <3>1, <3>2 DEF IInv, RequestsInv
    <2>2. CASE tx[p].request = r
      <3>1. /\ request'[r] = tx[p].row /\ actions' = actions \cup tx[p].actions
            /\ r # NoRequest /\ pc[p] = "commit"
        BY <1>2, <2>2, CommitFrame, NullAssumption DEF IInv
      <3>2. CASE p \in Submissions
        <4>1. /\ tx[p].document \in Documents /\ tx[p].row.status = "PENDING"
              /\ tx[p].row.document = tx[p].document /\ tx[p].row.step \in Steps
              /\ \A u \in Chain[tx[p].document] : tx[p].row.step <= u
          BY <2>2, <3>1, <3>2 DEF IInv, TxInv, AtOpening
        <4>2. \A u \in Chain[tx[p].document] : ~(u < tx[p].row.step)
          <5>1. tx[p].row.step \in Nat /\ \A u \in Chain[tx[p].document] : u \in Nat
            <6>1. Chain[tx[p].document] \subseteq Steps
              BY <4>1, PolicyAssumption
            <6> QED BY <4>1, <6>1, PolicyAssumption
          <5> QED BY <4>1, <5>1
        <4> QED BY <3>1, <4>1, <4>2 DEF SignedBelow
      <3>3. CASE p \in Decisions
        <4>1. Deciding(p)
          BY <2>2, <3>1, <3>3 DEF IInv, TxInv, AtDecision
        <4>2. request[r].status # "none" /\ tx[p].row.document = request[r].document
              /\ tx[p].row.status # "none" /\ tx[p].row.step \in Steps
              /\ SignedBelow(actions', r, tx[p].row.document, tx[p].row.step)
          BY <2>2, <3>1, <4>1 DEF Deciding
        <4> QED BY <3>1, <4>2 DEF IInv, RequestsInv
      <3> QED BY <3>2, <3>3 DEF Calls
    <2> QED BY <2>1, <2>2
  <1> QED BY <1>1, <1>2 DEF Footprint

(* A decision reaches its commit with a request it decided, and without    *)
(* the lock of its document, only if the document was not pending.         *)
LEMMA CompanyArrives ==
  ASSUME IInv, NEW p \in Calls, Step(p), UNCHANGED committed,
         NEW d \in Documents, NEW r \in Requests, document[d].status = "pending",
         request[r].status = "PENDING", request[r].document = d,
         pc'[p] = "commit", tx'[p].request = r, tx'[p].row.status # "PENDING"
  PROVE  lock'[d] = p
  <1>1. r # NoRequest /\ d \in Rows /\ TypeOK
    BY NullAssumption DEF Rows, IInv
  <1>2. CASE SaveSubmitted(p)
    <2>1. tx' = tx /\ pc[p] = "submit"
      BY <1>2 DEF SaveSubmitted
    <2>2. p \in Submissions
      BY <2>1 DEF Calls, IInv, TxInv, AtDecision
    <2> QED BY <1>1, <2>1, <2>2 DEF IInv, TxInv, AtOpening
  <1>3. CASE UpdateRequest(p)
    <2>1. pc[p] = "update" /\ tx'[p] = [tx[p] EXCEPT
            !.row = Merged(tx[p].entity, tx[p].saw, request[tx[p].request])]
      BY <1>1, <1>3, PutRow DEF UpdateRequest
    <2>2. /\ tx[p] \in TxRow /\ tx[p].entity \in RequestRow /\ tx[p].saw \in RequestRow
          /\ request[r] \in RequestRow /\ tx[p].entity.status # "none"
      BY <1>1, <2>1, DecisionIs DEF TypeOK, TxRow, Deciding
    <2>3. tx[p].request = r /\ tx'[p].row = Merged(tx[p].entity, tx[p].saw, request[r])
      BY <2>1, <2>2 DEF TxRow
    <2>4. tx[p].entity.status = "PENDING"
      <3>1. tx[p].entity.status \in {"PENDING", "APPROVED", "REJECTED"}
        BY <2>2 DEF RequestRow
      <3> QED BY <1>1, <1>3, <3>1 DEF UpdateRequest, Goto, TypeOK
    <2>5. tx'[p].row.status = "PENDING"
      BY <2>2, <2>3, <2>4, MergedColumns
    <2> QED BY <2>5
  <1>4. CASE NothingToUpdate(p)
    BY <1>1, <1>4 DEF NothingToUpdate, Put, TypeOK, TxRow
  <1>5. CASE OnApproved(p)
    <2>1. tx' = tx /\ pc[p] = "handle" /\ document[tx[p].document].status # "pending"
      BY <1>1, <1>5 DEF OnApproved, Goto, TypeOK
    <2>2. tx[p].document = d
      BY <2>1, DecisionIs DEF Deciding
    <2> QED BY <2>1, <2>2
  <1>6. CASE SavePosted(p)
    <2>1. tx' = tx /\ pc[p] = "saveDocument" /\ Lock(p, tx[p].document)
      BY <1>6 DEF SavePosted
    <2>2. tx[p].document = d
      BY <1>1, <2>1, PosterIs DEF Deciding
    <2> QED BY <1>1, <2>1, <2>2 DEF Lock, TypeOK
  <1>7. CASE OnRejected(p)
    <2>1. pc[p] = "rejectDocument" /\ tx[p].request = r
      BY <1>1, <1>7 DEF OnRejected, Put, TypeOK, TxRow
    <2>2. tx[p].document = d
      <3>1. Deciding(p) BY <2>1, DecisionIs
      <3> QED BY <2>1, <3>1 DEF Deciding
    <2>3. Lock(p, d)
      BY <1>7, <2>2 DEF OnRejected
    <2> QED BY <1>1, <2>3 DEF Lock, TypeOK
  <1>8. CASE \/ \E s \in Requests : Submit(p, s)
             \/ \E s \in Requests, u \in Users : Approve(p, s, u) \/ Reject(p, s, u)
             \/ SubmitAndPost(p) \/ SelectRequest(p) \/ AllocateNumber(p)
             \/ Commit(p) \/ RollBack(p)
    BY <1>1, <1>8 DEF Submit, Approve, Reject, Decide, SubmitAndPost, SelectRequest,
       AllocateNumber, Commit, RollBack, Goto, TypeOK
  <1> QED BY <1>2, <1>3, <1>4, <1>5, <1>6, <1>7, <1>8 DEF Step

LEMMA PendingKept ==
  ASSUME IInv, NEW p \in Calls, Step(p), Footprint(p)
  PROVE  PendingInv'
  <1> SUFFICES ASSUME NEW d \in Documents, document'[d].status = "pending"
               PROVE  \E r \in Requests : Accompanied(d, r)'
    BY DEF PendingInv
  <1>1. TypeOK /\ d \in Rows
    BY DEF IInv, Rows
  <1>2. \A q \in Calls \ {p} : /\ pc'[q] = pc[q] /\ tx'[q] = tx[q]
                               /\ lock'[d] = q <=> lock[d] = q
    BY <1>1, OthersFrame
  <1>3. CASE Commit(p) /\ lock[d] = p
    <2> DEFINE r == tx[p].request
    <2>1. document'[d] = tx[p].becomes
      BY <1>1, <1>3, CommitFrame
    <2>2. p \in Submissions /\ r # NoRequest /\ d = tx[p].document
      BY <1>3, <2>1 DEF IInv, TxInv, HoldsDocument
    <2>3. /\ r \in Requests /\ tx[p].row.status = "PENDING" /\ tx[p].row.document = d
          /\ \A q \in Calls : tx[q].request = r => q = p
      BY <2>2 DEF IInv, TxInv, AtOpening
    <2>4. request'[r] = tx[p].row /\ pc'[p] = "answered"
      BY <1>1, <1>3, <2>3, CommitFrame
    <2> QED BY <1>2, <2>3, <2>4 DEF Accompanied
  <1>4. CASE Commit(p) /\ lock[d] # p
    <2>1. document'[d] = document[d] /\ pc[p] = "commit" /\ pc'[p] = "answered"
      BY <1>1, <1>4, CommitFrame
    <2>2. PICK r \in Requests : Accompanied(d, r)
      BY <2>1 DEF IInv, PendingInv
    <2>3. request'[r].status = "PENDING" /\ request'[r].document = d
      <3>1. CASE tx[p].request = r
        <4>1. tx[p].row.status = "PENDING"
          BY <1>4, <2>1, <2>2, <3>1 DEF Accompanied
        <4>2. request'[r] = tx[p].row
          BY <1>1, <1>4, <3>1, CommitFrame
        <4>3. request'[r].document = request[r].document
          BY <2>2, RequestsStay DEF Accompanied
        <4> QED BY <2>2, <4>1, <4>2, <4>3 DEF Accompanied
      <3>2. CASE tx[p].request # r
        BY <1>1, <1>4, <2>2, <3>2, CommitFrame DEF Accompanied
      <3> QED BY <3>1, <3>2
    <2> QED BY <1>2, <2>1, <2>2, <2>3 DEF Accompanied
  <1>5. CASE UNCHANGED committed
    <2>1. document' = document /\ request' = request
      BY <1>5 DEF committed
    <2>2. PICK r \in Requests : Accompanied(d, r)
      BY <2>1 DEF IInv, PendingInv
    <2>3. pc'[p] = "commit" /\ tx'[p].request = r /\ tx'[p].row.status # "PENDING"
            => lock'[d] = p
      BY <1>5, <2>1, <2>2, CompanyArrives DEF Accompanied
    <2> QED BY <1>2, <2>1, <2>2, <2>3 DEF Accompanied
  <1> QED BY <1>3, <1>4, <1>5 DEF Footprint

LEMMA ChainKept ==
  ASSUME IInv, NEW p \in Calls, Footprint(p)
  PROVE  PostedOnlyOnAFullChain'
  <1> SUFFICES ASSUME NEW d \in Documents, document'[d].status = "posted", Chain[d] # {}
               PROVE  \E r \in Requests : request'[r].document = d /\ SignedAll(actions', r, d)
    BY DEF PostedOnlyOnAFullChain, Signed, SignedAll, SignedIn
  <1>1. CASE document[d].status = "posted"
    <2>1. PICK r \in Requests : request[r].document = d /\ SignedAll(actions, r, d)
      BY <1>1 DEF IInv, PostedOnlyOnAFullChain, Signed, SignedAll, SignedIn
    <2>2. request[r].status # "none"
      BY <2>1, NullAssumption DEF IInv, RequestsInv
    <2>3. request'[r].document = d /\ actions \subseteq actions'
      BY <2>1, <2>2, RequestsStay
    <2> QED BY <2>1, <2>3, SignedMore
  <1>2. CASE document[d].status # "posted"
    <2>1. Commit(p)
      BY <1>2 DEF Footprint, committed
    <2>2. lock[d] = p /\ tx[p].becomes.status = "posted" /\ pc[p] = "commit"
          /\ actions' = actions \cup tx[p].actions
      BY <1>2, <2>1, CommitFrame DEF IInv
    <2>3. tx[p].numbered /\ tx[p].document = d
      BY <2>2 DEF IInv, TxInv, HoldsDocument
    <2>4. p \in Decisions
      BY <2>2, <2>3 DEF Calls, IInv, TxInv, AtOpening, AtDirect
    <2>5. Deciding(p)
      BY <2>2, <2>3, <2>4 DEF IInv, TxInv, AtDecision
    <2> DEFINE r == tx[p].request
    <2>6. /\ r \in Requests /\ request[r].status # "none" /\ request[r].document = d
          /\ SignedAll(actions', r, d)
      BY <2>2, <2>3, <2>5, NullAssumption DEF Deciding
    <2> QED BY <2>6, RequestsStay
  <1> QED BY <1>1, <1>2

(* A commit that numbers its document adds exactly that one to the posted. *)
LEMMA NumbersKept ==
  ASSUME IInv, NEW p \in Calls, Footprint(p)
  PROVE  NumbersHaveNoGap' /\ IsFiniteSet(Posted')
  <1>1. /\ {document[d].number : d \in Posted} = 1 .. (next - 1)
        /\ Cardinality(Posted) = next - 1 /\ IsFiniteSet(Posted) /\ next \in Nat
    BY DEF IInv, TypeOK, NumbersHaveNoGap, Posted
  <1>2. next - 1 \in Nat
    BY <1>1, FS_CardinalityType
  <1>3. SUFFICES /\ {document'[d].number : d \in Posted'} = 1 .. (next' - 1)
                 /\ Cardinality(Posted') = next' - 1 /\ IsFiniteSet(Posted')
    BY DEF NumbersHaveNoGap, Posted
  <1>4. CASE UNCHANGED committed
    BY <1>1, <1>4 DEF committed, Posted
  <1>5. CASE Commit(p) /\ ~tx[p].numbered
    <2>1. next' = next
      BY <1>5, CommitFrame DEF IInv
    <2>2. ASSUME NEW d \in Documents
          PROVE  /\ document'[d].status = "posted" <=> document[d].status = "posted"
                 /\ document[d].status = "posted" => document'[d] = document[d]
      <3>1. CASE lock[d] = p
        <4>1. document'[d] = tx[p].becomes
          BY <1>5, <3>1, CommitFrame DEF IInv
        <4>2. tx[p].becomes.status \in {"pending", "rejected"}
          BY <1>5, <3>1 DEF IInv, TxInv, HoldsDocument
        <4>3. document[d].status # "posted"
          BY <3>1, NullAssumption DEF IInv, LockedIsNotPosted
        <4> QED BY <4>1, <4>2, <4>3
      <3>2. CASE lock[d] # p
        BY <1>5, <3>2, CommitFrame DEF IInv
      <3> QED BY <3>1, <3>2
    <2>3. Posted' = Posted
      BY <2>2 DEF Posted
    <2>4. {document'[d].number : d \in Posted'} = {document[d].number : d \in Posted}
      BY <2>2, <2>3 DEF Posted
    <2> QED BY <1>1, <2>1, <2>3, <2>4
  <1>6. CASE Commit(p) /\ tx[p].numbered
    <2> DEFINE e == tx[p].document
    <2>1. /\ next' = next + 1 /\ pc[p] = "commit"
      BY <1>6, CommitFrame DEF IInv
    <2>2. /\ e \in Documents /\ lock[e] = p
          /\ tx[p].becomes.status = "posted" /\ tx[p].becomes.number = next
      BY <1>6, <2>1 DEF IInv, TxInv, Numbering
    <2>3. document[e].status # "posted" /\ document'[e] = tx[p].becomes
      BY <1>6, <2>2, CommitFrame, NullAssumption DEF IInv, LockedIsNotPosted
    <2>4. \A d \in Documents : d # e => document'[d] = document[d]
      <3>1. \A d \in Documents : lock[d] = p => d = e
        BY DEF IInv, TxInv, HoldsDocument
      <3> QED BY <1>6, <3>1, CommitFrame DEF IInv
    <2>5. Posted' = Posted \cup {e} /\ e \notin Posted
      BY <2>2, <2>3, <2>4 DEF Posted
    <2>6. {document'[d].number : d \in Posted'} = {document[d].number : d \in Posted} \cup {next}
      <3>1. \A d \in Posted : document'[d] = document[d]
        BY <2>3, <2>4 DEF Posted
      <3> HIDE DEF e
      <3> QED BY <2>2, <2>3, <2>5, <3>1
    <2>7. (1 .. (next - 1)) \cup {next} = 1 .. next
      BY <1>1, <1>2
    <2>8. IsFiniteSet(Posted') /\ Cardinality(Posted') = (next - 1) + 1
      BY <1>1, <2>5, FS_AddElement
    <2>9. next' - 1 = next /\ (next - 1) + 1 = next
      BY <1>1, <2>1
    <2> QED BY <1>1, <2>6, <2>7, <2>8, <2>9
  <1> QED BY <1>4, <1>5, <1>6 DEF Footprint

-----------------------------------------------------------------------------
(* The inductive invariant, and what follows from it.                      *)
LEMMA InitIInv == Init => IInv
  <1> SUFFICES ASSUME Init PROVE IInv
    OBVIOUS
  <1>1. TypeOK
    BY NullTypes DEF Init, TypeOK, PcLabels
  <1>2. \A d \in Documents : document[d].status = "draft"
    BY DEF Init, BlankDocument
  <1>3. \A r \in Requests : request[r].status = "none" /\ request[r].document = NoDocument
    BY DEF Init, BlankRequest
  <1>4. LockedIsNotPosted /\ RequestsInv /\ PendingInv /\ PostedOnlyOnAFullChain
    BY <1>2, <1>3 DEF LockedIsNotPosted, RequestsInv, PendingInv, PostedOnlyOnAFullChain
  <1>5. NumbersHaveNoGap /\ IsFiniteSet(Posted)
    <2>1. Posted = {} /\ next = 1
      BY <1>2 DEF Posted, Init
    <2>2. IsFiniteSet({}) /\ Cardinality({}) = 0
      BY FS_EmptySet
    <2>3. {document[d].number : d \in Posted} = 1 .. (next - 1)
      BY <2>1
    <2>4. Cardinality(Posted) = next - 1 /\ IsFiniteSet(Posted)
      BY <2>1, <2>2
    <2> QED BY <2>3, <2>4 DEF NumbersHaveNoGap, Posted
  <1>6. ASSUME NEW p \in Calls PROVE TxInv(p)
    <2>1. /\ pc[p] = "idle" /\ tx[p] = NoTx /\ tx[p].request = NoRequest /\ ~tx[p].numbered
          /\ \A row \in Rows : lock[row] # p
      BY NullAssumption DEF Init, NoTx
    <2> QED BY <2>1 DEF TxInv, AtOpening, AtDirect, AtDecision, HoldsDocument, Numbering,
               Resting, Rows
  <1> QED BY <1>1, <1>4, <1>5, <1>6 DEF IInv

LEMMA NextIInv == IInv /\ [Next]_vars => IInv'
  <1> SUFFICES ASSUME IInv, [Next]_vars PROVE IInv'
    OBVIOUS
  <1>1. CASE Next
    <2>1. PICK p \in Calls : Step(p) BY <1>1 DEF Next
    <2>2. Footprint(p) /\ TypeOK'
      BY <2>1, StepFootprint, FootprintType DEF IInv
    <2>3. LockedIsNotPosted' /\ RequestsInv' /\ PendingInv'
      BY <2>1, <2>2, LockedKept, RequestsKept, PendingKept
    <2>4. PostedOnlyOnAFullChain' /\ NumbersHaveNoGap' /\ IsFiniteSet(Posted')
      BY <2>2, ChainKept, NumbersKept
    <2>5. \A q \in Calls : TxInv(q)'
      BY <2>1, <2>2, OwnKeep, OthersKeep
    <2> QED BY <2>2, <2>3, <2>4, <2>5 DEF IInv
  <1>2. CASE UNCHANGED vars
    <2>1. TypeOK' /\ LockedIsNotPosted' /\ RequestsInv'
      BY <1>2 DEF vars, IInv, TypeOK, LockedIsNotPosted, RequestsInv
    <2>2. PendingInv' /\ PostedOnlyOnAFullChain' /\ NumbersHaveNoGap' /\ IsFiniteSet(Posted')
      BY <1>2 DEF vars, IInv, PendingInv, Accompanied, PostedOnlyOnAFullChain, Signed,
         NumbersHaveNoGap, Posted
    <2>3. \A q \in Calls : TxInv(q)'
      BY <1>2 DEF vars, IInv, TxInv, AtOpening, AtDirect, AtDecision, Deciding,
         HoldsDocument, Numbering, Resting
    <2> QED BY <2>1, <2>2, <2>3 DEF IInv
  <1> QED BY <1>1, <1>2

LEMMA Invariant == Spec => []IInv
  BY InitIInv, NextIInv, PTL DEF Spec

(* Every variable keeps its type.                                          *)
THEOREM TypeCorrect == Spec => []TypeOK
  <1>1. IInv => TypeOK BY DEF IInv
  <1> QED BY <1>1, Invariant, PTL

(* approve and submitForApproval: a document posts only when every step    *)
(* of its chain was signed on one request, whatever each call had read.    *)
THEOREM PostedOnAFullChain == Spec => []PostedOnlyOnAFullChain
  <1>1. IInv => PostedOnlyOnAFullChain BY DEF IInv
  <1> QED BY <1>1, Invariant, PTL

(* markPosted: one number for each posted document, none twice, no gap.    *)
THEOREM NumbersAreGapless == Spec => []NumbersHaveNoGap
  <1>1. IInv => NumbersHaveNoGap BY DEF IInv
  <1> QED BY <1>1, Invariant, PTL

(* onApproved, onRejected and save: a document that waits always has a     *)
(* request that is still to be decided.                                    *)
THEOREM PendingDocumentsCanBeDecided == Spec => []PendingDocumentHasAPendingRequest
  <1>1. IInv => PendingDocumentHasAPendingRequest
    BY DEF IInv, PendingInv, Accompanied, PendingDocumentHasAPendingRequest
  <1> QED BY <1>1, Invariant, PTL

(* No call's stale entity ever overwrites a posted document.               *)
THEOREM PostedDocumentsAreFinal == Spec => PostedDocumentIsFinal
  <1>1. IInv /\ [Next]_vars =>
          [\A d \in Documents :
             document[d].status = "posted" => document'[d] = document[d]]_vars
    <2> SUFFICES ASSUME IInv, Next, NEW d \in Documents, document[d].status = "posted"
                 PROVE  document'[d] = document[d]
      BY DEF vars
    <2>1. PICK p \in Calls : Step(p) BY DEF Next
    <2>2. Footprint(p)
      BY <2>1, StepFootprint DEF IInv
    <2>3. lock[d] # p
      BY NullAssumption DEF IInv, LockedIsNotPosted
    <2> QED BY <2>2, <2>3, CommitFrame DEF Footprint, committed, IInv
  <1> QED BY <1>1, Invariant, PTL DEF Spec, PostedDocumentIsFinal

-----------------------------------------------------------------------------
(* An approved request is left with a document that did not post when two  *)
(* calls decide one request at once, or when a document submitted twice at *)
(* once has two requests.  Without these two it never is, whatever the     *)
(* calls about other documents do.                                         *)
Busy(p) == pc[p] \notin {"idle", "answered"}
TakeTurns ==
  \A p, q \in Calls : p # q =>
    /\ p \in Submissions /\ q \in Submissions =>
         tx[p].document = NoDocument \/ tx[p].document # tx[q].document
    /\ p \in Decisions /\ q \in Decisions =>
         tx[p].request = NoRequest \/ tx[p].request # tx[q].request
OrderlySpec == Init /\ [][Next /\ TakeTurns']_vars

(* A document has one request, opened when it stops being a draft, and the *)
(* two wait together.                                                      *)
AskedOnce ==
  /\ \A r, s \in Requests :
       request[r].status # "none" /\ request[s].document = request[r].document => r = s
  /\ \A r \in Requests :
       request[r].status # "none" => document[request[r].document].status # "draft"
PendingTogether ==
  \A r \in Requests :
    request[r].status = "PENDING" => document[request[r].document].status = "pending"

(* What a call has read still stands, so that it writes what it decided.   *)
SubmitsADraft(p) ==
  p \in Submissions /\ Busy(p) =>
    /\ document[tx[p].document].status = "draft"
    /\ pc[p] = "commit" => lock[tx[p].document] = p
DecidesPending(p) ==
  p \in Decisions /\ Busy(p) /\ tx[p].request # NoRequest =>
    /\ request[tx[p].request].status = "PENDING"
    /\ pc[p] = "update" => tx[p].saw.status = "PENDING"
    /\ pc[p] \notin {"select", "update"} => tx[p].row.status = tx[p].entity.status
    /\ pc[p] = "rejectDocument" => tx[p].entity.status = "REJECTED"
    /\ pc[p] = "commit" /\ tx[p].entity.status = "APPROVED" => tx[p].numbered
    /\ tx[p].entity.status = "PENDING" => \A d \in Documents : lock[d] # p

Orderly == ApprovedRequestIsPosted /\ AskedOnce /\ PendingTogether
OrderlyInv ==
  /\ Orderly /\ TakeTurns
  /\ \A p \in Calls : SubmitsADraft(p) /\ DecidesPending(p)

LEMMA InitOrderly == Init => OrderlyInv
  BY DEF Init, OrderlyInv, Orderly, ApprovedRequestIsPosted, AskedOnce, PendingTogether,
         TakeTurns, SubmitsADraft, DecidesPending, Busy, BlankRequest, NoTx

LEMMA RequestsHaveDocuments ==
  ASSUME IInv, NEW r \in Requests, request[r].status # "none"
  PROVE  request[r].document \in Documents
  BY DEF IInv, RequestsInv

(* A submission's commit: the draft leaves that state, with the one        *)
(* request it will have, or posted without any.                            *)
LEMMA SubmissionCommits ==
  ASSUME IInv, OrderlyInv, NEW p \in Submissions, Commit(p)
  PROVE  Orderly'
  <1>0. /\ p \in Calls /\ Busy(p) /\ pc[p] = "commit" /\ TypeOK
        /\ AtOpening(p) /\ AtDirect(p) /\ HoldsDocument(p) /\ Numbering(p)
    BY DEF Calls, Commit, Busy, IInv, TxInv
  <1>1. PICK d : d = tx[p].document
    OBVIOUS
  <1>2. d \in Documents /\ document[d].status = "draft" /\ lock[d] = p
    BY <1>0, <1>1 DEF OrderlyInv, SubmitsADraft, AtOpening, AtDirect
  <1>3. \A e \in Documents : lock[e] = p <=> e = d
    BY <1>0, <1>1, <1>2 DEF HoldsDocument
  <1>4. \A e \in Documents : document'[e] = IF e = d THEN tx[p].becomes ELSE document[e]
    BY <1>0, <1>3, CommitFrame
  <1>5. \A s \in Requests : request[s].status # "none" =>
          request[s].document \in Documents /\ request[s].document # d
    BY <1>2, RequestsHaveDocuments DEF OrderlyInv, Orderly, AskedOnce
  <1>6. \A s \in Requests : request[s].status = "none" => request[s].document = NoDocument
    BY DEF IInv, RequestsInv
  <1>7. CASE tx[p].request = NoRequest
    <2>1. \A s \in Requests : request'[s] = request[s]
      BY <1>0, <1>7, NullAssumption, CommitFrame
    <2> QED BY <1>4, <1>5, <2>1
            DEF OrderlyInv, Orderly, ApprovedRequestIsPosted, AskedOnce, PendingTogether
  <1>8. CASE tx[p].request # NoRequest
    <2>1. PICK r \in Requests : r = tx[p].request
      BY <1>0, <1>8 DEF AtOpening
    <2>2. /\ tx[p].row.status = "PENDING" /\ tx[p].row.document = d
          /\ tx[p].becomes.status = "pending" /\ request[r].status = "none"
      BY <1>0, <1>1, <1>8, <2>1 DEF AtOpening
    <2>3. /\ request'[r].status = "PENDING" /\ request'[r].document = d
          /\ \A s \in Requests : s # r => request'[s] = request[s]
      BY <1>0, <2>1, <2>2, CommitFrame
    <2>4. document'[d].status = "pending" /\ NoDocument # d
      BY <1>2, <1>4, <2>2, NullAssumption
    <2>5. \A s \in Requests : s # r => request'[s].document # d
      BY <1>5, <1>6, <2>3, <2>4
    <2>6. \A s \in Requests : s # r /\ request'[s].status # "none" =>
            /\ request[s].status = request'[s].status
            /\ request'[s].document = request[s].document
            /\ document'[request'[s].document] = document[request[s].document]
      BY <1>4, <1>5, <2>3
    <2>7. ApprovedRequestIsPosted' /\ PendingTogether'
      BY <2>3, <2>4, <2>6
         DEF OrderlyInv, Orderly, ApprovedRequestIsPosted, PendingTogether
    <2>8. AskedOnce'
      <3>1. \A s, t \in Requests :
              request'[s].status # "none" /\ request'[t].document = request'[s].document => s = t
        BY <2>3, <2>5 DEF OrderlyInv, Orderly, AskedOnce
      <3>2. \A s \in Requests : request'[s].status # "none" =>
              document'[request'[s].document].status # "draft"
        BY <2>3, <2>4, <2>6 DEF OrderlyInv, Orderly, AskedOnce
      <3> QED BY <3>1, <3>2 DEF AskedOnce
    <2> QED BY <2>7, <2>8 DEF Orderly
  <1> QED BY <1>7, <1>8

(* A decision's commit: the request and its document go together, and no   *)
(* other request is of that document.                                      *)
LEMMA DecisionCommits ==
  ASSUME IInv, OrderlyInv, NEW p \in Decisions, Commit(p)
  PROVE  Orderly'
  <1>0. /\ p \in Calls /\ Busy(p) /\ pc[p] = "commit" /\ TypeOK
        /\ AtDecision(p) /\ HoldsDocument(p) /\ Numbering(p) /\ DecidesPending(p)
    BY DEF Calls, Commit, Busy, IInv, TxInv, OrderlyInv
  <1>1. CASE tx[p].request = NoRequest
    <2>1. /\ \A s \in Requests : request'[s] = request[s]
          /\ \A d \in Documents : document'[d] = document[d]
      BY <1>0, <1>1, NullAssumption, CommitFrame DEF AtDecision, Busy
    <2> QED BY <2>1, RequestsHaveDocuments
            DEF OrderlyInv, Orderly, ApprovedRequestIsPosted, AskedOnce, PendingTogether
  <1>2. CASE tx[p].request # NoRequest
    <2>0. Deciding(p)
      BY <1>0, <1>2 DEF AtDecision, Busy
    <2>1. PICK r \in Requests : r = tx[p].request
      BY <2>0 DEF Deciding
    <2>2. PICK d \in Documents : d = request[r].document
      BY <2>0, <2>1, RequestsHaveDocuments DEF Deciding
    <2>3. /\ tx[p].document \in {d, NoDocument} /\ tx[p].row.document = d
          /\ tx[p].row.status # "none" /\ request[r].status = "PENDING"
          /\ tx[p].row.status = tx[p].entity.status
      BY <1>0, <1>2, <2>0, <2>1, <2>2 DEF Deciding, DecidesPending
    <2>4. document[d].status = "pending"
      BY <2>2, <2>3 DEF OrderlyInv, Orderly, PendingTogether
    <2>5. /\ request'[r] = tx[p].row
          /\ \A s \in Requests : s # r => request'[s] = request[s]
      BY <1>0, <2>1, CommitFrame
    <2>6. \A e \in Documents : e # d => document'[e] = document[e]
      <3>1. \A e \in Documents : lock[e] = p => e = d
        BY <1>0, <2>3, NullAssumption DEF HoldsDocument
      <3> QED BY <1>0, <3>1, CommitFrame
    <2>7. /\ tx[p].row.status = "PENDING" => document'[d].status = "pending"
          /\ tx[p].row.status = "APPROVED" => document'[d].status = "posted"
          /\ document'[d].status # "draft"
      <3>1. document'[d] = IF lock[d] = p THEN tx[p].becomes ELSE document[d]
        BY <1>0, CommitFrame
      <3>2. tx[p].row.status = "PENDING" => lock[d] # p
        BY <1>0, <1>2, <2>3 DEF DecidesPending
      <3>3. tx[p].row.status = "APPROVED" =>
              lock[d] = p /\ tx[p].becomes.status = "posted"
        <4>1. tx[p].row.status = "APPROVED" => tx[p].numbered
          BY <1>0, <1>2, <2>3 DEF DecidesPending
        <4>2. tx[p].numbered => /\ tx[p].document \in Documents /\ lock[tx[p].document] = p
                                /\ tx[p].becomes.status = "posted"
          BY <1>0 DEF Numbering
        <4> QED BY <2>3, <4>1, <4>2, NullAssumption
      <3>4. lock[d] = p => tx[p].becomes.status \in {"pending", "rejected", "posted"}
        BY <1>0 DEF HoldsDocument, Numbering
      <3> QED BY <2>4, <3>1, <3>2, <3>3, <3>4
    <2>8. \A s \in Requests : s # r =>
            /\ request'[s] = request[s] /\ request[s].document # d
            /\ request[s].status # "none" =>
                 document'[request[s].document] = document[request[s].document]
      <3>1. \A s \in Requests : s # r => request[s].document # d
        BY <2>2, <2>3 DEF OrderlyInv, Orderly, AskedOnce
      <3> QED BY <2>5, <2>6, <3>1, RequestsHaveDocuments
    <2>9. request'[r].document = d
      BY <2>3, <2>5
    <2>10. ApprovedRequestIsPosted' /\ PendingTogether'
      BY <2>5, <2>7, <2>8, <2>9
         DEF OrderlyInv, Orderly, ApprovedRequestIsPosted, PendingTogether
    <2>11. AskedOnce'
      BY <2>7, <2>8, <2>9 DEF OrderlyInv, Orderly, AskedOnce
    <2> QED BY <2>10, <2>11 DEF Orderly
  <1> QED BY <1>1, <1>2

(* A step of one call leaves what the others have read standing.           *)
LEMMA OthersOrderly ==
  ASSUME IInv, OrderlyInv, NEW p \in Calls, NEW q \in Calls, q # p, Step(p)
  PROVE  SubmitsADraft(q)' /\ DecidesPending(q)'
  <1>0. /\ Footprint(p) /\ TypeOK /\ TxInv(p) /\ TxInv(q)
        /\ SubmitsADraft(q) /\ DecidesPending(q)
    BY StepFootprint DEF IInv, OrderlyInv
  <1>1. /\ pc'[q] = pc[q] /\ tx'[q] = tx[q]
        /\ \A d \in Documents : lock'[d] = q <=> lock[d] = q
    BY <1>0, OthersFrame DEF Rows
  <1>2. q \in Submissions /\ Busy(q) => tx[q].document \in Documents
    BY <1>0 DEF TxInv, AtOpening, AtDirect, Busy
  <1>3. q \in Decisions /\ Busy(q) /\ tx[q].request # NoRequest => tx[q].request \in Requests
    BY <1>0 DEF TxInv, AtDecision, Deciding, Busy
  <1>4. CASE UNCHANGED committed
    BY <1>0, <1>1, <1>2, <1>4 DEF committed, SubmitsADraft, DecidesPending, Busy
  <1>5. CASE Commit(p)
    <2>0. pc[p] = "commit"
      BY <1>5 DEF Commit
    <2>1. ASSUME q \in Submissions, Busy(q)
          PROVE  document'[tx[q].document] = document[tx[q].document]
      <3>1. PICK d \in Documents : d = tx[q].document
        BY <1>2, <2>1
      <3>2. document[d].status = "draft"
        BY <1>0, <2>1, <3>1 DEF SubmitsADraft
      <3>3. ASSUME lock[d] = p PROVE FALSE
        <4>1. d = tx[p].document /\ d # NoDocument
          BY <1>0, <3>3, NullAssumption DEF TxInv, HoldsDocument
        <4>2. p \in Decisions /\ p \notin Submissions
          BY <2>1, <3>1, <4>1 DEF OrderlyInv, TakeTurns, Calls
        <4>3. Deciding(p)
          BY <1>0, <2>0, <3>3, <4>2 DEF TxInv, AtDecision
        <4>4. d = request[tx[p].request].document /\ tx[p].request \in Requests
              /\ request[tx[p].request].status # "none"
          BY <2>0, <4>1, <4>3 DEF Deciding
        <4> QED BY <3>2, <4>4 DEF OrderlyInv, Orderly, AskedOnce
      <3> QED BY <1>0, <1>5, <3>1, <3>3, CommitFrame
    <2>2. ASSUME q \in Decisions, Busy(q), tx[q].request # NoRequest
          PROVE  request'[tx[q].request] = request[tx[q].request]
      <3>1. PICK r \in Requests : r = tx[q].request
        BY <1>3, <2>2
      <3>2. request[r].status = "PENDING"
        BY <1>0, <2>2, <3>1 DEF DecidesPending
      <3>3. ASSUME tx[p].request = r PROVE FALSE
        <4>1. p \in Submissions
          BY <2>2, <3>1, <3>3 DEF OrderlyInv, TakeTurns, Calls
        <4>2. request[r].status = "none"
          BY <1>0, <2>2, <3>1, <3>3, <4>1 DEF TxInv, AtOpening
        <4> QED BY <3>2, <4>2
      <3> QED BY <1>0, <1>5, <3>1, <3>3, CommitFrame
    <2>3. SubmitsADraft(q)'
      <3> SUFFICES ASSUME q \in Submissions, Busy(q)
                   PROVE  /\ document'[tx[q].document].status = "draft"
                          /\ pc[q] = "commit" => lock'[tx[q].document] = q
        BY <1>1 DEF SubmitsADraft, Busy
      <3> QED BY <1>0, <1>1, <1>2, <2>1 DEF SubmitsADraft
    <2>4. DecidesPending(q)'
      <3>1. q \in Decisions /\ Busy(q) /\ tx[q].request # NoRequest =>
              request'[tx[q].request].status = "PENDING"
        BY <1>0, <2>2 DEF DecidesPending
      <3> QED BY <1>0, <1>1, <3>1 DEF DecidesPending, Busy
    <2> QED BY <2>3, <2>4
  <1> QED BY <1>0, <1>4, <1>5 DEF Footprint

(* The steps of a call itself.                                             *)
LEMMA SubmissionOrderly ==
  ASSUME IInv, OrderlyInv, NEW p \in Calls,
         (\E r \in Requests : Submit(p, r)) \/ SubmitAndPost(p) \/ SaveSubmitted(p)
  PROVE  SubmitsADraft(p)' /\ DecidesPending(p)'
  <1>0. TxInv(p) /\ TypeOK /\ SubmitsADraft(p)
    BY DEF IInv, OrderlyInv
  <1>1. CASE (\E r \in Requests : Submit(p, r)) \/ SubmitAndPost(p)
    <2>1. /\ p \in Submissions /\ p \notin Decisions /\ UNCHANGED document
          /\ document[DocumentOf[p]].status = "draft"
          /\ pc'[p] \in {"submit", "number"}
      BY <1>0, <1>1, NullAssumption DEF Submit, SubmitAndPost, Goto, committed, TypeOK
    <2>2. tx'[p].document = DocumentOf[p]
      <3>1. CASE SubmitAndPost(p)
        <4>1. tx'[p] = [NoTx EXCEPT !.document = DocumentOf[p]]
          BY <1>0, <3>1, PutRow DEF SubmitAndPost
        <4> QED BY <4>1 DEF NoTx
      <3>2. CASE \E r \in Requests : Submit(p, r)
        <4>1. PICK r \in Requests : Submit(p, r)
          BY <3>2
        <4>2. PICK row, doc :
                /\ row = [BlankRequest EXCEPT !.status = "PENDING",
                                              !.document = DocumentOf[p],
                                              !.step = FirstStep(DocumentOf[p])]
                /\ doc = [document[DocumentOf[p]] EXCEPT !.status = "pending"]
          OBVIOUS
        <4>3. tx'[p] = [NoTx EXCEPT !.request = r, !.document = DocumentOf[p],
                                    !.row = row, !.becomes = doc]
          BY <1>0, <4>1, <4>2, PutRow DEF Submit
        <4> QED BY <4>3 DEF NoTx
      <3> QED BY <1>1, <3>1, <3>2
    <2> QED BY <2>1, <2>2 DEF SubmitsADraft, DecidesPending
  <1>2. CASE SaveSubmitted(p)
    <2>1. /\ pc[p] = "submit" /\ pc'[p] = "commit" /\ tx'[p] = tx[p] /\ UNCHANGED document
      BY <1>0, <1>2 DEF SaveSubmitted, Goto, committed, TypeOK
    <2>2. p \in Submissions /\ p \notin Decisions /\ Busy(p)
      BY <1>0, <2>1, NullAssumption DEF Calls, TxInv, AtDecision, Busy
    <2>3. tx[p].becomes.status = "pending" /\ tx[p].document \in Documents
      BY <1>0, <2>1, <2>2 DEF TxInv, AtOpening, AtDirect
    <2>4. document[tx[p].document].status = "draft"
      BY <1>0, <2>2 DEF SubmitsADraft
    <2>5. Lock(p, tx[p].document)
      BY <1>2, <2>3, <2>4 DEF SaveSubmitted
    <2>6. lock'[tx[p].document] = p
      BY <1>0, <2>3, <2>5 DEF Lock, TypeOK, Rows
    <2> QED BY <2>1, <2>2, <2>4, <2>6 DEF SubmitsADraft, DecidesPending
  <1> QED BY <1>1, <1>2

LEMMA DecideOrderly ==
  ASSUME IInv, OrderlyInv, NEW p \in Calls, NEW r \in Requests, NEW u \in Users,
         Approve(p, r, u) \/ Reject(p, r, u)
  PROVE  SubmitsADraft(p)' /\ DecidesPending(p)'
  <1>0. TxInv(p) /\ TypeOK
    BY DEF IInv
  <1>1. PICK decision, entity : Decide(p, r, u, decision, entity)
    BY DEF Approve, Reject
  <1>2. /\ p \in Decisions /\ p \notin Submissions /\ pc[p] = "idle" /\ pc'[p] = "select"
        /\ request[r].status = "PENDING" /\ UNCHANGED request /\ UNCHANGED lock
    BY <1>0, <1>1, NullAssumption DEF Decide, Decidable, Goto, committed, TypeOK
  <1>3. tx'[p].request = r
    <2>1. PICK act : act = [request |-> r, step |-> request[r].step, user |-> u,
                            decision |-> decision]
      OBVIOUS
    <2>2. tx'[p] = [NoTx EXCEPT !.request = r, !.document = request[r].document,
                                !.entity = entity, !.actions = {act}]
      BY <1>0, <1>1, <2>1, PutRow DEF Decide
    <2> QED BY <2>2 DEF NoTx
  <1>4. \A d \in Documents : lock[d] # p
    BY <1>0, <1>2 DEF TxInv, HoldsDocument
  <1> QED BY <1>2, <1>3, <1>4 DEF SubmitsADraft, DecidesPending

LEMMA RequestOrderly ==
  ASSUME IInv, OrderlyInv, NEW p \in Calls,
         \/ SelectRequest(p) \/ UpdateRequest(p) \/ NothingToUpdate(p)
         \/ OnApproved(p) \/ OnRejected(p)
  PROVE  SubmitsADraft(p)' /\ DecidesPending(p)'
  <1>0. TypeOK /\ DecidesPending(p) /\ UNCHANGED committed
    BY DEF IInv, OrderlyInv, SelectRequest, UpdateRequest, NothingToUpdate, OnApproved,
           OnRejected, committed
  <1>1. /\ p \in Decisions /\ p \notin Submissions /\ Deciding(p) /\ Busy(p)
        /\ tx[p].request \in Requests /\ tx[p].request # NoRequest
        /\ tx[p].document \in Documents
        /\ \A d \in Documents : lock[d] # p
    BY DecisionIs DEF SelectRequest, UpdateRequest, NothingToUpdate, OnApproved, OnRejected, Busy
  <1>2. PICK r \in Requests : r = tx[p].request
    BY <1>1
  <1>3. request[r].status = "PENDING" /\ request'[r] = request[r]
    BY <1>0, <1>1, <1>2 DEF DecidesPending, committed
  <1>4. tx[p] \in TxRow
    BY <1>0 DEF TypeOK
  <1>5. CASE SelectRequest(p)
    <2>1. /\ tx'[p] = [tx[p] EXCEPT !.saw = request[r]] /\ pc'[p] = "update"
          /\ UNCHANGED lock
      BY <1>0, <1>2, <1>5, PutRow DEF SelectRequest
    <2>2. tx'[p].saw = request[r] /\ tx'[p].request = r
      BY <1>2, <1>4, <2>1 DEF TxRow
    <2> QED BY <1>1, <1>3, <2>1, <2>2 DEF SubmitsADraft, DecidesPending
  <1>6. CASE UpdateRequest(p)
    <2>1. PICK m : m = Merged(tx[p].entity, tx[p].saw, request[r])
      OBVIOUS
    <2>2. /\ tx'[p] = [tx[p] EXCEPT !.row = m] /\ pc[p] = "update" /\ Lock(p, r)
      BY <1>0, <1>2, <1>6, <2>1, PutRow DEF UpdateRequest
    <2>3. /\ tx'[p].row = m /\ tx'[p].request = r /\ tx'[p].entity = tx[p].entity
      BY <1>2, <1>4, <2>2 DEF TxRow
    <2>4. m.status = tx[p].entity.status
      <3>1. /\ tx[p].entity \in RequestRow /\ tx[p].saw \in RequestRow
            /\ request[r] \in RequestRow
        BY <1>0, <1>4 DEF TypeOK, TxRow
      <3>2. tx[p].saw.status = "PENDING"
        BY <1>0, <1>1, <2>2 DEF DecidesPending
      <3> QED BY <1>3, <2>1, <3>1, <3>2, MergedColumns
    <2>5. /\ pc'[p] \in {"commit", "handle", "rejectDocument"}
          /\ pc'[p] = "commit" => tx[p].entity.status = "PENDING"
          /\ pc'[p] = "rejectDocument" => tx[p].entity.status = "REJECTED"
      <3>1. tx[p].entity.status \in {"PENDING", "APPROVED", "REJECTED"}
        BY <1>1, <1>4 DEF Deciding, TxRow, RequestRow
      <3> QED BY <1>0, <1>6, <3>1 DEF UpdateRequest, Goto, TypeOK
    <2>6. \A d \in Documents : lock'[d] # p
      BY <1>0, <1>1, <2>2, NullAssumption DEF Lock, TypeOK, Rows
    <2> QED BY <1>1, <1>3, <2>3, <2>4, <2>5, <2>6 DEF SubmitsADraft, DecidesPending
  <1>7. CASE NothingToUpdate(p)
    <2>1. tx'[p] = [tx[p] EXCEPT !.request = NoRequest]
      BY <1>0, <1>7, PutRow DEF NothingToUpdate
    <2>2. tx'[p].request = NoRequest
      BY <1>4, <2>1 DEF TxRow
    <2> QED BY <1>1, <2>2 DEF SubmitsADraft, DecidesPending
  <1>8. CASE OnApproved(p)
    <2>1. pc[p] = "handle" /\ UNCHANGED lock /\ tx'[p] = tx[p]
      BY <1>8 DEF OnApproved
    <2>2. document[tx[p].document].status = "pending"
      <3>1. tx[p].document = request[r].document
        BY <1>1, <1>2, <2>1 DEF Deciding
      <3> QED BY <1>3, <3>1 DEF OrderlyInv, Orderly, PendingTogether
    <2>3. pc'[p] = "number"
      BY <1>0, <1>8, <2>2 DEF OnApproved, Goto, TypeOK
    <2> QED BY <1>0, <1>1, <1>2, <1>3, <2>1, <2>3 DEF SubmitsADraft, DecidesPending
  <1>9. CASE OnRejected(p)
    <2>1. pc[p] = "rejectDocument" /\ pc'[p] = "commit"
      BY <1>0, <1>9 DEF OnRejected, Goto, TypeOK
    <2>2. tx[p].entity.status = "REJECTED" /\ tx[p].row.status = "REJECTED"
      BY <1>0, <1>1, <2>1 DEF DecidesPending
    <2>3. tx'[p].request = r /\ tx'[p].row = tx[p].row /\ tx'[p].entity = tx[p].entity
      <3>1. PICK doc : doc = [document[tx[p].document] EXCEPT !.status = "rejected"]
        OBVIOUS
      <3>2. \/ tx'[p] = [tx[p] EXCEPT !.becomes = doc]
            \/ tx'[p] = [tx[p] EXCEPT !.document = NoDocument]
        BY <1>0, <1>9, <3>1, PutRow DEF OnRejected
      <3> QED BY <1>2, <1>4, <3>2 DEF TxRow
    <2> QED BY <1>1, <1>3, <2>1, <2>2, <2>3 DEF SubmitsADraft, DecidesPending
  <1> QED BY <1>5, <1>6, <1>7, <1>8, <1>9

LEMMA PostOrderly ==
  ASSUME IInv, OrderlyInv, NEW p \in Calls, AllocateNumber(p) \/ SavePosted(p)
  PROVE  SubmitsADraft(p)' /\ DecidesPending(p)'
  <1>0. TypeOK /\ SubmitsADraft(p) /\ DecidesPending(p) /\ UNCHANGED committed
    BY DEF IInv, OrderlyInv, AllocateNumber, SavePosted, committed
  <1>1. pc[p] \in {"number", "saveDocument"} /\ Busy(p) /\ tx[p] \in TxRow
    BY <1>0 DEF AllocateNumber, SavePosted, Busy, TypeOK
  <1>2. /\ pc'[p] = IF pc[p] = "number" THEN "saveDocument" ELSE "commit"
        /\ tx'[p].document = tx[p].document /\ tx'[p].request = tx[p].request
        /\ tx'[p].row = tx[p].row /\ tx'[p].entity = tx[p].entity
        /\ pc[p] = "saveDocument" => tx'[p] = tx[p] /\ Lock(p, tx[p].document)
    <2>1. CASE AllocateNumber(p)
      <3>1. PICK doc : doc = [status |-> "posted", number |-> next]
        OBVIOUS
      <3>2. tx'[p] = [tx[p] EXCEPT !.numbered = TRUE, !.becomes = doc]
        BY <1>0, <2>1, <3>1, PutRow DEF AllocateNumber
      <3>3. pc[p] = "number" /\ pc'[p] = "saveDocument"
        BY <1>0, <2>1, PutRow DEF AllocateNumber
      <3> QED BY <1>1, <3>2, <3>3 DEF TxRow
    <2>2. CASE SavePosted(p)
      BY <1>0, <2>2, PutRow DEF SavePosted
    <2> QED BY <2>1, <2>2
  <1>3. CASE p \in Submissions
    <2>1. tx[p].document \in Documents /\ p \notin Decisions
      BY <1>1, <1>3, PosterIs
    <2>2. document'[tx[p].document].status = "draft"
      BY <1>0, <1>1, <1>3, <2>1 DEF SubmitsADraft, committed
    <2>3. pc[p] = "saveDocument" => lock'[tx[p].document] = p
      BY <1>0, <1>2, <2>1 DEF Lock, TypeOK, Rows
    <2> QED BY <1>1, <1>2, <2>1, <2>2, <2>3 DEF SubmitsADraft, DecidesPending
  <1>4. CASE p \in Decisions
    <2>1. p \notin Submissions /\ tx[p].request # NoRequest /\ Deciding(p)
          /\ tx[p].request \in Requests
      BY <1>1, <1>4, PosterIs, NullAssumption
    <2>2. pc[p] = "saveDocument" => tx[p].numbered
      BY DEF IInv, TxInv, Numbering
    <2>3. tx[p].entity.status = "APPROVED"
      BY <1>1, <2>1, <2>2 DEF Deciding
    <2>4. request'[tx[p].request].status = "PENDING" /\ tx[p].row.status = "APPROVED"
      BY <1>0, <1>1, <1>4, <2>1, <2>3 DEF DecidesPending, committed
    <2> QED BY <1>1, <1>2, <2>1, <2>2, <2>3, <2>4 DEF SubmitsADraft, DecidesPending
  <1> QED BY <1>3, <1>4 DEF Calls

LEMMA EndOrderly ==
  ASSUME IInv, NEW p \in Calls, Commit(p) \/ RollBack(p)
  PROVE  SubmitsADraft(p)' /\ DecidesPending(p)'
  BY PutRow DEF IInv, Commit, RollBack, SubmitsADraft, DecidesPending, Busy

LEMMA NextOrderly == IInv /\ OrderlyInv /\ [Next /\ TakeTurns']_vars => OrderlyInv'
  <1>1. ASSUME IInv, OrderlyInv, UNCHANGED vars PROVE OrderlyInv'
    BY <1>1 DEF vars, OrderlyInv, Orderly, ApprovedRequestIsPosted, AskedOnce, PendingTogether,
       TakeTurns, SubmitsADraft, DecidesPending, Busy
  <1>2. ASSUME IInv, OrderlyInv, Next, TakeTurns' PROVE OrderlyInv'
    <2>1. PICK p \in Calls : Step(p)
      BY <1>2 DEF Next
    <2>2. SubmitsADraft(p)' /\ DecidesPending(p)'
      BY <1>2, <2>1, SubmissionOrderly, DecideOrderly, RequestOrderly, PostOrderly, EndOrderly
         DEF Step
    <2>3. \A q \in Calls : SubmitsADraft(q)' /\ DecidesPending(q)'
      BY <1>2, <2>1, <2>2, OthersOrderly
    <2>4. Orderly'
      <3>1. CASE UNCHANGED committed
        BY <1>2, <3>1 DEF committed, OrderlyInv, Orderly, ApprovedRequestIsPosted, AskedOnce,
           PendingTogether
      <3>2. CASE Commit(p)
        BY <1>2, <3>2, SubmissionCommits, DecisionCommits DEF Calls
      <3> QED BY <1>2, <2>1, <3>1, <3>2, StepFootprint DEF Footprint, IInv
    <2> QED BY <1>2, <2>3, <2>4 DEF OrderlyInv
  <1> QED BY <1>1, <1>2

(* What the comment in approve says the posting inside the transaction is  *)
(* for, that no request is approved whose document did not post, holds     *)
(* where the decisions of one request take turns, and the submissions of   *)
(* one document.                                                           *)
THEOREM InTurnApprovedRequestIsPosted == OrderlySpec => []ApprovedRequestIsPosted
  <1>1. [Next /\ TakeTurns']_vars => [Next]_vars
    OBVIOUS
  <1>2. OrderlySpec => [](IInv /\ OrderlyInv)
    BY <1>1, InitIInv, InitOrderly, NextIInv, NextOrderly, PTL DEF OrderlySpec
  <1>3. OrderlyInv => ApprovedRequestIsPosted
    BY DEF OrderlyInv, Orderly
  <1> QED BY <1>2, <1>3, PTL
=============================================================================
