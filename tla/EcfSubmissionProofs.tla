------------------------ MODULE EcfSubmissionProofs ------------------------
(***************************************************************************)
(* Counting an attempt before it is sent is what keeps a document the      *)
(* authority already holds from being sent again unasked, however the      *)
(* attempts overlap and fail; and no save invents a verdict.               *)
(***************************************************************************)
EXTENDS EcfSubmission, TLAPS

(* The authority gave the verdict a status stands for.                     *)
Given(status) ==
  /\ status = "ACCEPTED" => authority = "accepted"
  /\ status = "REJECTED" => authority \in {"rejected", "refused"} \/ repeated

(* What left has been counted, and a row that changed has a count.         *)
RowOK ==
  /\ row.attempts = 0 => row.status = "PENDING"
  /\ authority # "unsent" => row.attempts > 0
  /\ Given(row.status)

(* A saver brings a count; a sender has saved one; an attempt that began   *)
(* when the authority held the document has counted two when it asks.      *)
CallOK(k) ==
  /\ k.then \in {"idle", "done", "token"} /\ k.orElse \in {"idle", "done", "throw"}
  /\ k.pc \in {"select", "update", "ask", "token", "lookup", "send"} => k.entity.attempts > 0
  /\ k.pc = "update" /\ k.saw.attempts > 0 => row.attempts > 0
  /\ k.pc \in {"token", "lookup", "send"} => row.attempts > 0
  /\ k.known => Holds /\ k.pc # "send"
  /\ k.known /\ k.pc = "build" => k.entity.attempts > 0
  /\ k.known /\ (k.pc = "token" \/ (k.pc \in {"select", "update"} /\ k.then = "token"))
       => k.entity.attempts > 1
  /\ Given(k.entity.status)

IInv == TypeOK /\ RowOK /\ \A c \in Callers : CallOK(call[c])

(* What every step does to the row and at the authority.                   *)
Advance ==
  /\ row' = row \/ row'.attempts > 0
  /\ Holds => Holds'
  /\ authority = "accepted" => authority' = "accepted"
  /\ authority \in {"rejected", "refused"} => authority' \in {"rejected", "refused"}
  /\ repeated => repeated'

-----------------------------------------------------------------------------

LEMMA CallersAre ==
  /\ Retry \in Callers /\ Poll \in Callers /\ Submits \subseteq Callers
  /\ Retry # Poll /\ Retry \notin Submits /\ Poll \notin Submits
  BY EcfAssumption DEF Callers

LEMMA GivenStays == \A status : Advance /\ Given(status) => Given(status)'
  BY DEF Advance, Given

LEMMA CallStaysOK == \A k : Advance /\ CallOK(k) => CallOK(k)'
  BY GivenStays DEF Advance, CallOK

LEMMA IdleOK == Idle \in Call /\ CallOK(Idle)'
  BY DEF Idle, Call, Row, Entity, NewRow, Labels, Statuses, CallOK, Given

(* A step replaces one caller's attempt and moves the rest on.             *)
LEMMA OneCaller ==
  ASSUME IInv, Advance, RowOK', row' \in Row, authority' \in AuthorityStates,
         repeated' \in BOOLEAN, faults' \in 0 .. MaxFaults,
         NEW c \in Callers, NEW k \in Call, CallOK(k)', call' = [call EXCEPT ![c] = k]
  PROVE  IInv'
  <1>1. call \in [Callers -> Call]
    BY DEF IInv, TypeOK
  <1>2. TypeOK'
    BY <1>1 DEF TypeOK
  <1>3. ASSUME NEW d \in Callers PROVE CallOK(call[d])'
    <2>1. CASE d = c
      BY <2>1, <1>1
    <2>2. CASE d # c
      <3>1. call'[d] = call[d]
        BY <2>2, <1>1
      <3>2. CallOK(call[d])
        BY DEF IInv
      <3> QED BY <3>1, <3>2, CallStaysOK DEF CallOK, Given, Holds
    <2> QED BY <2>1, <2>2
  <1> QED BY <1>2, <1>3 DEF IInv

(* A step that leaves the row and the authority alone.                     *)
LEMMA OnlyTheCaller ==
  ASSUME IInv, UNCHANGED <<row, authority, repeated>>, Fine \/ Faulty,
         NEW c \in Callers, NEW k \in Call, CallOK(k), call' = [call EXCEPT ![c] = k]
  PROVE  IInv'
  <1>1. Advance /\ RowOK'
    BY DEF IInv, Advance, RowOK, Given, Holds
  <1>2. CallOK(k)'
    BY <1>1, CallStaysOK
  <1>3. faults' \in 0 .. MaxFaults
    BY EcfAssumption DEF IInv, TypeOK, Fine, Faulty
  <1> QED BY <1>1, <1>2, <1>3, OneCaller DEF IInv, TypeOK

LEMMA InitIInv == Init => IInv
  <1> SUFFICES ASSUME Init PROVE IInv
    OBVIOUS
  <1>1. Idle \in Call
    BY IdleOK
  <1>2. row \in Row /\ RowOK
    BY DEF Init, RowOK, Given, NewRow, Row, Statuses
  <1>3. call \in [Callers -> Call]
    BY <1>1 DEF Init
  <1>4. faults \in 0 .. MaxFaults
    BY EcfAssumption DEF Init
  <1>6. TypeOK
    BY <1>2, <1>3, <1>4 DEF Init, TypeOK, AuthorityStates
  <1>5. \A c \in Callers : CallOK(call[c])
    BY DEF Init, CallOK, Given, Idle, NewRow
  <1> QED BY <1>2, <1>5, <1>6 DEF IInv

-----------------------------------------------------------------------------
(* The attempts that only move on.                                         *)

LEMMA EndIs == \A c \in Callers : End(c) \in {"idle", "done"}
  BY DEF End

LEMMA Leaves ==
  ASSUME IInv, UNCHANGED <<row, authority, repeated>>, Fine \/ Faulty,
         NEW c \in Callers, NEW label \in {"idle", "listed", "done"}, Goes(c, label)
  PROVE  IInv'
  <1> DEFINE k == [Idle EXCEPT !.pc = label]
  <1>1. k \in Call /\ CallOK(k)
    BY DEF Idle, Call, Row, Entity, NewRow, Labels, Statuses, CallOK, Given
  <1>2. call' = [call EXCEPT ![c] = k]
    BY DEF Goes
  <1> HIDE DEF k
  <1> QED BY <1>1, <1>2, OnlyTheCaller

LEMMA Record ==
  ASSUME IInv, NEW c \in Callers
  PROVE  /\ call[c] \in Call /\ CallOK(call[c]) /\ row \in Row /\ RowOK
         /\ authority \in AuthorityStates
  BY DEF IInv, TypeOK

LEMMA Failures ==
  \A e \in Entity : \A failed \in {Invalid(e), Outage(e)} :
    failed \in Entity /\ failed.attempts > 0 /\ failed.status \in {"ERROR", "CONTINGENCY"}
  <1> SUFFICES ASSUME NEW e \in Entity
               PROVE  \A failed \in {Invalid(e), Outage(e)} :
                        /\ failed \in Entity /\ failed.attempts > 0
                        /\ failed.status \in {"ERROR", "CONTINGENCY"}
    OBVIOUS
  <1>1. e.attempts + 1 \in Nat /\ e.attempts + 1 > 0
    BY DEF Entity
  <1>2. /\ Invalid(e) \in Entity /\ Invalid(e).attempts > 0
        /\ Invalid(e).status \in {"ERROR", "CONTINGENCY"}
    BY <1>1 DEF Invalid, Entity, Statuses
  <1>3. /\ Outage(e) \in Entity /\ Outage(e).attempts > 0
        /\ Outage(e).status \in {"ERROR", "CONTINGENCY"}
    BY <1>1 DEF Outage, Entity, Statuses
  <1> QED BY <1>2, <1>3

(* A failure that is recorded is counted.                                  *)
LEMMA FailuresAreCounted ==
  ASSUME IInv, Advance, RowOK', row' \in Row, authority' \in AuthorityStates,
         repeated' \in BOOLEAN, faults' \in 0 .. MaxFaults, NEW c \in Callers, NEW failed,
         failed = Invalid(call[c].entity) \/ failed = Outage(call[c].entity),
         RecordFailure(c, failed), call[c].pc # "ask"
  PROVE  IInv'
  <1>1. PICK k : k = [call[c] EXCEPT !.pc = "select", !.entity = failed,
                                     !.then = End(c), !.orElse = End(c)]
    OBVIOUS
  <1>2. call' = [call EXCEPT ![c] = k]
    BY <1>1, Record DEF RecordFailure, Saves, IInv, TypeOK
  <1>3. failed \in Entity /\ failed.attempts > 0 /\ failed.status \in {"ERROR", "CONTINGENCY"}
    BY Record, Failures DEF Call
  <1>4. k \in Call
    BY <1>1, <1>3, Record, EndIs DEF Call, Labels
  <1>5. CallOK(k)
    BY <1>1, <1>3, Record, EndIs DEF CallOK, Given, Call
  <1>6. CallOK(k)'
    BY <1>5, CallStaysOK
  <1> QED BY <1>2, <1>4, <1>6, OneCaller

-----------------------------------------------------------------------------
(* The steps of an attempt, one lemma each.                                *)

LEMMA Still ==
  ASSUME IInv, UNCHANGED <<row, authority, repeated>>, Fine \/ Faulty
  PROVE  /\ Advance /\ RowOK' /\ row' \in Row /\ authority' \in AuthorityStates
         /\ repeated' \in BOOLEAN /\ faults' \in 0 .. MaxFaults
  <1>1. Advance /\ RowOK'
    BY DEF IInv, Advance, RowOK, Given, Holds
  <1>2. faults' \in 0 .. MaxFaults
    BY EcfAssumption DEF IInv, TypeOK, Fine, Faulty
  <1> QED BY <1>1, <1>2 DEF IInv, TypeOK

LEMMA StepRead == \A c \in Callers : IInv /\ ReadRow(c) => IInv'
  <1> SUFFICES ASSUME NEW c \in Callers, IInv, ReadRow(c) PROVE IInv'
    OBVIOUS
  <1>1. PICK k : k = [Idle EXCEPT !.pc = "build", !.entity = row, !.known = Holds]
    OBVIOUS
  <1>2. k \in Call
    <2>1. Holds \in BOOLEAN
      BY DEF Holds
    <2>2. row \in Row /\ row \in Entity
      BY Record DEF Row, Entity
    <2> QED BY <1>1, <2>1, <2>2, IdleOK DEF Idle, Call, Labels
  <1>3. CallOK(k)
    BY <1>1, Record DEF Idle, NewRow, CallOK, Given, Row, RowOK, Holds
  <1>4. call' = [call EXCEPT ![c] = k]
    BY <1>1 DEF ReadRow
  <1> QED BY <1>2, <1>3, <1>4, OnlyTheCaller DEF ReadRow, Fine

LEMMA StepBuildFails == \A c \in Callers : IInv /\ BuildFails(c) => IInv'
  BY Still, FailuresAreCounted DEF BuildFails

LEMMA StepThrows == \A c \in Callers : IInv /\ Throws(c) => IInv'
  BY Still, FailuresAreCounted DEF Throws

LEMMA StepSign == \A c \in Callers : IInv /\ Sign(c) => IInv'
  <1> SUFFICES ASSUME NEW c \in Callers, IInv, Sign(c) PROVE IInv'
    OBVIOUS
  <1>1. PICK e : e = [call[c].entity EXCEPT !.status = "SIGNED", !.attempts = @ + 1]
    OBVIOUS
  <1>2. PICK k : k = [call[c] EXCEPT !.pc = "select", !.entity = e,
                                     !.then = "token", !.orElse = "throw"]
    OBVIOUS
  <1>3. /\ e \in Entity /\ e.status = "SIGNED" /\ e.attempts > 0
        /\ call[c].entity.attempts > 0 => e.attempts > 1
    <2>1. call[c].entity \in Entity
      BY Record DEF Call
    <2>2. call[c].entity.attempts \in Nat /\ call[c].entity.attempts + 1 \in Nat
      BY <2>1 DEF Entity
    <2>3. e \in Entity
      BY <1>1, <2>1, <2>2 DEF Entity, Statuses
    <2>4. e.status = "SIGNED" /\ e.attempts = call[c].entity.attempts + 1
      BY <1>1, <2>1 DEF Entity
    <2> QED BY <2>2, <2>3, <2>4
  <1>4. k \in Call
    BY <1>2, <1>3, Record DEF Call, Labels
  <1>5. CallOK(k)
    BY <1>2, <1>3, Record DEF CallOK, Given, Call, Sign
  <1>6. call' = [call EXCEPT ![c] = k]
    BY <1>1, <1>2 DEF Sign, Saves, IInv, TypeOK
  <1> QED BY <1>4, <1>5, <1>6, OnlyTheCaller DEF Sign, Fine

(* Going on with the entity as it is.                                      *)
LEMMA GoesOn ==
  ASSUME IInv, NEW c \in Callers, NEW label \in Labels \ {"idle", "listed", "done"},
         Goes(c, label)
  PROVE  \E k \in Call :
           /\ call' = [call EXCEPT ![c] = k]
           /\ k.pc = label /\ k.entity = call[c].entity /\ k.known = call[c].known
           /\ k.then = "idle" /\ k.orElse = "idle"
  <1>1. PICK k : k = [call[c] EXCEPT !.pc = label, !.saw = NewRow, !.then = "idle",
                                     !.orElse = "idle"]
    OBVIOUS
  <1>2. k \in Call
    <2>1. NewRow \in Row
      BY DEF Row, NewRow, Statuses
    <2>2. label \in Labels /\ "idle" \in Labels /\ call[c] \in Call
      BY Record DEF Labels
    <2> QED BY <1>1, <2>1, <2>2 DEF Call
  <1>3. call' = [call EXCEPT ![c] = k]
    BY <1>1 DEF Goes
  <1>4. /\ k.pc = label /\ k.entity = call[c].entity /\ k.known = call[c].known
        /\ k.then = "idle" /\ k.orElse = "idle"
    BY <1>1, Record DEF Call
  <1> QED BY <1>2, <1>3, <1>4

LEMMA StepToken == \A c \in Callers : IInv /\ GetToken(c) => IInv'
  <1> SUFFICES ASSUME NEW c \in Callers, IInv, GetToken(c) PROVE IInv'
    OBVIOUS
  <1>1. PICK label : label = IF call[c].entity.attempts <= 1 THEN "send" ELSE "lookup"
    OBVIOUS
  <1>2. PICK k \in Call :
          /\ call' = [call EXCEPT ![c] = k]
          /\ k.pc = label /\ k.entity = call[c].entity /\ k.known = call[c].known
          /\ k.then = "idle" /\ k.orElse = "idle"
    BY <1>1, GoesOn DEF GetToken, Labels
  <1>3. k.known => label = "lookup"
    <2>1. call[c].entity.attempts \in Nat
      BY Record DEF Call, Entity
    <2>2. call[c].known => call[c].entity.attempts > 1
      BY Record DEF CallOK, GetToken
    <2> QED BY <1>1, <1>2, <2>1, <2>2
  <1>4. CallOK(k)
    BY <1>1, <1>2, <1>3, Record DEF CallOK, GetToken
  <1> QED BY <1>2, <1>4, OnlyTheCaller DEF GetToken, Fine

LEMMA StepLookupFindsNothing == \A c \in Callers : IInv /\ LookupFindsNothing(c) => IInv'
  <1> SUFFICES ASSUME NEW c \in Callers, IInv, LookupFindsNothing(c) PROVE IInv'
    OBVIOUS
  <1>1. PICK k \in Call :
          /\ call' = [call EXCEPT ![c] = k]
          /\ k.pc = "send" /\ k.entity = call[c].entity /\ k.known = call[c].known
          /\ k.then = "idle" /\ k.orElse = "idle"
    BY GoesOn DEF LookupFindsNothing, Labels
  <1>2. CallOK(k)
    BY <1>1, Record DEF CallOK, LookupFindsNothing
  <1> QED BY <1>1, <1>2, OnlyTheCaller DEF LookupFindsNothing, Fine

LEMMA StepLookupFails == \A c \in Callers : IInv /\ LookupFails(c) => IInv'
  <1> SUFFICES ASSUME NEW c \in Callers, IInv, LookupFails(c) PROVE IInv'
    OBVIOUS
  <1>1. PICK k : k = [call[c] EXCEPT !.pc = "send", !.known = FALSE]
    OBVIOUS
  <1>2. k \in Call
    BY <1>1, Record DEF Call, Labels
  <1>3. CallOK(k)
    BY <1>1, Record DEF CallOK, LookupFails, Call
  <1>4. call' = [call EXCEPT ![c] = k]
    BY <1>1 DEF LookupFails, IInv, TypeOK
  <1> QED BY <1>2, <1>3, <1>4, OnlyTheCaller DEF LookupFails

LEMMA StatusIs ==
  \A verdict \in AuthorityStates : StatusOf(verdict) \in {"ACCEPTED", "REJECTED", "SENT"}
  BY DEF StatusOf, AuthorityStates

LEMMA StepLookupFinds == \A c \in Callers : IInv /\ LookupFinds(c) => IInv'
  <1> SUFFICES ASSUME NEW c \in Callers, IInv, LookupFinds(c) PROVE IInv'
    OBVIOUS
  <1>1. PICK e : e = [call[c].entity EXCEPT !.track = "trackId", !.status = StatusOf(authority)]
    OBVIOUS
  <1>2. PICK k : k = [call[c] EXCEPT !.pc = "select", !.entity = e,
                                     !.then = End(c), !.orElse = "throw"]
    OBVIOUS
  <1>3. e \in Entity /\ e.attempts = call[c].entity.attempts /\ e.status = StatusOf(authority)
    BY <1>1, Record, StatusIs DEF Call, Entity, Statuses
  <1>4. k \in Call
    BY <1>2, <1>3, Record, EndIs DEF Call, Labels
  <1>5. Given(e.status)
    BY <1>3 DEF Given, StatusOf
  <1>6. CallOK(k)
    BY <1>2, <1>3, <1>5, Record, EndIs DEF CallOK, LookupFinds, Call
  <1>7. call' = [call EXCEPT ![c] = k]
    BY <1>1, <1>2 DEF LookupFinds, Saves, IInv, TypeOK
  <1> QED BY <1>4, <1>6, <1>7, OnlyTheCaller DEF LookupFinds, Fine

(* What the authority makes of a document it receives.                     *)
LEMMA Received ==
  ASSUME IInv, NEW answer \in AuthorityStates, Receive(answer), UNCHANGED row,
         NEW c \in Callers, call[c].pc = "send"
  PROVE  /\ Advance /\ RowOK' /\ row' \in Row /\ authority' \in AuthorityStates
         /\ repeated' \in BOOLEAN /\ Given(StatusOf(answer))'
  <1>1. row.attempts > 0
    BY Record DEF CallOK
  <1>2. CASE Holds
    BY <1>1, <1>2, Record
       DEF IInv, TypeOK, Receive, Advance, RowOK, Given, Holds, StatusOf, AuthorityStates
  <1>3. CASE ~Holds
    BY <1>1, <1>3, Record
       DEF IInv, TypeOK, Receive, Advance, RowOK, Given, Holds, StatusOf, AuthorityStates
  <1> QED BY <1>2, <1>3

LEMMA StepSendAnswered == \A c \in Callers : IInv /\ SendAnswered(c) => IInv'
  <1> SUFFICES ASSUME NEW c \in Callers, IInv, SendAnswered(c) PROVE IInv'
    OBVIOUS
  <1>1. PICK answer \in AuthorityStates, track \in {"trackId", "undefined"} :
          /\ Receive(answer)
          /\ Saves(c, [call[c].entity EXCEPT !.status = StatusOf(answer), !.track = track],
                   End(c), "throw")
    BY DEF SendAnswered
  <1>2. PICK e : e = [call[c].entity EXCEPT !.status = StatusOf(answer), !.track = track]
    OBVIOUS
  <1>3. PICK k : k = [call[c] EXCEPT !.pc = "select", !.entity = e,
                                     !.then = End(c), !.orElse = "throw"]
    OBVIOUS
  <1>4. e \in Entity /\ e.attempts = call[c].entity.attempts /\ e.status = StatusOf(answer)
    BY <1>2, Record, StatusIs DEF Call, Entity, Statuses
  <1>5. k \in Call
    BY <1>3, <1>4, Record, EndIs DEF Call, Labels
  <1>6. /\ Advance /\ RowOK' /\ row' \in Row /\ authority' \in AuthorityStates
        /\ repeated' \in BOOLEAN /\ Given(StatusOf(answer))'
    BY <1>1, Received DEF SendAnswered
  <1>7. /\ k.then \in {"idle", "done"} /\ k.orElse = "throw" /\ k.pc = "select"
        /\ k.entity = e /\ ~k.known /\ e.attempts > 0
    BY <1>3, <1>4, Record, EndIs DEF CallOK, SendAnswered, Call
  <1>8. CallOK(k)'
    BY <1>4, <1>6, <1>7 DEF CallOK, Given
  <1>9. call' = [call EXCEPT ![c] = k]
    BY <1>1, <1>2, <1>3 DEF Saves, IInv, TypeOK
  <1> QED BY <1>5, <1>6, <1>8, <1>9, OneCaller DEF SendAnswered, IInv, TypeOK

LEMMA StepSendFails == \A c \in Callers : IInv /\ SendFails(c) => IInv'
  <1> SUFFICES ASSUME NEW c \in Callers, IInv, SendFails(c) PROVE IInv'
    OBVIOUS
  <1>1. /\ Advance /\ RowOK' /\ row' \in Row /\ authority' \in AuthorityStates
        /\ repeated' \in BOOLEAN
    <2>1. CASE UNCHANGED <<authority, repeated>>
      BY <2>1, Still DEF SendFails
    <2>2. CASE \E answer \in AuthorityStates : Receive(answer)
      BY <2>2, Received DEF SendFails
    <2> QED BY <2>1, <2>2 DEF SendFails
  <1>2. faults' \in 0 .. MaxFaults
    BY EcfAssumption DEF SendFails, Faulty, IInv, TypeOK
  <1> QED BY <1>1, <1>2, FailuresAreCounted DEF SendFails

LEMMA StepListRetriable == IInv /\ ListRetriable => IInv'
  BY Leaves, CallersAre DEF ListRetriable, Fine

LEMMA StepReturnTerminal == \A c \in Callers : IInv /\ ReturnTerminal(c) => IInv'
  BY Leaves, EndIs DEF ReturnTerminal, Fine

LEMMA StepDie == \A c \in Callers : IInv /\ Die(c) => IInv'
  BY Leaves, EndIs DEF Die

-----------------------------------------------------------------------------
(* The cron that polls, and the authority.                                 *)

LEMMA StepListPollable == IInv /\ ListPollable => IInv'
  <1> SUFFICES ASSUME IInv, ListPollable PROVE IInv'
    OBVIOUS
  <1>1. PICK k : k = [Idle EXCEPT !.pc = "ask", !.entity = row]
    OBVIOUS
  <1>2. k \in Call
    <2>1. row \in Row /\ row \in Entity
      BY Record, CallersAre DEF Row, Entity
    <2> QED BY <1>1, <2>1, IdleOK DEF Idle, Call, Labels
  <1>3. row.attempts > 0
    BY Record, CallersAre DEF RowOK, Row, ListPollable
  <1>4. CallOK(k)
    BY <1>1, <1>3, Record, CallersAre DEF Idle, CallOK, Given, RowOK
  <1>5. call' = [call EXCEPT ![Poll] = k]
    BY <1>1 DEF ListPollable
  <1> QED BY <1>2, <1>4, <1>5, OnlyTheCaller, CallersAre DEF ListPollable, Fine

LEMMA StepQueryStatus == IInv /\ QueryStatus => IInv'
  <1> SUFFICES ASSUME IInv, QueryStatus PROVE IInv'
    OBVIOUS
  <1> USE CallersAre
  <1>1. PICK e : e = [call[Poll].entity EXCEPT !.status = StatusOf(authority)]
    OBVIOUS
  <1>2. PICK k : k = [call[Poll] EXCEPT !.pc = "select", !.entity = e,
                                        !.then = "idle", !.orElse = "idle"]
    OBVIOUS
  <1>3. call[Poll] \in Call /\ CallOK(call[Poll]) /\ authority \in AuthorityStates
    BY Record
  <1>4. e \in Entity /\ e.attempts = call[Poll].entity.attempts /\ e.status = StatusOf(authority)
    BY <1>1, <1>3, StatusIs DEF Call, Entity, Statuses
  <1>5. k \in Call
    BY <1>2, <1>3, <1>4 DEF Call, Labels
  <1>6. Given(e.status)
    BY <1>4 DEF Given, StatusOf
  <1>7. CallOK(k)
    BY <1>2, <1>3, <1>4, <1>6 DEF CallOK, QueryStatus, Call
  <1>8. call' = [call EXCEPT ![Poll] = k]
    BY <1>1, <1>2 DEF QueryStatus, Saves, IInv, TypeOK
  <1> QED BY <1>5, <1>7, <1>8, OnlyTheCaller DEF QueryStatus, Fine

LEMMA StepQueryFails == IInv /\ QueryFails => IInv'
  BY Leaves, CallersAre DEF QueryFails

LEMMA StepDecide == IInv /\ Decide => IInv'
  <1> SUFFICES ASSUME IInv, Decide PROVE IInv'
    OBVIOUS
  <1>1. Advance /\ TypeOK'
    BY DEF IInv, TypeOK, Decide, Advance, Holds, AuthorityStates
  <1>2. RowOK'
    BY <1>1, GivenStays DEF IInv, RowOK, Decide
  <1>3. ASSUME NEW c \in Callers PROVE CallOK(call[c])'
    <2>1. call'[c] = call[c] /\ CallOK(call[c])
      BY DEF IInv, Decide
    <2> QED BY <1>1, <2>1, CallStaysOK DEF CallOK, Given, Holds
  <1> QED BY <1>1, <1>2, <1>3 DEF IInv

-----------------------------------------------------------------------------
(* save.                                                                   *)

LEMMA StepSelectRow == \A c \in Callers : IInv /\ SelectRow(c) => IInv'
  <1> SUFFICES ASSUME NEW c \in Callers, IInv, SelectRow(c) PROVE IInv'
    OBVIOUS
  <1>1. PICK k : k = [call[c] EXCEPT !.pc = "update", !.saw = row]
    OBVIOUS
  <1>2. k \in Call
    BY <1>1, Record DEF Call, Labels
  <1>3. CallOK(k)
    BY <1>1, Record DEF CallOK, SelectRow, Call
  <1>4. call' = [call EXCEPT ![c] = k]
    BY <1>1 DEF SelectRow, IInv, TypeOK
  <1> QED BY <1>2, <1>3, <1>4, OnlyTheCaller DEF SelectRow, Fine

LEMMA StepSaveFails == \A c \in Callers : IInv /\ SaveFails(c) => IInv'
  <1> SUFFICES ASSUME NEW c \in Callers, IInv, SaveFails(c) PROVE IInv'
    OBVIOUS
  <1>1. CASE call[c].orElse \in {"idle", "done"}
    BY <1>1, Leaves DEF SaveFails
  <1>2. CASE call[c].orElse = "throw"
    <2>1. PICK k \in Call :
            /\ call' = [call EXCEPT ![c] = k]
            /\ k.pc = "throw" /\ k.entity = call[c].entity /\ k.known = call[c].known
            /\ k.then = "idle" /\ k.orElse = "idle"
      BY <1>2, GoesOn DEF SaveFails, Labels
    <2>2. CallOK(k)
      BY <2>1, Record DEF CallOK, SaveFails
    <2> QED BY <2>1, <2>2, OnlyTheCaller DEF SaveFails
  <1> QED BY <1>1, <1>2, Record DEF CallOK

(* Whatever it saw, a save leaves a row with a count and a given status.   *)
LEMMA MergedIs ==
  ASSUME IInv, NEW c \in Callers, UpdateRow(c)
  PROVE  row' \in Row /\ row'.attempts > 0 /\ Given(row'.status)
  <1>1. PICK e, saw : e = call[c].entity /\ saw = call[c].saw
    OBVIOUS
  <1>2. e \in Entity /\ saw \in Row /\ row \in Row
    BY <1>1, Record DEF Call
  <1>3. e.attempts > 0 /\ (saw.attempts > 0 => row.attempts > 0) /\ Given(e.status)
    BY <1>1, Record DEF CallOK, UpdateRow
  <1>4. row' = Merged(e, saw)
    BY <1>1 DEF UpdateRow
  <1>5. row' \in Row
    BY <1>2, <1>4 DEF Merged, Row, Entity
  <1>6. row'.attempts > 0
    BY <1>2, <1>3, <1>4 DEF Merged, Row, Entity
  <1>7. Given(row'.status)
    BY <1>3, <1>4, Record DEF Merged, RowOK
  <1> QED BY <1>5, <1>6, <1>7

LEMMA StepUpdateRow == \A c \in Callers : IInv /\ UpdateRow(c) => IInv'
  <1> SUFFICES ASSUME NEW c \in Callers, IInv, UpdateRow(c) PROVE IInv'
    OBVIOUS
  <1>1. row' \in Row /\ row'.attempts > 0 /\ Given(row'.status)
    BY MergedIs
  <1>2. UNCHANGED <<authority, repeated, faults>> /\ authority \in AuthorityStates
        /\ repeated \in BOOLEAN /\ faults \in 0 .. MaxFaults
    BY DEF UpdateRow, IInv, TypeOK
  <1>3. Advance
    BY <1>1, <1>2 DEF Advance, Holds
  <1>4. RowOK'
    BY <1>1, <1>2 DEF RowOK, Row, Given
  <1>5. \E k \in Call : CallOK(k)' /\ call' = [call EXCEPT ![c] = k]
    <2>1. CASE call[c].then \in {"idle", "done"}
      <3>1. PICK k : k = [Idle EXCEPT !.pc = call[c].then]
        OBVIOUS
      <3>2. k \in Call /\ CallOK(k)
        BY <2>1, <3>1 DEF Idle, Call, Row, Entity, NewRow, Labels, Statuses, CallOK, Given
      <3>3. call' = [call EXCEPT ![c] = k]
        BY <2>1, <3>1 DEF UpdateRow, Goes
      <3> QED BY <1>3, <3>2, <3>3, CallStaysOK
    <2>2. CASE call[c].then = "token"
      <3>1. PICK k \in Call :
              /\ call' = [call EXCEPT ![c] = k]
              /\ k.pc = "token" /\ k.entity = call[c].entity /\ k.known = call[c].known
              /\ k.then = "idle" /\ k.orElse = "idle"
        BY <2>2, GoesOn DEF UpdateRow, Labels
      <3>2. CallOK(k)'
        <4>1. CallOK(call[c]) /\ call[c].pc = "update"
          BY Record DEF UpdateRow
        <4>2. Given(k.entity.status)'
          BY <1>2, <3>1, <4>1 DEF CallOK, Given
        <4> QED BY <1>1, <1>2, <2>2, <3>1, <4>1, <4>2 DEF CallOK, Holds
      <3> QED BY <3>1, <3>2
    <2> QED BY <2>1, <2>2, Record DEF CallOK
  <1> QED BY <1>1, <1>2, <1>3, <1>4, <1>5, OneCaller

-----------------------------------------------------------------------------

LEMMA NextIInv == IInv /\ [Next]_vars => IInv'
  <1> SUFFICES ASSUME IInv, [Next]_vars PROVE IInv'
    OBVIOUS
  <1>1. ASSUME NEW c \in Callers, Submit(c) PROVE IInv'
    BY <1>1, StepReturnTerminal, StepRead, StepBuildFails, StepSign, StepToken, StepThrows,
       StepLookupFinds, StepLookupFindsNothing, StepLookupFails, StepSendAnswered, StepSendFails
       DEF Submit
  <1>2. ASSUME NEW c \in Callers, Save(c) PROVE IInv'
    BY <1>2, StepSelectRow, StepUpdateRow, StepSaveFails, StepDie DEF Save
  <1>3. CASE UNCHANGED vars
    BY <1>3 DEF vars, IInv, TypeOK, RowOK, CallOK, Given, Holds
  <1> QED BY <1>1, <1>2, <1>3, StepListRetriable, StepListPollable, StepQueryStatus,
             StepQueryFails, StepDecide DEF Next

LEMMA Invariance == Spec => []IInv
  BY InitIInv, NextIInv, PTL DEF Spec

(* Every variable keeps its type, for any callers and bounds.              *)
THEOREM TypeCorrect == Spec => []TypeOK
  <1>1. IInv => TypeOK
    BY DEF IInv
  <1> QED BY <1>1, Invariance, PTL

(* adoptExistingTrackId does what it is for: a document the authority held *)
(* when the attempt began is not sent again unasked, whatever attempts     *)
(* overlap, whatever saves are stale and whatever requests are lost.       *)
THEOREM NothingIsSentBlindly == Spec => []NoBlindRetransmission
  <1>1. IInv => NoBlindRetransmission
    BY DEF IInv, CallOK, NoBlindRetransmission
  <1> QED BY <1>1, Invariance, PTL

(* No stale or partial save gives a document a verdict the authority did   *)
(* not give.                                                               *)
THEOREM VerdictsAreGiven == Spec => []VerdictsComeFromTheAuthority
  <1>1. IInv => VerdictsComeFromTheAuthority
    BY DEF IInv, RowOK, Given, VerdictsComeFromTheAuthority
  <1> QED BY <1>1, Invariance, PTL

-----------------------------------------------------------------------------
(* A document the authority is processing is recorded as refused because   *)
(* it is sent twice: by attempts that overlap, or by one whose question,   *)
(* whether the authority has it, was lost and ignored.  Attempts that take *)
(* turns and get an answer to that question never repeat a document.       *)
Underway(c) == c \in Callers \ {Poll} /\ call[c].pc \notin {"idle", "listed", "done"}
TakeTurns == \A c, d \in Callers : Underway(c) /\ Underway(d) => c = d
QuestionIsLost == \E c \in Callers : LookupFails(c)
CarefulSpec == Init /\ [][Next /\ TakeTurns' /\ ~QuestionIsLost]_vars

(* Who may still send knows of the document, if the authority has it.      *)
MaySend(k) ==
  k.pc \in {"build", "token", "lookup", "send"}
    \/ (k.pc \in {"select", "update"} /\ k.then = "token")
Aware(c) == MaySend(call[c]) => c # Poll /\ (Holds => call[c].known)
TurnsInv == ~repeated /\ TakeTurns /\ \A c \in Callers : Aware(c)

LEMMA InitTurns == Init => TurnsInv
  BY DEF Init, TurnsInv, TakeTurns, Underway, Aware, MaySend, Idle

(* A step that moves one attempt on, and leaves the authority alone.       *)
LEMMA MovesOn ==
  ASSUME IInv, TurnsInv, TakeTurns', UNCHANGED <<authority, repeated>>,
         NEW c \in Callers, NEW k, call' = [call EXCEPT ![c] = k],
         MaySend(k) => c # Poll /\ (Holds => k.known)
  PROVE  TurnsInv'
  <1>1. \A d \in Callers : call'[d] = IF d = c THEN k ELSE call[d]
    BY DEF IInv, TypeOK
  <1>2. ASSUME NEW d \in Callers PROVE Aware(d)'
    BY <1>1 DEF TurnsInv, Aware, MaySend, Holds
  <1> QED BY <1>2 DEF TurnsInv

(* What goes on and may still send could send before, or has just read the *)
(* row; what is recorded as failed will not.                               *)
LEMMA GoesQuietly ==
  ASSUME IInv, TurnsInv, TakeTurns', UNCHANGED <<authority, repeated>>,
         NEW c \in Callers, NEW label, Goes(c, label),
         label \in {"idle", "listed", "done", "throw"} \/ MaySend(call[c])
  PROVE  TurnsInv'
  <1>1. PICK k : /\ call' = [call EXCEPT ![c] = k] /\ k.pc = label
                 /\ label \notin {"idle", "listed", "done"} =>
                      k.known = call[c].known /\ k.then = "idle"
                 /\ label \in {"idle", "listed", "done"} => k.then = "idle"
    <2>1. call[c] \in Call
      BY Record
    <2>2. CASE label \in {"idle", "listed", "done"}
      <3>1. PICK k : k = [Idle EXCEPT !.pc = label]
        OBVIOUS
      <3>2. call' = [call EXCEPT ![c] = k]
        BY <2>2, <3>1 DEF Goes
      <3>3. k.pc = label /\ k.then = "idle"
        BY <3>1 DEF Idle
      <3> QED BY <2>2, <3>2, <3>3
    <2>3. CASE label \notin {"idle", "listed", "done"}
      <3>1. PICK k : k = [call[c] EXCEPT !.pc = label, !.saw = NewRow, !.then = "idle",
                                         !.orElse = "idle"]
        OBVIOUS
      <3>2. call' = [call EXCEPT ![c] = k]
        BY <2>3, <3>1 DEF Goes
      <3>3. k.pc = label /\ k.known = call[c].known /\ k.then = "idle"
        BY <2>1, <3>1 DEF Call
      <3> QED BY <2>3, <3>2, <3>3
    <2> QED BY <2>2, <2>3
  <1>2. MaySend(k) => MaySend(call[c]) /\ k.known = call[c].known
    BY <1>1 DEF MaySend
  <1> QED BY <1>1, <1>2, MovesOn DEF TurnsInv, Aware

LEMMA SavesQuietly ==
  ASSUME IInv, TurnsInv, TakeTurns', UNCHANGED <<authority, repeated>>,
         NEW c \in Callers, NEW e, NEW then, NEW orElse, Saves(c, e, then, orElse),
         then = "token" => MaySend(call[c])
  PROVE  TurnsInv'
  <1>1. PICK k : /\ call' = [call EXCEPT ![c] = k] /\ k.pc = "select" /\ k.then = then
                 /\ k.known = call[c].known
    <2>1. call[c] \in Call /\ call \in [Callers -> Call]
      BY DEF IInv, TypeOK
    <2>2. PICK k : k = [call[c] EXCEPT !.pc = "select", !.entity = e, !.then = then,
                                       !.orElse = orElse]
      OBVIOUS
    <2>3. call' = [call EXCEPT ![c] = k]
      BY <2>1, <2>2 DEF Saves
    <2>4. k.pc = "select" /\ k.then = then /\ k.known = call[c].known
      BY <2>1, <2>2 DEF Call
    <2> QED BY <2>3, <2>4
  <1>2. MaySend(k) => MaySend(call[c])
    BY <1>1 DEF MaySend
  <1> QED BY <1>1, <1>2, MovesOn DEF TurnsInv, Aware

(* Only an attempt that sends makes the authority hold the document; no    *)
(* other is underway, and the one that sends does so once.                 *)
LEMMA SendsOnce ==
  ASSUME IInv, TurnsInv, TakeTurns', NEW c \in Callers, call[c].pc = "send",
         NEW answer, Receive(answer) \/ UNCHANGED <<authority, repeated>>,
         NEW e, NEW orElse, Saves(c, e, End(c), orElse)
  PROVE  TurnsInv'
  <1>1. call[c] \in Call /\ call \in [Callers -> Call] /\ ~call[c].known
    BY DEF IInv, TypeOK, CallOK
  <1>2. ~Holds /\ c # Poll
    BY <1>1 DEF TurnsInv, Aware, MaySend
  <1>3. ~repeated'
    BY <1>2 DEF Receive, TurnsInv
  <1>4. /\ call'[c].pc = "select" /\ call'[c].then = End(c)
        /\ \A d \in Callers : d # c => call'[d] = call[d]
    BY <1>1 DEF Saves, Call
  <1>5. ASSUME NEW d \in Callers PROVE Aware(d)'
    <2>1. CASE d = c
      BY <1>4, <2>1, EndIs DEF Aware, MaySend
    <2>2. CASE d # c
      <3>1. Underway(c)
        BY <1>2 DEF Underway
      <3>2. ~Underway(d)
        BY <2>2, <3>1 DEF TurnsInv, TakeTurns
      <3>3. ~MaySend(call[d])
        BY <3>2 DEF Underway, MaySend, TurnsInv, Aware
      <3> QED BY <1>4, <2>2, <3>3 DEF Aware, MaySend
    <2> QED BY <2>1, <2>2
  <1> QED BY <1>3, <1>5 DEF TurnsInv

LEMMA SubmitInTurn ==
  ASSUME IInv, TurnsInv, TakeTurns', ~QuestionIsLost, NEW c \in Callers, Submit(c)
  PROVE  TurnsInv'
  <1> USE EndIs
  <1>1. CASE ReturnTerminal(c)
    <2>1. End(c) \in {"idle", "listed", "done", "throw"} /\ Goes(c, End(c))
      BY <1>1 DEF ReturnTerminal
    <2> QED BY <1>1, <2>1, GoesQuietly DEF ReturnTerminal
  <1>2. CASE ReadRow(c)
    <2>1. PICK k : k = [Idle EXCEPT !.pc = "build", !.entity = row, !.known = Holds]
      OBVIOUS
    <2>3. call' = [call EXCEPT ![c] = k]
      BY <1>2, <2>1 DEF ReadRow
    <2>4. Holds => k.known
      BY <2>1 DEF Idle
    <2>2. c # Poll
      BY <1>2, CallersAre DEF ReadRow, Arrives
    <2> QED BY <1>2, <2>2, <2>3, <2>4, MovesOn DEF ReadRow
  <1>3. CASE BuildFails(c)
    <2>1. PICK e : Saves(c, e, End(c), End(c))
      BY <1>3 DEF BuildFails, RecordFailure
    <2>2. End(c) # "token"
      OBVIOUS
    <2> QED BY <1>3, <2>1, <2>2, SavesQuietly DEF BuildFails
  <1>4. CASE Sign(c)
    <2>1. MaySend(call[c])
      BY <1>4 DEF Sign, MaySend
    <2> QED BY <1>4, <2>1, SavesQuietly DEF Sign
  <1>5. CASE GetToken(c) \/ LookupFindsNothing(c)
    <2>1. MaySend(call[c])
      BY <1>5 DEF GetToken, LookupFindsNothing, MaySend
    <2> QED BY <1>5, <2>1, GoesQuietly DEF GetToken, LookupFindsNothing
  <1>6. CASE Throws(c)
    <2>1. PICK e : Saves(c, e, End(c), End(c))
      BY <1>6 DEF Throws, RecordFailure
    <2>2. End(c) # "token"
      OBVIOUS
    <2> QED BY <1>6, <2>1, <2>2, SavesQuietly DEF Throws
  <1>7. CASE LookupFinds(c)
    <2>1. End(c) # "token"
      OBVIOUS
    <2> QED BY <1>7, <2>1, SavesQuietly DEF LookupFinds
  <1>8. CASE SendAnswered(c)
    BY <1>8, SendsOnce DEF SendAnswered
  <1>9. CASE SendFails(c)
    <2>1. PICK e : Saves(c, e, End(c), End(c))
      BY <1>9 DEF SendFails, RecordFailure
    <2>2. \E answer : Receive(answer) \/ UNCHANGED <<authority, repeated>>
      BY <1>9 DEF SendFails
    <2> QED BY <1>9, <2>1, <2>2, SendsOnce DEF SendFails
  <1> QED BY <1>1, <1>2, <1>3, <1>4, <1>5, <1>6, <1>7, <1>8, <1>9 DEF Submit, QuestionIsLost

LEMMA SaveInTurn ==
  ASSUME IInv, TurnsInv, TakeTurns', NEW c \in Callers, Save(c)
  PROVE  TurnsInv'
  <1>0. call[c] \in Call /\ CallOK(call[c]) /\ call \in [Callers -> Call]
    BY DEF IInv, TypeOK
  <1>1. CASE SelectRow(c)
    <2>1. PICK k : k = [call[c] EXCEPT !.pc = "update", !.saw = row]
      OBVIOUS
    <2>2. call' = [call EXCEPT ![c] = k]
      BY <1>0, <1>1, <2>1 DEF SelectRow
    <2>3. k.pc = "update" /\ k.then = call[c].then /\ k.known = call[c].known
      BY <1>0, <2>1 DEF Call
    <2>4. MaySend(k) => MaySend(call[c])
      BY <1>1, <2>3 DEF MaySend, SelectRow
    <2> QED BY <1>1, <2>2, <2>3, <2>4, MovesOn DEF SelectRow, TurnsInv, Aware
  <1>2. CASE UpdateRow(c)
    <2>1. call[c].then \in {"idle", "done"} \/ MaySend(call[c])
      BY <1>0, <1>2 DEF CallOK, UpdateRow, MaySend
    <2> QED BY <1>2, <2>1, GoesQuietly DEF UpdateRow
  <1>3. CASE SaveFails(c)
    <2>1. call[c].orElse \in {"idle", "done", "throw"}
      BY <1>0 DEF CallOK
    <2> QED BY <1>3, <2>1, GoesQuietly DEF SaveFails
  <1>4. CASE Die(c)
    <2>1. End(c) \in {"idle", "listed", "done", "throw"} /\ Goes(c, End(c))
      BY <1>4, EndIs DEF Die
    <2> QED BY <1>4, <2>1, GoesQuietly DEF Die
  <1> QED BY <1>1, <1>2, <1>3, <1>4 DEF Save

LEMMA CronsInTurn ==
  ASSUME IInv, TurnsInv, TakeTurns',
         ListRetriable \/ ListPollable \/ QueryStatus \/ QueryFails \/ Decide
  PROVE  TurnsInv'
  <1> USE CallersAre
  <1>1. CASE ListRetriable
    BY <1>1, GoesQuietly DEF ListRetriable
  <1>2. CASE ListPollable
    <2>1. PICK k : k = [Idle EXCEPT !.pc = "ask", !.entity = row]
      OBVIOUS
    <2>2. call' = [call EXCEPT ![Poll] = k]
      BY <1>2, <2>1 DEF ListPollable
    <2>3. ~MaySend(k)
      BY <2>1 DEF Idle, MaySend
    <2> QED BY <1>2, <2>2, <2>3, MovesOn DEF ListPollable
  <1>3. CASE QueryStatus
    BY <1>3, SavesQuietly DEF QueryStatus
  <1>4. CASE QueryFails
    BY <1>4, GoesQuietly DEF QueryFails
  <1>5. CASE Decide
    <2>1. UNCHANGED <<repeated, call>> /\ (Holds' <=> Holds)
      BY <1>5 DEF Decide, Holds
    <2> QED BY <2>1 DEF TurnsInv, Aware, MaySend
  <1> QED BY <1>1, <1>2, <1>3, <1>4, <1>5

LEMMA NextInTurn ==
  IInv /\ TurnsInv /\ [Next /\ TakeTurns' /\ ~QuestionIsLost]_vars => TurnsInv'
  <1>1. ASSUME IInv, TurnsInv, UNCHANGED vars PROVE TurnsInv'
    BY <1>1 DEF vars, TurnsInv, TakeTurns, Underway, Aware, MaySend, Holds
  <1>2. ASSUME IInv, TurnsInv, Next, TakeTurns', ~QuestionIsLost PROVE TurnsInv'
    BY <1>2, SubmitInTurn, SaveInTurn, CronsInTurn DEF Next
  <1> QED BY <1>1, <1>2

(* What the comment of REJECTED says, it is the authority's verdict on the *)
(* document, is so when attempts take turns and no question is lost: with  *)
(* a lock on the row and an attempt that gives up when it cannot ask, the  *)
(* rest of the protocol is sound, whatever else fails.                     *)
THEOREM InTurnRejectedMeansRejected == CarefulSpec => []RejectedMeansRejected
  <1>1. [Next /\ TakeTurns' /\ ~QuestionIsLost]_vars => [Next]_vars
    OBVIOUS
  <1>2. CarefulSpec => [](IInv /\ TurnsInv)
    BY <1>1, InitIInv, InitTurns, NextIInv, NextInTurn, PTL DEF CarefulSpec
  <1>3. IInv /\ TurnsInv => RejectedMeansRejected
    BY DEF IInv, RowOK, Given, TurnsInv, RejectedMeansRejected
  <1> QED BY <1>2, <1>3, PTL
=============================================================================
