----------------------- MODULE IdempotencyKeysProofs -----------------------
(***************************************************************************)
(* An Idempotency-Key keeps its promise: the record inserted before the    *)
(* handler runs is enough, whatever happens to the update after it.        *)
(***************************************************************************)
EXTENDS IdempotencyKeys, TLAPS

(* The record of a key that is taken is its owner's.                       *)
RecordOK ==
  /\ record.owner = None => record = Absent
  /\ record.owner # None =>
       /\ record.body = call[record.owner].body /\ record.body # None
       /\ record.status # "none"
  /\ record.status = "completed" => call[record.owner].answer = record.owner

(* The request that works has the key, and a success is its owner's.       *)
CallOK(r) ==
  /\ call[r].pc = "idle" <=> call[r].body = None
  /\ call[r].pc \in {"idle", "insert", "read", "handler", "answer"} => call[r].answer = None
  /\ call[r].pc = "store" => call[r].answer = r
  /\ call[r].pc = "release" => call[r].answer = Declined
  /\ call[r].pc \in {"handler", "answer", "store", "release"} => record.owner = r
  /\ call[r].answer \in Requests =>
       /\ record.owner = call[r].answer /\ call[record.owner].answer = record.owner
       /\ call[r].body = record.body
  /\ r \in performed => call[r].answer = Declined \/ record.owner = r

IInv == TypeOK /\ RecordOK /\ \A r \in Requests : CallOK(r)

-----------------------------------------------------------------------------

LEMMA Distinct ==
  /\ None \notin Requests /\ Declined \notin Requests /\ None # Declined /\ None \notin Bodies
  BY KeysAssumption DEF Declined

LEMMA InitIInv == Init => IInv
  <1> SUFFICES ASSUME Init PROVE IInv
    OBVIOUS
  <1>1. faults \in 0 .. MaxFaults
    BY KeysAssumption DEF Init
  <1>2. TypeOK
    BY <1>1 DEF Init, TypeOK, Record, Call, Absent
  <1>3. RecordOK
    BY DEF Init, RecordOK, Absent
  <1>4. \A r \in Requests : CallOK(r)
    BY Distinct DEF Init, CallOK
  <1> QED BY <1>2, <1>3, <1>4 DEF IInv

(* What a step does to the caller it is about.                             *)
LEMMA Others ==
  ASSUME IInv, NEW r \in Requests, NEW c, call' = [call EXCEPT ![r] = c]
  PROVE  /\ call'[r] = c
         /\ \A q \in Requests \ {r} : call'[q] = call[q]
  BY DEF IInv, TypeOK

LEMMA Typed ==
  ASSUME IInv
  PROVE  /\ record \in Record /\ performed \subseteq Requests
         /\ \A r \in Requests : call[r] \in Call /\ CallOK(r)
         /\ RecordOK
  BY DEF IInv, TypeOK

LEMMA FaultsTyped ==
  ASSUME IInv, Faulty \/ UNCHANGED faults
  PROVE  faults' \in 0 .. MaxFaults
  BY KeysAssumption DEF IInv, TypeOK, Faulty

(* Where a request goes when its step does not answer it.                  *)
LEMMA Moves ==
  ASSUME IInv, NEW r \in Requests,
         NEW label \in {"read", "handler", "answer", "done"}, Goes(r, label)
  PROVE  /\ call' \in [Requests -> Call]
         /\ call'[r].pc = label /\ call'[r].body = call[r].body /\ call'[r].answer = call[r].answer
         /\ \A q \in Requests \ {r} : call'[q] = call[q]
  BY DEF Goes, IInv, TypeOK, Call

LEMMA Says ==
  ASSUME IInv, NEW r \in Requests, NEW label \in {"store", "release", "done"},
         NEW answer \in Requests \cup {Declined}, Answers(r, answer, label)
  PROVE  /\ call' \in [Requests -> Call]
         /\ call'[r].pc = label /\ call'[r].body = call[r].body /\ call'[r].answer = answer
         /\ \A q \in Requests \ {r} : call'[q] = call[q]
  BY DEF Answers, IInv, TypeOK, Call

LEMMA StepArrive == \A r \in Requests : IInv /\ Arrive(r) => IInv'
  <1> SUFFICES ASSUME NEW r \in Requests, IInv, Arrive(r) PROVE IInv'
    OBVIOUS
  <1>1. PICK body \in Bodies : call' = [call EXCEPT ![r] = [@ EXCEPT !.pc = "insert", !.body = body]]
    BY DEF Arrive
  <1>2. /\ call' \in [Requests -> Call]
        /\ call'[r].pc = "insert" /\ call'[r].body = body /\ call'[r].answer = call[r].answer
        /\ \A q \in Requests \ {r} : call'[q] = call[q]
    BY <1>1 DEF IInv, TypeOK, Call
  <1>3. call[r].pc = "idle" /\ call[r].body = None /\ call[r].answer = None
    BY Typed DEF Arrive, CallOK
  <1>4. record.owner # r
    BY <1>3, Typed, Distinct DEF RecordOK
  <1>5. record \in Record /\ UNCHANGED <<record, performed, faults>>
    BY Typed DEF Arrive
  <1>6. TypeOK'
    BY <1>2, <1>5 DEF IInv, TypeOK
  <1>7. RecordOK'
    <2>1. RecordOK /\ record \in Record
      BY Typed
    <2>2. record.owner # None => call'[record.owner] = call[record.owner]
      BY <1>2, <1>4, <2>1 DEF Record
    <2>3. record.status = "completed" => record.owner # None
      BY <2>1 DEF RecordOK, Absent
    <2> QED BY <1>5, <2>1, <2>2, <2>3 DEF RecordOK
  <1>8. ASSUME NEW q \in Requests PROVE CallOK(q)'
    <2>1. CASE q = r
      BY <2>1, <1>2, <1>3, <1>4, <1>5, Typed, Distinct DEF CallOK
    <2>2. CASE q # r
      BY <2>2, <1>2, <1>3, <1>4, <1>5, Typed, Distinct DEF CallOK, Record
    <2> QED BY <2>1, <2>2
  <1> QED BY <1>6, <1>7, <1>8 DEF IInv

LEMMA StepInsert == \A r \in Requests : IInv /\ Insert(r) => IInv'
  <1> SUFFICES ASSUME NEW r \in Requests, IInv, Insert(r) PROVE IInv'
    OBVIOUS
  <1>1. /\ call' \in [Requests -> Call]
        /\ call'[r].pc = "handler" /\ call'[r].body = call[r].body
        /\ call'[r].answer = call[r].answer
        /\ \A q \in Requests \ {r} : call'[q] = call[q]
    BY Moves DEF Insert
  <1>2. /\ record = Absent /\ record.owner = None
        /\ record'.owner = r /\ record'.body = call[r].body /\ record'.status = "in_progress"
        /\ record' \in Record
    BY Typed DEF Insert, Absent, Record, Call
  <1>3. call[r].pc = "insert" /\ call[r].body # None /\ call[r].answer = None
    BY Typed DEF Insert, CallOK
  <1>4. \A q \in Requests : call[q].answer \notin Requests /\ (q \in performed => call[q].answer = Declined)
    BY <1>2, Typed, Distinct DEF CallOK
  <1>5. UNCHANGED <<performed, faults>>
    BY DEF Insert
  <1>6. TypeOK'
    BY <1>1, <1>2, <1>5 DEF IInv, TypeOK
  <1>7. RecordOK'
    BY <1>1, <1>2, <1>3, Distinct DEF RecordOK
  <1>8. ASSUME NEW q \in Requests PROVE CallOK(q)'
    <2>1. CASE q = r
      BY <2>1, <1>1, <1>2, <1>3, <1>5, Distinct DEF CallOK
    <2>2. CASE q # r
      <3>1. CallOK(q) /\ call'[q] = call[q] /\ record.owner # q
        BY <2>2, <1>1, <1>2, Typed, Distinct
      <3> QED BY <3>1, <1>4, <1>5, Distinct DEF CallOK
    <2> QED BY <2>1, <2>2
  <1> QED BY <1>6, <1>7, <1>8 DEF IInv

(* Steps that leave the record alone and do not take a success back.       *)
LEMMA KeepsTheRecord ==
  ASSUME IInv, UNCHANGED record, Faulty \/ UNCHANGED faults, NEW r \in Requests,
         call' \in [Requests -> Call], \A q \in Requests \ {r} : call'[q] = call[q],
         call'[r].body = call[r].body, performed' \subseteq Requests,
         \A q \in performed' : q \in performed \/ q = r,
         record.owner = r => call'[r].answer = r \/ call[r].answer # r,
         CallOK(r)'
  PROVE  IInv'
  <1>1. TypeOK'
    BY FaultsTyped, Typed DEF TypeOK
  <1>2. RecordOK'
    <2>1. RecordOK /\ record \in Record
      BY Typed
    <2>2. record.owner \in Requests => call'[record.owner].body = call[record.owner].body
      OBVIOUS
    <2>3. record.status = "completed" => record.owner \in Requests
      BY <2>1 DEF RecordOK, Record, Absent
    <2> QED BY <2>1, <2>2, <2>3 DEF RecordOK, Record
  <1>3. ASSUME NEW q \in Requests PROVE CallOK(q)'
    <2>1. CASE q = r
      BY <2>1
    <2>2. CASE q # r
      <3>1. CallOK(q) /\ call'[q] = call[q] /\ (q \in performed' => q \in performed)
        BY <2>2, Typed
      <3>2. call[q].answer \in Requests => call'[record.owner].answer = record.owner
        BY <3>1 DEF CallOK
      <3> QED BY <3>1, <3>2 DEF CallOK
    <2> QED BY <2>1, <2>2
  <1> QED BY <1>1, <1>2, <1>3 DEF IInv

LEMMA StepInsertIgnored == \A r \in Requests : IInv /\ InsertIgnored(r) => IInv'
  <1> SUFFICES ASSUME NEW r \in Requests, IInv, InsertIgnored(r) PROVE IInv'
    OBVIOUS
  <1>1. /\ call' \in [Requests -> Call]
        /\ call'[r].pc = "read" /\ call'[r].body = call[r].body
        /\ call'[r].answer = call[r].answer
        /\ \A q \in Requests \ {r} : call'[q] = call[q]
    BY Moves DEF InsertIgnored
  <1>2. CallOK(r) /\ call[r].pc = "insert" /\ UNCHANGED <<record, performed, faults>>
    BY Typed DEF InsertIgnored
  <1>3. CallOK(r)'
    BY <1>1, <1>2, Distinct DEF CallOK
  <1> QED BY <1>1, <1>2, <1>3, Typed, KeepsTheRecord

LEMMA StepReplay == \A r \in Requests : IInv /\ Replay(r) => IInv'
  <1> SUFFICES ASSUME NEW r \in Requests, IInv, Replay(r) PROVE IInv'
    OBVIOUS
  <1>1. /\ RecordOK /\ record \in Record /\ CallOK(r)
        /\ call[r].pc = "read" /\ call[r].answer = None /\ call[r].body # None
        /\ record.status = "completed" /\ record.body = call[r].body
        /\ UNCHANGED <<record, performed, faults>>
    BY Typed DEF Replay, Replayable, CallOK
  <1>2. record.owner \in Requests /\ call[record.owner].answer = record.owner /\ record.owner # r
    BY <1>1, Distinct DEF RecordOK, Record, Absent
  <1>3. /\ call' \in [Requests -> Call]
        /\ call'[r].pc = "done" /\ call'[r].body = call[r].body
        /\ call'[r].answer = record.owner
        /\ \A q \in Requests \ {r} : call'[q] = call[q]
    BY <1>2, Says DEF Replay
  <1>4. CallOK(r)'
    BY <1>1, <1>2, <1>3, Distinct DEF CallOK
  <1> QED BY <1>1, <1>2, <1>3, <1>4, Typed, KeepsTheRecord

LEMMA StepRefuse == \A r \in Requests : IInv /\ Refuse(r) => IInv'
  <1> SUFFICES ASSUME NEW r \in Requests, IInv, Refuse(r) PROVE IInv'
    OBVIOUS
  <1>1. /\ CallOK(r) /\ call[r].pc = "read" /\ call[r].answer = None /\ call[r].body # None
        /\ UNCHANGED <<record, performed, faults>>
    BY Typed DEF Refuse, CallOK
  <1>2. /\ call' \in [Requests -> Call]
        /\ call'[r].pc = "done" /\ call'[r].body = call[r].body /\ call'[r].answer = Declined
        /\ \A q \in Requests \ {r} : call'[q] = call[q]
    BY Says DEF Refuse
  <1>3. CallOK(r)'
    BY <1>1, <1>2, Distinct DEF CallOK
  <1> QED BY <1>1, <1>2, <1>3, Typed, Distinct, KeepsTheRecord

LEMMA StepPerform == \A r \in Requests : IInv /\ Perform(r) => IInv'
  <1> SUFFICES ASSUME NEW r \in Requests, IInv, Perform(r) PROVE IInv'
    OBVIOUS
  <1>1. /\ CallOK(r) /\ call[r].pc = "handler" /\ call[r].answer = None /\ call[r].body # None
        /\ record.owner = r /\ performed' = performed \cup {r} /\ UNCHANGED <<record, faults>>
    BY Typed DEF Perform, CallOK
  <1>2. /\ call' \in [Requests -> Call]
        /\ call'[r].pc = "answer" /\ call'[r].body = call[r].body
        /\ call'[r].answer = call[r].answer
        /\ \A q \in Requests \ {r} : call'[q] = call[q]
    BY Moves DEF Perform
  <1>3. CallOK(r)'
    BY <1>1, <1>2, Distinct DEF CallOK
  <1> QED BY <1>1, <1>2, <1>3, Typed, Distinct, KeepsTheRecord

LEMMA StepHandlerThrows == \A r \in Requests : IInv /\ HandlerThrows(r) => IInv'
  <1> SUFFICES ASSUME NEW r \in Requests, IInv, HandlerThrows(r) PROVE IInv'
    OBVIOUS
  <1>1. /\ CallOK(r) /\ call[r].pc = "handler" /\ call[r].answer = None /\ call[r].body # None
        /\ record.owner = r /\ UNCHANGED record
        /\ performed' = performed \/ performed' = performed \cup {r}
        /\ Faulty \/ UNCHANGED faults
    BY Typed DEF HandlerThrows, CallOK
  <1>2. /\ call' \in [Requests -> Call]
        /\ call'[r].pc = "release" /\ call'[r].body = call[r].body /\ call'[r].answer = Declined
        /\ \A q \in Requests \ {r} : call'[q] = call[q]
    BY Says DEF HandlerThrows
  <1>3. CallOK(r)'
    BY <1>1, <1>2, Distinct DEF CallOK
  <1> QED BY <1>1, <1>2, <1>3, Typed, Distinct, KeepsTheRecord

LEMMA StepAnswer == \A r \in Requests : IInv /\ Answer(r) => IInv'
  <1> SUFFICES ASSUME NEW r \in Requests, IInv, Answer(r) PROVE IInv'
    OBVIOUS
  <1>1. /\ CallOK(r) /\ RecordOK /\ record \in Record
        /\ call[r].pc = "answer" /\ call[r].answer = None /\ call[r].body # None
        /\ record.owner = r /\ UNCHANGED <<record, performed, faults>>
    BY Typed DEF Answer, CallOK
  <1>2. /\ call' \in [Requests -> Call]
        /\ call'[r].pc = "store" /\ call'[r].body = call[r].body /\ call'[r].answer = r
        /\ \A q \in Requests \ {r} : call'[q] = call[q]
    BY Says DEF Answer
  <1>3. CallOK(r)'
    BY <1>1, <1>2, Distinct DEF CallOK, RecordOK
  <1> QED BY <1>1, <1>2, <1>3, Typed, Distinct, KeepsTheRecord

LEMMA StepDie == \A r \in Requests : IInv /\ Die(r) => IInv'
  <1> SUFFICES ASSUME NEW r \in Requests, IInv, Die(r) PROVE IInv'
    OBVIOUS
  <1>1. /\ CallOK(r) /\ call[r].pc # "idle" /\ call[r].body # None
        /\ UNCHANGED <<record, performed>> /\ Faulty
    BY Typed DEF Die, CallOK
  <1>2. CASE call[r].pc \in {"insert", "read"}
    <2>1. /\ call' \in [Requests -> Call]
          /\ call'[r].pc = "done" /\ call'[r].body = call[r].body /\ call'[r].answer = Declined
          /\ \A q \in Requests \ {r} : call'[q] = call[q]
      BY <1>2, Says DEF Die
    <2>2. CallOK(r)' /\ call[r].answer # r
      BY <1>1, <1>2, <2>1, Distinct DEF CallOK
    <2> QED BY <1>1, <2>1, <2>2, Typed, KeepsTheRecord
  <1>3. CASE call[r].pc \notin {"insert", "read"}
    <2>1. /\ call' \in [Requests -> Call]
          /\ call'[r].pc = "done" /\ call'[r].body = call[r].body
          /\ call'[r].answer = call[r].answer
          /\ \A q \in Requests \ {r} : call'[q] = call[q]
      BY <1>3, Moves DEF Die
    <2>2. CallOK(r)'
      <3>1. record.owner \in Requests => call'[record.owner].answer = call[record.owner].answer
        BY <2>1
      <3>2. call[r].answer \in Requests => record.owner \in Requests
        BY <1>1 DEF CallOK
      <3> QED BY <1>1, <2>1, <3>1, <3>2, Distinct DEF CallOK
    <2> QED BY <1>1, <2>1, <2>2, Typed, KeepsTheRecord
  <1> QED BY <1>2, <1>3

LEMMA StepStore == \A r \in Requests : IInv /\ Store(r) => IInv'
  <1> SUFFICES ASSUME NEW r \in Requests, IInv, Store(r) PROVE IInv'
    OBVIOUS
  <1>1. /\ CallOK(r) /\ RecordOK /\ record \in Record
        /\ call[r].pc = "store" /\ call[r].answer = r /\ record.owner = r
        /\ UNCHANGED <<performed, faults>>
    BY Typed DEF Store, CallOK
  <1>2. /\ call' \in [Requests -> Call]
        /\ call'[r].pc = "done" /\ call'[r].body = call[r].body
        /\ call'[r].answer = call[r].answer
        /\ \A q \in Requests \ {r} : call'[q] = call[q]
    BY Moves DEF Store
  <1>3. /\ record' \in Record /\ record'.owner = record.owner
        /\ record'.body = record.body /\ record'.status = "completed"
    BY <1>1 DEF Store, Record
  <1>4. \A q \in Requests : call'[q].body = call[q].body /\ call'[q].answer = call[q].answer
    BY <1>2
  <1>5. TypeOK'
    BY <1>1, <1>2, <1>3 DEF IInv, TypeOK
  <1>6. RecordOK'
    BY <1>1, <1>3, <1>4, Distinct DEF RecordOK
  <1>7. ASSUME NEW q \in Requests PROVE CallOK(q)'
    <2>1. CallOK(q) /\ (q # r => call'[q].pc = call[q].pc)
      BY <1>2, Typed
    <2>2. /\ call'[q].body = call[q].body /\ call'[q].answer = call[q].answer
          /\ call'[record.owner].answer = call[record.owner].answer
      BY <1>1, <1>4
    <2>3. CASE q = r
      BY <2>1, <2>2, <2>3, <1>1, <1>2, <1>3, Distinct DEF CallOK
    <2>4. CASE q # r
      BY <2>1, <2>2, <2>4, <1>1, <1>3 DEF CallOK
    <2> QED BY <2>3, <2>4
  <1> QED BY <1>5, <1>6, <1>7 DEF IInv

LEMMA StepRelease == \A r \in Requests : IInv /\ Release(r) => IInv'
  <1> SUFFICES ASSUME NEW r \in Requests, IInv, Release(r) PROVE IInv'
    OBVIOUS
  <1>1. /\ CallOK(r) /\ call[r].pc = "release" /\ call[r].answer = Declined
        /\ record.owner = r /\ UNCHANGED <<performed, faults>> /\ record' = Absent
    BY Typed DEF Release, CallOK
  <1>2. /\ call' \in [Requests -> Call]
        /\ call'[r].pc = "done" /\ call'[r].body = call[r].body
        /\ call'[r].answer = call[r].answer
        /\ \A q \in Requests \ {r} : call'[q] = call[q]
    BY Moves DEF Release
  <1>3. TypeOK'
    BY <1>1, <1>2, Typed DEF IInv, TypeOK, Absent, Record
  <1>4. RecordOK'
    BY <1>1, Distinct DEF RecordOK, Absent
  <1>5. \A q \in Requests : call[q].answer \notin Requests
    <2> TAKE q \in Requests
    <2> QED BY <1>1, Typed, Distinct DEF CallOK
  <1>6. ASSUME NEW q \in Requests PROVE CallOK(q)'
    <2>1. CallOK(q) /\ (q # r => call'[q] = call[q] /\ record.owner # q)
      BY <1>1, <1>2, Typed
    <2> QED BY <2>1, <1>1, <1>2, <1>5, Distinct DEF CallOK
  <1> QED BY <1>3, <1>4, <1>6 DEF IInv

LEMMA NextIInv == IInv /\ [Next]_vars => IInv'
  <1> SUFFICES ASSUME IInv, [Next]_vars PROVE IInv'
    OBVIOUS
  <1>1. CASE UNCHANGED vars
    BY <1>1 DEF vars, IInv, TypeOK, RecordOK, CallOK
  <1> QED BY <1>1, StepArrive, StepInsert, StepInsertIgnored, StepReplay, StepRefuse, StepPerform,
             StepHandlerThrows, StepAnswer, StepStore, StepRelease, StepDie DEF Next, Step

LEMMA Invariance == Spec => []IInv
  BY InitIInv, NextIInv, PTL DEF Spec

(* Every variable keeps its type, for any requests and bodies.             *)
THEOREM TypeCorrect == Spec => []TypeOK
  <1>1. IInv => TypeOK
    BY DEF IInv
  <1> QED BY <1>1, Invariance, PTL

(* Whatever dies or is lost, an effect is repeated only for a caller who   *)
(* was told that it had failed.                                            *)
THEOREM EffectsHappenOnce == Spec => []PerformedOnce
  <1>1. IInv => PerformedOnce
    BY Typed DEF CallOK, PerformedOnce
  <1> QED BY <1>1, Invariance, PTL

(* A success keeps the key taken.                                          *)
THEOREM SuccessIsFinal == Spec => []SuccessHoldsTheKey
  <1>1. IInv => SuccessHoldsTheKey
    BY Typed DEF CallOK, SuccessHoldsTheKey
  <1> QED BY <1>1, Invariance, PTL

-----------------------------------------------------------------------------
(* The refinement of OnceAnswered.                                         *)

Asked == [r \in Requests |-> call[r].body]
Told == [r \in Requests |-> call[r].answer]
Winner == IF Winners = {} THEN None ELSE CHOOSE r \in Winners : TRUE

LEMMA WinnerIs ==
  ASSUME IInv
  PROVE  /\ Winner \in Winners \cup {None}
         /\ \A r \in Winners : r = record.owner /\ Winner = r
  <1>1. \A r \in Winners : r = record.owner
    BY Typed DEF Winners, CallOK
  <1>2. Winners # {} => Winner \in Winners
    BY DEF Winner
  <1> QED BY <1>1, <1>2 DEF Winner

(* The requests see nothing of a step that leaves bodies and answers.      *)
LEMMA Unseen ==
  ASSUME \A q \in Requests : call'[q].body = call[q].body /\ call'[q].answer = call[q].answer
  PROVE  UNCHANGED <<Asked, Told, Winner>>
  <1>1. UNCHANGED <<Asked, Told>>
    BY DEF Asked, Told
  <1>2. Winners' = Winners
    BY DEF Winners
  <1> QED BY <1>1, <1>2 DEF Winner

(* An answer that names another request, or none, makes nobody a winner.   *)
LEMMA Told1 ==
  ASSUME NEW r \in Requests, NEW answer,
         \A q \in Requests \ {r} : call'[q] = call[q],
         call'[r].body = call[r].body, call'[r].answer = answer
  PROVE  /\ UNCHANGED Asked /\ Told' = [Told EXCEPT ![r] = answer]
         /\ answer # r /\ call[r].answer # r => UNCHANGED Winner
  <1>1. UNCHANGED Asked /\ Told' = [Told EXCEPT ![r] = answer]
    BY DEF Asked, Told
  <1>2. ASSUME answer # r, call[r].answer # r PROVE UNCHANGED Winner
    <2>1. Winners' = Winners
      BY <1>2 DEF Winners
    <2> QED BY <2>1 DEF Winner
  <1> QED BY <1>1, <1>2

LEMMA InitPromise == Init => Promise!Init
  <1> SUFFICES ASSUME Init PROVE Promise!Init
    OBVIOUS
  <1>1. Asked = [r \in Requests |-> None] /\ Told = [r \in Requests |-> None]
    BY DEF Init, Asked, Told
  <1>2. Winner = None
    BY Distinct DEF Init, Winner, Winners
  <1> QED BY <1>1, <1>2 DEF Promise!Init, Asked, Told, Winner

LEMMA NextPromise == IInv /\ [Next]_vars => [Promise!Next]_<<Asked, Told, Winner>>
  <1> SUFFICES ASSUME IInv, Next PROVE [Promise!Next]_<<Asked, Told, Winner>>
    <2>1. UNCHANGED vars => UNCHANGED <<Asked, Told, Winner>>
      BY DEF vars, Asked, Told, Winner, Winners
    <2> QED BY <2>1
  <1>1. PICK r \in Requests : Arrive(r) \/ Step(r) \/ Die(r)
    BY DEF Next
  <1> DEFINE Silent == \A q \in Requests :
                         call'[q].body = call[q].body /\ call'[q].answer = call[q].answer
  <1>2. CASE Silent
    BY <1>2, Unseen
  <1>3. CASE Arrive(r)
    <2>1. PICK body \in Bodies :
            call' = [call EXCEPT ![r] = [@ EXCEPT !.pc = "insert", !.body = body]]
      BY <1>3 DEF Arrive
    <2>2. /\ call'[r].body = body /\ call'[r].answer = call[r].answer
          /\ \A q \in Requests \ {r} : call'[q] = call[q]
      BY <2>1 DEF IInv, TypeOK, Call
    <2>3. call[r].body = None
      BY <1>3, Typed DEF Arrive, CallOK
    <2>4. Asked[r] = None /\ Asked' = [Asked EXCEPT ![r] = body]
      BY <2>2, <2>3 DEF Asked
    <2>5. UNCHANGED Told /\ Winners' = Winners
      BY <2>2 DEF Told, Winners
    <2>6. UNCHANGED Winner
      BY <2>5 DEF Winner
    <2>7. Promise!Ask(r, body)
      BY <2>4, <2>5, <2>6 DEF Promise!Ask, Asked, Told, Winner
    <2> QED BY <2>7 DEF Promise!Next
  <1>4. CASE Answer(r)
    <2>1. /\ call'[r].body = call[r].body /\ call'[r].answer = r
          /\ \A q \in Requests \ {r} : call'[q] = call[q]
      BY <1>4, Says DEF Answer
    <2>2. call[r].answer = None /\ call[r].body # None /\ record.owner = r
      BY <1>4, Typed DEF Answer, CallOK
    <2>3. Winners = {}
      BY <2>2, WinnerIs, Distinct DEF Winners
    <2>4. Winners' = {r}
      BY <2>1, <2>3 DEF Winners
    <2>5. Winner = None /\ Winner' = r
      BY <2>3, <2>4 DEF Winner
    <2>6. UNCHANGED Asked /\ Told' = [Told EXCEPT ![r] = r]
      BY <2>1, Told1
    <2>7. Asked[r] # None /\ Told[r] = None
      BY <2>2 DEF Asked, Told
    <2>8. Promise!Succeed(r)
      BY <2>5, <2>6, <2>7 DEF Promise!Succeed, Asked, Told, Winner
    <2> QED BY <2>8 DEF Promise!Next
  <1>5. CASE Replay(r)
    <2>1. /\ RecordOK /\ record \in Record /\ CallOK(r)
          /\ call[r].answer = None /\ call[r].body # None
          /\ record.status = "completed" /\ record.body = call[r].body
      BY <1>5, Typed DEF Replay, Replayable, CallOK
    <2>2. record.owner \in Requests /\ call[record.owner].answer = record.owner
      BY <2>1 DEF RecordOK, Record, Absent
    <2>3. Winner = record.owner /\ record.owner # r
      BY <2>1, <2>2, WinnerIs, Distinct DEF Winners
    <2>4. /\ call'[r].body = call[r].body /\ call'[r].answer = record.owner
          /\ \A q \in Requests \ {r} : call'[q] = call[q]
      BY <1>5, <2>2, Says DEF Replay
    <2>5. /\ UNCHANGED <<Asked, Winner>> /\ Told' = [Told EXCEPT ![r] = Winner]
      BY <2>1, <2>3, <2>4, Told1, Distinct
    <2>6. Told[r] = None /\ Winner # None /\ Asked[r] = Asked[Winner]
      BY <2>1, <2>2, <2>3, Distinct DEF Told, Asked, RecordOK
    <2>7. Promise!Repeat(r)
      BY <2>5, <2>6 DEF Promise!Repeat, Asked, Told, Winner
    <2> QED BY <2>7 DEF Promise!Next
  <1>6. CASE Refuse(r) \/ HandlerThrows(r) \/ (Die(r) /\ call[r].pc \in {"insert", "read"})
    <2>1. call[r].answer = None /\ call[r].body # None
      BY <1>6, Typed DEF Refuse, HandlerThrows, CallOK
    <2>2. /\ call'[r].body = call[r].body /\ call'[r].answer = Declined
          /\ \A q \in Requests \ {r} : call'[q] = call[q]
      BY <1>6, Says DEF Refuse, HandlerThrows, Die
    <2>3. UNCHANGED <<Asked, Winner>> /\ Told' = [Told EXCEPT ![r] = Declined]
      BY <2>1, <2>2, Told1, Distinct
    <2>4. Asked[r] # None /\ Told[r] = None
      BY <2>1 DEF Asked, Told
    <2>5. Promise!Decline(r)
      BY <2>3, <2>4 DEF Promise!Decline, Promise!Declined, Declined, Asked, Told, Winner
    <2> QED BY <2>5 DEF Promise!Next
  <1>7. CASE \E label \in {"read", "handler", "answer", "done"} : Goes(r, label)
    <2>1. Silent
      BY <1>7, Moves
    <2> QED BY <2>1, <1>2
  <1> QED BY <1>1, <1>3, <1>4, <1>5, <1>6, <1>7
          DEF Step, Insert, InsertIgnored, Perform, Store, Release, Die

(* What the requests are told is what OnceAnswered allows: one success at  *)
(* most, repeated only to the same request.                                *)
THEOREM SpecKeepsThePromise == Spec => KeepsThePromise
  <1>1. Init => Promise!Init
    BY InitPromise
  <1>2. IInv /\ [Next]_vars => [Promise!Next]_<<Asked, Told, Winner>>
    BY NextPromise
  <1> QED BY <1>1, <1>2, Invariance, PTL
          DEF Spec, KeepsThePromise, Promise!Spec, Asked, Told, Winner
=============================================================================
