----------------------- MODULE RecurringEntriesProofs -----------------------
(***************************************************************************)
(* Recurring entries keep the promise of RecurringSchedule, and the cron   *)
(* never overtakes an occurrence it did not queue.                         *)
(***************************************************************************)
EXTENDS RecurringEntries, FiniteSetTheorems, TLAPS

(* A firing holds the advisory lock, and a claim while it works on a key.  *)
Busy == {"work", "finish", "release"}
FiringOK ==
  \A r \in Replicas :
    /\ firing[r].pc # "idle" => holder = r
    /\ firing[r].pc \in Busy =>
         firing[r].key \in firing[r].todo /\ claim[firing[r].key] = "claimed"
    /\ firing[r].pc \notin Busy => firing[r].key = NoKey
    /\ firing[r].pc \in {"idle", "unlock"} => firing[r].todo = {}

(* A worker that is about to post has its template locked.                 *)
WorkOK ==
  \A w \in Workers :
    /\ work[w].pc = "idle" <=> work[w].key = NoKey
    /\ work[w].pc = "post" =>
         /\ lock[work[w].key[1]] = w
         /\ template[work[w].key[1]] = "active"
         /\ work[w].key \notin entries
    /\ \A t \in Templates : lock[t] = w => work[w].pc = "post" /\ work[w].key[1] = t

(* Somebody has come to an occurrence; nobody will give its claim back.    *)
Touched(k) ==
  \/ claim[k] # "free" \/ job[k].state # "none" \/ k \in entries
  \/ \E w \in Workers : work[w].key = k
Passed(k) ==
  \/ k \in entries
  \/ claim[k] # "free" /\ \A r \in Replicas : firing[r].key # k
Earlier(j, k) == j[1] = k[1] /\ j[2] < k[2]

DueOK ==
  /\ \A k \in Keys : Touched(k) => k[2] <= today
  /\ \A r \in Replicas : \A k \in firing[r].todo : k[2] <= today

(* Occurrences of a template are passed in the order of their dates.       *)
OrderOK ==
  /\ \A j, k \in Keys : Earlier(j, k) /\ Touched(k) => Passed(j)
  /\ \A r \in Replicas : \A k \in firing[r].todo : \A j \in Keys :
       Earlier(j, k) => j \in firing[r].todo \/ Passed(j)

IInv == TypeOK /\ FiringOK /\ WorkOK /\ LastRunIsTheLatest /\ DueOK /\ OrderOK

-----------------------------------------------------------------------------

LEMMA KeyParts ==
  /\ \A k \in Keys : k[1] \in Templates /\ k[2] \in Dates /\ k[2] \in Nat /\ k = <<k[1], k[2]>>
  /\ \A t \in Templates : \A d \in Dates : <<t, d>> \in Keys
  /\ NoKey \notin Keys
  BY EntriesAssumption, LockAssumption DEF Dates

LEMMA InitIInv == Init => IInv
  <1> SUFFICES ASSUME Init PROVE IInv
    OBVIOUS
  <1> USE KeyParts
  <1>1. TypeOK
    BY LockAssumption, EntriesAssumption
       DEF Init, LockInit, TypeOK, LockTypeOK, Firing, NoFiring, FiringLabels, ClaimStates,
           Job, NoJob, Work, NoWork, Dates
  <1>2. FiringOK /\ WorkOK
    BY EntriesAssumption
       DEF Init, LockInit, FiringOK, WorkOK, NoFiring, NoWork, Busy
  <1>3. LastRunIsTheLatest
    BY DEF Init, LastRunIsTheLatest
  <1>4. DueOK /\ OrderOK
    <2>1. \A k \in Keys : ~Touched(k)
      BY DEF Init, LockInit, Touched, NoJob, NoWork
    <2>2. \A r \in Replicas : firing[r].todo = {}
      BY DEF Init, LockInit, NoFiring
    <2>3. QED BY <2>1, <2>2 DEF DueOK, OrderOK
  <1>5. QED BY <1>1, <1>2, <1>3, <1>4 DEF IInv

(* What the cron leaves alone.                                             *)
CronFrame == UNCHANGED <<today, template, lastRun, entries, work, lock>>
LEMMA CronFrameKeeps ==
  ASSUME IInv, CronFrame
  PROVE  WorkOK' /\ LastRunIsTheLatest'
  BY DEF IInv, CronFrame, WorkOK, LastRunIsTheLatest

(* A firing that takes a key off its list has passed it.                   *)
LEMMA OnlyOneFires ==
  ASSUME IInv, NEW r \in Replicas, firing[r].pc # "idle",
         NEW s \in Replicas, s # r
  PROVE  firing[s].pc = "idle" /\ firing[s].key = NoKey /\ firing[s].todo = {}
  BY DEF IInv, FiringOK, Busy

(* When a step touches nothing new and unpasses nothing, the order stays.  *)
LEMMA OrderFrame ==
  ASSUME IInv,
         \A k \in Keys : Touched(k)' => Touched(k),
         \A k \in Keys : Passed(k) => Passed(k)',
         \A r \in Replicas : \A k \in firing'[r].todo :
            k \in firing[r].todo,
         \A r \in Replicas : firing'[r].todo # {} =>
            \A k \in firing[r].todo : k \in firing'[r].todo \/ Passed(k)',
         \A r \in Replicas : firing[r].todo \subseteq Keys,
         today' \in Nat, today <= today'
  PROVE  DueOK' /\ OrderOK'
  <1>0. today \in Nat
    BY DEF IInv, TypeOK, Dates
  <1>1. DueOK'
    BY <1>0, KeyParts DEF IInv, DueOK
  <1>2. ASSUME NEW j \in Keys, NEW k \in Keys, Earlier(j, k), Touched(k)'
        PROVE  Passed(j)'
    BY <1>2 DEF IInv, OrderOK
  <1>3. ASSUME NEW r \in Replicas, NEW k \in firing'[r].todo, NEW j \in Keys, Earlier(j, k)
        PROVE  j \in firing'[r].todo \/ Passed(j)'
    <2>1. k \in firing[r].todo
      BY <1>3
    <2>2. j \in firing[r].todo \/ Passed(j)
      BY <1>3, <2>1 DEF IInv, OrderOK
    <2>3. firing'[r].todo # {}
      BY <1>3
    <2>4. QED BY <2>2, <2>3
  <1>4. QED BY <1>1, <1>2, <1>3 DEF OrderOK, Earlier

-----------------------------------------------------------------------------
(* The cron.                                                               *)

LEMMA FireKeeps ==
  ASSUME IInv, NEW r \in Replicas, Fire(r)
  PROVE  IInv'
  <1> DEFINE keys == {k \in Keys : template[k[1]] = "active" /\ k[2] \in DueDates(k[1])}
  <1> USE KeyParts
  <1>0. /\ TakeLock(r, keys)
        /\ UNCHANGED <<today, template, lastRun, entries, job, work, lock, claim, faults>>
    BY DEF Fire, TakeLock
  <1>1. TypeOK'
    BY <1>0 DEF TakeLock, IInv, TypeOK, LockTypeOK, Firing, FiringLabels
  <1>2. FiringOK'
    <2>1. \A s \in Replicas : firing[s].pc = "idle"
      BY <1>0, LockAssumption DEF TakeLock, IInv, FiringOK
    <2>2. /\ firing'[r] = [pc |-> "next", todo |-> keys, key |-> NoKey] /\ holder' = r
          /\ \A s \in Replicas : s # r => firing'[s] = firing[s]
      BY <1>0 DEF TakeLock, IInv, TypeOK, LockTypeOK
    <2>3. QED BY <1>0, <2>1, <2>2 DEF IInv, FiringOK, Busy
  <1>3. WorkOK' /\ LastRunIsTheLatest'
    BY <1>0, CronFrameKeeps DEF CronFrame
  <1>4. /\ \A k \in Keys : (Touched(k)' <=> Touched(k)) /\ (Passed(k) => Passed(k)')
        /\ firing'[r].todo = keys /\ \A s \in Replicas : s # r => firing'[s] = firing[s]
    BY <1>0 DEF Touched, Passed, TakeLock, IInv, TypeOK, LockTypeOK
  <1>5. \A k \in keys : k[2] <= today /\ k \in Keys
    BY DEF DueDates, Ahead
  <1>6. ASSUME NEW k \in keys, NEW j \in Keys, Earlier(j, k)
        PROVE  j \in keys \/ Passed(j)
    <2> DEFINE t == k[1]
    <2>0. k[2] \in DueDates(t) /\ template[t] = "active" /\ k \in Keys
      BY <1>6
    <2>1. /\ t \in Templates /\ j[1] = t /\ j[2] < k[2] /\ k[2] \in Ahead(t)
          /\ lastRun[t] \in Nat /\ today \in Nat /\ template[t] = "active"
          /\ Cardinality({e \in Ahead(t) : e < k[2]}) < MaxCatchUp
      <3>1. lastRun[t] \in Nat /\ today \in Nat
        BY <2>0 DEF IInv, TypeOK, Dates
      <3>2. k[2] \in Ahead(t) /\ Cardinality({e \in Ahead(t) : e < k[2]}) < MaxCatchUp
        BY <2>0 DEF DueDates
      <3>3. QED BY <1>6, <2>0, <3>1, <3>2 DEF Earlier
    <2>2. CASE lastRun[t] < j[2]
      <3> DEFINE J == {e \in Ahead(t) : e < j[2]}
      <3> DEFINE K == {e \in Ahead(t) : e < k[2]}
      <3>1. j[2] \in Ahead(t)
        BY <2>1, <2>2 DEF Ahead, Dates
      <3>2. J \subseteq K
        BY <2>1 DEF Ahead, Dates
      <3>3. IsFiniteSet(K)
        <4>1. K \subseteq 1 .. MaxDate
          BY DEF Ahead, Dates
        <4>2. IsFiniteSet(1 .. MaxDate)
          BY EntriesAssumption, FS_Interval
        <4>3. QED BY <4>1, <4>2, FS_Subset
      <3>4. Cardinality(J) <= Cardinality(K) /\ Cardinality(J) \in Nat /\ Cardinality(K) \in Nat
        BY <3>2, <3>3, FS_Subset, FS_CardinalityType
      <3>5. Cardinality(J) < MaxCatchUp
        BY <2>1, <3>4, EntriesAssumption
      <3>6. j[2] \in DueDates(t)
        BY <3>1, <3>5 DEF DueDates
      <3>7. QED BY <2>1, <3>6
    <2>3. CASE j[2] <= lastRun[t]
      <3> DEFINE l == <<t, lastRun[t]>>
      <3>1. l \in entries /\ l \in Keys
        BY <2>1, <2>3 DEF IInv, LastRunIsTheLatest, TypeOK, Dates
      <3>2. j = l \/ Earlier(j, l)
        BY <2>1, <2>3 DEF Earlier
      <3>3. QED BY <3>1, <3>2 DEF IInv, OrderOK, Passed, Touched
    <2>4. QED BY <2>1, <2>2, <2>3
  <1>7. DueOK'
    BY <1>0, <1>4, <1>5 DEF IInv, DueOK
  <1>8. OrderOK'
    <2>1. \A j, k \in Keys : Earlier(j, k) /\ Touched(k)' => Passed(j)'
      BY <1>4 DEF IInv, OrderOK
    <2>2. ASSUME NEW s \in Replicas, NEW k \in firing'[s].todo, NEW j \in Keys, Earlier(j, k)
          PROVE  j \in firing'[s].todo \/ Passed(j)'
      <3>1. CASE s = r
        BY <2>2, <3>1, <1>4, <1>6
      <3>2. CASE s # r
        BY <2>2, <3>2, <1>4 DEF IInv, OrderOK
      <3>3. QED BY <3>1, <3>2
    <2>3. QED BY <2>1, <2>2 DEF OrderOK, Earlier
  <1>9. QED BY <1>1, <1>2, <1>3, <1>7, <1>8 DEF IInv

LEMMA EnqueueNextKeeps ==
  ASSUME IInv, NEW r \in Replicas, EnqueueNext(r)
  PROVE  IInv'
  <1> USE KeyParts
  <1>0. PICK k \in firing[r].todo : IsOldest(r, k) /\ (Claim(r, k) \/ SkipClaimed(r, k))
    BY DEF EnqueueNext
  <1>a. /\ k \in Keys /\ firing[r].pc = "next" /\ firing[r].key = NoKey /\ firing[r].todo \subseteq Keys
        /\ \A s \in Replicas : s # r => firing[s].key = NoKey /\ firing[s].todo = {}
        /\ CronFrame /\ UNCHANGED <<job, holder, faults>>
    <2>1. firing[r] \in Firing /\ firing[r].pc = "next"
      BY <1>0 DEF Claim, SkipClaimed, IInv, TypeOK, LockTypeOK
    <2>2. firing[r].key = NoKey
      BY <2>1 DEF IInv, FiringOK, Busy
    <2>3. QED
      BY <1>0, <2>1, <2>2, OnlyOneFires
         DEF EnqueueNext, CronFrame, Claim, SkipClaimed, Firing
  <1>b. \A j \in Keys : Earlier(j, k) => Passed(j)
    <2> SUFFICES ASSUME NEW j \in Keys, Earlier(j, k)
                 PROVE  Passed(j)
      OBVIOUS
    <2>1. j \notin firing[r].todo
      BY <1>0, <1>a DEF IsOldest, Earlier
    <2>2. QED BY <2>1 DEF IInv, OrderOK
  <1>3. WorkOK' /\ LastRunIsTheLatest'
    BY <1>a, CronFrameKeeps
  <1>4. CASE Claim(r, k)
    <2>1. /\ claim[k] = "free" /\ claim' = [claim EXCEPT ![k] = "claimed"]
          /\ firing' = [firing EXCEPT ![r].pc = "work", ![r].key = k]
      BY <1>4 DEF Claim
    <2>2. TypeOK'
      BY <1>a, <2>1 DEF CronFrame, IInv, TypeOK, LockTypeOK, Firing, FiringLabels, ClaimStates
    <2>3. /\ firing'[r].pc = "work" /\ firing'[r].key = k /\ firing'[r].todo = firing[r].todo
          /\ \A s \in Replicas : s # r => firing'[s] = firing[s]
          /\ claim'[k] = "claimed" /\ \A j \in Keys : j # k => claim'[j] = claim[j]
      BY <1>a, <2>1 DEF IInv, TypeOK, LockTypeOK, Firing
    <2>4. FiringOK'
      <3>1. holder = r /\ holder' = holder
        BY <1>a DEF IInv, FiringOK
      <3>2. \A s \in Replicas : s # r => firing[s].pc = "idle"
        BY <1>a, OnlyOneFires
      <3>3. QED BY <1>0, <1>a, <2>3, <3>1, <3>2 DEF FiringOK, Busy
    <2>5. \A j \in Keys : Passed(j) => Passed(j)'
      <3> SUFFICES ASSUME NEW j \in Keys, Passed(j) PROVE Passed(j)'
        OBVIOUS
      <3>1. CASE j \in entries
        BY <1>a, <3>1 DEF CronFrame, Passed
      <3>2. CASE claim[j] # "free" /\ \A s \in Replicas : firing[s].key # j
        <4>1. j # k
          BY <2>1, <3>2
        <4>2. claim'[j] # "free" /\ \A s \in Replicas : firing'[s].key # j
          BY <2>3, <3>2, <4>1
        <4>3. QED BY <4>2 DEF Passed
      <3>3. QED BY <3>1, <3>2 DEF Passed
    <2>6. \A j \in Keys : j # k /\ Touched(j)' => Touched(j)
      BY <1>a, <2>3 DEF CronFrame, Touched
    <2>7. DueOK'
      BY <1>a, <2>3, <2>6 DEF CronFrame, IInv, DueOK
    <2>8. OrderOK'
      <3>1. \A i, j \in Keys : Earlier(i, j) /\ Touched(j)' => Passed(i)'
        BY <1>b, <2>5, <2>6 DEF IInv, OrderOK
      <3>2. \A s \in Replicas : firing'[s].todo = firing[s].todo
        BY <2>3
      <3>3. \A s \in Replicas : \A i \in firing'[s].todo : \A j \in Keys :
              Earlier(j, i) => j \in firing'[s].todo \/ Passed(j)'
        BY <2>5, <3>2 DEF IInv, OrderOK
      <3>4. QED BY <3>1, <3>3 DEF OrderOK, Earlier
    <2>9. QED BY <1>3, <2>2, <2>4, <2>7, <2>8 DEF IInv
  <1>5. CASE SkipClaimed(r, k)
    <2>1. /\ claim[k] # "free" /\ claim' = claim
          /\ firing' = [firing EXCEPT ![r].todo = @ \ {k}]
      BY <1>5 DEF SkipClaimed
    <2>2. TypeOK'
      BY <1>a, <2>1 DEF CronFrame, IInv, TypeOK, LockTypeOK, Firing, FiringLabels, ClaimStates
    <2>3. /\ firing'[r].pc = "next" /\ firing'[r].key = NoKey
          /\ firing'[r].todo = firing[r].todo \ {k}
          /\ \A s \in Replicas : s # r => firing'[s] = firing[s]
      BY <1>a, <2>1 DEF IInv, TypeOK, LockTypeOK, Firing
    <2>4. FiringOK'
      <3>1. holder = r /\ holder' = holder
        BY <1>a DEF IInv, FiringOK
      <3>2. \A s \in Replicas : s # r => firing[s].pc = "idle"
        BY <1>a, OnlyOneFires
      <3>3. QED BY <1>a, <2>1, <2>3, <3>1, <3>2 DEF FiringOK, Busy
    <2>5. /\ Passed(k)'
          /\ \A j \in Keys : (Passed(j) => Passed(j)') /\ (Touched(j)' => Touched(j))
      BY <1>a, <2>1, <2>3 DEF CronFrame, Passed, Touched
    <2>6. today' \in Nat /\ today <= today'
      BY <1>a DEF CronFrame, IInv, TypeOK, Dates
    <2>7. \A s \in Replicas : firing[s].todo \subseteq Keys
      BY DEF IInv, TypeOK, LockTypeOK, Firing
    <2>8. \A s \in Replicas : \A j \in firing'[s].todo : j \in firing[s].todo
      BY <2>3
    <2>9. \A s \in Replicas : \A j \in firing[s].todo : j \in firing'[s].todo \/ Passed(j)'
      BY <2>3, <2>5
    <2>10. DueOK' /\ OrderOK'
      BY <2>5, <2>6, <2>7, <2>8, <2>9, OrderFrame
    <2>11. QED BY <1>3, <2>2, <2>4, <2>10 DEF IInv
  <1>6. QED BY <1>0, <1>4, <1>5

(* A replica at work on a key: the others are idle, the key is claimed.    *)
LEMMA BusyKey ==
  ASSUME IInv, NEW r \in Replicas, firing[r].pc \in Busy
  PROVE  /\ firing[r].key \in firing[r].todo /\ claim[firing[r].key] = "claimed"
         /\ firing[r].key \in Keys /\ holder = r
         /\ \A s \in Replicas : s # r =>
              firing[s].pc = "idle" /\ firing[s].key = NoKey /\ firing[s].todo = {}
         /\ \A s \in Replicas : firing[s].todo \subseteq Keys
  BY OnlyOneFires DEF IInv, FiringOK, Busy, TypeOK, LockTypeOK, Firing

LEMMA AddKeeps ==
  ASSUME IInv, NEW r \in Replicas, Add(r) \/ AddFails(r)
  PROVE  IInv'
  <1> USE KeyParts
  <1> DEFINE k == firing[r].key
  <1>0. /\ firing[r].pc = "work"
        /\ (AddJob(k) \/ UNCHANGED job) /\ CronFrame /\ UNCHANGED <<claim, holder>>
        /\ \E p \in {"finish", "release"} : firing' = [firing EXCEPT ![r].pc = p]
        /\ UNCHANGED faults \/ Faulty
    BY DEF Add, AddFails, WorkReturns, WorkThrows, CronFrame
  <1>1. k \in Keys /\ claim[k] = "claimed" /\ \A s \in Replicas : firing[s].todo \subseteq Keys
    BY <1>0, BusyKey DEF Busy
  <1>2. TypeOK'
    <2>1. job' \in [Keys -> Job]
      BY <1>0, <1>1, EntriesAssumption
         DEF AddJob, IInv, TypeOK, Job, NewJob, NoJob
    <2>2. firing' \in [Replicas -> Firing]
      BY <1>0 DEF IInv, TypeOK, LockTypeOK, Firing, FiringLabels
    <2>3. faults' \in 0 .. MaxFaults
      BY <1>0, LockAssumption DEF Faulty, IInv, TypeOK, LockTypeOK
    <2>4. QED BY <1>0, <2>1, <2>2, <2>3 DEF CronFrame, IInv, TypeOK, LockTypeOK
  <1>3. /\ firing'[r].pc \in {"finish", "release"}
        /\ \A s \in Replicas : firing'[s].key = firing[s].key /\ firing'[s].todo = firing[s].todo
        /\ \A s \in Replicas : s # r => firing'[s] = firing[s]
    BY <1>0 DEF IInv, TypeOK, LockTypeOK, Firing
  <1>4. FiringOK'
    BY <1>0, <1>3 DEF IInv, FiringOK, Busy
  <1>5. WorkOK' /\ LastRunIsTheLatest'
    BY <1>0, CronFrameKeeps
  <1>6. \A j \in Keys : j # k => job'[j] = job[j]
    BY <1>0, <1>1 DEF AddJob, IInv, TypeOK
  <1>7. \A j \in Keys : (Touched(j)' => Touched(j)) /\ (Passed(j) => Passed(j)')
    BY <1>0, <1>1, <1>3, <1>6 DEF CronFrame, Touched, Passed
  <1>8. today' \in Nat /\ today <= today'
    BY <1>0 DEF CronFrame, IInv, TypeOK, Dates
  <1>9. DueOK' /\ OrderOK'
    BY <1>1, <1>3, <1>7, <1>8, OrderFrame
  <1>10. QED BY <1>2, <1>4, <1>5, <1>9 DEF IInv

LEMMA EndFiringKeeps ==
  ASSUME IInv, NEW r \in Replicas, EndFiring(r)
  PROVE  IInv'
  <1> USE KeyParts
  <1> DEFINE k == firing[r].key
  <1>0. CronFrame /\ UNCHANGED job
    BY DEF EndFiring, CronFrame
  <1>1. WorkOK' /\ LastRunIsTheLatest'
    BY <1>0, CronFrameKeeps
  <1>2. /\ today' \in Nat /\ today <= today' /\ \A s \in Replicas : firing[s].todo \subseteq Keys
    BY <1>0 DEF CronFrame, IInv, TypeOK, LockTypeOK, Firing, Dates
  <1>3. CASE Finish(r)
    <2>1. /\ firing[r].pc = "finish" /\ claim' = [claim EXCEPT ![k] = "finished"]
          /\ firing' = [firing EXCEPT ![r] = [pc |-> "next", todo |-> @.todo \ {k}, key |-> NoKey]]
          /\ UNCHANGED <<holder, faults>>
      BY <1>3 DEF Finish
    <2>2. k \in Keys /\ claim[k] = "claimed" /\ holder = r
      BY <2>1, BusyKey DEF Busy
    <2>3. TypeOK'
      BY <1>0, <2>1, <2>2
         DEF CronFrame, IInv, TypeOK, LockTypeOK, Firing, FiringLabels, ClaimStates
    <2>4. /\ firing'[r] = [pc |-> "next", todo |-> firing[r].todo \ {k}, key |-> NoKey]
          /\ \A s \in Replicas : s # r => firing'[s] = firing[s]
          /\ claim'[k] = "finished" /\ \A j \in Keys : j # k => claim'[j] = claim[j]
      BY <2>1, <2>2 DEF IInv, TypeOK, LockTypeOK, Firing
    <2>5. \A s \in Replicas : s # r => firing[s].pc = "idle" /\ firing[s].key = NoKey
      BY <2>1, BusyKey DEF Busy
    <2>6. FiringOK'
      BY <2>1, <2>2, <2>4, <2>5 DEF IInv, FiringOK, Busy
    <2>q. PICK q \in Keys : q = k
      BY <2>2
    <2>7. /\ Passed(q)'
          /\ \A j \in Keys : (Passed(j) => Passed(j)') /\ (Touched(j)' => Touched(j))
      <3>1. \A s \in Replicas : firing'[s].key = NoKey
        BY <2>4, <2>5
      <3>2. \A j \in Keys : claim[j] # "free" <=> claim'[j] # "free"
        BY <2>2, <2>4
      <3>3. claim'[q] # "free" /\ q # NoKey
        BY <2>2, <2>4, <2>q
      <3>4. Passed(q)'
        BY <3>1, <3>3 DEF Passed
      <3>5. \A j \in Keys : Passed(j) => Passed(j)'
        BY <1>0, <3>1, <3>2 DEF CronFrame, Passed
      <3>6. \A j \in Keys : Touched(j)' => Touched(j)
        BY <1>0, <3>2 DEF CronFrame, Touched
      <3>7. QED BY <3>4, <3>5, <3>6
    <2>8. /\ \A s \in Replicas : \A j \in firing'[s].todo : j \in firing[s].todo
          /\ \A s \in Replicas : \A j \in firing[s].todo : j \in firing'[s].todo \/ Passed(j)'
      <3>1. firing'[r].todo = firing[r].todo \ {q}
        BY <2>4, <2>q
      <3>2. QED BY <2>4, <2>7, <3>1
    <2>9. DueOK' /\ OrderOK'
      BY <1>2, <2>7, <2>8, OrderFrame
    <2>10. QED BY <1>1, <2>3, <2>6, <2>9 DEF IInv
  <1>4. CASE FinishThrows(r)
    <2>1. /\ firing[r].pc = "finish" /\ firing' = [firing EXCEPT ![r].pc = "release"]
          /\ Faulty /\ UNCHANGED <<claim, holder>>
      BY <1>4 DEF FinishThrows
    <2>2. TypeOK'
      BY <1>0, <2>1, LockAssumption
         DEF CronFrame, Faulty, IInv, TypeOK, LockTypeOK, Firing, FiringLabels
    <2>3. /\ firing'[r].pc = "release"
          /\ \A s \in Replicas : firing'[s].key = firing[s].key /\ firing'[s].todo = firing[s].todo
          /\ \A s \in Replicas : s # r => firing'[s] = firing[s]
      BY <2>1 DEF IInv, TypeOK, LockTypeOK, Firing
    <2>4. FiringOK'
      BY <2>1, <2>3 DEF IInv, FiringOK, Busy
    <2>5. \A j \in Keys : (Touched(j)' => Touched(j)) /\ (Passed(j) => Passed(j)')
      BY <1>0, <2>1, <2>3 DEF CronFrame, Touched, Passed
    <2>6. DueOK' /\ OrderOK'
      BY <1>2, <2>3, <2>5, OrderFrame
    <2>7. QED BY <1>1, <2>2, <2>4, <2>6 DEF IInv
  <1>5. CASE Release(r)
    <2>1. /\ firing[r].pc = "release" /\ claim' = [claim EXCEPT ![k] = "free"]
          /\ firing' = [firing EXCEPT ![r] = [pc |-> "unlock", todo |-> {}, key |-> NoKey]]
          /\ UNCHANGED <<holder, faults>>
      BY <1>5 DEF Release
    <2>2. k \in Keys /\ claim[k] = "claimed" /\ holder = r
      BY <2>1, BusyKey DEF Busy
    <2>3. TypeOK'
      BY <1>0, <2>1, <2>2
         DEF CronFrame, IInv, TypeOK, LockTypeOK, Firing, FiringLabels, ClaimStates
    <2>4. /\ firing'[r] = [pc |-> "unlock", todo |-> {}, key |-> NoKey]
          /\ \A s \in Replicas : s # r => firing'[s] = firing[s]
          /\ claim'[k] = "free" /\ \A j \in Keys : j # k => claim'[j] = claim[j]
      BY <2>1, <2>2 DEF IInv, TypeOK, LockTypeOK, Firing
    <2>5. \A s \in Replicas : s # r => firing[s].pc = "idle" /\ firing[s].key = NoKey
      BY <2>1, BusyKey DEF Busy
    <2>6. FiringOK'
      BY <2>1, <2>2, <2>4, <2>5 DEF IInv, FiringOK, Busy
    <2>7. \A j \in Keys : (Passed(j) => Passed(j)') /\ (Touched(j)' => Touched(j))
      BY <1>0, <2>2, <2>4, <2>5 DEF CronFrame, Passed, Touched
    <2>8. /\ \A s \in Replicas : \A j \in firing'[s].todo : j \in firing[s].todo
          /\ \A s \in Replicas : firing'[s].todo # {} =>
               \A j \in firing[s].todo : j \in firing'[s].todo \/ Passed(j)'
      BY <2>4, <2>7
    <2>9. DueOK' /\ OrderOK'
      BY <1>2, <2>7, <2>8, OrderFrame
    <2>10. QED BY <1>1, <2>3, <2>6, <2>9 DEF IInv
  <1>6. CASE ReleaseThrows(r) \/ Unlock(r) \/ Die(r)
    <2>1. /\ UNCHANGED claim /\ firing[r].pc # "idle"
          /\ \E f \in Firing : /\ firing' = [firing EXCEPT ![r] = f]
                               /\ f.todo = {} /\ f.key = NoKey
                               /\ f.pc = "idle" \/ (f.pc = "unlock" /\ holder' = holder)
          /\ holder' \in Replicas \cup {NoReplica} /\ faults' \in 0 .. MaxFaults
      <3> DEFINE f == [pc |-> "unlock", todo |-> {}, key |-> NoKey]
      <3>0. f \in Firing /\ NoFiring \in Firing
        BY DEF Firing, NoFiring, FiringLabels
      <3>1. CASE ReleaseThrows(r)
        <4>1. firing' = [firing EXCEPT ![r] = f] /\ UNCHANGED <<claim, holder>>
          BY <3>1 DEF ReleaseThrows
        <4>2. faults' \in 0 .. MaxFaults
          BY <3>1, LockAssumption DEF ReleaseThrows, Faulty, IInv, TypeOK, LockTypeOK
        <4>3. firing[r].pc # "idle" /\ holder \in Replicas \cup {NoReplica}
          BY <3>1 DEF ReleaseThrows, IInv, TypeOK, LockTypeOK
        <4>4. QED BY <3>0, <4>1, <4>2, <4>3
      <3>2. CASE Unlock(r) \/ Die(r)
        <4>1. firing' = [firing EXCEPT ![r] = NoFiring] /\ UNCHANGED claim /\ firing[r].pc # "idle"
          BY <3>2 DEF Unlock, Die
        <4>2. faults' \in 0 .. MaxFaults
          BY <3>2, LockAssumption DEF Unlock, Die, Faulty, IInv, TypeOK, LockTypeOK
        <4>3. holder' \in Replicas \cup {NoReplica}
          BY <3>2 DEF Unlock, Die, IInv, TypeOK, LockTypeOK
        <4>4. QED BY <3>0, <4>1, <4>2, <4>3 DEF NoFiring
      <3>3. QED BY <1>6, <3>1, <3>2
    <2>2. PICK f \in Firing : /\ firing' = [firing EXCEPT ![r] = f]
                              /\ f.todo = {} /\ f.key = NoKey
                              /\ f.pc = "idle" \/ (f.pc = "unlock" /\ holder' = holder)
      BY <2>1
    <2>3. TypeOK'
      BY <1>0, <2>1, <2>2 DEF CronFrame, IInv, TypeOK, LockTypeOK
    <2>4. firing'[r] = f /\ \A s \in Replicas : s # r => firing'[s] = firing[s]
      BY <2>2 DEF IInv, TypeOK, LockTypeOK
    <2>5. \A s \in Replicas : s # r => firing[s].pc = "idle" /\ firing[s].key = NoKey
      BY <2>1, OnlyOneFires
    <2>6. FiringOK'
      BY <2>1, <2>2, <2>4, <2>5 DEF IInv, FiringOK, Busy
    <2>7. \A j \in Keys : (Passed(j) => Passed(j)') /\ (Touched(j)' => Touched(j))
      BY <1>0, <2>1, <2>2, <2>4, <2>5 DEF CronFrame, Passed, Touched
    <2>8. /\ \A s \in Replicas : \A j \in firing'[s].todo : j \in firing[s].todo
          /\ \A s \in Replicas : firing'[s].todo # {} =>
               \A j \in firing[s].todo : j \in firing'[s].todo \/ Passed(j)'
      BY <2>2, <2>4, <2>7
    <2>9. DueOK' /\ OrderOK'
      BY <1>2, <2>7, <2>8, OrderFrame
    <2>10. QED BY <1>1, <2>3, <2>6, <2>9 DEF IInv
  <1>7. QED BY <1>3, <1>4, <1>5, <1>6 DEF EndFiring

-----------------------------------------------------------------------------
(* The worker and the queue.                                               *)

LEMMA WorkerFrame ==
  ASSUME IInv, UNCHANGED <<claim, holder, firing, today>>, entries \subseteq entries',
         \A k \in Keys : Touched(k)' => Touched(k)
  PROVE  FiringOK' /\ DueOK' /\ OrderOK'
  <1>1. FiringOK'
    BY DEF IInv, FiringOK
  <1>2. \A k \in Keys : Passed(k) => Passed(k)'
    BY DEF Passed
  <1>3. /\ today' \in Nat /\ today <= today' /\ \A s \in Replicas : firing[s].todo \subseteq Keys
    BY DEF IInv, TypeOK, LockTypeOK, Firing, Dates
  <1>4. DueOK' /\ OrderOK'
    BY <1>2, <1>3, OrderFrame
  <1>5. QED BY <1>1, <1>4

(* A worker that is not idle has a key; one that posts is alone on its     *)
(* template.                                                               *)
LEMMA WorkersKey ==
  ASSUME IInv, NEW w \in Workers, work[w].pc # "idle"
  PROVE  work[w].key \in Keys /\ work[w].key[1] \in Templates /\ work[w] \in Work
  BY KeyParts DEF IInv, TypeOK, WorkOK, Work

LEMMA NobodyPosts ==
  ASSUME IInv, NEW t \in Templates, lock[t] = NoWorker, NEW w \in Workers, work[w].pc = "post"
  PROVE  work[w].key[1] # t
  BY EntriesAssumption DEF IInv, WorkOK

LEMMA TakeKeeps ==
  ASSUME IInv, NEW w \in Workers, NEW k \in Keys, Take(w, k)
  PROVE  IInv'
  <1> USE KeyParts
  <1>0. /\ work[w].pc = "idle" /\ job[k].state = "waiting"
        /\ job' = [job EXCEPT ![k].state = "active", ![k].owner = w]
        /\ work' = [work EXCEPT ![w] = [pc |-> "begin", key |-> k]]
        /\ UNCHANGED <<lockVars, today, template, lastRun, entries, lock>>
    BY DEF Take
  <1>1. TypeOK'
    <2>0. job[k] \in Job
      BY DEF IInv, TypeOK
    <2>1. [job[k] EXCEPT !.state = "active", !.owner = w] \in Job
      BY <2>0 DEF Job
    <2>2. job' = [job EXCEPT ![k] = [job[k] EXCEPT !.state = "active", !.owner = w]]
      BY <1>0 DEF IInv, TypeOK
    <2>3. QED BY <1>0, <2>1, <2>2 DEF lockVars, IInv, TypeOK, LockTypeOK, Work
  <1>2. /\ work'[w].pc = "begin" /\ work'[w].key = k
        /\ \A v \in Workers : v # w => work'[v] = work[v]
        /\ \A j \in Keys : job'[j].state # "none" <=> job[j].state # "none"
    BY <1>0 DEF IInv, TypeOK, Job
  <1>3. WorkOK'
    BY <1>0, <1>2 DEF IInv, WorkOK
  <1>4. LastRunIsTheLatest'
    BY <1>0 DEF IInv, LastRunIsTheLatest
  <1>5. \A j \in Keys : Touched(j)' => Touched(j)
    BY <1>0, <1>2 DEF lockVars, Touched
  <1>6. QED BY <1>0, <1>1, <1>3, <1>4, <1>5, WorkerFrame DEF lockVars, IInv

LEMMA BeginKeeps ==
  ASSUME IInv, NEW w \in Workers, Begin(w)
  PROVE  IInv'
  <1> USE KeyParts
  <1>0. PICK k \in Keys : k = work[w].key /\ k[1] \in Templates /\ work[w] \in Work
    BY WorkersKey DEF Begin
  <1>1. /\ work[w].pc = "begin" /\ lock[k[1]] = NoWorker
        /\ template[k[1]] = "active" /\ k \notin entries
        /\ work' = [work EXCEPT ![w].pc = "post"]
        /\ lock' = [lock EXCEPT ![k[1]] = w]
        /\ UNCHANGED <<lockVars, today, template, lastRun, entries, job>>
    BY <1>0 DEF Begin
  <1>2. TypeOK'
    BY <1>1 DEF lockVars, IInv, TypeOK, LockTypeOK, Work
  <1>3. /\ work'[w].pc = "post" /\ work'[w].key = k
        /\ \A v \in Workers : v # w => work'[v] = work[v]
        /\ lock'[k[1]] = w /\ \A t \in Templates : t # k[1] => lock'[t] = lock[t]
    BY <1>0, <1>1 DEF IInv, TypeOK, Work
  <1>4. WorkOK'
    <2>1. \A v \in Workers : work[v].pc = "post" => work[v].key[1] # k[1] /\ work[v].key[1] \in Templates
      BY <1>0, <1>1, NobodyPosts, WorkersKey
    <2>2. \A t \in Templates : t # k[1] => lock[t] # w
      BY <1>0, <1>1 DEF IInv, WorkOK
    <2>3. ASSUME NEW v \in Workers
          PROVE  /\ work'[v].pc = "idle" <=> work'[v].key = NoKey
                 /\ work'[v].pc = "post" =>
                      /\ lock'[work'[v].key[1]] = v
                      /\ template[work'[v].key[1]] = "active"
                      /\ work'[v].key \notin entries
                 /\ \A t \in Templates :
                      lock'[t] = v => work'[v].pc = "post" /\ work'[v].key[1] = t
      <3>1. CASE v = w
        BY <1>0, <1>1, <1>3, <2>2, <3>1
      <3>2. CASE v # w
        BY <1>0, <1>1, <1>3, <2>1, <3>2 DEF IInv, WorkOK
      <3>3. QED BY <3>1, <3>2
    <2>4. QED BY <1>1, <2>3 DEF WorkOK
  <1>5. LastRunIsTheLatest'
    BY <1>1 DEF IInv, LastRunIsTheLatest
  <1>6. \A j \in Keys : Touched(j)' => Touched(j)
    BY <1>0, <1>1, <1>3 DEF lockVars, Touched
  <1>7. QED BY <1>1, <1>2, <1>4, <1>5, <1>6, WorkerFrame DEF lockVars, IInv

LEMMA BeginEndsKeeps ==
  ASSUME IInv, NEW w \in Workers, BeginReturns(w) \/ BeginThrows(w)
  PROVE  IInv'
  <1>0. PICK p \in {"returned", "threw"} :
          /\ work[w].pc = "begin" /\ work' = [work EXCEPT ![w].pc = p]
          /\ UNCHANGED <<lockVars, today, template, lastRun, entries, job, lock>>
    BY DEF BeginReturns, BeginThrows
  <1>1. TypeOK'
    BY <1>0 DEF lockVars, IInv, TypeOK, LockTypeOK, Work
  <1>2. /\ work'[w].pc = p /\ \A v \in Workers : work'[v].key = work[v].key
        /\ \A v \in Workers : v # w => work'[v] = work[v]
    BY <1>0 DEF IInv, TypeOK, Work
  <1>3. WorkOK'
    BY <1>0, <1>2 DEF IInv, WorkOK
  <1>4. LastRunIsTheLatest'
    BY <1>0 DEF IInv, LastRunIsTheLatest
  <1>5. \A j \in Keys : Touched(j)' => Touched(j)
    BY <1>0, <1>2 DEF lockVars, Touched
  <1>6. QED BY <1>0, <1>1, <1>3, <1>4, <1>5, WorkerFrame DEF lockVars, IInv

(* A worker that leaves "post" gives its lock back; whoever else posts is  *)
(* on another template.                                                    *)
LEMMA OthersPostElsewhere ==
  ASSUME IInv, NEW w \in Workers, work[w].pc = "post"
  PROVE  /\ lock[work[w].key[1]] = w
         /\ \A v \in Workers : v # w /\ work[v].pc = "post" => work[v].key[1] # work[w].key[1]
         /\ \A t \in Templates : t # work[w].key[1] => lock[t] # w
  BY DEF IInv, WorkOK

LEMMA PostKeeps ==
  ASSUME IInv, NEW w \in Workers, Post(w)
  PROVE  IInv'
  <1> USE KeyParts
  <1>0. PICK k \in Keys : k = work[w].key /\ k[1] \in Templates /\ work[w] \in Work
    BY WorkersKey DEF Post
  <1>1. /\ work[w].pc = "post" /\ k \notin entries
        /\ entries' = entries \cup {k}
        /\ lastRun' = [lastRun EXCEPT ![k[1]] = IF @ < k[2] THEN k[2] ELSE @]
        /\ work' = [work EXCEPT ![w].pc = "returned"]
        /\ lock' = [lock EXCEPT ![k[1]] = NoWorker]
        /\ UNCHANGED <<lockVars, today, template, job>>
    BY <1>0 DEF Post
  <1>2. TypeOK'
    <2>1. lastRun' \in [Templates -> 0 .. MaxDate]
      BY <1>0, <1>1, EntriesAssumption DEF IInv, TypeOK, Dates
    <2>2. QED
      BY <1>0, <1>1, <2>1 DEF lockVars, IInv, TypeOK, LockTypeOK, Work
  <1>3. /\ work'[w].pc = "returned" /\ \A v \in Workers : work'[v].key = work[v].key
        /\ \A v \in Workers : v # w => work'[v] = work[v]
        /\ lock'[k[1]] = NoWorker /\ \A t \in Templates : t # k[1] => lock'[t] = lock[t]
    BY <1>0, <1>1 DEF IInv, TypeOK, Work
  <1>4. WorkOK'
    <2>1. /\ \A v \in Workers : v # w /\ work[v].pc = "post" => work[v].key[1] # k[1]
          /\ \A t \in Templates : t # k[1] => lock[t] # w
      BY <1>0, <1>1, OthersPostElsewhere
    <2>2. ASSUME NEW v \in Workers
          PROVE  /\ work'[v].pc = "idle" <=> work'[v].key = NoKey
                 /\ work'[v].pc = "post" =>
                      /\ lock'[work'[v].key[1]] = v
                      /\ template[work'[v].key[1]] = "active"
                      /\ work'[v].key \notin entries'
                 /\ \A t \in Templates :
                      lock'[t] = v => work'[v].pc = "post" /\ work'[v].key[1] = t
      <3>1. CASE v = w
        BY <1>0, <1>1, <1>3, <2>1, <3>1, EntriesAssumption
      <3>2. CASE v # w
        <4>1. work'[v].pc = "idle" <=> work'[v].key = NoKey
          BY <1>3, <3>2 DEF IInv, WorkOK
        <4>2. ASSUME work[v].pc = "post"
              PROVE  /\ lock'[work[v].key[1]] = v
                     /\ template[work[v].key[1]] = "active"
                     /\ work[v].key \notin entries'
          <5>1. work[v].key[1] # k[1] /\ work[v].key[1] \in Templates
            BY <2>1, <3>2, <4>2, WorkersKey
          <5>2. lock[work[v].key[1]] = v /\ template[work[v].key[1]] = "active"
                /\ work[v].key \notin entries
            BY <4>2 DEF IInv, WorkOK
          <5>3. QED BY <1>1, <1>3, <5>1, <5>2
        <4>3. \A t \in Templates : lock'[t] = v => work[v].pc = "post" /\ work[v].key[1] = t
          BY <1>0, <1>3, EntriesAssumption DEF IInv, WorkOK
        <4>4. QED BY <1>3, <3>2, <4>1, <4>2, <4>3
      <3>3. QED BY <3>1, <3>2
    <2>3. QED BY <1>1, <2>2 DEF WorkOK
  <1>5. LastRunIsTheLatest'
    <2> SUFFICES ASSUME NEW t \in Templates
                 PROVE  /\ lastRun'[t] # 0 => <<t, lastRun'[t]>> \in entries'
                        /\ \A d \in Dates : <<t, d>> \in entries' => d <= lastRun'[t]
      BY DEF LastRunIsTheLatest
    <2>1. lastRun[t] \in Nat /\ Dates \subseteq Nat
      BY DEF IInv, TypeOK, Dates
    <2>2. /\ lastRun[t] # 0 => <<t, lastRun[t]>> \in entries
          /\ \A d \in Dates : <<t, d>> \in entries => d <= lastRun[t]
      BY DEF IInv, LastRunIsTheLatest
    <2>3. CASE t = k[1]
      <3>1. lastRun'[t] = IF lastRun[t] < k[2] THEN k[2] ELSE lastRun[t]
        BY <1>1, <2>3 DEF IInv, TypeOK
      <3>2. \A d \in Dates : <<t, d>> \in entries' => <<t, d>> \in entries \/ d = k[2]
        BY <1>1, <2>3
      <3>3. <<t, k[2]>> = k
        BY <2>3
      <3>4. QED BY <1>1, <2>1, <2>2, <3>1, <3>2, <3>3
    <2>4. CASE t # k[1]
      <3>1. lastRun'[t] = lastRun[t]
        BY <1>1, <2>4 DEF IInv, TypeOK
      <3>2. \A d \in Dates : <<t, d>> \in entries' => <<t, d>> \in entries
        BY <1>1, <2>4
      <3>3. QED BY <1>1, <2>2, <3>1, <3>2
    <2>5. QED BY <2>3, <2>4
  <1>6. \A j \in Keys : Touched(j)' => Touched(j)
    BY <1>0, <1>1, <1>3 DEF lockVars, Touched
  <1>7. QED BY <1>1, <1>2, <1>4, <1>5, <1>6, WorkerFrame DEF lockVars, IInv

LEMMA PostFailsKeeps ==
  ASSUME IInv, NEW w \in Workers, PostFails(w)
  PROVE  IInv'
  <1> USE KeyParts
  <1>0. PICK k \in Keys : k = work[w].key /\ k[1] \in Templates /\ work[w] \in Work
    BY WorkersKey DEF PostFails
  <1>1. /\ work[w].pc = "post"
        /\ work' = [work EXCEPT ![w].pc = "threw"]
        /\ lock' = [lock EXCEPT ![k[1]] = NoWorker]
        /\ UNCHANGED <<lockVars, today, template, lastRun, entries, job>>
    BY <1>0 DEF PostFails
  <1>2. TypeOK'
    BY <1>1 DEF lockVars, IInv, TypeOK, LockTypeOK, Work
  <1>3. /\ work'[w].pc = "threw" /\ \A v \in Workers : work'[v].key = work[v].key
        /\ \A v \in Workers : v # w => work'[v] = work[v]
        /\ lock'[k[1]] = NoWorker /\ \A t \in Templates : t # k[1] => lock'[t] = lock[t]
    BY <1>0, <1>1 DEF IInv, TypeOK, Work
  <1>4. WorkOK'
    <2>1. /\ \A v \in Workers : v # w /\ work[v].pc = "post" =>
               work[v].key[1] # k[1] /\ work[v].key[1] \in Templates
          /\ \A t \in Templates : t # k[1] => lock[t] # w
      BY <1>0, <1>1, OthersPostElsewhere, WorkersKey
    <2>2. QED BY <1>0, <1>1, <1>3, <2>1, EntriesAssumption DEF IInv, WorkOK
  <1>5. LastRunIsTheLatest'
    BY <1>1 DEF IInv, LastRunIsTheLatest
  <1>6. \A j \in Keys : Touched(j)' => Touched(j)
    BY <1>1, <1>3 DEF lockVars, Touched
  <1>7. QED BY <1>1, <1>2, <1>4, <1>5, <1>6, WorkerFrame DEF lockVars, IInv

(* What the queue makes of a job is a job.                                 *)
LEMMA JobTypes ==
  ASSUME IInv, NEW k \in Keys
  PROVE  /\ NoJob \in Job /\ OneMoreAttempt(job[k]) \in Job
         /\ OneMoreAttempt(job[k]).state # "none"
         /\ \A w \in Workers \cup {NoWorker} : [job[k] EXCEPT !.owner = w] \in Job
  <1> DEFINE j == job[k]
  <1>1. j \in Job /\ MaxAttempts \in Nat /\ NoWorker \in Workers \cup {NoWorker}
    BY EntriesAssumption DEF IInv, TypeOK
  <1>2. NoJob \in Job
    BY EntriesAssumption DEF NoJob, Job
  <1>3. OneMoreAttempt(j) \in Job /\ OneMoreAttempt(j).state # "none"
    <2>1. CASE j.attempts + 1 < MaxAttempts
      <3>1. j.attempts + 1 \in 0 .. MaxAttempts
        BY <1>1, <2>1 DEF Job
      <3>2. OneMoreAttempt(j) =
              [j EXCEPT !.state = "waiting", !.attempts = j.attempts + 1, !.owner = NoWorker]
        BY <2>1 DEF OneMoreAttempt
      <3>3. QED BY <1>1, <3>1, <3>2 DEF Job
    <2>2. CASE ~(j.attempts + 1 < MaxAttempts)
      <3>1. OneMoreAttempt(j) =
              [j EXCEPT !.state = "failed", !.attempts = MaxAttempts, !.owner = NoWorker]
        BY <2>2 DEF OneMoreAttempt
      <3>2. MaxAttempts \in 0 .. MaxAttempts
        BY <1>1
      <3>3. QED BY <1>1, <3>1, <3>2 DEF Job
    <2>3. QED BY <2>1, <2>2
  <1>4. QED BY <1>1, <1>2, <1>3 DEF Job

(* A worker that ends, well or not, leaves its row, and its job to others. *)
LEMMA EndKeeps ==
  ASSUME IInv, NEW w \in Workers, NEW k \in Keys, k = work[w].key, work[w].pc # "idle",
         job' \in [Keys -> Job], \A j \in Keys : j # k => job'[j] = job[j],
         work' = [work EXCEPT ![w] = NoWork],
         lock' = [t \in Templates |-> IF lock[t] = w THEN NoWorker ELSE lock[t]],
         faults' \in 0 .. MaxFaults,
         UNCHANGED <<claim, holder, firing, today, template, lastRun, entries>>
  PROVE  IInv'
  <1> USE KeyParts
  <1>1. TypeOK'
    BY DEF IInv, TypeOK, LockTypeOK, NoWork, Work
  <1>2. work'[w] = NoWork /\ \A v \in Workers : v # w => work'[v] = work[v]
    BY DEF IInv, TypeOK
  <1>3. WorkOK'
    <2>1. \A v \in Workers : v # w /\ work[v].pc = "post" => work[v].key[1] \in Templates
      BY WorkersKey
    <2>2. ASSUME NEW v \in Workers
          PROVE  /\ work'[v].pc = "idle" <=> work'[v].key = NoKey
                 /\ work'[v].pc = "post" =>
                      /\ lock'[work'[v].key[1]] = v
                      /\ template[work'[v].key[1]] = "active"
                      /\ work'[v].key \notin entries
                 /\ \A t \in Templates :
                      lock'[t] = v => work'[v].pc = "post" /\ work'[v].key[1] = t
      <3>1. CASE v = w
        BY <1>2, <3>1, EntriesAssumption DEF NoWork
      <3>2. CASE v # w
        BY <1>2, <2>1, <3>2, EntriesAssumption DEF IInv, WorkOK
      <3>3. QED BY <3>1, <3>2
    <2>3. QED BY <2>2 DEF WorkOK
  <1>4. LastRunIsTheLatest'
    BY DEF IInv, LastRunIsTheLatest
  <1>5. \A j \in Keys : Touched(j)' => Touched(j)
    <2>1. Touched(k)
      BY DEF Touched
    <2>2. ASSUME NEW j \in Keys, j # k, Touched(j)'
          PROVE  Touched(j)
      BY <1>2, <2>2 DEF Touched, NoWork
    <2>3. QED BY <2>1, <2>2
  <1>6. QED BY <1>1, <1>3, <1>4, <1>5, WorkerFrame DEF IInv

LEMMA AcknowledgeKeeps ==
  ASSUME IInv, NEW w \in Workers, Acknowledge(w) \/ Fail(w)
  PROVE  IInv'
  <1>0. PICK k \in Keys : k = work[w].key
    BY WorkersKey DEF Acknowledge, Fail
  <1>1. /\ work[w].pc \in {"returned", "threw"}
        /\ work' = [work EXCEPT ![w] = NoWork]
        /\ UNCHANGED <<claim, holder, firing, faults, today, template, lastRun, entries, lock>>
    BY DEF Acknowledge, Fail, lockVars
  <1>2. \E f \in Job : job' = [job EXCEPT ![k] = f]
    <2>1. job[k] \in Job
      BY DEF IInv, TypeOK
    <2>2. CASE Acknowledge(w)
      <3>1. job' = [job EXCEPT ![k] = IF Owns(w) THEN NoJob ELSE job[k]]
        BY <1>0, <2>2 DEF Acknowledge
      <3>2. QED BY <2>1, <3>1, JobTypes
    <2>3. CASE Fail(w)
      <3>1. job' = [job EXCEPT ![k] = IF Owns(w) THEN OneMoreAttempt(job[k]) ELSE job[k]]
        BY <1>0, <2>3 DEF Fail
      <3>2. QED BY <2>1, <3>1, JobTypes
    <2>4. QED BY <2>2, <2>3
  <1>3. job' \in [Keys -> Job] /\ \A j \in Keys : j # k => job'[j] = job[j]
    BY <1>2 DEF IInv, TypeOK
  <1>4. lock' = [t \in Templates |-> IF lock[t] = w THEN NoWorker ELSE lock[t]]
    <2>1. \A t \in Templates : lock[t] # w
      BY <1>1 DEF IInv, WorkOK
    <2>2. lock' = [t \in Templates |-> lock[t]]
      BY <1>1 DEF IInv, TypeOK
    <2>3. QED BY <2>1, <2>2
  <1>5. faults' \in 0 .. MaxFaults
    BY <1>1 DEF IInv, TypeOK, LockTypeOK
  <1>6. QED BY <1>0, <1>1, <1>3, <1>4, <1>5, EndKeeps

LEMMA DieWorkerKeeps ==
  ASSUME IInv, NEW w \in Workers, DieWorker(w)
  PROVE  IInv'
  <1>0. PICK k \in Keys : k = work[w].key
    BY WorkersKey DEF DieWorker
  <1>1. /\ work[w].pc # "idle" /\ work' = [work EXCEPT ![w] = NoWork]
        /\ lock' = [t \in Templates |-> IF lock[t] = w THEN NoWorker ELSE lock[t]]
        /\ UNCHANGED <<claim, holder, firing, today, template, lastRun, entries>>
    BY DEF DieWorker
  <1>2. \E v \in Workers \cup {NoWorker} : job' = [job EXCEPT ![k].owner = v]
    <2>1. job' = [job EXCEPT ![k].owner = IF Owns(w) THEN NoWorker ELSE job[k].owner]
      BY <1>0 DEF DieWorker
    <2>2. job[k].owner \in Workers \cup {NoWorker}
      BY DEF IInv, TypeOK, Job
    <2>3. QED BY <2>1, <2>2
  <1>3. job' \in [Keys -> Job] /\ \A j \in Keys : j # k => job'[j] = job[j]
    <2>1. PICK v \in Workers \cup {NoWorker} : job' = [job EXCEPT ![k].owner = v]
      BY <1>2
    <2>2. [job[k] EXCEPT !.owner = v] \in Job
      BY JobTypes
    <2>3. QED BY <2>1, <2>2 DEF IInv, TypeOK
  <1>4. faults' \in 0 .. MaxFaults
    BY LockAssumption DEF DieWorker, Faulty, IInv, TypeOK, LockTypeOK
  <1>5. QED BY <1>0, <1>1, <1>3, <1>4, EndKeeps

LEMMA StalledKeeps ==
  ASSUME IInv, NEW k \in Keys, Stalled(k)
  PROVE  IInv'
  <1>0. /\ job[k].state = "active" /\ job[k] \in Job /\ MaxStalls \in Nat
        /\ UNCHANGED <<claim, holder, firing, today, template, lastRun, entries, work, lock>>
    BY EntriesAssumption DEF Stalled, IInv, TypeOK
  <1>1. \E f \in Job : job' = [job EXCEPT ![k] = f]
    <2> DEFINE back == [job[k] EXCEPT !.state = "waiting", !.stalls = job[k].stalls + 1,
                                      !.owner = NoWorker]
    <2> DEFINE out == [job[k] EXCEPT !.state = "failed", !.owner = NoWorker]
    <2>0. job' = [job EXCEPT ![k] = OneMoreStall(job[k])]
      BY DEF Stalled
    <2>1. OneMoreStall(job[k]) = IF job[k].stalls < MaxStalls THEN back ELSE out
      BY DEF OneMoreStall
    <2>2. out \in Job
      BY <1>0 DEF Job
    <2>3. job[k].stalls < MaxStalls => back \in Job
      <3>1. job[k].stalls < MaxStalls => job[k].stalls + 1 \in 0 .. MaxStalls
        BY <1>0 DEF Job
      <3>2. QED BY <1>0, <3>1 DEF Job
    <2>4. QED BY <2>0, <2>1, <2>2, <2>3
  <1>2. TypeOK'
    <2>1. job' \in [Keys -> Job]
      BY <1>1 DEF IInv, TypeOK
    <2>2. faults' \in 0 .. MaxFaults
      BY LockAssumption DEF Stalled, Faulty, IInv, TypeOK, LockTypeOK
    <2>3. QED BY <1>0, <2>1, <2>2 DEF IInv, TypeOK, LockTypeOK
  <1>3. WorkOK' /\ LastRunIsTheLatest'
    BY <1>0 DEF IInv, WorkOK, LastRunIsTheLatest
  <1>4. \A j \in Keys : Touched(j)' => Touched(j)
    <2>1. Touched(k)
      BY <1>0 DEF Touched
    <2>2. \A j \in Keys : j # k => job'[j] = job[j]
      BY <1>1 DEF IInv, TypeOK
    <2>3. QED BY <1>0, <2>1, <2>2 DEF Touched
  <1>5. QED BY <1>0, <1>2, <1>3, <1>4, WorkerFrame DEF IInv

-----------------------------------------------------------------------------
(* The company.                                                            *)

LEMMA ChangeTemplateKeeps ==
  ASSUME IInv, NEW t \in Templates, NEW s \in {"active", "paused", "removed"},
         NEW s0, ChangeTemplate(t, s0, s)
  PROVE  IInv'
  <1>0. /\ lock[t] = NoWorker /\ template' = [template EXCEPT ![t] = s]
        /\ UNCHANGED <<lockVars, today, lastRun, entries, job, work, lock>>
    BY DEF ChangeTemplate
  <1>1. TypeOK'
    BY <1>0 DEF lockVars, IInv, TypeOK, LockTypeOK
  <1>2. WorkOK'
    <2>1. \A w \in Workers : work[w].pc = "post" => work[w].key[1] # t /\ work[w].key[1] \in Templates
      BY <1>0, NobodyPosts, WorkersKey
    <2>2. \A u \in Templates : u # t => template'[u] = template[u]
      BY <1>0 DEF IInv, TypeOK
    <2>3. QED BY <1>0, <2>1, <2>2 DEF IInv, WorkOK
  <1>3. LastRunIsTheLatest'
    BY <1>0 DEF IInv, LastRunIsTheLatest
  <1>4. \A j \in Keys : Touched(j)' => Touched(j)
    BY <1>0 DEF lockVars, Touched
  <1>5. QED BY <1>0, <1>1, <1>2, <1>3, <1>4, WorkerFrame DEF lockVars, IInv

LEMMA NextDayKeeps ==
  ASSUME IInv, NextDay
  PROVE  IInv'
  <1>0. /\ today < MaxDate /\ today' = today + 1 /\ today \in Nat
        /\ UNCHANGED <<lockVars, template, lastRun, entries, job, work, lock>>
    BY DEF NextDay, IInv, TypeOK, Dates
  <1>1. TypeOK'
    BY <1>0, EntriesAssumption DEF lockVars, IInv, TypeOK, LockTypeOK, Dates
  <1>2. FiringOK' /\ WorkOK' /\ LastRunIsTheLatest'
    BY <1>0 DEF lockVars, IInv, FiringOK, WorkOK, LastRunIsTheLatest
  <1>3. /\ \A k \in Keys : (Touched(k)' => Touched(k)) /\ (Passed(k) => Passed(k)')
        /\ UNCHANGED firing /\ \A r \in Replicas : firing[r].todo \subseteq Keys
    BY <1>0 DEF lockVars, Touched, Passed, IInv, TypeOK, LockTypeOK, Firing
  <1>4. DueOK' /\ OrderOK'
    BY <1>0, <1>3, OrderFrame
  <1>5. QED BY <1>1, <1>2, <1>4 DEF IInv

-----------------------------------------------------------------------------

LEMMA NextIInv == IInv /\ [Next]_vars => IInv'
  <1> SUFFICES ASSUME IInv, [Next]_vars
               PROVE  IInv'
    OBVIOUS
  <1>1. ASSUME NEW r \in Replicas, Cron(r)
        PROVE  IInv'
    BY <1>1, FireKeeps, EnqueueNextKeeps, AddKeeps, EndFiringKeeps DEF Cron
  <1>2. ASSUME NEW w \in Workers, Processor(w)
        PROVE  IInv'
    BY <1>2, TakeKeeps, BeginKeeps, BeginEndsKeeps, PostKeeps, PostFailsKeeps,
       AcknowledgeKeeps, DieWorkerKeeps DEF Processor
  <1>3. ASSUME NEW k \in Keys, Stalled(k)
        PROVE  IInv'
    BY <1>3, StalledKeeps
  <1>4. CASE Company
    BY <1>4, NextDayKeeps, ChangeTemplateKeeps DEF Company, Pause, Resume, Remove
  <1>5. CASE UNCHANGED vars
    <2>1. TypeOK'
      BY <1>5 DEF vars, lockVars, IInv, TypeOK, LockTypeOK
    <2>2. WorkOK' /\ LastRunIsTheLatest'
      BY <1>5 DEF vars, IInv, WorkOK, LastRunIsTheLatest
    <2>3. \A j \in Keys : Touched(j)' => Touched(j)
      BY <1>5 DEF vars, lockVars, Touched
    <2>4. QED BY <1>5, <2>1, <2>2, <2>3, WorkerFrame DEF vars, lockVars, IInv
  <1>6. QED BY <1>1, <1>2, <1>3, <1>4, <1>5 DEF Next

LEMMA Invariance == Spec => []IInv
  BY InitIInv, NextIInv, PTL DEF Spec

(* The cron's claims, the jobs, the workers and the rows keep their types, *)
(* for any number of replicas, workers, templates and dates.               *)
THEOREM TypeCorrect == Spec => []TypeOK
  BY Invariance, PTL DEF IInv

(* Two workers with one job never reach the unique index of the ledger.    *)
THEOREM RedeliveriesAreHarmless == Spec => []RedeliveryIsHarmless
  <1>1. IInv => RedeliveryIsHarmless
    BY DEF IInv, WorkOK, RedeliveryIsHarmless
  <1>2. QED BY <1>1, Invariance, PTL

(* The template's last date is the latest one posted, in whatever order    *)
(* the jobs of a catch-up ran.                                             *)
THEOREM LastRunIsCorrect == Spec => []LastRunIsTheLatest
  BY Invariance, PTL DEF IInv

(* An occurrence with neither a claim, a job nor a posting is later than   *)
(* the last one posted, so the next run of the cron lists it.              *)
THEOREM NothingIsOvertaken == Spec => []NextRunFindsIt
  <1>1. ASSUME IInv PROVE NextRunFindsIt
    <2> SUFFICES ASSUME NEW k \in Keys, claim[k] = "free", k \notin entries,
                        lastRun[k[1]] >= k[2]
                 PROVE  FALSE
      <3>1. \A k \in Keys : lastRun[k[1]] \in Nat /\ k[2] \in Nat
        BY <1>1, KeyParts DEF IInv, TypeOK
      <3>2. QED BY <3>1 DEF NextRunFindsIt
    <2> DEFINE l == <<k[1], lastRun[k[1]]>>
    <2>1. l \in entries /\ l \in Keys
      BY <1>1, KeyParts DEF IInv, TypeOK, LastRunIsTheLatest, Dates
    <2>2. k = l \/ Earlier(k, l)
      BY <1>1, KeyParts DEF Earlier, IInv, TypeOK
    <2>3. QED BY <1>1, <2>1, <2>2 DEF IInv, OrderOK, Touched, Passed
  <1>2. QED BY <1>1, Invariance, PTL

(* Crons, claims, queue and workers implement the promise: an occurrence   *)
(* is posted once, when due, and only while its template is active.        *)
THEOREM SpecImplementsSchedule == Spec => ImplementsSchedule
  <1> USE DEF Schedule!Init, Schedule!Next
  <1>1. Init => Schedule!Init
    BY DEF Init
  <1>2. IInv /\ [Next]_vars => [Schedule!Next]_<<today, template, entries>>
    <2> SUFFICES ASSUME IInv, [Next]_vars
                 PROVE  Schedule!Next \/ UNCHANGED <<today, template, entries>>
      OBVIOUS
    <2>1. ASSUME NEW r \in Replicas, Cron(r)
          PROVE  UNCHANGED <<today, template, entries>>
      BY <2>1 DEF Cron, Fire, EnqueueNext, Add, AddFails, EndFiring
    <2>2. ASSUME NEW w \in Workers, Post(w)
          PROVE  Schedule!Next
      <3>1. PICK k \in Keys : k = work[w].key /\ k[1] \in Templates
        BY <2>2, WorkersKey DEF Post
      <3>2. k = <<k[1], k[2]>> /\ k[2] \in 1 .. MaxDate
        BY KeyParts DEF Dates
      <3>3. template[k[1]] = "active"
        BY <2>2, <3>1 DEF Post, IInv, WorkOK
      <3>4. k[2] <= today
        BY <3>1 DEF IInv, DueOK, Touched
      <3>5. k \notin entries /\ entries' = entries \cup {k} /\ UNCHANGED <<today, template>>
        BY <2>2, <3>1 DEF Post
      <3>6. Schedule!Post(k[1], k[2])
        BY <3>2, <3>3, <3>4, <3>5 DEF Schedule!Post
      <3>7. QED BY <3>1, <3>2, <3>6
    <2>3. ASSUME NEW w \in Workers, Processor(w), ~Post(w)
          PROVE  UNCHANGED <<today, template, entries>>
      BY <2>3 DEF Processor, Take, Begin, BeginReturns, BeginThrows, PostFails, Acknowledge,
                  Fail, DieWorker
    <2>4. ASSUME NEW k \in Keys, Stalled(k)
          PROVE  UNCHANGED <<today, template, entries>>
      BY <2>4 DEF Stalled
    <2>5. ASSUME NextDay
          PROVE  Schedule!Next
      BY <2>5 DEF NextDay, Schedule!NextDay
    <2>6. ASSUME NEW t \in Templates, Pause(t) \/ Resume(t) \/ Remove(t)
          PROVE  Schedule!Next
      <3>1. PICK s0 \in {"active", "paused"}, s \in {"active", "paused", "removed"} :
              ChangeTemplate(t, s0, s)
        BY <2>6 DEF Pause, Resume, Remove
      <3>2. Schedule!Change(t)
        BY <3>1 DEF ChangeTemplate, Schedule!Change
      <3>3. QED BY <3>2
    <2>7. QED BY <2>1, <2>2, <2>3, <2>4, <2>5, <2>6 DEF Next, Company, vars
  <1>3. QED BY <1>1, <1>2, Invariance, PTL DEF Spec, ImplementsSchedule, Schedule!Spec
=============================================================================
