------------------------- MODULE AfterCommitProofs -------------------------
(***************************************************************************)
(* The after-commit service never runs the effect of work that is not      *)
(* durable, and none twice, however deep the nesting.                      *)
(***************************************************************************)
EXTENDS AfterCommit, TLAPS

(* The service's count is the runner's nesting; writes are on open levels  *)
(* only, and are not durable; and a parked effect was registered at the    *)
(* level its writes are on, or deeper - so the rollback that undoes the    *)
(* writes drops the effect.                                                *)
CountsNesting == depth = open
WritesAreOpen ==
  \A l \in Levels : \A w \in writes[l] : l <= open /\ w <= done /\ w \notin durable
DoneWork == \A w \in durable : w <= done
EffectsHaveWrites ==
  \A e \in effects : \E l \in Levels : l <= e.depth /\ e.work \in writes[l]
OneEffectPerWork ==
  /\ \A e, f \in effects : e.work = f.work => e = f
  /\ \A e, f \in flush : e.work = f.work => e = f
FlushIsOutside == flush # {} => open = 0

IInv ==
  /\ TypeOK /\ OnlyDurableWorkHasEffects /\ EffectsRunOnce
  /\ CountsNesting /\ WritesAreOpen /\ DoneWork /\ EffectsHaveWrites
  /\ OneEffectPerWork /\ FlushIsOutside

(* Outside any transaction nothing is parked.                              *)
LEMMA NothingParkedOutside ==
  ASSUME IInv, open = 0
  PROVE  effects = {} /\ \A l \in Levels : writes[l] = {}
  <1>1. \A l \in Levels : writes[l] = {}
    BY BoundAssumption DEF IInv, WritesAreOpen, Levels
  <1>2. QED BY <1>1 DEF IInv, EffectsHaveWrites

(* What is parked is not durable, so it has not run.                       *)
LEMMA ParkedIsNotDurable ==
  ASSUME IInv, NEW e \in effects
  PROVE  e.work \notin durable /\ e.work \notin ran /\ e.work <= done
  BY DEF IInv, EffectsHaveWrites, WritesAreOpen, OnlyDurableWorkHasEffects

LEMMA InitIInv == Init => IInv
  <1> SUFFICES ASSUME Init PROVE IInv
    OBVIOUS
  <1>1. TypeOK
    <2>1. 0 \in 0 .. MaxDepth /\ 0 \in 0 .. MaxWork
      BY BoundAssumption
    <2>2. writes \in [Levels -> SUBSET Work]
      BY DEF Init
    <2>3. QED BY <2>1, <2>2 DEF Init, TypeOK
  <1>2. OnlyDurableWorkHasEffects /\ EffectsRunOnce
    BY DEF Init, OnlyDurableWorkHasEffects, EffectsRunOnce, WorkOf
  <1>3. QED BY <1>1, <1>2
            DEF Init, IInv, CountsNesting, WritesAreOpen, DoneWork, EffectsHaveWrites,
                OneEffectPerWork, FlushIsOutside

LEMMA StartKeeps ==
  ASSUME IInv, Start
  PROVE  IInv'
  <1>1. TypeOK'
    BY BoundAssumption DEF Start, IInv, TypeOK
  <1>2. OnlyDurableWorkHasEffects' /\ EffectsRunOnce'
    BY DEF Start, IInv, OnlyDurableWorkHasEffects, EffectsRunOnce, WorkOf
  <1>3. CountsNesting' /\ WritesAreOpen' /\ DoneWork' /\ FlushIsOutside'
    BY BoundAssumption
       DEF Start, IInv, TypeOK, CallerRuns, CountsNesting, WritesAreOpen, DoneWork,
           FlushIsOutside, Levels, Work
  <1>4. EffectsHaveWrites' /\ OneEffectPerWork'
    BY DEF Start, IInv, EffectsHaveWrites, OneEffectPerWork
  <1>5. QED BY <1>1, <1>2, <1>3, <1>4 DEF IInv

LEMMA RunAfterCommitKeeps ==
  ASSUME IInv, RunAfterCommit
  PROVE  IInv'
  <1> DEFINE w == done + 1
  <1>0. /\ w \in Work /\ done \in Nat /\ done' = w /\ w \notin durable /\ w \notin ran
        /\ ran \subseteq durable /\ flush = {}
        /\ UNCHANGED <<open, depth, flush, died>>
    BY BoundAssumption
       DEF RunAfterCommit, CallerRuns, Work, IInv, TypeOK, DoneWork, OnlyDurableWorkHasEffects
  <1>a. \A e \in effects : e.work # w
    <2>1. \A e \in effects : e.work <= done
      BY ParkedIsNotDurable
    <2>2. QED BY <1>0, <2>1
  <1>b. (\A l \in Levels : writes[l] \subseteq Work) /\ durable \subseteq Work
    BY DEF IInv, TypeOK
  <1>1. CASE open = 0 /\ RunAfterCommitAtOnce(w)
    <2>1. effects = {} /\ \A l \in Levels : writes[l] = {}
      BY <1>1, NothingParkedOutside
    <2>2. TypeOK'
      BY <1>0, <1>1 DEF RunAfterCommitAtOnce, IInv, TypeOK, Work
    <2>3. OnlyDurableWorkHasEffects' /\ EffectsRunOnce'
      BY <1>0, <1>1, <2>1
         DEF RunAfterCommitAtOnce, OnlyDurableWorkHasEffects, EffectsRunOnce, WorkOf
    <2>4. DoneWork'
      BY <1>0, <1>1, <1>b DEF RunAfterCommitAtOnce, IInv, DoneWork, Work
    <2>5. QED BY <1>0, <1>1, <2>1, <2>2, <2>3, <2>4
              DEF RunAfterCommitAtOnce, IInv, CountsNesting, WritesAreOpen,
                  EffectsHaveWrites, OneEffectPerWork, FlushIsOutside
  <1>2. CASE open > 0 /\ RunAfterCommitLater(w)
    <2> DEFINE e == [depth |-> depth, work |-> w]
    <2>0. /\ open \in Levels /\ open \in Nat /\ depth = open /\ e \in Effect
          /\ e.depth = open /\ e.work = w
          /\ writes' = [writes EXCEPT ![open] = @ \cup {w}]
          /\ effects' = effects \cup {e} /\ UNCHANGED <<durable, ran>>
      BY <1>0, <1>2 DEF RunAfterCommitLater, IInv, TypeOK, CountsNesting, Levels, Effect
    <2> HIDE DEF e, w
    <2>1. TypeOK'
      BY <1>0, <2>0 DEF IInv, TypeOK, w, Work
    <2>2. OnlyDurableWorkHasEffects' /\ EffectsRunOnce'
      BY <1>0, <2>0 DEF IInv, OnlyDurableWorkHasEffects, EffectsRunOnce, WorkOf
    <2>3. WritesAreOpen' /\ DoneWork'
      <3>1. \A l \in Levels : writes'[l] = IF l = open THEN writes[l] \cup {w} ELSE writes[l]
        BY <2>0 DEF IInv, TypeOK
      <3>2. \A v \in Work : v <= done => v <= w
        BY <1>0 DEF w, Work
      <3>3. QED BY <1>0, <1>b, <2>0, <3>1, <3>2 DEF IInv, WritesAreOpen, DoneWork, Levels, Work
    <2>4. EffectsHaveWrites'
      <3>1. \A l \in Levels : writes[l] \subseteq writes'[l]
        BY <2>0 DEF IInv, TypeOK
      <3>2. w \in writes'[open] /\ open <= e.depth
        BY <2>0 DEF IInv, TypeOK
      <3>3. QED BY <2>0, <3>1, <3>2 DEF IInv, EffectsHaveWrites
    <2>5. OneEffectPerWork'
      BY <1>0, <1>a, <2>0 DEF IInv, OneEffectPerWork
    <2>6. QED BY <1>0, <2>0, <2>1, <2>2, <2>3, <2>4, <2>5
              DEF IInv, CountsNesting, FlushIsOutside
  <1>3. QED BY <1>1, <1>2 DEF RunAfterCommit

LEMMA ReleaseKeeps ==
  ASSUME IInv, Release
  PROVE  IInv'
  <1>0. /\ open \in Levels /\ open - 1 \in Levels /\ depth = open /\ open' = open - 1
        /\ depth' = open - 1 /\ open # open - 1
        /\ UNCHANGED <<durable, effects, flush, ran, done, died>> /\ flush = {}
    <2>1. /\ open \in 0 .. MaxDepth /\ open > 1 /\ open' = open - 1 /\ depth = open
          /\ depth' = OneLess
          /\ UNCHANGED <<durable, effects, flush, ran, done, died>> /\ flush = {}
      BY DEF Release, CallerRuns, IInv, TypeOK, CountsNesting
    <2>2. open \in Levels /\ open - 1 \in Levels /\ open # open - 1
      BY <2>1, BoundAssumption DEF Levels
    <2>3. OneLess = open - 1
      BY <2>1, BoundAssumption DEF OneLess
    <2>4. QED BY <2>1, <2>2, <2>3
  <1>1. \A l \in Levels :
          writes'[l] = IF l = open THEN {}
                       ELSE IF l = open - 1 THEN writes[l] \cup writes[open] ELSE writes[l]
    BY <1>0 DEF Release, IInv, TypeOK
  <1>2. TypeOK'
    BY <1>0, <1>1 DEF Release, IInv, TypeOK, Levels
  <1>3. OnlyDurableWorkHasEffects' /\ EffectsRunOnce'
    BY <1>0 DEF IInv, OnlyDurableWorkHasEffects, EffectsRunOnce, WorkOf
  <1>4. WritesAreOpen' /\ DoneWork'
    <2>1. ASSUME NEW l \in Levels, NEW v \in writes'[l]
          PROVE  l <= open - 1 /\ v <= done /\ v \notin durable
      <3>1. \E k \in Levels : v \in writes[k] /\ (l = k \/ l = open - 1) /\ l # open
        BY <1>0, <1>1, <2>1
      <3>2. QED BY <1>0, <3>1 DEF IInv, WritesAreOpen, Levels
    <2>2. QED BY <1>0, <2>1 DEF IInv, WritesAreOpen, DoneWork
  <1>5. EffectsHaveWrites'
    <2>1. SUFFICES ASSUME NEW e \in effects
                   PROVE  \E l \in Levels : l <= e.depth /\ e.work \in writes'[l]
      BY <1>0 DEF EffectsHaveWrites
    <2>2. PICK l \in Levels : l <= e.depth /\ e.work \in writes[l]
      BY DEF IInv, EffectsHaveWrites
    <2>3. e.depth \in Nat
      BY DEF IInv, TypeOK, Effect
    <2>4. CASE l = open
      <3>1. open - 1 <= e.depth
        BY <1>0, <2>2, <2>3, <2>4 DEF Levels
      <3>2. e.work \in writes'[open - 1]
        BY <1>0, <1>1, <2>2, <2>4
      <3>3. QED BY <1>0, <3>1, <3>2
    <2>5. CASE l # open
      BY <1>0, <1>1, <2>2, <2>5
    <2>6. QED BY <2>4, <2>5
  <1>6. QED BY <1>0, <1>2, <1>3, <1>4, <1>5
            DEF IInv, CountsNesting, OneEffectPerWork, FlushIsOutside

LEMMA CommitKeeps ==
  ASSUME IInv, Commit
  PROVE  IInv'
  <1>0. /\ open = 1 /\ 1 \in Levels /\ open' = 0 /\ depth' = 0 /\ effects' = {}
        /\ flush' = effects /\ durable' = durable \cup writes[1] /\ flush = {}
        /\ UNCHANGED <<ran, done, died>> /\ done \in Nat
    BY BoundAssumption DEF Commit, CallerRuns, IInv, TypeOK, Levels
  <1>1. \A l \in Levels : writes[l] # {} => l = 1
    BY <1>0 DEF IInv, WritesAreOpen, Levels
  <1>2. \A l \in Levels : writes'[l] = {}
    BY <1>0, <1>1 DEF Commit, IInv, TypeOK
  <1>3. \A e \in effects : e.work \in writes[1] /\ e.work \notin ran
    BY <1>1, ParkedIsNotDurable DEF IInv, EffectsHaveWrites
  <1>4. TypeOK'
    <2>1. 0 \in 0 .. MaxDepth /\ 0 \in Nat
      BY BoundAssumption
    <2>2. writes' \in [Levels -> SUBSET Work] /\ durable' \subseteq Work
      BY <1>0 DEF Commit, IInv, TypeOK
    <2>3. QED BY <1>0, <2>1, <2>2 DEF IInv, TypeOK
  <1>5. OnlyDurableWorkHasEffects' /\ EffectsRunOnce'
    BY <1>0, <1>3 DEF IInv, OnlyDurableWorkHasEffects, EffectsRunOnce, WorkOf
  <1>6. DoneWork'
    BY <1>0 DEF IInv, DoneWork, WritesAreOpen
  <1>7. QED BY <1>0, <1>2, <1>4, <1>5, <1>6
            DEF IInv, CountsNesting, WritesAreOpen, EffectsHaveWrites, OneEffectPerWork,
                FlushIsOutside

LEMMA RunEffectKeeps ==
  ASSUME IInv, RunEffect
  PROVE  IInv'
  <1>1. PICK e \in flush : flush' = flush \ {e} /\ ran' = ran \cup {e.work}
    BY DEF RunEffect
  <1>0. /\ UNCHANGED <<open, writes, durable, depth, effects, done, died>>
        /\ e \in Effect /\ open = 0 /\ effects = {}
    BY NothingParkedOutside DEF RunEffect, IInv, TypeOK, FlushIsOutside
  <1>2. TypeOK'
    BY <1>0, <1>1 DEF IInv, TypeOK, Effect
  <1>3. OnlyDurableWorkHasEffects'
    BY <1>0, <1>1 DEF IInv, OnlyDurableWorkHasEffects, WorkOf
  <1>4. EffectsRunOnce'
    <2>1. \A f \in flush' : f.work \notin ran /\ f.work # e.work
      BY <1>1 DEF IInv, EffectsRunOnce, OneEffectPerWork, WorkOf
    <2>2. QED BY <1>0, <1>1, <2>1 DEF EffectsRunOnce, WorkOf
  <1>5. QED BY <1>0, <1>1, <1>2, <1>3, <1>4
            DEF IInv, CountsNesting, WritesAreOpen, DoneWork, EffectsHaveWrites,
                OneEffectPerWork, FlushIsOutside

LEMMA RollbackSavepointKeeps ==
  ASSUME IInv, RollbackSavepoint
  PROVE  IInv'
  <1>0. /\ open \in Levels /\ open - 1 \in Nat /\ depth = open /\ open' = open - 1
        /\ depth' = open - 1 /\ effects' = {e \in effects : e.depth <= open - 1}
        /\ UNCHANGED <<durable, flush, ran, done, died>> /\ flush = {}
    BY DEF RollbackSavepoint, CallerRuns, OneLess, IInv, TypeOK, CountsNesting, Levels
  <1>1. \A l \in Levels : writes'[l] = IF l = open THEN {} ELSE writes[l]
    BY <1>0 DEF RollbackSavepoint, IInv, TypeOK
  <1>2. TypeOK'
    <2>1. open - 1 \in 0 .. MaxDepth
      BY <1>0, BoundAssumption DEF Levels
    <2>2. writes' \in [Levels -> SUBSET Work]
      BY DEF RollbackSavepoint, IInv, TypeOK
    <2>3. QED BY <1>0, <2>1, <2>2 DEF IInv, TypeOK
  <1>3. OnlyDurableWorkHasEffects' /\ EffectsRunOnce'
    BY <1>0 DEF IInv, OnlyDurableWorkHasEffects, EffectsRunOnce, WorkOf
  <1>4. WritesAreOpen' /\ DoneWork'
    BY <1>0, <1>1 DEF IInv, WritesAreOpen, DoneWork, Levels
  <1>5. EffectsHaveWrites'
    <2>1. SUFFICES ASSUME NEW e \in effects, e.depth <= open - 1
                   PROVE  \E l \in Levels : l <= e.depth /\ e.work \in writes'[l]
      BY <1>0 DEF EffectsHaveWrites
    <2>2. PICK l \in Levels : l <= e.depth /\ e.work \in writes[l]
      BY DEF IInv, EffectsHaveWrites
    <2>3. e.depth \in Nat
      BY DEF IInv, TypeOK, Effect
    <2>4. l # open
      BY <1>0, <2>1, <2>2, <2>3 DEF Levels
    <2>5. QED BY <1>1, <2>2, <2>4
  <1>6. QED BY <1>0, <1>2, <1>3, <1>4, <1>5
            DEF IInv, CountsNesting, OneEffectPerWork, FlushIsOutside

LEMMA EndsKeep ==
  ASSUME IInv, Rollback \/ Die
  PROVE  IInv'
  <1>0. /\ open' = 0 /\ depth' = 0 /\ effects' = {} /\ UNCHANGED <<durable, ran, done>>
        /\ flush' = {} /\ died' \in BOOLEAN
    BY DEF Rollback, CallerRuns, Die, IInv, TypeOK
  <1>1. writes' \in [Levels -> SUBSET Work] /\ \A l \in Levels : writes'[l] = {}
    <2>1. CASE Die
      BY <2>1 DEF Die
    <2>2. CASE Rollback
      <3>1. \A l \in Levels : writes[l] # {} => l = 1
        BY <2>2 DEF Rollback, IInv, WritesAreOpen, Levels
      <3>2. QED BY <2>2, <3>1 DEF Rollback, IInv, TypeOK
    <2>3. QED BY <2>1, <2>2
  <1>2. TypeOK'
    BY <1>0, <1>1, BoundAssumption DEF IInv, TypeOK
  <1>3. OnlyDurableWorkHasEffects' /\ EffectsRunOnce'
    BY <1>0 DEF IInv, OnlyDurableWorkHasEffects, EffectsRunOnce, WorkOf
  <1>4. QED BY <1>0, <1>1, <1>2, <1>3
            DEF IInv, CountsNesting, WritesAreOpen, DoneWork, EffectsHaveWrites,
                OneEffectPerWork, FlushIsOutside

LEMMA StepIInv == IInv /\ [Next]_vars => IInv'
  <1> SUFFICES ASSUME IInv, [Next]_vars PROVE IInv'
    OBVIOUS
  <1>1. CASE UNCHANGED vars
    BY <1>1
       DEF vars, IInv, TypeOK, OnlyDurableWorkHasEffects, EffectsRunOnce, WorkOf,
           CountsNesting, WritesAreOpen, DoneWork, EffectsHaveWrites, OneEffectPerWork,
           FlushIsOutside
  <1>2. CASE Next
    BY <1>2, StartKeeps, RunAfterCommitKeeps, ReleaseKeeps, CommitKeeps, RunEffectKeeps,
       RollbackSavepointKeeps, EndsKeep DEF Next
  <1>3. QED BY <1>1, <1>2

THEOREM Invariance == Spec => []IInv
  BY InitIInv, StepIInv, PTL DEF Spec

(* No effect runs, or is about to, for work that is not committed.         *)
THEOREM EffectsWaitForTheCommit == Spec => []OnlyDurableWorkHasEffects
  <1>1. IInv => OnlyDurableWorkHasEffects
    BY DEF IInv
  <1>2. QED BY <1>1, Invariance, PTL

(* No effect runs twice on one runner.                                     *)
THEOREM EffectsAreNotReplayed == Spec => []EffectsRunOnce
  <1>1. IInv => EffectsRunOnce
    BY DEF IInv
  <1>2. QED BY <1>1, Invariance, PTL

-----------------------------------------------------------------------------
(* What is promised of nested transactions, that a savepoint's rollback    *)
(* drops only the effects registered inside it, the service cannot keep:   *)
(* it knows an effect by its depth alone.  Where each rollback happens to  *)
(* drop only its own, nothing durable is left without its effect.          *)
DropsOnlyItsOwn ==
  RollbackSavepoint => \A e \in effects : e.depth >= open => e.work \in writes[open]
SafeSpec == Init /\ [][Next /\ DropsOnlyItsOwn]_vars

(* What is written waits on one level, with its effect parked; what is     *)
(* durable has had its effect, or has it coming.                           *)
OneLevel == \A l, m \in Levels : \A w \in writes[l] \cap writes[m] : l = m
WritesHaveEffects == \A l \in Levels : writes[l] \subseteq WorkOf(effects)
DurableIsOwed == ~died => durable \subseteq ran \cup WorkOf(flush)

SafeInv == OneLevel /\ WritesHaveEffects /\ DurableIsOwed

LEMMA InitSafe == Init => SafeInv
  BY DEF Init, SafeInv, OneLevel, WritesHaveEffects, DurableIsOwed

LEMMA RunAfterCommitSafe ==
  ASSUME IInv, SafeInv, RunAfterCommit
  PROVE  SafeInv'
  <1> DEFINE w == done + 1
  <1>0. flush = {} /\ UNCHANGED <<open, depth, flush, died>> /\ ~died
    BY DEF RunAfterCommit, CallerRuns
  <1>1. CASE open = 0 /\ RunAfterCommitAtOnce(w)
    BY <1>0, <1>1 DEF RunAfterCommitAtOnce, SafeInv, OneLevel, WritesHaveEffects,
                      DurableIsOwed, WorkOf
  <1>2. CASE open > 0 /\ RunAfterCommitLater(w)
    <2> DEFINE e == [depth |-> depth, work |-> w]
    <2>0. e.work = w /\ effects' = effects \cup {e} /\ UNCHANGED <<durable, ran>>
      BY <1>2 DEF RunAfterCommitLater
    <2>1. \A l \in Levels : w \notin writes[l]
      <3>1. \A v : v <= done => v # w
        BY BoundAssumption DEF IInv, TypeOK
      <3> QED BY <3>1 DEF IInv, WritesAreOpen
    <2> HIDE DEF e, w
    <2>2. \A l \in Levels : writes'[l] = IF l = open THEN writes[l] \cup {w} ELSE writes[l]
      BY <1>2 DEF RunAfterCommitLater, IInv, TypeOK
    <2>3. OneLevel'
      BY <2>1, <2>2 DEF SafeInv, OneLevel
    <2>4. WritesHaveEffects'
      <3>1. WorkOf(effects') = WorkOf(effects) \cup {w}
        BY <2>0 DEF WorkOf
      <3>2. \A l \in Levels : writes'[l] \subseteq WorkOf(effects')
        BY <2>2, <3>1 DEF SafeInv, WritesHaveEffects
      <3> QED BY <3>2 DEF WritesHaveEffects, WorkOf
    <2> QED BY <1>0, <2>0, <2>3, <2>4 DEF SafeInv, DurableIsOwed
  <1> QED BY <1>1, <1>2 DEF RunAfterCommit

LEMMA ReleaseSafe ==
  ASSUME IInv, SafeInv, Release
  PROVE  SafeInv'
  <1>1. open \in Levels /\ open - 1 \in Levels /\ open # open - 1
    BY BoundAssumption DEF Release, IInv, TypeOK, Levels
  <1>2. \A l \in Levels :
          writes'[l] = IF l = open THEN {}
                       ELSE IF l = open - 1 THEN writes[l] \cup writes[open] ELSE writes[l]
    BY <1>1 DEF Release, IInv, TypeOK
  <1>3. ASSUME NEW l \in Levels, NEW m \in Levels, NEW w \in writes'[l] \cap writes'[m]
        PROVE  l = m
    <2>1. \A n \in {l, m} : \E k \in Levels :
            w \in writes[k] /\ n = IF k = open THEN open - 1 ELSE k
      BY <1>1, <1>2
    <2> QED BY <2>1 DEF SafeInv, OneLevel
  <1>4. WritesHaveEffects'
    <2>1. \A l \in Levels : writes'[l] \subseteq WorkOf(effects)
      BY <1>1, <1>2 DEF SafeInv, WritesHaveEffects
    <2>2. effects' = effects
      BY DEF Release
    <2> QED BY <2>1, <2>2 DEF WritesHaveEffects, WorkOf
  <1> QED BY <1>3, <1>4 DEF Release, SafeInv, OneLevel, DurableIsOwed

LEMMA CommitSafe ==
  ASSUME IInv, SafeInv, Commit
  PROVE  SafeInv'
  <1>1. 1 \in Levels /\ writes' = [writes EXCEPT ![1] = {}]
    BY BoundAssumption DEF Commit, Levels
  <1>2. \A l \in Levels : writes'[l] = {}
    <2>1. \A l \in Levels : writes[l] # {} => l = 1
      BY DEF Commit, IInv, WritesAreOpen, Levels
    <2> QED BY <1>1, <2>1 DEF IInv, TypeOK
  <1>3. durable' = durable \cup writes[1] /\ flush' = effects /\ flush = {}
        /\ UNCHANGED <<ran, died>>
    BY DEF Commit, CallerRuns
  <1>4. DurableIsOwed'
    BY <1>1, <1>3 DEF SafeInv, WritesHaveEffects, DurableIsOwed, WorkOf
  <1> QED BY <1>2, <1>4 DEF SafeInv, OneLevel, WritesHaveEffects

LEMMA RunEffectSafe ==
  ASSUME IInv, SafeInv, RunEffect
  PROVE  SafeInv'
  BY DEF RunEffect, SafeInv, OneLevel, WritesHaveEffects, DurableIsOwed, WorkOf

(* The work on the levels that stay keeps its effects: those the rollback  *)
(* drops belong to the level it undoes, and work is on one level only.     *)
LEMMA RollbackSavepointSafe ==
  ASSUME IInv, SafeInv, RollbackSavepoint, DropsOnlyItsOwn
  PROVE  SafeInv'
  <1>1. /\ open \in Levels /\ open - 1 \in Nat /\ depth' = open - 1
        /\ effects' = {e \in effects : e.depth <= open - 1}
        /\ UNCHANGED <<durable, flush, ran, died>>
    BY DEF RollbackSavepoint, OneLess, IInv, TypeOK, CountsNesting, Levels
  <1>2. \A l \in Levels : writes'[l] = IF l = open THEN {} ELSE writes[l]
    BY <1>1 DEF RollbackSavepoint, IInv, TypeOK
  <1>3. ASSUME NEW l \in Levels, NEW w \in writes'[l]
        PROVE  w \in WorkOf(effects')
    <2>1. l # open /\ w \in writes[l]
      BY <1>2, <1>3
    <2>2. PICK e \in effects : e.work = w
      BY <2>1 DEF SafeInv, WritesHaveEffects, WorkOf
    <2>3. ~(e.depth >= open)
      BY <1>1, <2>1, <2>2 DEF DropsOnlyItsOwn, SafeInv, OneLevel
    <2>4. e.depth <= open - 1
      BY <1>1, <2>3 DEF IInv, TypeOK, Effect, Levels
    <2> QED BY <1>1, <2>2, <2>4 DEF WorkOf
  <1> QED BY <1>1, <1>2, <1>3
          DEF SafeInv, OneLevel, WritesHaveEffects, DurableIsOwed

LEMMA EndsSafe ==
  ASSUME IInv, SafeInv, Rollback \/ Die
  PROVE  SafeInv'
  <1>1. \A l \in Levels : writes'[l] = {}
    <2>1. CASE Die
      BY <2>1 DEF Die
    <2>2. CASE Rollback
      <3>1. \A l \in Levels : writes[l] # {} => l = 1
        BY <2>2 DEF Rollback, IInv, WritesAreOpen, Levels
      <3> QED BY <2>2, <3>1 DEF Rollback, IInv, TypeOK
    <2> QED BY <2>1, <2>2
  <1>2. DurableIsOwed'
    BY DEF Rollback, Die, SafeInv, DurableIsOwed
  <1> QED BY <1>1, <1>2 DEF SafeInv, OneLevel, WritesHaveEffects

LEMMA StepSafe == IInv /\ SafeInv /\ [Next /\ DropsOnlyItsOwn]_vars => SafeInv'
  <1> SUFFICES ASSUME IInv, SafeInv, [Next /\ DropsOnlyItsOwn]_vars PROVE SafeInv'
    OBVIOUS
  <1>1. CASE UNCHANGED vars
    BY <1>1 DEF vars, SafeInv, OneLevel, WritesHaveEffects, DurableIsOwed, WorkOf
  <1>2. CASE Next /\ DropsOnlyItsOwn
    <2>1. Start => SafeInv'
      BY DEF Start, SafeInv, OneLevel, WritesHaveEffects, DurableIsOwed
    <2> QED BY <1>2, <2>1, RunAfterCommitSafe, ReleaseSafe, CommitSafe, RunEffectSafe,
               RollbackSavepointSafe, EndsSafe DEF Next
  <1> QED BY <1>1, <1>2

(* When savepoints' rollbacks drop only what was registered inside, an     *)
(* idle runner owes nothing: all durable work has had its effect.  So the  *)
(* effects of a released sibling are the only ones that can be lost while  *)
(* the process lives.                                                      *)
THEOREM OnlyASiblingLosesEffects == SafeSpec => []DurableWorkHasHadItsEffect
  <1>1. [Next /\ DropsOnlyItsOwn]_vars => [Next]_vars
    OBVIOUS
  <1>2. SafeSpec => [](IInv /\ SafeInv)
    BY <1>1, InitIInv, InitSafe, StepIInv, StepSafe, PTL DEF SafeSpec
  <1>3. SafeInv => DurableWorkHasHadItsEffect
    BY DEF SafeInv, DurableIsOwed, DurableWorkHasHadItsEffect, WorkOf
  <1>4. QED BY <1>2, <1>3, PTL
=============================================================================
