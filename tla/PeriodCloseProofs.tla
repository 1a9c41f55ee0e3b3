-------------------------- MODULE PeriodCloseProofs --------------------------
(***************************************************************************)
(* What holds of the calendar for every number of periods, subledgers and  *)
(* racing calls.                                                           *)
(***************************************************************************)
EXTENDS PeriodClose, FiniteSetTheorems, WellFoundedInduction, TLAPS

(* Whoever has locked a row shares it with nobody.                         *)
Exclusive == \A r \in Rows : hold[r] # NoCall => share[r] \subseteq {hold[r]}

(* closePeriod goes through labels of its own, and from its first step to  *)
(* its commit it holds its period's row, which is open, and no other row.  *)
CloseLabels == {"earlier", "unposted", "yearOpen"}
OpAt(c) ==
  /\ OpOf[c] = "close" => pc[c] \in CloseLabels \cup {"idle", "commit", "answered"}
  /\ pc[c] \in CloseLabels => OpOf[c] = "close"
MidClose(c) == OpOf[c] = "close" /\ pc[c] \in CloseLabels \cup {"commit"}
HoldsItsPeriod(c) ==
  MidClose(c) => hold[tx[c].period] = c /\ period[tx[c].period].status = "open"
HoldsNoOther(c) ==
  OpOf[c] = "close" =>
    \A r \in Rows : hold[r] = c => MidClose(c) /\ r = tx[c].period
Decided(c) ==
  OpOf[c] = "close" /\ pc[c] \in {"yearOpen", "commit"} => Unposted(tx[c].period) = {}

(* What a transaction is about to add.  An ordinary entry is admitted, and *)
(* the row that says so cannot change before the commit; a reversal is of  *)
(* an entry not reversed yet, and by its commit only its transaction can   *)
(* reverse it: a reopening that has not locked the period's row, because   *)
(* its first save found nothing to write, locks it in the second.          *)
AddsAdmitted(c) ==
  \A e \in tx[c].adds :
    e.kind = "ordinary" =>
      /\ Admits(e.period, e.module)
      /\ c \in share[e.period] \/ hold[e.period] = c
AddsPending(c) ==
  \A e \in tx[c].adds :
    e.status = "pending" => e.kind = "ordinary" /\ e.module = GL /\ OpOf[c] # "close"
AddsClosing(c) ==
  /\ \A e \in tx[c].adds : e.kind = "closing" => e.by = c /\ e.period = LastPeriod
  /\ \A e, f \in tx[c].adds : e.kind = "closing" /\ f.kind = "closing" => e = f
Unreversed(by) == \A s \in entries : s.kind = "reversal" => s.of # by
SecondSave == {"selectAgain", "updateAgain"}
GuardsLast(c) ==
  \/ hold[LastPeriod] = c
  \/ c \in share[LastPeriod] /\ pc[c] \in SecondSave /\ tx[c].period = LastPeriod
AddsReversals(c) ==
  /\ \A e \in tx[c].adds : e.kind = "reversal" => GuardsLast(c) /\ Unreversed(e.of)
  /\ \A e, f \in tx[c].adds :
       e.kind = "reversal" /\ f.kind = "reversal" /\ e.of = f.of => e = f
Found(c) ==
  /\ \A e \in tx[c].closings : e \in entries /\ e.kind = "closing"
  /\ \A e \in tx[c].gone : e.status = "pending"
  /\ pc[c] = "reverseAll" => hold[LastPeriod] = c
  /\ pc[c] = "reverse" => \A e \in tx[c].closings : e.period = tx[c].period

CallInv(c) ==
  /\ OpAt(c) /\ HoldsItsPeriod(c) /\ HoldsNoOther(c) /\ Decided(c)
  /\ AddsAdmitted(c) /\ AddsPending(c) /\ AddsClosing(c) /\ AddsReversals(c)
  /\ Found(c)

(* What is committed.  A call writes one closing entry, when it ends.      *)
EntriesInv ==
  /\ \A e \in entries : e.status = "pending" => e.kind = "ordinary" /\ e.module = GL
  /\ \A e \in entries :
       e.kind = "closing" => pc[e.by] = "answered" /\ e.period = LastPeriod
  /\ \A e, f \in entries :
       e.kind = "closing" /\ f.kind = "closing" /\ e.by = f.by => e = f

(* There are finitely many entries, so that their amounts can be summed.   *)
Finite ==
  /\ IsFiniteSet(entries)
  /\ \A c \in Calls : IsFiniteSet(tx[c].adds) /\ IsFiniteSet(tx[c].closings)

IInv ==
  /\ TypeOK /\ Finite /\ Exclusive /\ EntriesInv /\ ClosingReversedOnce
  /\ \A c \in Calls : CallInv(c)

-----------------------------------------------------------------------------
(* The sum of the amounts of finitely many entries is an integer.  Amount  *)
(* folds over the entries: its table has, for every set of them, the       *)
(* amount of the one CHOOSE takes and the sum of the rest.                 *)
Picked(s) == CHOOSE e \in s : TRUE
Equation(S, F) ==
  F = [s \in SUBSET S |-> IF s = {} THEN 0 ELSE Picked(s).amount + F[s \ {Picked(s)}]]

LEMMA AmountIsASum ==
  ASSUME NEW es PROVE Amount(es) = (CHOOSE F : Equation(es, F))[es]
  BY DEF Amount, MapThenSumSet, MapThenFoldSet, Equation, Picked

(* Among the subsets of a finite set there is a least counterexample:      *)
(* that stands for induction.                                              *)
LEMMA LeastSet ==
  ASSUME NEW D, IsFiniteSet(D), NEW T \in SUBSET SUBSET D, T # {}
  PROVE  \E S \in T : \A U \in T : U \subseteq S => U = S
  <1>1. IsWellFoundedOn(StrictSubsetOrdering(D), SUBSET D)
    BY FS_StrictSubsetOrderingWellFounded, FS_FiniteSubsetsOfFinite
  <1>2. PICK S \in T : \A U \in T : <<U, S>> \notin StrictSubsetOrdering(D)
    BY <1>1, WFMin
  <1>3. ASSUME NEW U \in T, U \subseteq S PROVE U = S
    BY <1>2, <1>3 DEF StrictSubsetOrdering
  <1> QED BY <1>3

LEMMA PickedIsIn ==
  ASSUME NEW s, s # {} PROVE Picked(s) \in s
  BY DEF Picked

LEMMA EquationUnfolds ==
  ASSUME NEW S, NEW F, Equation(S, F), NEW s \in SUBSET S
  PROVE  F[s] = IF s = {} THEN 0 ELSE Picked(s).amount + F[s \ {Picked(s)}]
  BY DEF Equation

(* Two tables agree wherever both have an entry.                           *)
LEMMA EquationsAgree ==
  ASSUME NEW A, IsFiniteSet(A), NEW B, NEW F, NEW G, Equation(A, F), Equation(B, G)
  PROVE  \A s \in SUBSET (A \cap B) : F[s] = G[s]
  <1> DEFINE Differ == {s \in SUBSET (A \cap B) : F[s] # G[s]}
  <1> SUFFICES ASSUME Differ # {} PROVE FALSE
    OBVIOUS
  <1>1. PICK s \in Differ : \A U \in Differ : U \subseteq s => U = s
    <2>1. Differ \in SUBSET SUBSET A
      OBVIOUS
    <2> HIDE DEF Differ
    <2> QED BY <2>1, LeastSet
  <1>2. s \in SUBSET A /\ s \in SUBSET B /\ F[s] # G[s]
    OBVIOUS
  <1>3. s # {}
    BY <1>2, EquationUnfolds
  <1>4. Picked(s) \in s
    BY <1>3, PickedIsIn
  <1>5. F[s \ {Picked(s)}] = G[s \ {Picked(s)}]
    BY <1>1, <1>2, <1>4
  <1>6. F[s] = IF s = {} THEN 0 ELSE Picked(s).amount + F[s \ {Picked(s)}]
    <2> HIDE DEF Differ
    <2> QED BY <1>2, EquationUnfolds
  <1>7. G[s] = IF s = {} THEN 0 ELSE Picked(s).amount + G[s \ {Picked(s)}]
    <2> HIDE DEF Differ
    <2> QED BY <1>2, EquationUnfolds
  <1> QED BY <1>2, <1>3, <1>5, <1>6, <1>7

(* There is one: it is made of those of the smaller sets.                  *)
LEMMA EquationHasASolution ==
  ASSUME NEW S, IsFiniteSet(S) PROVE \E F : Equation(S, F)
  <1> DEFINE Without == {s \in SUBSET S : ~ \E F : Equation(s, F)}
  <1> SUFFICES ASSUME Without # {} PROVE FALSE
    OBVIOUS
  <1>1. PICK s \in Without : \A U \in Without : U \subseteq s => U = s
    <2>1. Without \in SUBSET SUBSET S
      OBVIOUS
    <2> HIDE DEF Without
    <2> QED BY <2>1, LeastSet
  <1> DEFINE
      Of(t) == CHOOSE F : Equation(t, F)
      F == [t \in SUBSET s |->
              IF t = {} THEN 0
              ELSE Picked(t).amount + Of(t \ {Picked(t)})[t \ {Picked(t)}]]
  <1>2. ASSUME NEW t \in SUBSET s, t # s PROVE Equation(t, Of(t)) /\ IsFiniteSet(t)
    <2>1. t \notin Without /\ t \in SUBSET S
      BY <1>1, <1>2
    <2>2. \E G : Equation(t, G)
      BY <2>1
    <2> QED BY <2>1, <2>2, FS_Subset
  <1>3. ASSUME NEW t \in SUBSET s, t # s PROVE F[t] = Of(t)[t]
    <2>1. CASE t = {}
      BY <2>1, <1>2, <1>3, EquationUnfolds
    <2>2. CASE t # {}
      <3>1. Picked(t) \in t
        BY <2>2, PickedIsIn
      <3>2. PICK u : u = t \ {Picked(t)}
        OBVIOUS
      <3>3. u \in SUBSET s /\ u # s /\ u \in SUBSET (t \cap u)
        BY <3>1, <3>2
      <3>4. PICK V, W : V = Of(t) /\ W = Of(u)
        OBVIOUS
      <3>5. Equation(t, V) /\ Equation(u, W) /\ IsFiniteSet(t)
        BY <1>2, <1>3, <3>3, <3>4
      <3>6. V[u] = W[u]
        <4>1. \A x \in SUBSET (t \cap u) : V[x] = W[x]
          BY <3>5, EquationsAgree
        <4> QED BY <3>3, <4>1
      <3>7. V[t] = Picked(t).amount + V[u]
        BY <2>2, <3>2, <3>5, EquationUnfolds
      <3>8. F[t] = Picked(t).amount + W[u]
        BY <2>2, <3>2, <3>4
      <3> QED BY <3>4, <3>6, <3>7, <3>8
    <2> QED BY <2>1, <2>2
  <1>4. ASSUME NEW t \in SUBSET s, t # {}
        PROVE  F[t] = Picked(t).amount + F[t \ {Picked(t)}]
    <2>1. Picked(t) \in t
      BY <1>4, PickedIsIn
    <2>2. t \ {Picked(t)} \in SUBSET s /\ t \ {Picked(t)} # s
      BY <2>1
    <2>3. F[t \ {Picked(t)}] = Of(t \ {Picked(t)})[t \ {Picked(t)}]
      BY <1>3, <2>2
    <2> QED BY <1>4, <2>3
  <1>5. Equation(s, F)
    <2>1. F[{}] = 0 /\ F = [t \in SUBSET s |-> F[t]]
      OBVIOUS
    <2> HIDE DEF F
    <2> QED BY <1>4, <2>1 DEF Equation
  <1> QED BY <1>1, <1>5

LEMMA AmountIsAnInt ==
  ASSUME NEW es, IsFiniteSet(es), \A e \in es : e.amount \in Int
  PROVE  Amount(es) \in Int
  <1>1. PICK F : F = CHOOSE G : Equation(es, G)
    OBVIOUS
  <1>2. Equation(es, F)
    BY <1>1, EquationHasASolution
  <1> DEFINE Wrong == {s \in SUBSET es : F[s] \notin Int}
  <1>3. ASSUME Wrong # {} PROVE FALSE
    <2>1. PICK s \in Wrong : \A U \in Wrong : U \subseteq s => U = s
      <3>1. Wrong \in SUBSET SUBSET es
        OBVIOUS
      <3> HIDE DEF Wrong
      <3> QED BY <1>3, <3>1, LeastSet
    <2>2. s \in SUBSET es /\ F[s] \notin Int
      OBVIOUS
    <2>3. F[s] = IF s = {} THEN 0 ELSE Picked(s).amount + F[s \ {Picked(s)}]
      <3>1. s \in SUBSET es
        BY <2>2
      <3> HIDE DEF Wrong
      <3> QED BY <1>2, <3>1, EquationUnfolds
    <2>4. s # {}
      BY <2>2, <2>3
    <2>5. Picked(s) \in s /\ Picked(s).amount \in Int
      BY <2>2, <2>4, PickedIsIn
    <2>6. F[s \ {Picked(s)}] \in Int
      BY <2>1, <2>2, <2>5
    <2> QED BY <2>2, <2>3, <2>4, <2>5, <2>6
  <1>4. F[es] \in Int
    BY <1>3
  <1> QED BY <1>1, <1>4, AmountIsASum

LEMMA AmountSolves ==
  ASSUME NEW A, IsFiniteSet(A), NEW G, Equation(A, G), NEW es \in SUBSET A
  PROVE  Amount(es) = G[es]
  <1>1. PICK F : F = CHOOSE H : Equation(es, H)
    OBVIOUS
  <1>2. IsFiniteSet(es)
    BY FS_Subset
  <1>3. Equation(es, F)
    BY <1>1, <1>2, EquationHasASolution
  <1>4. \A s \in SUBSET (es \cap A) : F[s] = G[s]
    BY <1>2, <1>3, EquationsAgree
  <1>5. F[es] = G[es]
    BY <1>4
  <1> QED BY <1>1, <1>5, AmountIsASum

LEMMA AmountOfPicked ==
  ASSUME NEW es, IsFiniteSet(es), es # {}
  PROVE  Amount(es) = Picked(es).amount + Amount(es \ {Picked(es)})
  <1>1. PICK G : Equation(es, G)
    BY EquationHasASolution
  <1>2. Amount(es) = G[es] /\ Amount(es \ {Picked(es)}) = G[es \ {Picked(es)}]
    BY <1>1, AmountSolves
  <1>3. G[es] = IF es = {} THEN 0 ELSE Picked(es).amount + G[es \ {Picked(es)}]
    BY <1>1, EquationUnfolds
  <1> QED BY <1>2, <1>3

LEMMA AmountWithout ==
  ASSUME NEW es, IsFiniteSet(es), \A e \in es : e.amount \in Int, NEW e0 \in es
  PROVE  Amount(es) = e0.amount + Amount(es \ {e0})
  <1> DEFINE
      Wrong == {s \in SUBSET es : \E e \in s : Amount(s) # e.amount + Amount(s \ {e})}
  <1> SUFFICES ASSUME Wrong # {} PROVE FALSE
    OBVIOUS
  <1>1. PICK s \in Wrong : \A U \in Wrong : U \subseteq s => U = s
    <2>1. Wrong \in SUBSET SUBSET es
      OBVIOUS
    <2> HIDE DEF Wrong
    <2> QED BY <2>1, LeastSet
  <1>2. s \in SUBSET es /\ IsFiniteSet(s)
    BY FS_Subset
  <1>3. PICK e \in s : Amount(s) # e.amount + Amount(s \ {e})
    BY <1>1
  <1>4. PICK f \in s : f = Picked(s)
    BY <1>3, PickedIsIn
  <1>5. Amount(s) = f.amount + Amount(s \ {f})
    BY <1>2, <1>3, <1>4, AmountOfPicked
  <1>6. e # f
    BY <1>3, <1>5
  <1>7. s \ {e} \notin Wrong /\ s \ {f} \notin Wrong
    BY <1>1
  <1>8. Amount(s \ {f}) = e.amount + Amount((s \ {f}) \ {e})
    BY <1>2, <1>6, <1>7
  <1>9. Amount(s \ {e}) = f.amount + Amount((s \ {e}) \ {f})
    BY <1>2, <1>6, <1>7
  <1>10. PICK rest : rest = s \ {e, f}
    OBVIOUS
  <1>11. (s \ {f}) \ {e} = rest /\ (s \ {e}) \ {f} = rest
    BY <1>10
  <1>12. Amount(rest) \in Int
    <2>1. IsFiniteSet(rest) /\ \A x \in rest : x.amount \in Int
      BY <1>2, <1>10, FS_Subset
    <2> QED BY <2>1, AmountIsAnInt
  <1>13. PICK u, v, w : u = e.amount /\ v = f.amount /\ w = Amount(rest)
    OBVIOUS
  <1>14. u + (v + w) = v + (u + w)
    BY <1>2, <1>12, <1>13
  <1> QED BY <1>3, <1>5, <1>8, <1>9, <1>11, <1>13, <1>14

LEMMA AmountWith ==
  ASSUME NEW es, IsFiniteSet(es), \A e \in es : e.amount \in Int,
         NEW e0, e0 \notin es, e0.amount \in Int
  PROVE  Amount(es \cup {e0}) = Amount(es) + e0.amount
  <1>1. IsFiniteSet(es \cup {e0}) /\ (es \cup {e0}) \ {e0} = es
    BY FS_AddElement
  <1>2. Amount(es \cup {e0}) = e0.amount + Amount((es \cup {e0}) \ {e0})
    BY <1>1, AmountWithout
  <1>3. Amount(es) \in Int
    BY AmountIsAnInt
  <1>4. PICK u, v : u = Amount(es) /\ v = e0.amount
    OBVIOUS
  <1>5. v + u = u + v
    BY <1>3, <1>4
  <1> QED BY <1>1, <1>2, <1>4, <1>5

LEMMA NoAmount == Amount({}) = 0
  <1>1. PICK none : none = {}
    OBVIOUS
  <1>2. IsFiniteSet(none)
    BY <1>1, FS_EmptySet
  <1>3. PICK G : Equation(none, G)
    BY <1>2, EquationHasASolution
  <1>4. Amount(none) = G[none]
    BY <1>2, <1>3, AmountSolves
  <1>5. G[none] = IF none = {} THEN 0 ELSE Picked(none).amount + G[none \ {Picked(none)}]
    BY <1>3, EquationUnfolds
  <1> QED BY <1>1, <1>4, <1>5

LEMMA ResultIsAnInt ==
  ASSUME TypeOK, IsFiniteSet(entries) PROVE Result \in Int
  <1> DEFINE es == {e \in entries : e.status = "posted" /\ e.kind # "closing"}
  <1>1. es \in SUBSET entries /\ \A e \in es : e.amount \in Int
    BY DEF TypeOK, Entry
  <1>2. IsFiniteSet(es)
    BY <1>1, FS_Subset
  <1> HIDE DEF es
  <1>3. Amount(es) \in Int
    BY <1>1, <1>2, AmountIsAnInt
  <1> QED BY <1>3 DEF Result, es

-----------------------------------------------------------------------------
(* Type correctness, and what a step of a call may touch at all: its own   *)
(* place and transaction, one lock of one row, or, when it ends, all of    *)
(* its locks; and nothing that is committed before it commits.             *)
Footprint(c) ==
  /\ \E label \in PcLabels : Goto(c, label)
  /\ \E t \in TxRow : Put(c, t)
  /\ \/ UNCHANGED <<share, hold>>
     \/ \E r \in Rows : Shareable(r) /\ Share(c, r)
     \/ \E r \in Rows : Lockable(c, r) /\ Lock(c, r)
     \/ Release(c)
  /\ UNCHANGED committed \/ Commit(c)

LEMMA EntryTypes ==
  ASSUME NEW c \in Calls, NEW p \in Periods, NEW m \in Modules,
         NEW s \in {"pending", "posted"}, NEW n \in Int
  PROVE  /\ NoTx \in TxRow /\ GL \in Modules /\ LastPeriod \in Periods
         /\ Opened \in PeriodRow /\ Closed \in PeriodRow
         /\ Ordinary(c, p, m, s) \in Entry /\ Closing(c, n) \in Entry
         /\ Audit(c) \in Entry
  <1>1. GL \in Modules /\ LastPeriod \in Periods
    BY CalendarAssumption, CallAssumption DEF Periods
  <1>2. Opened \in PeriodRow /\ Closed \in PeriodRow
    BY DEF Opened, Closed, PeriodRow, Status
  <1>3. Ordinary(c, p, m, s) \in Entry /\ Closing(c, n) \in Entry
    BY <1>1 DEF Ordinary, Closing, Entry, Kinds
  <1>4. Audit(c) \in Entry
    <2>1. Audit(c) = [by |-> c, kind |-> "audit", of |-> NoCall, module |-> GL,
                      period |-> LastPeriod, amount |-> 1, status |-> "posted"]
      BY DEF Audit, Ordinary
    <2> QED BY <2>1, <1>1 DEF Entry, Kinds
  <1>5. NoTx \in TxRow
    BY <1>1, <1>2 DEF NoTx, TxRow
  <1> QED BY <1>1, <1>2, <1>3, <1>4, <1>5

LEMMA ReversalTypes ==
  ASSUME NEW c \in Calls, NEW es \in SUBSET Entry
  PROVE  Reversals(c, es) \in SUBSET Entry
  BY CalendarAssumption, CallAssumption DEF Reversals, Entry, Kinds, Periods

LEMMA StepFootprint ==
  ASSUME TypeOK, Finite, NEW c \in Calls, Step(c)
  PROVE  Footprint(c)
  <1>0. /\ NoTx \in TxRow /\ GL \in Modules /\ LastPeriod \in Periods
        /\ Opened \in PeriodRow /\ Closed \in PeriodRow
        /\ Audit(c) \in Entry /\ \A n \in Int : Closing(c, n) \in Entry
        /\ \A p \in Periods, m \in Modules, s \in {"pending", "posted"} :
             Ordinary(c, p, m, s) \in Entry
        /\ \A p \in Periods : p \in Rows
    <2>1. GL \in Modules /\ LastPeriod \in Periods /\ \A p \in Periods : p \in Rows
      BY CalendarAssumption, CallAssumption DEF Periods, Rows
    <2> QED BY <2>1, EntryTypes
  <1>a. UNCHANGED tx => \E t \in TxRow : Put(c, t)
    <2>1. UNCHANGED tx => Put(c, tx[c]) BY DEF Put, TypeOK
    <2> QED BY <2>1 DEF TypeOK
  <1>b. tx[c] \in TxRow /\ tx[c].period \in Periods /\ tx[c].module \in Modules
    BY DEF TypeOK, TxRow
  <1>c. ItsRow(c) \in PeriodRow
    BY <1>b DEF ItsRow, TypeOK, TxRow
  <1>1. CASE \E p \in Periods : Submit(c, p)
    <2>1. PICK p \in Periods : Submit(c, p) BY <1>1
    <2>2. [NoTx EXCEPT !.adds = {Ordinary(c, p, GL, "pending")}] \in TxRow
      BY <1>0 DEF TxRow
    <2>3. \E r \in Rows : Shareable(r) /\ Share(c, r)
      BY <1>0, <2>1 DEF Submit, ResolvePostingPeriod
    <2> QED BY <2>1, <2>2, <2>3 DEF Submit, Footprint, PcLabels
  <1>2. CASE \E p \in Periods, m \in Modules : Post(c, p, m)
    <2>1. PICK p \in Periods, m \in Modules : Post(c, p, m) BY <1>2
    <2>2. [NoTx EXCEPT !.adds = {Ordinary(c, p, m, "posted")}] \in TxRow
      BY <1>0 DEF TxRow
    <2>3. \E r \in Rows : Shareable(r) /\ Share(c, r)
      BY <1>0, <2>1 DEF Post, ResolvePostingPeriod
    <2> QED BY <2>1, <2>2, <2>3 DEF Post, Footprint, PcLabels
  <1>3. CASE \E e \in entries : Approve(c, e)
    <2>1. PICK e \in entries : Approve(c, e) BY <1>3
    <2>2. e \in Entry /\ e.period \in Periods BY DEF TypeOK, Entry
    <2>3. [e EXCEPT !.status = "posted"] \in Entry BY <2>2 DEF Entry
    <2>4. [NoTx EXCEPT !.gone = {e}, !.adds = {[e EXCEPT !.status = "posted"]}] \in TxRow
      BY <1>0, <2>2, <2>3 DEF TxRow
    <2>5. \E r \in Rows : Shareable(r) /\ Share(c, r)
      BY <1>0, <2>1, <2>2 DEF Approve, ResolvePostingPeriod
    <2> QED BY <2>1, <2>4, <2>5 DEF Approve, Footprint, PcLabels
  <1>4. CASE \E e \in entries : Reject(c, e)
    <2>1. PICK e \in entries : Reject(c, e) BY <1>4
    <2>2. e \in Entry BY DEF TypeOK
    <2>3. [NoTx EXCEPT !.gone = {e}] \in TxRow BY <1>0, <2>2 DEF TxRow
    <2> QED BY <1>0, <2>1, <2>3 DEF Reject, Footprint, PcLabels
  <1>5. CASE AuditPost(c)
    <2>1. [NoTx EXCEPT !.adds = {Audit(c), Closing(c, -1)}] \in TxRow
      BY <1>0 DEF TxRow
    <2>2. \E r \in Rows : Shareable(r) /\ Share(c, r)
      BY <1>0, <1>5 DEF AuditPost
    <2> QED BY <1>5, <2>1, <2>2 DEF AuditPost, Footprint, PcLabels
  <1>6. CASE \E p \in Periods : ClosePeriod(c, p)
    <2>1. PICK p \in Periods : ClosePeriod(c, p) BY <1>6
    <2>2. [NoTx EXCEPT !.period = p, !.row = Closed] \in TxRow BY <1>0 DEF TxRow
    <2> QED BY <1>0, <2>1, <2>2 DEF ClosePeriod, Footprint, PcLabels
  <1>7. CASE CloseEarlier(c) \/ CloseUnposted(c) \/ AuditRead(c) \/ ReopenYearOpen(c)
               \/ ReopenLater(c) \/ CloseYear(c) \/ CloseYearCount(c) \/ ReopenYear(c)
    BY <1>7, <1>a DEF CloseEarlier, CloseUnposted, AuditRead, ReopenYearOpen, ReopenLater,
       CloseYear, CloseYearCount, ReopenYear, Footprint, PcLabels
  <1>8. CASE CloseYearOpen(c)
    <2>1. [tx[c] EXCEPT !.adds = {Ordinary(c, tx[c].period, GL, "posted")}] \in TxRow
      BY <1>0, <1>b DEF TxRow
    <2> QED BY <1>8, <1>a, <2>1 DEF CloseYearOpen, Footprint, PcLabels
  <1>9. CASE \E p \in Periods : ReopenPeriod(c, p)
    <2>1. PICK p \in Periods : ReopenPeriod(c, p) BY <1>9
    <2>2. [NoTx EXCEPT !.period = p] \in TxRow BY <1>0 DEF TxRow
    <2> QED BY <2>1, <2>2 DEF ReopenPeriod, Footprint, PcLabels
  <1>10. CASE ReopenSelect(c)
    <2>1. [tx[c] EXCEPT !.saw = ItsRow(c)] \in TxRow
      BY <1>b, <1>c DEF TxRow
    <2>2. PICK label \in {"closings", "update", "commit", "updateAgain"} : Goto(c, label)
      BY <1>10 DEF ReopenSelect
    <2> QED BY <1>10, <2>1, <2>2 DEF ReopenSelect, Footprint, PcLabels
  <1>11. CASE ReopenUpdate(c)
    <2>1. Merged(tx[c].saw, ItsRow(c)) \in PeriodRow
      <3>1. PICK saw, row : saw = tx[c].saw /\ row = ItsRow(c)
        OBVIOUS
      <3>2. saw \in PeriodRow /\ row \in PeriodRow
        BY <1>b, <1>c, <3>1 DEF TxRow
      <3>3. Merged(saw, row) \in PeriodRow
        BY <3>2 DEF Merged, PeriodRow, Status
      <3> QED BY <3>1, <3>3
    <2>2. [tx[c] EXCEPT !.row = Merged(tx[c].saw, ItsRow(c))] \in TxRow
      BY <1>b, <2>1 DEF TxRow
    <2>3. PICK label \in {"closings", "commit"} : Goto(c, label)
      BY <1>11 DEF ReopenUpdate
    <2> QED BY <1>0, <1>b, <1>11, <2>2, <2>3 DEF ReopenUpdate, Footprint, PcLabels
  <1>12. CASE ReopenReverse(c)
    <2>1. Reversals(c, tx[c].closings) \in SUBSET Entry
      BY <1>b, ReversalTypes DEF TxRow
    <2>2. [tx[c] EXCEPT !.adds = Reversals(c, tx[c].closings)] \in TxRow
      BY <1>b, <2>1 DEF TxRow
    <2>3. UNCHANGED <<share, hold>> \/ \E r \in Rows : Shareable(r) /\ Share(c, r)
      BY <1>0, <1>b, <1>12 DEF ReopenReverse, AdmitsReversal, ResolvePostingPeriod
    <2> QED BY <1>12, <2>2, <2>3 DEF ReopenReverse, Footprint, PcLabels
  <1>13. CASE \E p \in Periods, m \in Modules : CloseModule(c, p, m)
    <2>1. PICK p \in Periods, m \in Modules : CloseModule(c, p, m) BY <1>13
    <2>2. [period[p] EXCEPT !.module[m] = "closed"] \in PeriodRow
      BY DEF TypeOK, PeriodRow, Status
    <2>3. [NoTx EXCEPT !.period = p,
                       !.row = [period[p] EXCEPT !.module[m] = "closed"]] \in TxRow
      BY <1>0, <2>2 DEF TxRow
    <2> QED BY <1>0, <2>1, <2>3 DEF CloseModule, Footprint, PcLabels
  <1>14. CASE \E p \in Periods, m \in Modules : ReopenModule(c, p, m)
    <2>1. PICK p \in Periods, m \in Modules : ReopenModule(c, p, m) BY <1>14
    <2>2. [NoTx EXCEPT !.period = p, !.module = m] \in TxRow BY <1>0 DEF TxRow
    <2> QED BY <2>1, <2>2 DEF ReopenModule, Footprint, PcLabels
  <1>15. CASE SetModuleOpen(c)
    <2>1. [period[tx[c].period] EXCEPT !.module[tx[c].module] = "open"] \in PeriodRow
      BY <1>b DEF TypeOK, PeriodRow, Status
    <2>2. [tx[c] EXCEPT !.row = [period[tx[c].period] EXCEPT
                                   !.module[tx[c].module] = "open"]] \in TxRow
      BY <1>b, <2>1 DEF TxRow
    <2> QED BY <1>0, <1>b, <1>15, <2>2 DEF SetModuleOpen, Footprint, PcLabels
  <1>16. CASE CloseYearPeriods(c) \/ ReopenYearPeriods(c)
    <2>1. [NoTx EXCEPT !.saw = period[LastPeriod]] \in TxRow
      BY <1>0 DEF TxRow, TypeOK
    <2> QED BY <1>16, <2>1 DEF CloseYearPeriods, ReopenYearPeriods, Footprint, PcLabels
  <1>17. CASE OpenLast(c)
    <2>1. [tx[c] EXCEPT !.row = tx[c].saw] \in TxRow BY <1>b DEF TxRow
    <2>2. PICK label \in {"transfer", "reverseAll"} : Goto(c, label)
      BY <1>17 DEF OpenLast
    <2> QED BY <1>0, <1>17, <2>1, <2>2 DEF OpenLast, Footprint, PcLabels
  <1>18. CASE Transfer(c)
    <2>1. -Result \in Int BY ResultIsAnInt DEF Finite
    <2>2. (IF Result = 0 THEN {} ELSE {Closing(c, -Result)}) \in SUBSET Entry
      BY <1>0, <2>1
    <2>3. [tx[c] EXCEPT !.adds = IF Result = 0 THEN {} ELSE {Closing(c, -Result)}] \in TxRow
      BY <1>b, <2>2 DEF TxRow
    <2> QED BY <1>18, <2>3 DEF Transfer, Footprint, PcLabels
  <1>19. CASE ReopenFind(c) \/ ReopenYearFind(c)
    <2>1. PICK found : /\ found \in SUBSET Entry
                       /\ Put(c, [tx[c] EXCEPT !.closings = found])
      BY <1>19 DEF ReopenFind, ReopenYearFind, StandingClosings, TypeOK
    <2>2. [tx[c] EXCEPT !.closings = found] \in TxRow
      BY <1>b, <2>1 DEF TxRow
    <2>3. PICK label \in {"selectAgain", "reverse", "saveYear", "openLast"} : Goto(c, label)
      BY <1>19 DEF ReopenFind, ReopenYearFind
    <2> QED BY <1>19, <2>1, <2>2, <2>3 DEF ReopenFind, ReopenYearFind, Footprint, PcLabels
  <1>20. CASE ReverseAll(c)
    <2>1. Reversals(c, tx[c].closings) \in SUBSET Entry
      <3>1. tx[c].closings \in SUBSET Entry BY <1>b DEF TxRow
      <3> QED BY <3>1, ReversalTypes
    <2>2. [tx[c] EXCEPT !.adds = Reversals(c, tx[c].closings)] \in TxRow
      BY <1>b, <2>1 DEF TxRow
    <2> QED BY <1>20, <2>2 DEF ReverseAll, Footprint, PcLabels
  <1>21. CASE SaveYear(c)
    BY <1>21, <1>a DEF SaveYear, Footprint, PcLabels, Rows
  <1>22. CASE Commit(c) \/ RollBack(c)
    BY <1>0, <1>22 DEF Commit, RollBack, Release, Footprint, PcLabels
  <1> QED
    BY <1>1, <1>2, <1>3, <1>4, <1>5, <1>6, <1>7, <1>8, <1>9, <1>10, <1>11, <1>12, <1>13,
       <1>14, <1>15, <1>16, <1>17, <1>18, <1>19, <1>20, <1>21, <1>22 DEF Step

LEMMA FootprintType ==
  ASSUME TypeOK, NEW c \in Calls, Footprint(c)
  PROVE  TypeOK'
  <1>1. pc' \in [Calls -> PcLabels] BY DEF Footprint, Goto, TypeOK
  <1>2. tx' \in [Calls -> TxRow] BY DEF Footprint, Put, TypeOK
  <1>3. share' \in [Rows -> SUBSET Calls] /\ hold' \in [Rows -> Calls \cup {NoCall}]
    <2>1. CASE UNCHANGED <<share, hold>> BY <2>1 DEF TypeOK
    <2>2. CASE \/ \E r \in Rows : Shareable(r) /\ Share(c, r)
               \/ \E r \in Rows : Lockable(c, r) /\ Lock(c, r)
      BY <2>2 DEF Share, Lock, TypeOK
    <2>3. CASE Release(c) BY <2>3 DEF Release, TypeOK
    <2> QED BY <2>1, <2>2, <2>3 DEF Footprint
  <1>4. period' \in [Periods -> PeriodRow] /\ year' \in Status /\ entries' \subseteq Entry
    <2>1. CASE UNCHANGED committed BY <2>1 DEF committed, TypeOK
    <2>2. CASE Commit(c)
      <3>1. tx[c].row \in PeriodRow /\ tx[c].adds \in SUBSET Entry BY DEF TypeOK, TxRow
      <3> QED BY <2>2, <3>1 DEF Commit, YearBecomes, TypeOK, Status
    <2> QED BY <2>1, <2>2 DEF Footprint
  <1> QED BY <1>1, <1>2, <1>3, <1>4 DEF TypeOK

LEMMA PutIs ==
  ASSUME TypeOK, NEW c \in Calls, NEW t, Put(c, t)
  PROVE  tx'[c] = t
  BY DEF Put, TypeOK

LEMMA SmallSets ==
  /\ IsFiniteSet({}) /\ \A x : IsFiniteSet({x})
  /\ \A x, y : IsFiniteSet({x, y})
  <1>1. ASSUME NEW x, NEW y PROVE IsFiniteSet({x, y})
    <2>1. IsFiniteSet({x}) /\ {x, y} = {x} \cup {y}
      BY FS_Singleton
    <2> QED BY <2>1, FS_AddElement
  <1> QED BY <1>1, FS_EmptySet, FS_Singleton

LEMMA ReversalsFinite ==
  ASSUME NEW c, NEW es, IsFiniteSet(es) PROVE IsFiniteSet(Reversals(c, es))
  <1> DEFINE f == [e \in es |->
                     [by |-> c, kind |-> "reversal", of |-> e.by, module |-> GL,
                      period |-> LastPeriod, amount |-> -e.amount, status |-> "posted"]]
  <1>1. f \in Surjection(es, Reversals(c, es))
    BY DEF Reversals, Surjection
  <1> QED BY <1>1, FS_Surjection

(* A transaction adds finitely many entries and finds as many.             *)
LEMMA FiniteRow ==
  ASSUME TypeOK, Finite, NEW c \in Calls, Step(c)
  PROVE  IsFiniteSet(tx'[c].adds) /\ IsFiniteSet(tx'[c].closings)
  <1>1. tx[c] \in TxRow /\ IsFiniteSet(tx[c].adds) /\ IsFiniteSet(tx[c].closings)
    BY DEF TypeOK, Finite
  <1>2. NoTx.adds = {} /\ NoTx.closings = {}
    BY DEF NoTx
  <1>3. CASE UNCHANGED tx
    BY <1>1, <1>3
  <1>4. CASE \/ \E p \in Periods : ClosePeriod(c, p) \/ ReopenPeriod(c, p)
             \/ \E p \in Periods, m \in Modules : CloseModule(c, p, m) \/ ReopenModule(c, p, m)
             \/ CloseYearPeriods(c) \/ ReopenYearPeriods(c)
             \/ \E e \in entries : Reject(c, e)
             \/ Release(c)
    <2>1. \E t : t.adds = {} /\ t.closings = {} /\ Put(c, t)
      BY <1>2, <1>4
         DEF ClosePeriod, ReopenPeriod, CloseModule, ReopenModule, CloseYearPeriods,
             ReopenYearPeriods, Reject, Release, NoTx
    <2> QED BY <2>1, PutIs, SmallSets
  <1>5. CASE \/ \E p \in Periods : Submit(c, p)
             \/ \E p \in Periods, m \in Modules : Post(c, p, m)
             \/ \E e \in entries : Approve(c, e)
             \/ AuditPost(c)
    <2>1. \E t, x, y : t.adds = {x, y} /\ t.closings = {} /\ Put(c, t)
      <3>1. ASSUME NEW p \in Periods, NEW m \in Modules, Post(c, p, m)
            PROVE  \E t, x : t.adds = {x} /\ t.closings = {} /\ Put(c, t)
        BY <3>1 DEF Post, NoTx
      <3>2. ASSUME NEW p \in Periods, Submit(c, p)
            PROVE  \E t, x : t.adds = {x} /\ t.closings = {} /\ Put(c, t)
        BY <3>2 DEF Submit, NoTx
      <3>3. ASSUME NEW e \in entries, Approve(c, e)
            PROVE  \E t, x : t.adds = {x} /\ t.closings = {} /\ Put(c, t)
        BY <3>3 DEF Approve, NoTx
      <3>4. CASE AuditPost(c)
        BY <3>4 DEF AuditPost, NoTx
      <3>5. CASE \E t, x : t.adds = {x} /\ t.closings = {} /\ Put(c, t)
        <4>1. PICK t, x : t.adds = {x} /\ t.closings = {} /\ Put(c, t)
          BY <3>5
        <4>2. t.adds = {x, x}
          BY <4>1
        <4> QED BY <4>1, <4>2
      <3> QED BY <1>5, <3>1, <3>2, <3>3, <3>4, <3>5
    <2>2. PICK t, x, y : t.adds = {x, y} /\ t.closings = {} /\ Put(c, t)
      BY <2>1
    <2>3. tx'[c] = t
      BY <2>2, PutIs
    <2>4. IsFiniteSet({x, y}) /\ IsFiniteSet({})
      BY SmallSets
    <2> QED BY <2>2, <2>3, <2>4
  <1>6. CASE ReopenSelect(c) \/ ReopenUpdate(c) \/ SetModuleOpen(c) \/ OpenLast(c)
    <2>1. \E t : t.adds = tx[c].adds /\ t.closings = tx[c].closings /\ Put(c, t)
      BY <1>1, <1>6 DEF ReopenSelect, ReopenUpdate, SetModuleOpen, OpenLast, TxRow
    <2> QED BY <1>1, <2>1, PutIs
  <1>7. ASSUME NEW adds, IsFiniteSet(adds), Put(c, [tx[c] EXCEPT !.adds = adds])
        PROVE  IsFiniteSet(tx'[c].adds) /\ IsFiniteSet(tx'[c].closings)
    <2>1. PICK t : t = [tx[c] EXCEPT !.adds = adds] /\ Put(c, t)
      BY <1>7
    <2>2. t.adds = adds /\ t.closings = tx[c].closings
      BY <1>1, <2>1 DEF TxRow
    <2> QED BY <1>1, <1>7, <2>1, <2>2, PutIs
  <1>8. CASE CloseYearOpen(c)
    BY <1>3, <1>7, <1>8, SmallSets DEF CloseYearOpen
  <1>9. CASE Transfer(c)
    <2>1. IsFiniteSet(IF Result = 0 THEN {} ELSE {Closing(c, -Result)})
      BY SmallSets
    <2> QED BY <1>7, <1>9, <2>1 DEF Transfer
  <1>10. CASE ReopenReverse(c) \/ ReverseAll(c)
    <2>1. IsFiniteSet(Reversals(c, tx[c].closings))
      BY <1>1, ReversalsFinite
    <2> QED BY <1>7, <1>10, <2>1 DEF ReopenReverse, ReverseAll
  <1>11. CASE ReopenFind(c) \/ ReopenYearFind(c)
    <2>1. PICK found : /\ found \in SUBSET entries
                       /\ Put(c, [tx[c] EXCEPT !.closings = found])
      BY <1>11 DEF ReopenFind, ReopenYearFind, StandingClosings
    <2>2. PICK t : t = [tx[c] EXCEPT !.closings = found] /\ Put(c, t)
      BY <2>1
    <2>3. t.adds = tx[c].adds /\ t.closings = found
      BY <1>1, <2>2 DEF TxRow
    <2>4. IsFiniteSet(found)
      BY <2>1, FS_Subset DEF Finite
    <2> QED BY <1>1, <2>2, <2>3, <2>4, PutIs
  <1>13. CASE \/ CloseEarlier(c) \/ CloseUnposted(c) \/ AuditRead(c) \/ ReopenYearOpen(c)
              \/ ReopenLater(c) \/ CloseYear(c) \/ CloseYearCount(c) \/ ReopenYear(c)
              \/ SaveYear(c)
    <2>1. UNCHANGED tx
      BY <1>13 DEF CloseEarlier, CloseUnposted, AuditRead, ReopenYearOpen, ReopenLater,
         CloseYear, CloseYearCount, ReopenYear, SaveYear
    <2> QED BY <1>3, <2>1
  <1>14. CASE Commit(c) \/ RollBack(c)
    BY <1>4, <1>14 DEF Commit, RollBack
  <1> QED BY <1>4, <1>5, <1>6, <1>8, <1>9, <1>10, <1>11, <1>13, <1>14 DEF Step

LEMMA FiniteKept ==
  ASSUME TypeOK, Finite, NEW c \in Calls, Step(c)
  PROVE  Finite'
  <1>1. \A d \in Calls : d # c => tx'[d] = tx[d]
    BY StepFootprint DEF Footprint, Put, TypeOK
  <1>2. \A d \in Calls : IsFiniteSet(tx'[d].adds) /\ IsFiniteSet(tx'[d].closings)
    BY <1>1, FiniteRow DEF Finite
  <1>3. IsFiniteSet(entries')
    <2>1. CASE UNCHANGED committed
      BY <2>1 DEF committed, Finite
    <2>2. CASE Commit(c)
      <3>1. IsFiniteSet(entries \ tx[c].gone)
        BY FS_Subset DEF Finite
      <3>2. IsFiniteSet((entries \ tx[c].gone) \cup tx[c].adds)
        BY <3>1, FS_Union DEF Finite
      <3> QED BY <2>2, <3>2 DEF Commit
    <2> QED BY <2>1, <2>2, StepFootprint DEF Footprint
  <1> QED BY <1>2, <1>3 DEF Finite

LEMMA InitFinite == Init => Finite
  <1>1. NoTx.adds = {} /\ NoTx.closings = {} /\ IsFiniteSet({})
    BY FS_EmptySet DEF NoTx
  <1>2. Init => \A c \in Calls : tx[c] = NoTx
    BY DEF Init
  <1>3. Init => entries = {}
    BY DEF Init
  <1> QED BY <1>1, <1>2, <1>3 DEF Finite

(* Every variable keeps its type, whatever the calls and their order.      *)
THEOREM TypeCorrect == Spec => []TypeOK
  <1>1. Init => TypeOK /\ Finite
    <2>1. NoTx \in TxRow /\ Opened \in PeriodRow
      BY CallAssumption, CalendarAssumption DEF NoTx, TxRow, Opened, PeriodRow, Status, Periods
    <2>2. Init => TypeOK
      BY <2>1 DEF Init, TypeOK, PcLabels, Status
    <2> QED BY <2>2, InitFinite
  <1>2. TypeOK /\ Finite /\ [Next]_vars => TypeOK' /\ Finite'
    <2>1. CASE Next BY <2>1, StepFootprint, FootprintType, FiniteKept DEF Next
    <2>2. CASE UNCHANGED vars BY <2>2 DEF vars, TypeOK, Finite
    <2> QED BY <2>1, <2>2
  <1> QED BY <1>1, <1>2, PTL DEF Spec

-----------------------------------------------------------------------------
(* A step of one call leaves the others and their locks alone.             *)
LEMMA AnsweredIsOver ==
  ASSUME NEW c \in Calls, Step(c)
  PROVE  pc[c] # "answered"
  BY DEF Step, Begin, Submit, Post, Approve, Reject, AuditRead, AuditPost, ClosePeriod,
     CloseEarlier, CloseUnposted, CloseYearOpen, ReopenPeriod, ReopenYearOpen, ReopenLater,
     ReopenSelect, ReopenUpdate, ReopenFind, ReopenReverse, CloseModule, ReopenModule,
     SetModuleOpen, CloseYear, CloseYearPeriods, CloseYearCount, OpenLast, Transfer, ReopenYear,
     ReopenYearPeriods, ReopenYearFind, ReverseAll, SaveYear, Commit, RollBack

LEMMA OthersFrame ==
  ASSUME TypeOK, NEW c \in Calls, NEW d \in Calls, d # c, Footprint(c)
  PROVE  /\ pc'[d] = pc[d] /\ tx'[d] = tx[d]
         /\ \A r \in Rows : (hold'[r] = d <=> hold[r] = d)
                            /\ (d \in share'[r] <=> d \in share[r])
  <1>1. pc'[d] = pc[d] /\ tx'[d] = tx[d]
    BY DEF Footprint, Goto, Put, TypeOK
  <1>2. d # NoCall
    BY CallAssumption
  <1>3. CASE UNCHANGED <<share, hold>>
    BY <1>1, <1>3
  <1>4. CASE \E r \in Rows : Shareable(r) /\ Share(c, r)
    BY <1>1, <1>4 DEF Share, TypeOK
  <1>5. CASE \E r \in Rows : Lockable(c, r) /\ Lock(c, r)
    BY <1>1, <1>2, <1>5 DEF Lockable, Lock, TypeOK
  <1>6. CASE Release(c)
    BY <1>1, <1>2, <1>6 DEF Release, TypeOK
  <1> QED BY <1>3, <1>4, <1>5, <1>6 DEF Footprint

LEMMA ExclusiveKept ==
  ASSUME TypeOK, Exclusive, NEW c \in Calls, Footprint(c)
  PROVE  Exclusive'
  <1>1. CASE UNCHANGED <<share, hold>>
    BY <1>1 DEF Exclusive
  <1>2. CASE \E r \in Rows : Shareable(r) /\ Share(c, r)
    BY <1>2 DEF Shareable, Share, Exclusive, TypeOK
  <1>3. CASE \E r \in Rows : Lockable(c, r) /\ Lock(c, r)
    BY <1>3 DEF Lockable, Lock, Exclusive, TypeOK
  <1>4. CASE Release(c)
    BY <1>4 DEF Release, Exclusive, TypeOK
  <1> QED BY <1>1, <1>2, <1>3, <1>4 DEF Footprint

-----------------------------------------------------------------------------
(* What a commit leaves alone: the row of a period it has not locked, and  *)
(* every entry that is not pending; and what it adds is what it held.      *)
LEMMA CommitFrame ==
  ASSUME IInv, NEW c \in Calls, Commit(c)
  PROVE  /\ \A p \in Periods : hold[p] # c => period'[p] = period[p]
         /\ \A e \in entries : e.status # "pending" => e \in entries'
         /\ \A e \in entries' : e \in entries \/ e \in tx[c].adds
  <1>1. Found(c) BY DEF IInv, CallInv
  <1> QED BY <1>1 DEF Commit, Found, IInv, TypeOK

LEMMA CommitDecided ==
  ASSUME IInv, NEW c \in Calls, Commit(c), NEW p \in Periods,
         hold[p] # NoCall, hold[p] # c
  PROVE  Unposted(p) = {} => Unposted(p)' = {}
  <1> SUFFICES ASSUME Unposted(p) = {}, NEW e \in entries',
                      e.period = p, e.status = "pending"
               PROVE  FALSE
    BY DEF Unposted
  <1>1. e \in tx[c].adds
    BY CommitFrame DEF Unposted
  <1>2. c \in share[p] \/ hold[p] = c
    BY <1>1 DEF IInv, CallInv, AddsPending, AddsAdmitted
  <1> QED BY <1>2 DEF IInv, Exclusive, Rows

LEMMA OthersKeep ==
  ASSUME IInv, NEW c \in Calls, NEW d \in Calls, d # c, Footprint(c)
  PROVE  CallInv(d)'
  <1>1. /\ pc'[d] = pc[d] /\ tx'[d] = tx[d]
        /\ \A r \in Rows : (hold'[r] = d <=> hold[r] = d)
                           /\ (d \in share'[r] <=> d \in share[r])
    BY OthersFrame DEF IInv
  <1>2. CallInv(d) /\ CallInv(c) /\ tx[d] \in TxRow
    BY DEF IInv, TypeOK
  <1>3. /\ tx[d].period \in Periods /\ Periods \subseteq Rows /\ LastPeriod \in Rows
        /\ \A e \in tx[d].adds : e.period \in Periods
    BY <1>2, CalendarAssumption DEF TxRow, Rows, Periods, Entry
  <1>4. OpAt(d)' /\ HoldsNoOther(d)' /\ AddsPending(d)' /\ AddsClosing(d)'
    BY <1>1, <1>2 DEF CallInv, OpAt, MidClose, HoldsNoOther, AddsPending, AddsClosing
  <1>5. CASE UNCHANGED committed
    <2>1. HoldsItsPeriod(d)' /\ Decided(d)'
      BY <1>1, <1>2, <1>3, <1>5
         DEF committed, CallInv, MidClose, HoldsItsPeriod, Decided, Unposted
    <2>2. AddsAdmitted(d)'
      BY <1>1, <1>2, <1>3, <1>5 DEF committed, CallInv, AddsAdmitted, Admits
    <2>3. AddsReversals(d)' /\ Found(d)'
      BY <1>1, <1>2, <1>3, <1>5
         DEF committed, CallInv, AddsReversals, GuardsLast, Unreversed, Found
    <2> QED BY <1>4, <2>1, <2>2, <2>3 DEF CallInv
  <1>6. CASE Commit(c)
    <2>1. \A p \in Periods : hold[p] = d \/ d \in share[p] => period'[p] = period[p]
      <3>1. \A p \in Periods : hold[p] = d \/ d \in share[p] => hold[p] # c
        BY <1>3, CallAssumption DEF IInv, Exclusive
      <3> QED BY <1>6, <3>1, CommitFrame
    <2>2. HoldsItsPeriod(d)'
      BY <1>1, <1>2, <1>3, <2>1 DEF CallInv, MidClose, HoldsItsPeriod
    <2>3. Decided(d)'
      <3> SUFFICES ASSUME OpOf[d] = "close", pc[d] \in {"yearOpen", "commit"}
                   PROVE  Unposted(tx[d].period)' = {}
        BY <1>1 DEF Decided, Unposted
      <3>1. hold[tx[d].period] = d /\ Unposted(tx[d].period) = {}
        BY <1>2 DEF CallInv, HoldsItsPeriod, MidClose, CloseLabels, Decided
      <3>2. tx[d].period = tx'[d].period /\ d # NoCall
        BY <1>1, CallAssumption
      <3>3. \A p \in Periods : hold[p] = d /\ Unposted(p) = {} => Unposted(p)' = {}
        BY <1>6, <3>2, CommitDecided
      <3> QED BY <1>3, <3>1, <3>2, <3>3 DEF Unposted
    <2>4. AddsAdmitted(d)'
      BY <1>1, <1>2, <1>3, <2>1 DEF CallInv, AddsAdmitted, Admits
    <2>5. AddsReversals(d)'
      <3>1. ASSUME NEW e \in tx[d].adds, e.kind = "reversal"
            PROVE  GuardsLast(d) /\ Unreversed(e.of)'
        <4>1. GuardsLast(d) /\ Unreversed(e.of)
          BY <1>2, <3>1 DEF CallInv, AddsReversals
        <4>2. \A s \in tx[c].adds : s.kind # "reversal"
          <5>1. pc[c] \notin SecondSave /\ c # NoCall
            BY <1>6, CallAssumption DEF Commit, SecondSave
          <5>2. hold[LastPeriod] # c
            BY <1>3, <4>1, <5>1 DEF GuardsLast, IInv, Exclusive
          <5> QED BY <1>2, <5>1, <5>2 DEF CallInv, AddsReversals, GuardsLast
        <4>3. \A s \in entries' : s \in entries \/ s \in tx[c].adds
          BY <1>6, CommitFrame
        <4> QED BY <4>1, <4>2, <4>3 DEF Unreversed
      <3>2. GuardsLast(d) => GuardsLast(d)'
        BY <1>1, <1>3 DEF GuardsLast
      <3> QED BY <1>1, <1>2, <3>1, <3>2 DEF CallInv, AddsReversals, Unreversed
    <2>6. Found(d)'
      <3>1. \A e \in tx[d].closings : e \in entries /\ e.kind = "closing"
        BY <1>2 DEF CallInv, Found
      <3>2. \A e \in entries : e.kind = "closing" => e \in entries'
        BY <1>6, CommitFrame DEF IInv, EntriesInv
      <3> QED BY <1>1, <1>2, <1>3, <3>1, <3>2 DEF CallInv, Found
    <2> QED BY <1>4, <2>2, <2>3, <2>4, <2>5, <2>6 DEF CallInv
  <1> QED BY <1>5, <1>6 DEF Footprint

LEMMA EntriesKept ==
  ASSUME IInv, NEW c \in Calls, Step(c)
  PROVE  EntriesInv' /\ ClosingReversedOnce'
  <1>1. Footprint(c) /\ pc[c] # "answered"
    BY StepFootprint, AnsweredIsOver DEF IInv
  <1>2. \A d \in Calls : pc[d] = "answered" => pc'[d] = "answered"
    <2>1. \A d \in Calls \ {c} : pc'[d] = pc[d]
      BY <1>1 DEF Footprint, Goto, IInv, TypeOK
    <2> QED BY <1>1, <2>1
  <1>3. \A e \in entries : e.by \in Calls
    BY DEF IInv, TypeOK, Entry
  <1>4. CASE UNCHANGED committed
    BY <1>2, <1>3, <1>4 DEF committed, IInv, EntriesInv, ClosingReversedOnce
  <1>5. CASE Commit(c)
    <2>1. pc'[c] = "answered" /\ CallInv(c)
      BY <1>5 DEF Commit, Release, Goto, IInv, TypeOK
    <2>2. \A e \in entries' : e \in entries \/ e \in tx[c].adds
      BY <1>5, CommitFrame
    <2>3. \A e \in entries' : e.status = "pending" => e.kind = "ordinary" /\ e.module = GL
      BY <2>1, <2>2 DEF IInv, EntriesInv, CallInv, AddsPending
    <2>4. \A e \in entries' :
            e.kind = "closing" => pc'[e.by] = "answered" /\ e.period = LastPeriod
      BY <1>2, <1>3, <2>1, <2>2 DEF IInv, EntriesInv, CallInv, AddsClosing
    <2>5. \A e, f \in entries' :
            e.kind = "closing" /\ f.kind = "closing" /\ e.by = f.by => e = f
      BY <1>1, <2>1, <2>2 DEF IInv, EntriesInv, CallInv, AddsClosing
    <2>6. ClosingReversedOnce'
      BY <2>1, <2>2 DEF IInv, ClosingReversedOnce, CallInv, AddsReversals, Unreversed
    <2> QED BY <2>3, <2>4, <2>5, <2>6 DEF EntriesInv
  <1> QED BY <1>1, <1>4, <1>5 DEF Footprint

-----------------------------------------------------------------------------
(* What a step leaves true of the call that takes it.  The tests it makes  *)
(* are only reads of committed rows; a step that commits nothing keeps     *)
(* whatever its call had established.                                      *)
Keeps(c) ==
  /\ UNCHANGED committed
  /\ \A r \in Rows : /\ hold[r] = c => hold'[r] = c
                     /\ c \in share[r] => c \in share'[r]
KeepsAdds(c) == tx'[c].adds = tx[c].adds
KeepsFound(c) == tx'[c].closings = tx[c].closings /\ tx'[c].gone = tx[c].gone

LEMMA LockKeeps ==
  ASSUME TypeOK, NEW c \in Calls, UNCHANGED committed,
         \/ UNCHANGED <<share, hold>>
         \/ \E r \in Rows : Share(c, r)
         \/ \E r \in Rows : Lockable(c, r) /\ Lock(c, r)
  PROVE  Keeps(c)
  BY CallAssumption DEF Keeps, Share, Lockable, Lock, TypeOK

(* A call that is no close is only asked about what it adds and found.     *)
LEMMA NotAClose ==
  ASSUME NEW c \in Calls, OpOf[c] # "close", pc'[c] \notin CloseLabels
  PROVE  OpAt(c)' /\ HoldsItsPeriod(c)' /\ HoldsNoOther(c)' /\ Decided(c)'
  BY DEF OpAt, MidClose, HoldsItsPeriod, HoldsNoOther, Decided

LEMMA NothingAdded ==
  ASSUME NEW c \in Calls, tx'[c].adds = {}
  PROVE  AddsAdmitted(c)' /\ AddsPending(c)' /\ AddsClosing(c)' /\ AddsReversals(c)'
  BY DEF AddsAdmitted, AddsPending, AddsClosing, AddsReversals

LEMMA SameAdds ==
  ASSUME TypeOK, NEW c \in Calls, CallInv(c), Keeps(c), KeepsAdds(c),
         \/ pc[c] \notin SecondSave \/ tx[c].adds = {}
         \/ pc'[c] \in SecondSave /\ tx'[c].period = tx[c].period
         \/ hold'[tx[c].period] = c
  PROVE  AddsAdmitted(c)' /\ AddsPending(c)' /\ AddsClosing(c)' /\ AddsReversals(c)'
  <1>1. LastPeriod \in Rows /\ \A e \in tx[c].adds : e.period \in Rows
    BY CalendarAssumption DEF TypeOK, TxRow, Entry, Rows, Periods
  <1>2. AddsAdmitted(c)'
    BY <1>1 DEF CallInv, Keeps, KeepsAdds, committed, AddsAdmitted, Admits
  <1>3. AddsPending(c)' /\ AddsClosing(c)'
    BY DEF CallInv, KeepsAdds, AddsPending, AddsClosing
  <1>4. AddsReversals(c)'
    <2>1. tx[c].adds # {} /\ GuardsLast(c) => GuardsLast(c)'
      BY <1>1 DEF Keeps, GuardsLast
    <2> QED BY <2>1 DEF CallInv, Keeps, KeepsAdds, committed, AddsReversals, Unreversed
  <1> QED BY <1>2, <1>3, <1>4

LEMMA SameFound ==
  ASSUME NEW c \in Calls, CallInv(c), Keeps(c),
         KeepsFound(c) \/ (tx'[c].closings = {} /\ tx'[c].gone = {}),
         pc'[c] # "reverse", pc'[c] = "reverseAll" => hold'[LastPeriod] = c
  PROVE  Found(c)'
  BY DEF CallInv, Keeps, KeepsFound, committed, Found

LEMMA PutRow ==
  ASSUME TypeOK, NEW c \in Calls
  PROVE  /\ \A t : Put(c, t) => tx'[c] = t
         /\ UNCHANGED tx => KeepsAdds(c) /\ KeepsFound(c)
  BY DEF Put, TypeOK, KeepsAdds, KeepsFound

(* Steps that only read.                                                   *)
LEMMA OwnReads ==
  ASSUME IInv, NEW c \in Calls,
         \/ AuditRead(c) \/ ReopenYearOpen(c) \/ ReopenLater(c) \/ ReopenSelect(c)
         \/ CloseYear(c) \/ CloseYearPeriods(c) \/ CloseYearCount(c)
         \/ ReopenYear(c) \/ ReopenYearPeriods(c)
         \/ \E p \in Periods : ReopenPeriod(c, p)
         \/ \E p \in Periods, m \in Modules : ReopenModule(c, p, m)
  PROVE  CallInv(c)'
  <1>1. TypeOK /\ CallInv(c) BY DEF IInv
  <1>2. OpOf[c] # "close"
    BY <1>1 DEF CallInv, OpAt, Begin, CloseLabels, AuditRead, ReopenYearOpen, ReopenLater,
       ReopenSelect, CloseYear, CloseYearPeriods, CloseYearCount, ReopenYear,
       ReopenYearPeriods, ReopenPeriod, ReopenModule
  <1>3. pc'[c] \notin CloseLabels \cup {"reverse", "reverseAll"}
    BY <1>1 DEF TypeOK, Goto, CloseLabels, AuditRead, ReopenYearOpen, ReopenLater,
       ReopenSelect, CloseYear, CloseYearPeriods, CloseYearCount, ReopenYear,
       ReopenYearPeriods, ReopenPeriod, ReopenModule
  <1>4. UNCHANGED committed /\ UNCHANGED <<share, hold>>
    BY DEF AuditRead, ReopenYearOpen, ReopenLater, ReopenSelect, CloseYear,
       CloseYearPeriods, CloseYearCount, ReopenYear, ReopenYearPeriods, ReopenPeriod,
       ReopenModule
  <1>5. Keeps(c) BY <1>1, <1>4, LockKeeps
  <1>6. \/ KeepsAdds(c) /\ KeepsFound(c)
        \/ tx'[c].adds = {} /\ tx'[c].closings = {} /\ tx'[c].gone = {}
    <2>1. CASE UNCHANGED tx
      BY <1>1, <2>1, PutRow
    <2>2. CASE ReopenSelect(c)
      <3>1. PICK row : tx'[c] = [tx[c] EXCEPT !.saw = row]
        BY <1>1, <2>2, PutRow DEF ReopenSelect
      <3> QED BY <1>1, <3>1 DEF TypeOK, TxRow, KeepsAdds, KeepsFound
    <2>3. CASE CloseYearPeriods(c) \/ ReopenYearPeriods(c)
      <3>1. tx'[c] = [NoTx EXCEPT !.saw = period[LastPeriod]]
        BY <1>1, <2>3, PutRow DEF CloseYearPeriods, ReopenYearPeriods
      <3> QED BY <3>1 DEF NoTx
    <2>4. CASE \E p \in Periods : ReopenPeriod(c, p)
      <3>1. PICK p \in Periods : tx'[c] = [NoTx EXCEPT !.period = p]
        BY <1>1, <2>4, PutRow DEF ReopenPeriod
      <3> QED BY <3>1 DEF NoTx
    <2>5. CASE \E p \in Periods, m \in Modules : ReopenModule(c, p, m)
      <3>1. PICK p \in Periods, m \in Modules :
              tx'[c] = [NoTx EXCEPT !.period = p, !.module = m]
        BY <1>1, <2>5, PutRow DEF ReopenModule
      <3> QED BY <3>1 DEF NoTx
    <2> QED BY <2>1, <2>2, <2>3, <2>4, <2>5 DEF AuditRead, ReopenYearOpen, ReopenLater,
               CloseYear, CloseYearCount, ReopenYear
  <1>a. \/ pc[c] \notin SecondSave \/ tx[c].adds = {}
        \/ pc'[c] \in SecondSave /\ tx'[c].period = tx[c].period
    <2>1. CASE ReopenSelect(c)
      <3>1. PICK row : tx'[c] = [tx[c] EXCEPT !.saw = row]
        BY <1>1, <2>1, PutRow DEF ReopenSelect
      <3>2. tx'[c].period = tx[c].period
        BY <1>1, <3>1 DEF TypeOK, TxRow
      <3> QED BY <1>1, <2>1, <3>2 DEF ReopenSelect, Goto, SecondSave, TypeOK
    <2>2. CASE ~ReopenSelect(c)
      BY <2>2 DEF Begin, AuditRead, ReopenYearOpen, ReopenLater, CloseYear, CloseYearPeriods,
         CloseYearCount, ReopenYear, ReopenYearPeriods, ReopenPeriod, ReopenModule, SecondSave
    <2> QED BY <2>1, <2>2
  <1>7. AddsAdmitted(c)' /\ AddsPending(c)' /\ AddsClosing(c)' /\ AddsReversals(c)'
    BY <1>1, <1>5, <1>6, <1>a, SameAdds, NothingAdded
  <1>8. OpAt(c)' /\ HoldsItsPeriod(c)' /\ HoldsNoOther(c)' /\ Decided(c)'
    BY <1>2, <1>3, NotAClose
  <1>9. Found(c)'
    <2>1. KeepsFound(c) \/ (tx'[c].closings = {} /\ tx'[c].gone = {})
      BY <1>6
    <2>2. pc'[c] # "reverse" /\ (pc'[c] = "reverseAll" => hold'[LastPeriod] = c)
      BY <1>3
    <2> QED BY <1>1, <1>5, <2>1, <2>2, SameFound
  <1> QED BY <1>7, <1>8, <1>9 DEF CallInv

(* Steps that lock a row and add nothing.                                  *)
LEMMA OwnLocks ==
  ASSUME IInv, NEW c \in Calls,
         \/ ReopenUpdate(c) \/ SetModuleOpen(c) \/ OpenLast(c) \/ SaveYear(c)
         \/ \E p \in Periods, m \in Modules : CloseModule(c, p, m)
  PROVE  CallInv(c)'
  <1>1. TypeOK /\ CallInv(c) BY DEF IInv
  <1>2. OpOf[c] # "close"
    BY <1>1 DEF CallInv, OpAt, Begin, CloseLabels, ReopenUpdate, SetModuleOpen, OpenLast,
       SaveYear, CloseModule
  <1>3. /\ pc'[c] \notin CloseLabels \cup {"reverse"}
        /\ pc'[c] = "reverseAll" => OpenLast(c)
    BY <1>1 DEF TypeOK, Goto, CloseLabels, ReopenUpdate, SetModuleOpen, OpenLast,
       SaveYear, CloseModule
  <1>4. tx[c].period \in Rows /\ LastPeriod \in Rows /\ Year \in Rows /\ Periods \subseteq Rows
    BY <1>1, CalendarAssumption DEF TypeOK, TxRow, Rows, Periods
  <1>5. Keeps(c)
    <2>1. /\ UNCHANGED committed
          /\ \/ UNCHANGED <<share, hold>>
             \/ \E r \in Rows : Lockable(c, r) /\ Lock(c, r)
      BY <1>4 DEF committed, ReopenUpdate, SetModuleOpen, OpenLast, SaveYear, CloseModule
    <2> QED BY <1>1, <2>1, LockKeeps
  <1>6. \/ KeepsAdds(c) /\ KeepsFound(c)
        \/ tx'[c].adds = {} /\ tx'[c].closings = {} /\ tx'[c].gone = {}
    <2>1. CASE ReopenUpdate(c) \/ SetModuleOpen(c) \/ OpenLast(c)
      <3>1. PICK row : tx'[c] = [tx[c] EXCEPT !.row = row]
        BY <1>1, <2>1, PutRow DEF ReopenUpdate, SetModuleOpen, OpenLast
      <3> QED BY <1>1, <3>1 DEF TypeOK, TxRow, KeepsAdds, KeepsFound
    <2>2. CASE SaveYear(c)
      BY <1>1, <2>2, PutRow DEF SaveYear
    <2>3. CASE \E p \in Periods, m \in Modules : CloseModule(c, p, m)
      <3>1. PICK p, row : tx'[c] = [NoTx EXCEPT !.period = p, !.row = row]
        BY <1>1, <2>3, PutRow DEF CloseModule
      <3> QED BY <3>1 DEF NoTx
    <2> QED BY <2>1, <2>2, <2>3
  <1>a. pc[c] \notin SecondSave \/ hold'[tx[c].period] = c
    <2>1. CASE ReopenUpdate(c)
      BY <1>1, <1>4, <2>1 DEF ReopenUpdate, Lock, TypeOK
    <2>2. CASE ~ReopenUpdate(c)
      BY <2>2 DEF Begin, SetModuleOpen, OpenLast, SaveYear, CloseModule, SecondSave
    <2> QED BY <2>1, <2>2
  <1>7. AddsAdmitted(c)' /\ AddsPending(c)' /\ AddsClosing(c)' /\ AddsReversals(c)'
    BY <1>1, <1>5, <1>6, <1>a, SameAdds, NothingAdded
  <1>8. pc'[c] = "reverseAll" => hold'[LastPeriod] = c
    BY <1>1, <1>3, <1>4 DEF OpenLast, Lock, TypeOK
  <1>9. OpAt(c)' /\ HoldsItsPeriod(c)' /\ HoldsNoOther(c)' /\ Decided(c)'
    BY <1>2, <1>3, NotAClose
  <1>10. Found(c)'
    <2>1. KeepsFound(c) \/ (tx'[c].closings = {} /\ tx'[c].gone = {})
      BY <1>6
    <2>2. pc'[c] # "reverse" /\ (pc'[c] = "reverseAll" => hold'[LastPeriod] = c)
      BY <1>3, <1>8
    <2> QED BY <1>1, <1>5, <2>1, <2>2, SameFound
  <1> QED BY <1>7, <1>9, <1>10 DEF CallInv

(* Steps that end with something to add.                                   *)
LEMMA OwnPosts ==
  ASSUME IInv, NEW c \in Calls, NEW p \in Periods, NEW m \in Modules,
         Submit(c, p) \/ Post(c, p, m)
  PROVE  CallInv(c)'
  <1>1. TypeOK /\ CallInv(c) BY DEF IInv
  <1>2. OpOf[c] # "close" /\ pc'[c] = "commit"
    BY <1>1 DEF Begin, Submit, Post, Goto, TypeOK
  <1>3. PICK e : /\ tx'[c] = [NoTx EXCEPT !.adds = {e}]
                 /\ e.kind = "ordinary" /\ e.period = p /\ Admits(p, e.module)
                 /\ e.status = "pending" => e.module = GL
    <2>1. CASE Submit(c, p)
      <3>1. tx'[c] = [NoTx EXCEPT !.adds = {Ordinary(c, p, GL, "pending")}]
        BY <1>1, <2>1, PutRow DEF Submit
      <3>2. LET e == Ordinary(c, p, GL, "pending")
            IN  /\ e.kind = "ordinary" /\ e.period = p /\ Admits(p, e.module)
                /\ e.status = "pending" => e.module = GL
        BY <2>1 DEF Submit, ResolvePostingPeriod, Ordinary
      <3> QED BY <3>1, <3>2
    <2>2. CASE Post(c, p, m)
      <3>1. tx'[c] = [NoTx EXCEPT !.adds = {Ordinary(c, p, m, "posted")}]
        BY <1>1, <2>2, PutRow DEF Post
      <3>2. LET e == Ordinary(c, p, m, "posted")
            IN  /\ e.kind = "ordinary" /\ e.period = p /\ Admits(p, e.module)
                /\ e.status = "pending" => e.module = GL
        BY <2>2 DEF Post, ResolvePostingPeriod, Ordinary
      <3> QED BY <3>1, <3>2
    <2> QED BY <2>1, <2>2
  <1>4. tx'[c].adds = {e} /\ tx'[c].closings = {} /\ tx'[c].gone = {}
    BY <1>3 DEF NoTx
  <1>5. UNCHANGED committed /\ c \in share'[p]
    BY <1>1 DEF Submit, Post, ResolvePostingPeriod, Share, TypeOK, Rows
  <1>6. AddsAdmitted(c)'
    BY <1>3, <1>4, <1>5 DEF AddsAdmitted, Admits, committed
  <1>7. AddsPending(c)' /\ AddsClosing(c)' /\ AddsReversals(c)' /\ Found(c)'
    BY <1>2, <1>3, <1>4 DEF AddsPending, AddsClosing, AddsReversals, Found
  <1>8. OpAt(c)' /\ HoldsItsPeriod(c)' /\ HoldsNoOther(c)' /\ Decided(c)'
    BY <1>2, NotAClose DEF CloseLabels
  <1> QED BY <1>6, <1>7, <1>8 DEF CallInv

LEMMA OwnDecides ==
  ASSUME IInv, NEW c \in Calls, NEW e \in entries, Approve(c, e) \/ Reject(c, e)
  PROVE  CallInv(c)'
  <1>1. TypeOK /\ CallInv(c) /\ e \in Entry BY DEF IInv, TypeOK
  <1>2. /\ OpOf[c] # "close" /\ pc'[c] = "commit" /\ e.status = "pending"
        /\ UNCHANGED committed
    BY <1>1 DEF Begin, Approve, Reject, Goto, TypeOK
  <1>3. e.kind = "ordinary" /\ e.module = GL /\ e.period \in Periods
    BY <1>1, <1>2 DEF IInv, EntriesInv, Entry
  <1>4. OpAt(c)' /\ HoldsItsPeriod(c)' /\ HoldsNoOther(c)' /\ Decided(c)'
    BY <1>2, NotAClose DEF CloseLabels
  <1>5. CASE Approve(c, e)
    <2> DEFINE f == [e EXCEPT !.status = "posted"]
    <2>1. tx'[c] = [NoTx EXCEPT !.gone = {e}, !.adds = {f}]
      BY <1>1, <1>5, PutRow DEF Approve
    <2>2. tx'[c].adds = {f} /\ tx'[c].closings = {} /\ tx'[c].gone = {e}
      BY <2>1 DEF NoTx
    <2>3. /\ f.kind = "ordinary" /\ f.module = GL /\ f.period = e.period
          /\ f.status = "posted"
      BY <1>1, <1>3 DEF Entry
    <2>4. Admits(e.period, GL)' /\ c \in share'[e.period]
      BY <1>1, <1>2, <1>3, <1>5
         DEF Approve, ResolvePostingPeriod, Share, TypeOK, Rows, Admits, committed
    <2> HIDE DEF f
    <2>5. AddsAdmitted(c)'
      BY <2>2, <2>3, <2>4 DEF AddsAdmitted, Admits
    <2>6. AddsPending(c)' /\ AddsClosing(c)' /\ AddsReversals(c)' /\ Found(c)'
      BY <1>2, <2>2, <2>3 DEF AddsPending, AddsClosing, AddsReversals, Found
    <2> QED BY <1>4, <2>5, <2>6 DEF CallInv
  <1>6. CASE Reject(c, e)
    <2>1. tx'[c] = [NoTx EXCEPT !.gone = {e}]
      BY <1>1, <1>6, PutRow DEF Reject
    <2>2. tx'[c].adds = {} /\ tx'[c].closings = {} /\ tx'[c].gone = {e}
      BY <2>1 DEF NoTx
    <2>3. Found(c)'
      BY <1>2, <2>2 DEF Found
    <2> QED BY <1>4, <2>2, <2>3, NothingAdded DEF CallInv
  <1> QED BY <1>5, <1>6

LEMMA OwnResult ==
  ASSUME IInv, NEW c \in Calls, AuditPost(c) \/ Transfer(c)
  PROVE  CallInv(c)'
  <1>1. TypeOK /\ CallInv(c) BY DEF IInv
  <1>2. OpOf[c] # "close" /\ pc'[c] \in {"commit", "saveYear"}
    BY <1>1 DEF CallInv, OpAt, CloseLabels, AuditPost, Transfer, Goto, TypeOK
  <1>3. PICK a : /\ \A e \in tx'[c].adds : e.status = "posted" /\ e.kind \in {"audit", "closing"}
                 /\ \A e \in tx'[c].adds : e.kind = "closing" => e = Closing(c, a)
    <2>1. CASE AuditPost(c)
      <3>1. tx'[c] = [NoTx EXCEPT !.adds = {Audit(c), Closing(c, -1)}]
        BY <1>1, <2>1, PutRow DEF AuditPost
      <3>2. tx'[c].adds = {Audit(c), Closing(c, -1)}
        BY <3>1 DEF NoTx
      <3>3. /\ Audit(c).status = "posted" /\ Audit(c).kind = "audit"
            /\ Closing(c, -1).status = "posted" /\ Closing(c, -1).kind = "closing"
        BY DEF Audit, Ordinary, Closing
      <3> QED BY <3>2, <3>3
    <2>2. CASE Transfer(c)
      <3>1. tx'[c] = [tx[c] EXCEPT !.adds = IF Result = 0 THEN {} ELSE {Closing(c, -Result)}]
        BY <1>1, <2>2, PutRow DEF Transfer
      <3>2. \A e \in tx'[c].adds : e = Closing(c, -Result)
        BY <1>1, <3>1 DEF TypeOK, TxRow
      <3> QED BY <3>2 DEF Closing
    <2> QED BY <2>1, <2>2
  <1>4. /\ AddsAdmitted(c)' /\ AddsPending(c)' /\ AddsReversals(c)'
    BY <1>3 DEF AddsAdmitted, AddsPending, AddsReversals
  <1>5. AddsClosing(c)'
    BY <1>3 DEF AddsClosing, Closing
  <1>6. Found(c)'
    <2>1. CASE AuditPost(c)
      <3>1. tx'[c] = [NoTx EXCEPT !.adds = {Audit(c), Closing(c, -1)}]
        BY <1>1, <2>1, PutRow DEF AuditPost
      <3>2. tx'[c].closings = {} /\ tx'[c].gone = {}
        BY <3>1 DEF NoTx
      <3> QED BY <1>2, <3>2 DEF Found
    <2>2. CASE Transfer(c)
      <3>1. tx'[c] = [tx[c] EXCEPT !.adds = IF Result = 0 THEN {} ELSE {Closing(c, -Result)}]
        BY <1>1, <2>2, PutRow DEF Transfer
      <3>2. tx'[c].closings = tx[c].closings /\ tx'[c].gone = tx[c].gone
        BY <1>1, <3>1 DEF TypeOK, TxRow
      <3> QED BY <1>1, <1>2, <2>2, <3>2 DEF CallInv, Found, Transfer, committed
    <2> QED BY <2>1, <2>2
  <1>7. OpAt(c)' /\ HoldsItsPeriod(c)' /\ HoldsNoOther(c)' /\ Decided(c)'
    BY <1>2, NotAClose DEF CloseLabels
  <1> QED BY <1>4, <1>5, <1>6, <1>7 DEF CallInv

LEMMA OwnReversals ==
  ASSUME IInv, NEW c \in Calls, ReopenReverse(c) \/ ReverseAll(c)
  PROVE  CallInv(c)'
  <1>1. TypeOK /\ CallInv(c) /\ tx[c] \in TxRow BY DEF IInv, TypeOK
  <1>2. OpOf[c] # "close" /\ pc'[c] \in {"selectAgain", "saveYear"}
    BY <1>1 DEF CallInv, OpAt, CloseLabels, ReopenReverse, ReverseAll, Goto, TypeOK
  <1>3. PICK es \in SUBSET entries :
          /\ tx'[c] = [tx[c] EXCEPT !.adds = Reversals(c, es)]
          /\ \A e \in es : e.kind = "closing" /\ ~Reversed(e)
          /\ es # {} =>
               \/ hold'[LastPeriod] = c
               \/ /\ c \in share'[LastPeriod] /\ pc'[c] = "selectAgain"
                  /\ tx[c].period = LastPeriod
    <2>1. CASE ReopenReverse(c)
      <3>1. /\ tx'[c] = [tx[c] EXCEPT !.adds = Reversals(c, tx[c].closings)]
            /\ AdmitsReversal(c, tx[c].period)
        BY <1>1, <2>1, PutRow DEF ReopenReverse
      <3>2. tx[c].period \in Rows /\ pc'[c] = "selectAgain"
        BY <1>1, <2>1 DEF ReopenReverse, Goto, TypeOK, TxRow, Rows
      <3>3. hold'[tx[c].period] = c \/ c \in share'[tx[c].period]
        BY <1>1, <3>1, <3>2 DEF AdmitsReversal, ResolvePostingPeriod, Share, TypeOK
      <3>4. \A e \in tx[c].closings :
              e \in entries /\ e.kind = "closing" /\ ~Reversed(e) /\ e.period = tx[c].period
        BY <1>1, <2>1 DEF ReopenReverse, Reversible, CallInv, Found
      <3>5. \A e \in tx[c].closings : e.period = LastPeriod
        BY <3>4 DEF IInv, EntriesInv
      <3> QED BY <3>1, <3>2, <3>3, <3>4, <3>5
    <2>2. CASE ReverseAll(c)
      <3>1. tx'[c] = [tx[c] EXCEPT !.adds = Reversals(c, tx[c].closings)]
        BY <1>1, <2>2, PutRow DEF ReverseAll
      <3>2. \A e \in tx[c].closings : e \in entries /\ e.kind = "closing" /\ ~Reversed(e)
        BY <1>1, <2>2 DEF ReverseAll, Reversible, CallInv, Found
      <3>3. tx[c].closings \in SUBSET entries /\ hold'[LastPeriod] = c
        BY <1>1, <2>2, <3>2 DEF ReverseAll, CallInv, Found, TxRow
      <3> QED BY <3>1, <3>2, <3>3
    <2> QED BY <2>1, <2>2
  <1>4. /\ tx'[c].adds = Reversals(c, es)
        /\ tx'[c].closings = tx[c].closings /\ tx'[c].gone = tx[c].gone
        /\ tx'[c].period = tx[c].period
    BY <1>1, <1>3 DEF TxRow
  <1>5. \A r \in tx'[c].adds :
          /\ r.kind = "reversal" /\ r.status = "posted"
          /\ \E e \in es : /\ r.of = e.by
                           /\ r = [by |-> c, kind |-> "reversal", of |-> e.by, module |-> GL,
                                   period |-> LastPeriod, amount |-> -e.amount,
                                   status |-> "posted"]
    BY <1>4 DEF Reversals
  <1>6. UNCHANGED committed
    BY DEF ReopenReverse, ReverseAll
  <1>7. AddsAdmitted(c)' /\ AddsPending(c)' /\ AddsClosing(c)'
    BY <1>5 DEF AddsAdmitted, AddsPending, AddsClosing
  <1>8. AddsReversals(c)'
    <2>1. ASSUME NEW r \in tx'[c].adds
          PROVE  GuardsLast(c)' /\ Unreversed(r.of)'
      <3>1. PICK e \in es : r.of = e.by BY <1>5
      <3> QED BY <1>3, <1>4, <1>6, <3>1
              DEF GuardsLast, SecondSave, Unreversed, Reversed, committed
    <2>2. ASSUME NEW r \in tx'[c].adds, NEW s \in tx'[c].adds, r.of = s.of
          PROVE  r = s
      <3>1. PICK e \in es : /\ r.of = e.by
                            /\ r = [by |-> c, kind |-> "reversal", of |-> e.by,
                                    module |-> GL, period |-> LastPeriod,
                                    amount |-> -e.amount, status |-> "posted"]
        BY <1>5
      <3>2. PICK f \in es : /\ s.of = f.by
                            /\ s = [by |-> c, kind |-> "reversal", of |-> f.by,
                                    module |-> GL, period |-> LastPeriod,
                                    amount |-> -f.amount, status |-> "posted"]
        BY <1>5
      <3>3. e = f
        BY <1>3, <2>2, <3>1, <3>2 DEF IInv, EntriesInv
      <3> QED BY <3>1, <3>2, <3>3
    <2> QED BY <2>1, <2>2 DEF AddsReversals
  <1>9. Found(c)'
    BY <1>1, <1>2, <1>4, <1>6 DEF CallInv, Found, committed
  <1>10. OpAt(c)' /\ HoldsItsPeriod(c)' /\ HoldsNoOther(c)' /\ Decided(c)'
    BY <1>2, NotAClose DEF CloseLabels
  <1> QED BY <1>7, <1>8, <1>9, <1>10 DEF CallInv

LEMMA OwnFinds ==
  ASSUME IInv, NEW c \in Calls, ReopenFind(c) \/ ReopenYearFind(c)
  PROVE  CallInv(c)'
  <1>1. TypeOK /\ CallInv(c) /\ tx[c] \in TxRow BY DEF IInv, TypeOK
  <1>2. /\ OpOf[c] # "close" /\ pc'[c] \in {"selectAgain", "reverse", "saveYear", "openLast"}
        /\ pc'[c] = "reverse" => ReopenFind(c)
        /\ pc[c] \notin SecondSave
        /\ UNCHANGED committed /\ UNCHANGED <<share, hold>>
    BY <1>1 DEF CallInv, OpAt, CloseLabels, ReopenFind, ReopenYearFind, Goto, TypeOK, SecondSave
  <1>3. PICK found \in SUBSET StandingClosings :
          /\ tx'[c] = [tx[c] EXCEPT !.closings = found]
          /\ ReopenFind(c) => \A e \in found : e.period = tx[c].period
    <2>1. CASE ReopenFind(c)
      BY <1>1, <2>1, PutRow DEF ReopenFind
    <2>2. CASE ReopenYearFind(c)
      BY <1>1, <2>2, PutRow DEF ReopenFind, ReopenYearFind
    <2> QED BY <2>1, <2>2
  <1>4. /\ KeepsAdds(c) /\ tx'[c].closings = found
        /\ tx'[c].gone = tx[c].gone /\ tx'[c].period = tx[c].period
    BY <1>1, <1>3 DEF TxRow, KeepsAdds
  <1>5. AddsAdmitted(c)' /\ AddsPending(c)' /\ AddsClosing(c)' /\ AddsReversals(c)'
    BY <1>1, <1>2, <1>4, SameAdds DEF Keeps
  <1>6. Found(c)'
    BY <1>1, <1>2, <1>3, <1>4 DEF CallInv, Found, StandingClosings, committed
  <1>7. OpAt(c)' /\ HoldsItsPeriod(c)' /\ HoldsNoOther(c)' /\ Decided(c)'
    BY <1>2, NotAClose DEF CloseLabels
  <1> QED BY <1>5, <1>6, <1>7 DEF CallInv

(* The steps of a close: the lock, then what is read under it.             *)
LEMMA OwnCloseBegins ==
  ASSUME IInv, NEW c \in Calls, NEW p \in Periods, ClosePeriod(c, p)
  PROVE  CallInv(c)'
  <1>1. TypeOK /\ CallInv(c) /\ p \in Rows BY DEF IInv, Rows
  <1>2. tx'[c] = [NoTx EXCEPT !.period = p, !.row = Closed]
    BY <1>1, PutRow DEF ClosePeriod
  <1>3. /\ tx'[c].period = p /\ tx'[c].adds = {}
        /\ tx'[c].closings = {} /\ tx'[c].gone = {}
    BY <1>2, CallAssumption, CalendarAssumption DEF NoTx
  <1>4. /\ OpOf[c] = "close" /\ pc[c] = "idle" /\ pc'[c] = "earlier"
        /\ UNCHANGED committed /\ period[p].status = "open" /\ hold'[p] = c
        /\ \A r \in Rows : r # p => hold'[r] = hold[r]
    BY <1>1 DEF ClosePeriod, Begin, Goto, Lock, TypeOK
  <1>5. OpAt(c)' /\ HoldsItsPeriod(c)' /\ Decided(c)'
    BY <1>3, <1>4 DEF OpAt, CloseLabels, HoldsItsPeriod, Decided, committed
  <1>6. HoldsNoOther(c)'
    BY <1>1, <1>3, <1>4 DEF CallInv, HoldsNoOther, MidClose, CloseLabels
  <1>7. Found(c)'
    BY <1>3, <1>4 DEF Found
  <1> QED BY <1>3, <1>5, <1>6, <1>7, NothingAdded DEF CallInv

LEMMA OwnCloseReads ==
  ASSUME IInv, NEW c \in Calls, CloseEarlier(c) \/ CloseUnposted(c) \/ CloseYearOpen(c)
  PROVE  CallInv(c)'
  <1>1. TypeOK /\ CallInv(c) /\ tx[c] \in TxRow BY DEF IInv, TypeOK
  <1>2. /\ pc[c] \in CloseLabels /\ pc'[c] \in {"unposted", "yearOpen", "commit"}
        /\ UNCHANGED committed /\ UNCHANGED <<share, hold>>
    BY <1>1 DEF CloseEarlier, CloseUnposted, CloseYearOpen, Goto, TypeOK, CloseLabels
  <1>3. OpOf[c] = "close"
    BY <1>1, <1>2 DEF CallInv, OpAt
  <1> DEFINE p == tx[c].period
  <1>4. /\ tx'[c].period = p /\ KeepsFound(c)
        /\ \/ KeepsAdds(c)
           \/ tx'[c].adds = {Ordinary(c, p, GL, "posted")} /\ period[p].module[GL] = "open"
    <2>1. CASE UNCHANGED tx
      BY <1>1, <2>1, PutRow
    <2>2. CASE ~UNCHANGED tx
      <3>1. /\ tx'[c] = [tx[c] EXCEPT !.adds = {Ordinary(c, p, GL, "posted")}]
            /\ period[p].module[GL] = "open"
        BY <1>1, <2>2, PutRow DEF CloseEarlier, CloseUnposted, CloseYearOpen
      <3> QED BY <1>1, <3>1 DEF TxRow, KeepsFound
    <2> QED BY <2>1, <2>2
  <1>5. hold[p] = c /\ period[p].status = "open"
    BY <1>1, <1>2, <1>3 DEF CallInv, HoldsItsPeriod, MidClose
  <1>6. OpAt(c)' /\ HoldsItsPeriod(c)' /\ HoldsNoOther(c)'
    BY <1>1, <1>2, <1>3, <1>4, <1>5
       DEF CallInv, OpAt, CloseLabels, HoldsItsPeriod, HoldsNoOther, MidClose, committed
  <1>7. Decided(c)'
    <2>1. pc'[c] \in {"yearOpen", "commit"} => Unposted(p) = {}
      BY <1>1, <1>2, <1>3
         DEF CallInv, Decided, CloseEarlier, CloseUnposted, CloseYearOpen, Goto, TypeOK
    <2> QED BY <1>2, <1>4, <2>1 DEF Decided, Unposted, committed
  <1>8. Keeps(c)
    BY <1>2 DEF Keeps
  <1>9. AddsAdmitted(c)' /\ AddsPending(c)' /\ AddsClosing(c)' /\ AddsReversals(c)'
    <2>1. CASE KeepsAdds(c)
      BY <1>1, <1>2, <1>8, <2>1, SameAdds DEF CloseLabels, SecondSave
    <2>2. CASE tx'[c].adds = {Ordinary(c, p, GL, "posted")} /\ period[p].module[GL] = "open"
      <3>1. LET e == Ordinary(c, p, GL, "posted")
            IN  e.kind = "ordinary" /\ e.module = GL /\ e.period = p /\ e.status = "posted"
        BY DEF Ordinary
      <3>2. AddsAdmitted(c)'
        BY <1>2, <1>5, <2>2, <3>1 DEF AddsAdmitted, Admits, committed
      <3>3. AddsPending(c)' /\ AddsClosing(c)' /\ AddsReversals(c)'
        BY <2>2, <3>1 DEF AddsPending, AddsClosing, AddsReversals
      <3> QED BY <3>2, <3>3
    <2> QED BY <1>4, <2>1, <2>2
  <1>10. Found(c)'
    BY <1>1, <1>2, <1>4 DEF CallInv, Found, KeepsFound, committed
  <1> QED BY <1>6, <1>7, <1>9, <1>10 DEF CallInv

(* A call that ends holds nothing and is about nothing.                    *)
LEMMA OwnEnds ==
  ASSUME IInv, NEW c \in Calls, Commit(c) \/ RollBack(c)
  PROVE  CallInv(c)'
  <1>1. TypeOK BY DEF IInv
  <1>2. Release(c) BY DEF Commit, RollBack
  <1>3. /\ pc'[c] = "answered" /\ tx'[c] = NoTx
        /\ \A r \in Rows : hold'[r] # c
    BY <1>1, <1>2, CallAssumption DEF Release, Goto, Put, TypeOK
  <1>4. tx'[c].adds = {} /\ tx'[c].closings = {} /\ tx'[c].gone = {}
    BY <1>3 DEF NoTx
  <1>5. OpAt(c)' /\ HoldsItsPeriod(c)' /\ HoldsNoOther(c)' /\ Decided(c)' /\ Found(c)'
    BY <1>3, <1>4
       DEF OpAt, CloseLabels, HoldsItsPeriod, HoldsNoOther, MidClose, Decided, Found
  <1> QED BY <1>4, <1>5, NothingAdded DEF CallInv

-----------------------------------------------------------------------------
(* The inductive invariant, and what follows from it.                      *)
LEMMA OwnKeep ==
  ASSUME IInv, NEW c \in Calls, Step(c)
  PROVE  CallInv(c)'
  <1>1. CASE \E p \in Periods, m \in Modules : Submit(c, p) \/ Post(c, p, m)
    BY <1>1, OwnPosts
  <1>2. CASE \E e \in entries : Approve(c, e) \/ Reject(c, e)
    BY <1>2, OwnDecides
  <1>3. CASE \E p \in Periods : ClosePeriod(c, p)
    BY <1>3, OwnCloseBegins
  <1>4. CASE \/ AuditRead(c) \/ ReopenYearOpen(c) \/ ReopenLater(c) \/ ReopenSelect(c)
             \/ CloseYear(c) \/ CloseYearPeriods(c) \/ CloseYearCount(c)
             \/ ReopenYear(c) \/ ReopenYearPeriods(c)
             \/ \E p \in Periods : ReopenPeriod(c, p)
             \/ \E p \in Periods, m \in Modules : ReopenModule(c, p, m)
    BY <1>4, OwnReads
  <1>5. CASE \/ ReopenUpdate(c) \/ SetModuleOpen(c) \/ OpenLast(c) \/ SaveYear(c)
             \/ \E p \in Periods, m \in Modules : CloseModule(c, p, m)
    BY <1>5, OwnLocks
  <1>6. CASE AuditPost(c) \/ Transfer(c)
    BY <1>6, OwnResult
  <1>7. CASE ReopenFind(c) \/ ReopenYearFind(c)
    BY <1>7, OwnFinds
  <1>8. CASE ReopenReverse(c) \/ ReverseAll(c)
    BY <1>8, OwnReversals
  <1>9. CASE CloseEarlier(c) \/ CloseUnposted(c) \/ CloseYearOpen(c)
    BY <1>9, OwnCloseReads
  <1>10. CASE Commit(c) \/ RollBack(c)
    BY <1>10, OwnEnds
  <1> QED
    BY CallAssumption, <1>1, <1>2, <1>3, <1>4, <1>5, <1>6, <1>7, <1>8, <1>9, <1>10 DEF Step

LEMMA InitIInv == Init => IInv
  <1> SUFFICES ASSUME Init PROVE IInv
    OBVIOUS
  <1>1. NoTx \in TxRow /\ Opened \in PeriodRow
    BY CallAssumption, CalendarAssumption DEF NoTx, TxRow, Opened, PeriodRow, Status, Periods
  <1>2. TypeOK
    BY <1>1 DEF Init, TypeOK, PcLabels, Status
  <1>3. Finite
    BY InitFinite
  <1>5. Exclusive /\ EntriesInv /\ ClosingReversedOnce
    BY DEF Init, Exclusive, EntriesInv, ClosingReversedOnce
  <1>4. ASSUME NEW c \in Calls PROVE CallInv(c)
    <2>1. /\ pc[c] = "idle" /\ tx[c].adds = {} /\ tx[c].closings = {} /\ tx[c].gone = {}
          /\ \A r \in Rows : hold[r] # c
      BY CallAssumption DEF Init, NoTx
    <2> QED BY <2>1 DEF CallInv, OpAt, CloseLabels, HoldsItsPeriod, HoldsNoOther, MidClose,
               Decided, AddsAdmitted, AddsPending, AddsClosing, AddsReversals, Found
  <1> QED BY <1>2, <1>3, <1>4, <1>5 DEF IInv

LEMMA NextIInv == IInv /\ [Next]_vars => IInv'
  <1> SUFFICES ASSUME IInv, [Next]_vars PROVE IInv'
    OBVIOUS
  <1>1. CASE Next
    <2>1. PICK c \in Calls : Step(c) BY <1>1 DEF Next
    <2>2. Footprint(c) /\ TypeOK' /\ Finite' /\ Exclusive'
      BY <2>1, StepFootprint, FootprintType, FiniteKept, ExclusiveKept DEF IInv
    <2>3. EntriesInv' /\ ClosingReversedOnce'
      BY <2>1, EntriesKept
    <2>4. \A d \in Calls : CallInv(d)'
      BY <2>1, <2>2, OwnKeep, OthersKeep
    <2> QED BY <2>2, <2>3, <2>4 DEF IInv
  <1>2. CASE UNCHANGED vars
    BY <1>2 DEF vars, IInv, TypeOK, Finite, Exclusive, EntriesInv, ClosingReversedOnce, CallInv,
       OpAt, MidClose, HoldsItsPeriod, HoldsNoOther, Decided, Unposted, AddsAdmitted,
       Admits, AddsPending, AddsClosing, AddsReversals, GuardsLast, Unreversed, Found
  <1> QED BY <1>1, <1>2

LEMMA Invariant == Spec => []IInv
  BY InitIInv, NextIInv, PTL DEF Spec

(* A closing entry is reversed at most once, whoever reopens the year or   *)
(* its last period (reopenFiscalYear, reopenPeriod) at the same time.      *)
THEOREM ReversedAtMostOnce == Spec => []ClosingReversedOnce
  <1>1. IInv => ClosingReversedOnce BY DEF IInv
  <1> QED BY <1>1, Invariant, PTL

(* What resolvePostingPeriod admitted is still admitted when it commits.   *)
THEOREM PostingsAreAdmitted == Spec => NothingEntersAClosedPeriod
  <1>1. IInv /\ [Next]_vars =>
          [\A e \in entries' \ entries : e.kind = "ordinary" => Admits(e.period, e.module)]_vars
    <2> SUFFICES ASSUME IInv, Next, NEW e \in entries' \ entries, e.kind = "ordinary"
                 PROVE  Admits(e.period, e.module)
      BY DEF vars
    <2>1. PICK c \in Calls : Step(c) BY DEF Next
    <2>2. Commit(c)
      BY <2>1, StepFootprint DEF IInv, Footprint, committed
    <2>3. e \in tx[c].adds
      BY <2>2, CommitFrame
    <2> QED BY <2>3 DEF IInv, CallInv, AddsAdmitted
  <1> QED BY <1>1, Invariant, PTL DEF Spec, NothingEntersAClosedPeriod

(* A period closePeriod closes has no undecided entry left in it.          *)
THEOREM ClosedMonthsAreDecided == Spec => ClosedMonthIsDecided
  <1>1. IInv /\ [Next]_vars =>
          [\A c \in Calls, p \in Periods :
             OpOf[c] = "close" /\ period[p].status = "open" /\ hold[p] = c
               /\ period'[p].status = "closed" => Unposted(p)' = {}]_vars
    <2> SUFFICES ASSUME IInv, Next, NEW c \in Calls, NEW p \in Periods,
                        OpOf[c] = "close", period[p].status = "open", hold[p] = c,
                        period'[p].status = "closed"
                 PROVE  Unposted(p)' = {}
      BY DEF vars
    <2>1. PICK d \in Calls : Step(d) BY DEF Next
    <2>2. Commit(d)
      BY <2>1, StepFootprint DEF IInv, Footprint, committed
    <2>3. d = c
      BY <2>2, CommitFrame
    <2>4. Unposted(p) = {}
      BY <2>2, <2>3 DEF Commit, IInv, CallInv, HoldsNoOther, Decided, Rows
    <2>5. \A e \in entries' : e \in entries \/ e \in tx[c].adds
      BY <2>2, <2>3, CommitFrame
    <2>6. \A e \in tx[c].adds : e.status # "pending"
      BY DEF IInv, CallInv, AddsPending
    <2> QED BY <2>4, <2>5, <2>6 DEF Unposted
  <1> QED BY <1>1, Invariant, PTL DEF Spec, ClosedMonthIsDecided

-----------------------------------------------------------------------------
(* A closed year has an open period when reopenPeriod, which looks at the  *)
(* year before it waits for the row, runs beside the annual close.  Where  *)
(* the two do not overlap it never has, whatever else races: postings,     *)
(* closes of periods and windows, other closes and reopenings of the year. *)
Busy(c) == pc[c] \notin {"idle", "answered"}
ReopeningsApart ==
  \A c, d \in Calls :
    OpOf[c] = "reopen" /\ OpOf[d] = "closeYear" => ~(Busy(c) /\ Busy(d))
ApartSpec == Init /\ [][Next /\ ReopeningsApart']_vars

LabelsOf(op) ==
  CASE op = "audit" -> {"auditPost", "commit"}
    [] op = "close" -> CloseLabels \cup {"commit"}
    [] op = "reopen" ->
         {"reopenYear", "later", "select", "update", "closings", "reverse", "commit"}
           \cup SecondSave
    [] op = "module" -> {"module", "commit"}
    [] op = "closeYear" -> {"periods", "count", "openLast", "transfer", "saveYear", "commit"}
    [] op = "reopenYear" -> {"periods", "find", "openLast", "reverseAll", "saveYear", "commit"}
    [] OTHER -> {"commit"}
OpHasLabel(c) == Busy(c) => pc[c] \in LabelsOf(OpOf[c])

(* Who holds which rows, and with what status a commit will leave them.    *)
HoldsRows(c) ==
  /\ OpOf[c] \in {"create", "decide", "audit"} => \A r \in Rows : hold[r] # c
  /\ OpOf[c] \notin {"closeYear", "reopenYear"} => hold[Year] # c
  /\ OpOf[c] \in {"closeYear", "reopenYear"} =>
       \A p \in Periods : hold[p] = c => p = LastPeriod
  /\ OpOf[c] = "module" /\ pc[c] # "commit" => \A r \in Rows : hold[r] # c
LeavesStatus(c) ==
  /\ MidClose(c) => tx[c].row.status = "closed"
  /\ OpOf[c] = "module" =>
       \A p \in Periods : hold[p] = c => tx[c].row.status = period[p].status

(* What a call still knows of the year and its periods.                    *)
KnowsOpenYear(c) ==
  OpOf[c] = "reopen" /\ Busy(c) /\ pc[c] # "reopenYear" => year = "open"
ShutButLast == \A p \in Periods \ {LastPeriod} : period[p].status = "closed"
Closes(c) ==
  OpOf[c] = "closeYear" /\ pc[c] \in {"count", "openLast", "transfer", "saveYear", "commit"} =>
    /\ ShutButLast /\ tx[c].saw.status = "closed"
    /\ pc[c] \in {"transfer", "saveYear", "commit"} =>
         hold[LastPeriod] = c /\ tx[c].row.status = "closed"
Reopens(c) ==
  OpOf[c] = "reopenYear" /\ pc[c] = "commit" /\ hold[LastPeriod] = c =>
    year = "open" \/ hold[Year] = c

CallShut(c) ==
  /\ OpHasLabel(c) /\ HoldsRows(c) /\ LeavesStatus(c)
  /\ KnowsOpenYear(c) /\ Closes(c) /\ Reopens(c)
ShutInv == SettledYearStaysShut /\ ReopeningsApart /\ \A c \in Calls : CallShut(c)

LEMMA RowsAre ==
  /\ LastPeriod \in Periods /\ Year \in Rows /\ Periods \subseteq Rows /\ Year \notin Periods
  BY CalendarAssumption DEF Periods, Year, Rows

LEMMA InitShut == Init => ShutInv
  <1>1. Init => \A r \in Rows, c \in Calls : hold[r] # c
    BY CallAssumption DEF Init
  <1> QED BY <1>1, RowsAre
          DEF Init, ShutInv, SettledYearStaysShut, ReopeningsApart, Busy, CallShut, OpHasLabel,
              HoldsRows, LeavesStatus, MidClose, CloseLabels, KnowsOpenYear, Closes, Reopens

(* A commit leaves the periods of a call that overlaps no reopening shut.  *)
LEMMA CommitLeavesShut ==
  ASSUME IInv, ShutInv, NEW c \in Calls, Commit(c), OpOf[c] # "reopen",
         NEW p \in Periods, period[p].status = "closed",
         OpOf[c] = "reopenYear" => p # LastPeriod
  PROVE  period'[p].status = "closed"
  <1>1. CASE hold[p] # c
    BY <1>1, CommitFrame
  <1>2. CASE hold[p] = c
    <2>1. period'[p] = tx[c].row /\ pc[c] = "commit" /\ p \in Rows
      BY <1>2, RowsAre DEF Commit
    <2>2. OpOf[c] \in {"close", "module", "closeYear", "reopenYear"}
      BY <1>2, <2>1, CallAssumption DEF ShutInv, CallShut, HoldsRows, Ops
    <2>3. CASE OpOf[c] = "close" \/ OpOf[c] = "module"
      BY <1>2, <2>1, <2>3 DEF ShutInv, CallShut, LeavesStatus, MidClose
    <2>4. CASE OpOf[c] = "closeYear"
      BY <2>1, <2>4 DEF ShutInv, CallShut, Closes
    <2>5. CASE OpOf[c] = "reopenYear"
      BY <1>2, <2>5 DEF ShutInv, CallShut, HoldsRows
    <2> QED BY <2>2, <2>3, <2>4, <2>5
  <1> QED BY <1>1, <1>2

LEMMA CommitKeepsYearShut ==
  ASSUME IInv, ShutInv, NEW c \in Calls, Commit(c)
  PROVE  SettledYearStaysShut'
  <1> USE RowsAre
  <1>0. pc[c] = "commit" /\ CallShut(c)
        /\ year' = IF hold[Year] = c THEN YearBecomes(c) ELSE year
    BY DEF Commit, ShutInv
  <1> SUFFICES ASSUME year' = "closed", NEW p \in Periods
               PROVE  period'[p].status = "closed"
    BY DEF SettledYearStaysShut
  <1>1. CASE year = "closed"
    <2>1. period[p].status = "closed"
      BY <1>1 DEF ShutInv, SettledYearStaysShut
    <2>2. OpOf[c] # "reopen"
      BY <1>0, <1>1 DEF CallShut, KnowsOpenYear, Busy
    <2>3. CASE OpOf[c] = "reopenYear" /\ p = LastPeriod
      <3>1. hold[Year] # c
        BY <1>0, <2>3 DEF YearBecomes
      <3>2. hold[p] # c
        BY <1>0, <1>1, <2>3, <3>1 DEF CallShut, Reopens
      <3> QED BY <2>1, <3>2, CommitFrame
    <2> QED BY <2>1, <2>2, <2>3, CommitLeavesShut
  <1>2. CASE year # "closed"
    <2>1. hold[Year] = c /\ OpOf[c] = "closeYear"
      BY <1>0, <1>2 DEF YearBecomes
    <2>2. ShutButLast /\ hold[LastPeriod] = c /\ tx[c].row.status = "closed"
      BY <1>0, <2>1 DEF CallShut, Closes
    <2>3. CASE p = LastPeriod
      BY <2>2, <2>3 DEF Commit
    <2>4. CASE p # LastPeriod
      BY <2>1, <2>2, <2>4, CommitLeavesShut DEF ShutButLast
    <2> QED BY <2>3, <2>4
  <1> QED BY <1>1, <1>2

(* A step of one call leaves true what the others hold and know.           *)
LEMMA OthersShut ==
  ASSUME IInv, ShutInv, ReopeningsApart', NEW c \in Calls, NEW d \in Calls, d # c,
         Step(c)
  PROVE  CallShut(d)'
  <1> USE RowsAre
  <1>0. Footprint(c) /\ TypeOK
    BY StepFootprint DEF IInv
  <1>1. /\ pc'[d] = pc[d] /\ tx'[d] = tx[d]
        /\ \A r \in Rows : hold'[r] = d <=> hold[r] = d
    BY <1>0, OthersFrame
  <1>2. CallShut(d) /\ CallShut(c)
    BY DEF ShutInv
  <1>3. OpHasLabel(d)' /\ HoldsRows(d)'
    BY <1>1, <1>2 DEF CallShut, OpHasLabel, Busy, HoldsRows
  <1>4. CASE UNCHANGED committed
    <2>1. LeavesStatus(d)' /\ KnowsOpenYear(d)'
      BY <1>1, <1>2, <1>4 DEF committed, CallShut, LeavesStatus, MidClose, KnowsOpenYear,
             Busy
    <2>2. Closes(d)' /\ Reopens(d)'
      BY <1>1, <1>2, <1>4 DEF committed, CallShut, Closes, ShutButLast, Reopens
    <2> QED BY <1>3, <2>1, <2>2 DEF CallShut
  <1>5. CASE Commit(c)
    <2>0. pc[c] = "commit" /\ Busy(c)
          /\ year' = IF hold[Year] = c THEN YearBecomes(c) ELSE year
      BY <1>5 DEF Commit, Busy
    <2>1. LeavesStatus(d)'
      <3>1. \A p \in Periods : hold[p] = d => period'[p] = period[p]
        BY <1>5, CommitFrame
      <3> QED BY <1>1, <1>2, <3>1 DEF CallShut, LeavesStatus, MidClose
    <2>2. KnowsOpenYear(d)'
      <3> SUFFICES ASSUME OpOf[d] = "reopen", pc[d] \notin {"idle", "answered"}, year = "open"
                   PROVE  year' = "open"
        BY <1>1, <1>2 DEF CallShut, KnowsOpenYear, Busy
      <3>1. OpOf[c] # "closeYear"
        BY <2>0 DEF ShutInv, ReopeningsApart, Busy
      <3> QED BY <2>0, <3>1 DEF YearBecomes
    <2>3. Closes(d)'
      <3> SUFFICES ASSUME OpOf[d] = "closeYear", Busy(d), ShutButLast
                   PROVE  ShutButLast'
        BY <1>1, <1>2 DEF CallShut, Closes, Busy
      <3>1. OpOf[c] # "reopen"
        BY <2>0 DEF ShutInv, ReopeningsApart
      <3> QED BY <1>5, <3>1, CommitLeavesShut DEF ShutButLast
    <2>4. Reopens(d)'
      <3> SUFFICES ASSUME hold[LastPeriod] = d, year = "open" PROVE year' = "open"
        BY <1>1, <1>2 DEF CallShut, Reopens
      <3>1. ~(OpOf[c] = "closeYear" /\ pc[c] = "commit")
        BY <1>2 DEF CallShut, Closes
      <3> QED BY <2>0, <3>1 DEF YearBecomes
    <2> QED BY <1>3, <2>1, <2>2, <2>3, <2>4 DEF CallShut
  <1> QED BY <1>0, <1>4, <1>5 DEF Footprint

(* What its own step leaves true of a call, by what the call is.           *)
LEMMA LabelTellsOp ==
  ASSUME NEW c \in Calls, OpHasLabel(c)
  PROVE  /\ pc[c] = "auditPost" => OpOf[c] = "audit"
         /\ pc[c] \in CloseLabels => OpOf[c] = "close"
         /\ pc[c] \in {"reopenYear", "later", "select", "update", "closings", "reverse"}
                       \cup SecondSave =>
              OpOf[c] = "reopen"
         /\ pc[c] = "module" => OpOf[c] = "module"
         /\ pc[c] \in {"count", "transfer"} => OpOf[c] = "closeYear"
         /\ pc[c] \in {"find", "reverseAll"} => OpOf[c] = "reopenYear"
         /\ pc[c] \in {"openLast", "saveYear"} => OpOf[c] \in {"closeYear", "reopenYear"}
  <1>1. OpOf[c] \in Ops
    BY CallAssumption
  <1> QED BY <1>1 DEF OpHasLabel, Busy, LabelsOf, CloseLabels, Ops, SecondSave

LEMMA PostingShut ==
  ASSUME IInv, NEW c \in Calls, CallShut(c),
         \/ \E p \in Periods, m \in Modules : Submit(c, p) \/ Post(c, p, m)
         \/ \E e \in entries : Approve(c, e) \/ Reject(c, e)
         \/ AuditRead(c) \/ AuditPost(c)
  PROVE  CallShut(c)'
  <1>1. OpOf[c] \in {"create", "decide", "audit"} /\ UNCHANGED hold
    BY LabelTellsOp DEF CallShut, Submit, Post, Approve, Reject, AuditRead, AuditPost,
                        ResolvePostingPeriod, Share, Begin
  <1>2. pc'[c] = "commit" \/ (OpOf[c] = "audit" /\ pc'[c] = "auditPost")
    BY DEF Submit, Post, Approve, Reject, AuditRead, AuditPost, Begin, Goto, IInv, TypeOK
  <1> QED BY <1>1, <1>2
          DEF CallShut, OpHasLabel, LabelsOf, HoldsRows, LeavesStatus, MidClose,
              KnowsOpenYear, Closes, Reopens

LEMMA CloseShut ==
  ASSUME IInv, NEW c \in Calls, CallShut(c),
         \/ \E p \in Periods : ClosePeriod(c, p)
         \/ CloseEarlier(c) \/ CloseUnposted(c) \/ CloseYearOpen(c)
  PROVE  CallShut(c)'
  <1> USE RowsAre
  <1>1. OpOf[c] = "close"
    BY LabelTellsOp
       DEF CallShut, ClosePeriod, CloseEarlier, CloseUnposted, CloseYearOpen, Begin, CloseLabels
  <1>2. pc'[c] \in CloseLabels \cup {"commit"}
    BY DEF ClosePeriod, CloseEarlier, CloseUnposted, CloseYearOpen, Goto, CloseLabels,
           IInv, TypeOK
  <1>3. tx'[c].row.status = "closed"
    <2>1. CASE \E p \in Periods : ClosePeriod(c, p)
      <3>1. PICK p \in Periods : tx'[c] = [NoTx EXCEPT !.period = p, !.row = Closed]
        BY <2>1, PutRow DEF ClosePeriod, IInv
      <3> QED BY <3>1 DEF NoTx, Closed
    <2>2. CASE CloseEarlier(c) \/ CloseUnposted(c) \/ CloseYearOpen(c)
      <3>1. tx[c].row.status = "closed" /\ tx[c] \in TxRow
        BY <1>1, <2>2
           DEF CallShut, LeavesStatus, MidClose, CloseEarlier, CloseUnposted, CloseYearOpen,
               CloseLabels, IInv, TypeOK
      <3>2. CASE UNCHANGED tx
        BY <3>1, <3>2
      <3>3. CASE \E adds : tx'[c] = [tx[c] EXCEPT !.adds = adds]
        BY <3>1, <3>3 DEF TxRow
      <3> QED BY <2>2, <3>2, <3>3, PutRow DEF CloseEarlier, CloseUnposted, CloseYearOpen, IInv
    <2> QED BY <2>1, <2>2
  <1>4. hold'[Year] # c
    <2>1. hold[Year] # c
      BY <1>1 DEF CallShut, HoldsRows
    <2>2. UNCHANGED hold \/ \E p \in Periods : hold' = [hold EXCEPT ![p] = c]
      BY DEF ClosePeriod, Lock, CloseEarlier, CloseUnposted, CloseYearOpen
    <2> QED BY <2>1, <2>2 DEF IInv, TypeOK
  <1>5. OpHasLabel(c)'
    BY <1>1, <1>2 DEF OpHasLabel, LabelsOf
  <1> QED BY <1>1, <1>3, <1>4, <1>5
          DEF CallShut, HoldsRows, LeavesStatus, KnowsOpenYear, Closes, Reopens

LEMMA ReopenShut ==
  ASSUME IInv, NEW c \in Calls, CallShut(c),
         \/ \E p \in Periods : ReopenPeriod(c, p)
         \/ ReopenYearOpen(c) \/ ReopenLater(c) \/ ReopenSelect(c) \/ ReopenUpdate(c)
         \/ ReopenFind(c) \/ ReopenReverse(c)
  PROVE  CallShut(c)'
  <1> USE RowsAre
  <1>1. OpOf[c] = "reopen"
    BY LabelTellsOp
       DEF CallShut, ReopenPeriod, ReopenYearOpen, ReopenLater, ReopenSelect, ReopenUpdate,
           ReopenFind, ReopenReverse, Begin, SecondSave
  <1>2. pc'[c] \in LabelsOf("reopen")
    BY DEF ReopenPeriod, ReopenYearOpen, ReopenLater, ReopenSelect, ReopenUpdate,
           ReopenFind, ReopenReverse, Goto, LabelsOf, SecondSave, IInv, TypeOK
  <1>3. hold'[Year] # c
    <2>1. hold[Year] # c /\ tx[c].period \in Periods
      BY <1>1 DEF CallShut, HoldsRows, IInv, TypeOK, TxRow
    <2>2. UNCHANGED hold \/ hold' = [hold EXCEPT ![tx[c].period] = c]
      BY DEF ReopenPeriod, ReopenYearOpen, ReopenLater, ReopenSelect, ReopenUpdate,
             ReopenFind, ReopenReverse, AdmitsReversal, ResolvePostingPeriod, Share, Lock
    <2> QED BY <2>1, <2>2 DEF IInv, TypeOK
  <1>4. KnowsOpenYear(c)'
    <2>1. UNCHANGED year
      BY DEF committed, ReopenPeriod, ReopenYearOpen, ReopenLater, ReopenSelect, ReopenUpdate,
             ReopenFind, ReopenReverse
    <2>2. CASE \E p \in Periods : ReopenPeriod(c, p)
      BY <2>2 DEF ReopenPeriod, Goto, KnowsOpenYear, IInv, TypeOK
    <2>3. CASE \/ ReopenYearOpen(c) \/ ReopenLater(c) \/ ReopenSelect(c) \/ ReopenUpdate(c)
               \/ ReopenFind(c) \/ ReopenReverse(c)
      BY <1>1, <2>1, <2>3
         DEF CallShut, KnowsOpenYear, Busy, ReopenYearOpen, ReopenLater, ReopenSelect, ReopenUpdate,
             ReopenFind, ReopenReverse
    <2> QED BY <2>2, <2>3
  <1> QED BY <1>1, <1>2, <1>3, <1>4
          DEF CallShut, OpHasLabel, HoldsRows, LeavesStatus, MidClose, Closes, Reopens

LEMMA ModuleShut ==
  ASSUME IInv, NEW c \in Calls, CallShut(c),
         \/ \E p \in Periods, m \in Modules : CloseModule(c, p, m) \/ ReopenModule(c, p, m)
         \/ SetModuleOpen(c)
  PROVE  CallShut(c)'
  <1> USE RowsAre
  <1>1. OpOf[c] = "module" /\ pc[c] # "commit"
    BY LabelTellsOp DEF CallShut, CloseModule, ReopenModule, SetModuleOpen, Begin
  <1>2. (\A r \in Rows : hold[r] # c) /\ tx[c] \in TxRow /\ UNCHANGED period
        /\ \A p \in Periods : period[p] \in PeriodRow
    BY <1>1 DEF CallShut, HoldsRows, IInv, TypeOK, CloseModule, ReopenModule, SetModuleOpen,
                committed
  <1>3. CASE \E p \in Periods, m \in Modules : ReopenModule(c, p, m)
    <2>1. pc'[c] = "module" /\ UNCHANGED hold
      BY <1>3 DEF ReopenModule, Goto, IInv, TypeOK
    <2> QED BY <1>1, <1>2, <2>1
            DEF CallShut, OpHasLabel, LabelsOf, HoldsRows, LeavesStatus, MidClose,
                KnowsOpenYear, Closes, Reopens
  <1>4. CASE \/ \E p \in Periods, m \in Modules : CloseModule(c, p, m)
             \/ SetModuleOpen(c)
    <2>1. \E p \in Periods : /\ hold' = [hold EXCEPT ![p] = c] /\ pc'[c] = "commit"
                             /\ tx'[c].row.status = period[p].status
      <3>1. CASE SetModuleOpen(c)
        <4>1. PICK p, m : p = tx[c].period /\ m = tx[c].module
          OBVIOUS
        <4>2. p \in Periods /\ period[p] \in PeriodRow
          BY <1>2, <4>1 DEF TxRow
        <4>3. PICK row : row = [period[p] EXCEPT !.module[m] = "open"]
          OBVIOUS
        <4>4. tx'[c] = [tx[c] EXCEPT !.row = row]
          BY <3>1, <4>1, <4>3, PutRow DEF SetModuleOpen, IInv
        <4>5. row.status = period[p].status
          BY <4>2, <4>3 DEF PeriodRow
        <4>6. tx'[c].row = row
          BY <1>2, <4>4 DEF TxRow
        <4> QED BY <3>1, <4>1, <4>2, <4>5, <4>6 DEF SetModuleOpen, Lock, Goto, IInv, TypeOK
      <3>2. ASSUME NEW p \in Periods, NEW m \in Modules, CloseModule(c, p, m)
            PROVE  /\ hold' = [hold EXCEPT ![p] = c] /\ pc'[c] = "commit"
                   /\ tx'[c].row.status = period[p].status
        <4>1. PICK row : row = [period[p] EXCEPT !.module[m] = "closed"]
          OBVIOUS
        <4>2. tx'[c] = [NoTx EXCEPT !.period = p, !.row = row]
          BY <3>2, <4>1, PutRow DEF CloseModule, IInv
        <4>3. row.status = period[p].status
          BY <1>2, <4>1 DEF PeriodRow
        <4>4. tx'[c].row = row
          BY <4>2 DEF NoTx
        <4> QED BY <3>2, <4>3, <4>4 DEF CloseModule, Lock, Goto, IInv, TypeOK
      <3> QED BY <1>4, <3>1, <3>2
    <2>2. PICK p \in Periods : /\ hold' = [hold EXCEPT ![p] = c] /\ pc'[c] = "commit"
                               /\ tx'[c].row.status = period[p].status
      BY <2>1
    <2>3. \A r \in Rows : hold'[r] = c => r = p
      BY <1>2, <2>2 DEF IInv, TypeOK
    <2> QED BY <1>1, <1>2, <2>2, <2>3
            DEF CallShut, OpHasLabel, LabelsOf, HoldsRows, LeavesStatus, MidClose,
                KnowsOpenYear, Closes, Reopens
  <1> QED BY <1>3, <1>4

(* The two calls about the year.                                           *)
YearStep(c) ==
  \/ CloseYear(c) \/ CloseYearPeriods(c) \/ CloseYearCount(c) \/ OpenLast(c) \/ Transfer(c)
  \/ ReopenYear(c) \/ ReopenYearPeriods(c) \/ ReopenYearFind(c) \/ ReverseAll(c) \/ SaveYear(c)

LEMMA YearFrame ==
  ASSUME IInv, NEW c \in Calls, CallShut(c), YearStep(c)
  PROVE  /\ OpOf[c] \in {"closeYear", "reopenYear"} /\ UNCHANGED committed
         /\ pc'[c] \in LabelsOf(OpOf[c])
         /\ \A r \in Rows : hold[r] = c => hold'[r] = c
         /\ \A p \in Periods : hold'[p] = c => p = LastPeriod
         /\ OpenLast(c) => hold'[LastPeriod] = c
  <1> USE RowsAre
  <1>1. OpOf[c] \in {"closeYear", "reopenYear"} /\ UNCHANGED committed
    BY LabelTellsOp
       DEF CallShut, YearStep, CloseYear, CloseYearPeriods, CloseYearCount, OpenLast, Transfer,
           ReopenYear, ReopenYearPeriods, ReopenYearFind, ReverseAll, SaveYear, Begin, committed
  <1>2. pc'[c] \in LabelsOf(OpOf[c])
    <2>1. CASE CloseYear(c) \/ CloseYearPeriods(c) \/ CloseYearCount(c) \/ Transfer(c)
      <3>1. OpOf[c] = "closeYear" /\ pc'[c] \in {"periods", "count", "openLast", "saveYear"}
        BY <2>1, LabelTellsOp
           DEF CallShut, CloseYear, CloseYearPeriods, CloseYearCount, Transfer, Begin, Goto,
               IInv, TypeOK
      <3> QED BY <3>1 DEF LabelsOf
    <2>2. CASE ReopenYear(c) \/ ReopenYearPeriods(c) \/ ReopenYearFind(c) \/ ReverseAll(c)
      <3>1. OpOf[c] = "reopenYear" /\ pc'[c] \in {"periods", "find", "openLast", "saveYear"}
        BY <2>2, LabelTellsOp
           DEF CallShut, ReopenYear, ReopenYearPeriods, ReopenYearFind, ReverseAll, Begin, Goto,
               IInv, TypeOK
      <3> QED BY <3>1 DEF LabelsOf
    <2>3. CASE OpenLast(c) \/ SaveYear(c)
      <3>1. \/ pc'[c] = "commit"
            \/ pc'[c] = IF OpOf[c] = "closeYear" THEN "transfer" ELSE "reverseAll"
        BY <2>3 DEF OpenLast, SaveYear, Goto, IInv, TypeOK
      <3> QED BY <1>1, <3>1 DEF LabelsOf
    <2> QED BY <2>1, <2>2, <2>3 DEF YearStep
  <1>3. \/ UNCHANGED hold
        \/ hold' = [hold EXCEPT ![LastPeriod] = c]
        \/ hold' = [hold EXCEPT ![Year] = c]
    BY DEF YearStep, CloseYear, CloseYearPeriods, CloseYearCount, OpenLast, Transfer,
           ReopenYear, ReopenYearPeriods, ReopenYearFind, ReverseAll, SaveYear, Lock
  <1>4. \A p \in Periods : hold[p] = c => p = LastPeriod
    BY <1>1 DEF CallShut, HoldsRows
  <1>5. OpenLast(c) => hold'[LastPeriod] = c
    BY DEF OpenLast, Lock, IInv, TypeOK
  <1> QED BY <1>1, <1>2, <1>3, <1>4, <1>5 DEF IInv, TypeOK

LEMMA YearShut ==
  ASSUME IInv, NEW c \in Calls, CallShut(c), YearStep(c)
  PROVE  CallShut(c)'
  <1> USE RowsAre
  <1>1. /\ OpOf[c] \in {"closeYear", "reopenYear"} /\ UNCHANGED committed
        /\ pc'[c] \in LabelsOf(OpOf[c])
        /\ \A r \in Rows : hold[r] = c => hold'[r] = c
        /\ \A p \in Periods : hold'[p] = c => p = LastPeriod
        /\ OpenLast(c) => hold'[LastPeriod] = c
    BY YearFrame
  <1>2. tx[c] \in TxRow /\ Closes(c)
    BY DEF CallShut, IInv, TypeOK
  <1>3. OpHasLabel(c)' /\ HoldsRows(c)' /\ LeavesStatus(c)' /\ KnowsOpenYear(c)'
    BY <1>1 DEF OpHasLabel, HoldsRows, LeavesStatus, MidClose, KnowsOpenYear
  <1>4. CASE OpOf[c] = "closeYear"
    <2> SUFFICES Closes(c)'
      BY <1>3, <1>4 DEF CallShut, Reopens
    <2>0. ShutButLast => ShutButLast'
      BY <1>1 DEF committed, ShutButLast
    <2>1. CASE CloseYear(c)
      BY <2>1 DEF CloseYear, Goto, Closes, IInv, TypeOK
    <2>2. CASE CloseYearPeriods(c)
      <3>1. ShutButLast
        BY <2>2 DEF CloseYearPeriods, ShutButLast
      <3>2. pc'[c] = "count" /\ tx'[c] = [NoTx EXCEPT !.saw = period[LastPeriod]]
        BY <2>2, PutRow DEF CloseYearPeriods, Goto, IInv, TypeOK
      <3>3. tx'[c].saw = period[LastPeriod] /\ period[LastPeriod].status = "closed"
        BY <2>2, <3>2 DEF NoTx, CloseYearPeriods
      <3> QED BY <2>0, <3>1, <3>2, <3>3 DEF Closes
    <2>3. CASE CloseYearCount(c)
      <3>1. pc[c] = "count" /\ pc'[c] = "openLast" /\ tx'[c] = tx[c]
        BY <2>3 DEF CloseYearCount, Goto, IInv, TypeOK
      <3> QED BY <1>2, <1>4, <2>0, <3>1 DEF Closes
    <2>4. CASE OpenLast(c)
      <3>1. pc[c] = "openLast" /\ tx'[c] = [tx[c] EXCEPT !.row = tx[c].saw]
        BY <2>4, PutRow DEF OpenLast, IInv
      <3>2. tx'[c].row = tx[c].saw /\ tx'[c].saw = tx[c].saw
        BY <1>2, <3>1 DEF TxRow
      <3> QED BY <1>1, <1>2, <1>4, <2>0, <2>4, <3>1, <3>2 DEF Closes
    <2>5. CASE Transfer(c)
      <3>1. PICK adds : tx'[c] = [tx[c] EXCEPT !.adds = adds]
        BY <2>5, PutRow DEF Transfer, IInv
      <3>2. tx'[c].row = tx[c].row /\ tx'[c].saw = tx[c].saw /\ pc[c] = "transfer"
        BY <1>2, <2>5, <3>1 DEF TxRow, Transfer
      <3> QED BY <1>1, <1>2, <1>4, <2>0, <3>2 DEF Closes
    <2>6. CASE SaveYear(c)
      <3>1. pc[c] = "saveYear" /\ tx'[c] = tx[c]
        BY <2>6 DEF SaveYear
      <3> QED BY <1>1, <1>2, <1>4, <2>0, <3>1 DEF Closes
    <2>7. ~ReopenYear(c) /\ ~ReopenYearPeriods(c) /\ ~ReopenYearFind(c) /\ ~ReverseAll(c)
      BY <1>4, LabelTellsOp
         DEF CallShut, ReopenYear, ReopenYearPeriods, ReopenYearFind, ReverseAll, Begin
    <2> QED BY <2>1, <2>2, <2>3, <2>4, <2>5, <2>6, <2>7 DEF YearStep
  <1>5. CASE OpOf[c] = "reopenYear"
    <2>1. Reopens(c)'
      <3> SUFFICES ASSUME pc'[c] = "commit" PROVE year' = "open" \/ hold'[Year] = c
        BY DEF Reopens
      <3>1. SaveYear(c)
        BY DEF YearStep, CloseYear, CloseYearPeriods, CloseYearCount, OpenLast, Transfer,
               ReopenYear, ReopenYearPeriods, ReopenYearFind, ReverseAll, SaveYear, Goto,
               IInv, TypeOK
      <3> QED BY <1>1, <1>5, <3>1 DEF SaveYear, YearBecomes, Lock, committed, IInv, TypeOK
    <2> QED BY <1>3, <1>5, <2>1 DEF CallShut, Closes
  <1> QED BY <1>1, <1>4, <1>5

LEMMA EndsShut ==
  ASSUME IInv, NEW c \in Calls, Commit(c) \/ RollBack(c)
  PROVE  CallShut(c)'
  <1>1. pc'[c] = "answered" /\ \A r \in Rows : hold'[r] # c
    BY CallAssumption DEF Commit, RollBack, Release, Goto, IInv, TypeOK
  <1> QED BY <1>1, RowsAre
          DEF CallShut, OpHasLabel, Busy, HoldsRows, LeavesStatus, MidClose, CloseLabels,
              KnowsOpenYear, Closes, Reopens

LEMMA NextShut == IInv /\ ShutInv /\ [Next /\ ReopeningsApart']_vars => ShutInv'
  <1>1. ASSUME IInv, ShutInv, UNCHANGED vars PROVE ShutInv'
    BY <1>1 DEF vars, ShutInv, SettledYearStaysShut, ReopeningsApart, Busy, CallShut, OpHasLabel,
       HoldsRows, LeavesStatus, MidClose, KnowsOpenYear, Closes, ShutButLast, Reopens
  <1>2. ASSUME IInv, ShutInv, Next, ReopeningsApart' PROVE ShutInv'
    <2>1. PICK c \in Calls : Step(c)
      BY <1>2 DEF Next
    <2>2. CallShut(c)
      BY <1>2 DEF ShutInv
    <2>3. CallShut(c)'
      BY <1>2, <2>1, <2>2, PostingShut, CloseShut, ReopenShut, ModuleShut, YearShut, EndsShut,
         CallAssumption DEF Step, YearStep
    <2>4. \A d \in Calls : CallShut(d)'
      BY <1>2, <2>1, <2>3, OthersShut
    <2>5. SettledYearStaysShut'
      <3>1. CASE UNCHANGED committed
        BY <1>2, <3>1 DEF committed, ShutInv, SettledYearStaysShut
      <3> QED BY <1>2, <2>1, <3>1, StepFootprint, CommitKeepsYearShut DEF Footprint, IInv
    <2> QED BY <1>2, <2>4, <2>5 DEF ShutInv
  <1> QED BY <1>1, <1>2

(* What reopenPeriod's comment says, a period inside a settled year is not *)
(* reopenable, holds of everything that may race except one pair: the      *)
(* reopening of a period beside the annual close.                          *)
THEOREM ApartSettledYearStaysShut == ApartSpec => []SettledYearStaysShut
  <1>1. [Next /\ ReopeningsApart']_vars => [Next]_vars
    OBVIOUS
  <1>2. ApartSpec => [](IInv /\ ShutInv)
    BY <1>1, InitIInv, InitShut, NextIInv, NextShut, PTL DEF ApartSpec
  <1>3. ShutInv => SettledYearStaysShut
    BY DEF ShutInv
  <1> QED BY <1>2, <1>3, PTL

-----------------------------------------------------------------------------
(* A closed year is left unsettled once it has been reopened and closed    *)
(* again, or when two annual closes overlap and each transfers the result. *)
(* Otherwise it is settled, whatever else races: postings and decisions,   *)
(* closes of periods and windows, and the audit adjustments made after.    *)
NeverReopened == \A c \in Calls : OpOf[c] # "reopenYear"
ClosesInTurn ==
  \A c, d \in Calls :
    OpOf[c] = "closeYear" /\ OpOf[d] = "closeYear" => ~(Busy(c) /\ Busy(d)) \/ c = d
SettlingSpec == Init /\ [][Next /\ ReopeningsApart' /\ ClosesInTurn']_vars

(* What a call adds, by what it is: the annual close moves the result as   *)
(* it still stands when the close commits, and an adjustment comes with    *)
(* the transfer of its own.                                                *)
AddsByOp(c) ==
  /\ OpOf[c] \in {"create", "decide", "close"} =>
       \A e \in tx[c].adds : e.kind = "ordinary"
  /\ OpOf[c] \in {"module", "reopen"} => tx[c].adds = {}
  /\ OpOf[c] = "audit" => tx[c].adds \in {{}, {Audit(c), Closing(c, -1)}}
  /\ OpOf[c] = "closeYear" =>
       tx[c].adds = IF pc[c] \in {"saveYear", "commit"} /\ Result # 0
                    THEN {Closing(c, -Result)} ELSE {}

(* What a call still knows of the year.                                    *)
AllShut == \A p \in Periods : period[p].status = "closed"
KnowsYear(c) ==
  /\ OpOf[c] = "audit" /\ Busy(c) => year = "closed"
  /\ OpOf[c] = "closeYear" /\ Busy(c) => year = "open"
  /\ OpOf[c] = "closeYear" /\ pc[c] = "commit" => hold[Year] = c
  /\ OpOf[c] = "closeYear" /\ Busy(c) /\ pc[c] # "periods" => AllShut

YearsEntries ==
  /\ year = "open" => \A e \in entries : e.kind = "ordinary"
  /\ \A e \in entries : e.kind = "audit" => pc[e.by] = "answered"
Standing == YearsEntries /\ ClosedYearIsSettled
SettledInv == Standing /\ ClosesInTurn /\ \A c \in Calls : AddsByOp(c) /\ KnowsYear(c)

Posted == {e \in entries : e.status = "posted"}

LEMMA PostedIs ==
  ASSUME IInv
  PROVE  IsFiniteSet(Posted) /\ Posted \subseteq Entry /\ Amount(Posted) \in Int
         /\ \A e \in Posted : e.amount \in Int
  <1>1. IsFiniteSet(Posted)
    BY FS_Subset DEF IInv, Finite, Posted
  <1>2. Posted \subseteq Entry /\ \A e \in Posted : e.amount \in Int
    BY DEF IInv, TypeOK, Posted, Entry
  <1> QED BY <1>1, <1>2, AmountIsAnInt

LEMMA InitSettled == Init => SettledInv
  <1> SUFFICES ASSUME Init PROVE SettledInv
    OBVIOUS
  <1>1. \A c \in Calls : AddsByOp(c)
    BY DEF Init, AddsByOp, NoTx
  <1>2. \A c \in Calls : KnowsYear(c)
    BY DEF Init, KnowsYear, Busy
  <1> QED BY <1>1, <1>2
          DEF Init, SettledInv, Standing, YearsEntries, ClosedYearIsSettled, ClosesInTurn, Busy

(* The posted entries after a commit are those before and the new ones.    *)
LEMMA PostedBecomes ==
  ASSUME IInv, NEW c \in Calls, Commit(c)
  PROVE  Posted' = Posted \cup {e \in tx[c].adds : e.status = "posted"}
  <1>1. Found(c) /\ entries' = (entries \ tx[c].gone) \cup tx[c].adds
    BY DEF IInv, CallInv, Commit
  <1> QED BY <1>1 DEF Found, Posted

(* A call that adds ordinary entries adds none to a year that is shut.     *)
LEMMA NothingIntoAShutYear ==
  ASSUME IInv, AllShut, NEW c \in Calls, \A e \in tx[c].adds : e.kind = "ordinary"
  PROVE  tx[c].adds = {}
  <1> SUFFICES ASSUME NEW e \in tx[c].adds PROVE FALSE
    OBVIOUS
  <1>1. Admits(e.period, e.module) /\ e.period \in Periods
    BY DEF IInv, CallInv, AddsAdmitted, TypeOK, TxRow, Entry
  <1> QED BY <1>1 DEF Admits, AllShut

LEMMA AllOps ==
  ASSUME NEW c \in Calls, NeverReopened
  PROVE  OpOf[c] \in {"create", "decide", "close", "reopen", "module", "closeYear", "audit"}
  BY CallAssumption DEF NeverReopened, Ops

(* While the year is open: only its close writes another kind of entry.    *)
LEMMA CommitInTheYear ==
  ASSUME IInv, ShutInv, SettledInv, NeverReopened, NEW c \in Calls, Commit(c), year = "open"
  PROVE  Standing'
  <1> USE RowsAre
  <1>0. /\ pc[c] = "commit" /\ Busy(c) /\ AddsByOp(c) /\ KnowsYear(c) /\ CallShut(c)
        /\ year' = IF hold[Year] = c THEN YearBecomes(c) ELSE year
        /\ entries' = (entries \ tx[c].gone) \cup tx[c].adds
        /\ YearsEntries
    BY DEF Commit, Busy, SettledInv, ShutInv, Standing
  <1>1. CASE OpOf[c] # "closeYear"
    <2>1. \A e \in tx[c].adds : e.kind = "ordinary"
      BY <1>0, <1>1, AllOps DEF AddsByOp, KnowsYear
    <2>2. year' = "open"
      BY <1>0, <1>1 DEF YearBecomes
    <2>3. \A e \in entries' : e.kind = "ordinary"
      BY <1>0, <2>1 DEF YearsEntries
    <2> QED BY <2>2, <2>3 DEF Standing, YearsEntries, ClosedYearIsSettled
  <1>2. CASE OpOf[c] = "closeYear"
    <2>1. year' = "closed" /\ \A e \in entries : e.kind = "ordinary"
      BY <1>0, <1>2 DEF KnowsYear, YearBecomes, YearsEntries
    <2>2. tx[c].adds = IF Result # 0 THEN {Closing(c, -Result)} ELSE {}
      BY <1>0, <1>2 DEF AddsByOp
    <2>3. Result = Amount(Posted)
      <3>1. Posted = {e \in entries : e.status = "posted" /\ e.kind # "closing"}
        BY <2>1 DEF Posted
      <3> QED BY <3>1 DEF Result
    <2>4. Amount(Posted') = 0
      <3>1. CASE Result = 0
        <4>1. Posted' = Posted
          BY <2>2, <3>1, PostedBecomes
        <4> QED BY <2>3, <3>1, <4>1
      <3>2. CASE Result # 0
        <4>1. PICK x : x = Closing(c, -Result)
          OBVIOUS
        <4>2. x.status = "posted" /\ x.amount = -Result /\ x.kind = "closing"
          BY <4>1 DEF Closing
        <4>3. tx[c].adds = {x}
          BY <2>2, <3>2, <4>1
        <4>4. Posted' = Posted \cup {x}
          BY <4>2, <4>3, PostedBecomes
        <4>5. x \notin Posted
          BY <2>1, <4>2 DEF Posted
        <4>6. Amount(Posted \cup {x}) = Amount(Posted) + x.amount
          BY <2>3, <4>2, <4>5, PostedIs, AmountWith
        <4>7. Result + (-Result) = 0
          BY <2>3, PostedIs
        <4> QED BY <2>3, <4>2, <4>4, <4>6, <4>7
      <3> QED BY <3>1, <3>2
    <2>5. \A e \in entries' : e.kind # "audit"
      BY <1>0, <2>1, <2>2 DEF Closing
    <2> QED BY <2>1, <2>4, <2>5 DEF Standing, YearsEntries, ClosedYearIsSettled, Posted
  <1> QED BY <1>1, <1>2

(* Once it is closed: only adjustments are added, which settle themselves. *)
LEMMA CommitAfterTheYear ==
  ASSUME IInv, ShutInv, SettledInv, NeverReopened, NEW c \in Calls, Commit(c), year = "closed"
  PROVE  Standing'
  <1> USE RowsAre
  <1>0. /\ pc[c] = "commit" /\ Busy(c) /\ AddsByOp(c) /\ KnowsYear(c) /\ CallShut(c)
        /\ year' = IF hold[Year] = c THEN YearBecomes(c) ELSE year
        /\ entries' = (entries \ tx[c].gone) \cup tx[c].adds
        /\ YearsEntries /\ Amount(Posted) = 0
    BY DEF Commit, Busy, SettledInv, ShutInv, Standing, ClosedYearIsSettled, Posted
  <1>1. OpOf[c] # "closeYear" /\ year' = "closed"
    <2>1. OpOf[c] # "closeYear" /\ OpOf[c] # "reopenYear"
      BY <1>0 DEF KnowsYear, NeverReopened
    <2> QED BY <1>0, <2>1 DEF CallShut, HoldsRows
  <1>2. AllShut
    BY DEF ShutInv, SettledYearStaysShut, AllShut
  <1>3. tx[c].adds = {} \/ (OpOf[c] = "audit" /\ tx[c].adds = {Audit(c), Closing(c, -1)})
    <2>1. CASE OpOf[c] \in {"create", "decide", "close"}
      BY <1>0, <1>2, <2>1, NothingIntoAShutYear DEF AddsByOp
    <2>2. CASE OpOf[c] \notin {"create", "decide", "close"}
      BY <1>0, <1>1, <2>2, AllOps DEF AddsByOp
    <2> QED BY <2>1, <2>2
  <1>4. pc'[c] = "answered" /\ \A d \in Calls : pc[d] = "answered" => pc'[d] = "answered"
    BY DEF Commit, Release, Goto, IInv, TypeOK
  <1>5. Amount(Posted') = 0 /\ \A e \in tx[c].adds : e.kind = "audit" => e.by = c
    <2>1. CASE tx[c].adds = {}
      <3>1. Posted' = Posted
        BY <2>1, PostedBecomes
      <3> QED BY <1>0, <2>1, <3>1
    <2>2. CASE tx[c].adds = {Audit(c), Closing(c, -1)}
      <3>1. PICK x, y : x = Audit(c) /\ y = Closing(c, -1)
        OBVIOUS
      <3>2. /\ x.status = "posted" /\ x.amount = 1 /\ x.kind = "audit" /\ x.by = c
            /\ y.status = "posted" /\ y.amount = -1 /\ y.kind = "closing" /\ y.by = c
        BY <3>1 DEF Audit, Ordinary, Closing
      <3>3. Posted' = (Posted \cup {x}) \cup {y}
        BY <2>2, <3>1, <3>2, PostedBecomes
      <3>4. x \notin Posted /\ y \notin Posted \cup {x}
        BY <1>0, <3>2 DEF YearsEntries, IInv, EntriesInv, Posted
      <3>5. PICK more : more = Posted \cup {x}
        OBVIOUS
      <3>6. Amount(more) = Amount(Posted) + x.amount
        BY <3>2, <3>4, <3>5, PostedIs, AmountWith
      <3>7. IsFiniteSet(more) /\ \A e \in more : e.amount \in Int
        BY <3>2, <3>5, PostedIs, FS_AddElement
      <3>8. Amount(more \cup {y}) = Amount(more) + y.amount
        BY <3>2, <3>4, <3>5, <3>7, AmountWith
      <3>9. Amount(more) = 1
        BY <1>0, <3>2, <3>6
      <3> QED BY <2>2, <3>1, <3>2, <3>3, <3>5, <3>8, <3>9
    <2> QED BY <1>3, <2>1, <2>2
  <1>6. \A e \in entries' : e.kind = "audit" => pc'[e.by] = "answered"
    <2> SUFFICES ASSUME NEW e \in entries', e.kind = "audit" PROVE pc'[e.by] = "answered"
      OBVIOUS
    <2>1. CASE e \in tx[c].adds
      BY <1>4, <1>5, <2>1
    <2>2. CASE e \in entries
      <3>1. e.by \in Calls /\ pc[e.by] = "answered"
        BY <1>0, <2>2 DEF YearsEntries, IInv, TypeOK, Entry
      <3> QED BY <1>4, <3>1
    <2> QED BY <1>0, <2>1, <2>2
  <1> QED BY <1>1, <1>5, <1>6 DEF Standing, YearsEntries, ClosedYearIsSettled, Posted

(* While a year is being closed, a commit of another call leaves its       *)
(* periods shut and its result what it is.                                 *)
LEMMA CommitBesideAClose ==
  ASSUME IInv, ShutInv, SettledInv, NeverReopened,
         NEW c \in Calls, Commit(c), NEW d \in Calls, d # c,
         OpOf[d] = "closeYear", Busy(d)
  PROVE  /\ year' = "open"
         /\ pc[d] # "periods" => AllShut' /\ Result' = Result
  <1> USE RowsAre
  <1>0. /\ pc[c] = "commit" /\ Busy(c) /\ AddsByOp(c) /\ KnowsYear(c) /\ CallShut(c)
        /\ KnowsYear(d)
        /\ year' = IF hold[Year] = c THEN YearBecomes(c) ELSE year
    BY DEF Commit, Busy, SettledInv, ShutInv
  <1>1. OpOf[c] \in {"create", "decide", "close", "module"} /\ year = "open"
    <2>1. OpOf[c] # "closeYear" /\ OpOf[c] # "reopen"
      BY <1>0 DEF SettledInv, ClosesInTurn, ShutInv, ReopeningsApart
    <2>2. OpOf[c] # "audit" /\ year = "open"
      BY <1>0 DEF KnowsYear
    <2> QED BY <2>1, <2>2, AllOps
  <1>2. year' = "open"
    BY <1>0, <1>1 DEF YearBecomes
  <1>3. ASSUME pc[d] # "periods" PROVE AllShut' /\ Result' = Result
    <2>1. AllShut
      BY <1>0, <1>3 DEF KnowsYear
    <2>2. AllShut'
      BY <1>1, <2>1, CommitLeavesShut DEF AllShut
    <2>3. tx[c].adds = {}
      <3>1. CASE OpOf[c] = "module"
        BY <1>0, <3>1 DEF AddsByOp
      <3>2. CASE OpOf[c] # "module"
        BY <1>0, <1>1, <2>1, <3>2, NothingIntoAShutYear DEF AddsByOp
      <3> QED BY <3>1, <3>2
    <2>4. entries' = entries \ tx[c].gone /\ \A e \in tx[c].gone : e.status = "pending"
      BY <2>3 DEF Commit, IInv, CallInv, Found
    <2>5. {e \in entries' : e.status = "posted" /\ e.kind # "closing"}
            = {e \in entries : e.status = "posted" /\ e.kind # "closing"}
      BY <2>4
    <2> QED BY <2>2, <2>5 DEF Result
  <1> QED BY <1>2, <1>3

(* A step of one call leaves true what the others add and know.            *)
LEMMA OthersSettle ==
  ASSUME IInv, ShutInv, SettledInv, NeverReopened,
         NEW c \in Calls, Step(c), NEW d \in Calls, d # c
  PROVE  AddsByOp(d)' /\ KnowsYear(d)'
  <1> USE RowsAre
  <1>0. Footprint(c) /\ TypeOK /\ AddsByOp(d) /\ KnowsYear(d)
    BY StepFootprint DEF IInv, SettledInv
  <1>1. /\ pc'[d] = pc[d] /\ tx'[d] = tx[d]
        /\ \A r \in Rows : hold'[r] = d <=> hold[r] = d
    BY <1>0, OthersFrame
  <1>2. CASE UNCHANGED committed
    <2>1. Result' = Result /\ (AllShut => AllShut') /\ year' = year
      BY <1>2 DEF committed, Result, AllShut
    <2>2. AddsByOp(d)'
      BY <1>0, <1>1, <2>1 DEF AddsByOp
    <2> QED BY <1>0, <1>1, <2>1, <2>2 DEF KnowsYear, Busy
  <1>3. CASE Commit(c)
    <2>1. OpOf[d] = "closeYear" /\ Busy(d) =>
            year' = "open" /\ (pc[d] # "periods" => AllShut' /\ Result' = Result)
      BY <1>3, CommitBesideAClose
    <2>2. AddsByOp(d)'
      <3>1. pc[d] \in {"saveYear", "commit"} => Busy(d) /\ pc[d] # "periods"
        BY DEF Busy
      <3> QED BY <1>0, <1>1, <2>1, <3>1 DEF AddsByOp
    <2>3. OpOf[d] = "audit" /\ Busy(d) => year' = "closed"
      <3> SUFFICES ASSUME OpOf[d] = "audit", Busy(d) PROVE year' = "closed"
        OBVIOUS
      <3>1. year = "closed" /\ OpOf[c] # "reopenYear"
        BY <1>0 DEF KnowsYear, NeverReopened
      <3>2. hold[Year] = c => OpOf[c] = "closeYear"
        BY <3>1 DEF ShutInv, CallShut, HoldsRows
      <3> QED BY <1>3, <3>1, <3>2 DEF Commit, YearBecomes
    <2> QED BY <1>0, <1>1, <2>1, <2>2, <2>3 DEF KnowsYear, Busy
  <1> QED BY <1>0, <1>2, <1>3 DEF Footprint

(* The steps of a call itself, by what it is.                              *)
LEMMA NoKnowledge ==
  ASSUME NEW c \in Calls, OpOf[c] \notin {"audit", "closeYear"}
  PROVE  KnowsYear(c)'
  BY DEF KnowsYear

LEMMA PostingSettles ==
  ASSUME IInv, ShutInv, SettledInv, NEW c \in Calls,
         \/ \E p \in Periods, m \in Modules : Submit(c, p) \/ Post(c, p, m)
         \/ \E e \in entries : Approve(c, e) \/ Reject(c, e)
  PROVE  AddsByOp(c)' /\ KnowsYear(c)'
  <1>1. OpOf[c] \in {"create", "decide"}
    BY DEF Submit, Post, Approve, Reject, Begin
  <1>2. \A x \in tx'[c].adds : x.kind = "ordinary"
    <2>1. CASE \E p \in Periods, m \in Modules : Submit(c, p) \/ Post(c, p, m)
      <3>1. PICK p \in Periods, m \in Modules : Submit(c, p) \/ Post(c, p, m)
        BY <2>1
      <3>2. PICK x, y : x = Ordinary(c, p, GL, "pending") /\ y = Ordinary(c, p, m, "posted")
        OBVIOUS
      <3>3. x.kind = "ordinary" /\ y.kind = "ordinary"
        BY <3>2 DEF Ordinary
      <3>4. tx'[c] = [NoTx EXCEPT !.adds = {x}] \/ tx'[c] = [NoTx EXCEPT !.adds = {y}]
        BY <3>1, <3>2, PutRow DEF Submit, Post, IInv
      <3> QED BY <3>3, <3>4 DEF NoTx
    <2>2. CASE \E e \in entries : Approve(c, e)
      <3>1. PICK e \in entries : Approve(c, e)
        BY <2>2
      <3>2. PICK x : x = [e EXCEPT !.status = "posted"]
        OBVIOUS
      <3>3. x.kind = "ordinary"
        BY <3>1, <3>2 DEF Approve, IInv, EntriesInv, TypeOK, Entry
      <3>4. tx'[c] = [NoTx EXCEPT !.gone = {e}, !.adds = {x}]
        BY <3>1, <3>2, PutRow DEF Approve, IInv
      <3> QED BY <3>3, <3>4 DEF NoTx
    <2>3. CASE \E e \in entries : Reject(c, e)
      <3>1. PICK e \in entries : tx'[c] = [NoTx EXCEPT !.gone = {e}]
        BY <2>3, PutRow DEF Reject, IInv
      <3> QED BY <3>1 DEF NoTx
    <2> QED BY <2>1, <2>2, <2>3
  <1> QED BY <1>1, <1>2, NoKnowledge DEF AddsByOp

LEMMA AuditSettles ==
  ASSUME IInv, ShutInv, SettledInv, NEW c \in Calls, AuditRead(c) \/ AuditPost(c)
  PROVE  AddsByOp(c)' /\ KnowsYear(c)'
  <1>0. CallShut(c) /\ AddsByOp(c) /\ KnowsYear(c)
    BY DEF ShutInv, SettledInv
  <1>1. OpOf[c] = "audit"
    BY <1>0, LabelTellsOp DEF CallShut, AuditRead, AuditPost, Begin
  <1>2. year' = "closed"
    BY <1>0, <1>1 DEF KnowsYear, Busy, AuditRead, AuditPost, committed
  <1>3. tx'[c].adds \in {{}, {Audit(c), Closing(c, -1)}}
    <2>1. CASE AuditRead(c)
      BY <1>0, <1>1, <2>1 DEF AddsByOp, AuditRead
    <2>2. CASE AuditPost(c)
      <3>1. tx'[c] = [NoTx EXCEPT !.adds = {Audit(c), Closing(c, -1)}]
        BY <2>2, PutRow DEF AuditPost, IInv
      <3> QED BY <3>1 DEF NoTx
    <2> QED BY <2>1, <2>2
  <1> QED BY <1>1, <1>2, <1>3 DEF AddsByOp, KnowsYear

LEMMA CloseSettles ==
  ASSUME IInv, ShutInv, SettledInv, NEW c \in Calls,
         \/ \E p \in Periods : ClosePeriod(c, p)
         \/ CloseEarlier(c) \/ CloseUnposted(c) \/ CloseYearOpen(c)
  PROVE  AddsByOp(c)' /\ KnowsYear(c)'
  <1>0. CallShut(c) /\ AddsByOp(c)
    BY DEF ShutInv, SettledInv
  <1>1. OpOf[c] = "close"
    BY <1>0, LabelTellsOp
       DEF CallShut, ClosePeriod, CloseEarlier, CloseUnposted, CloseYearOpen, Begin, CloseLabels
  <1>2. \A x \in tx'[c].adds : x.kind = "ordinary"
    <2>1. CASE \E p \in Periods : ClosePeriod(c, p)
      <3>1. PICK p \in Periods : tx'[c] = [NoTx EXCEPT !.period = p, !.row = Closed]
        BY <2>1, PutRow DEF ClosePeriod, IInv
      <3> QED BY <3>1 DEF NoTx
    <2>2. CASE CloseEarlier(c) \/ CloseUnposted(c) \/ CloseYearOpen(c)
      <3>1. CASE UNCHANGED tx
        BY <1>0, <1>1, <3>1 DEF AddsByOp
      <3>2. CASE ~ UNCHANGED tx
        <4>1. PICK x : x = Ordinary(c, tx[c].period, GL, "posted")
          OBVIOUS
        <4>2. x.kind = "ordinary"
          BY <4>1 DEF Ordinary
        <4>3. tx'[c] = [tx[c] EXCEPT !.adds = {x}]
          BY <2>2, <3>2, <4>1, PutRow DEF CloseEarlier, CloseUnposted, CloseYearOpen, IInv
        <4>4. tx'[c].adds = {x}
          BY <4>3 DEF IInv, TypeOK, TxRow
        <4> QED BY <4>2, <4>4
      <3> QED BY <3>1, <3>2
    <2> QED BY <2>1, <2>2
  <1> QED BY <1>1, <1>2, NoKnowledge DEF AddsByOp

(* A period reopened in an open year finds no closing entry to reverse.    *)
LEMMA ReopenSettles ==
  ASSUME IInv, ShutInv, SettledInv, NEW c \in Calls,
         \/ \E p \in Periods : ReopenPeriod(c, p)
         \/ ReopenYearOpen(c) \/ ReopenLater(c) \/ ReopenSelect(c) \/ ReopenUpdate(c)
         \/ ReopenFind(c) \/ ReopenReverse(c)
  PROVE  AddsByOp(c)' /\ KnowsYear(c)'
  <1>0. CallShut(c) /\ AddsByOp(c) /\ tx[c] \in TxRow
    BY DEF ShutInv, SettledInv, IInv, TypeOK
  <1>1. OpOf[c] = "reopen"
    BY <1>0, LabelTellsOp
       DEF CallShut, ReopenPeriod, ReopenYearOpen, ReopenLater, ReopenSelect, ReopenUpdate,
           ReopenFind, ReopenReverse, Begin, SecondSave
  <1>2. tx'[c].adds = {}
    <2>0. tx[c].adds = {}
      BY <1>0, <1>1 DEF AddsByOp
    <2>1. CASE \E p \in Periods : ReopenPeriod(c, p)
      <3>1. PICK p \in Periods : tx'[c] = [NoTx EXCEPT !.period = p]
        BY <2>1, PutRow DEF ReopenPeriod, IInv
      <3> QED BY <3>1 DEF NoTx
    <2>2. CASE ReopenYearOpen(c) \/ ReopenLater(c)
      BY <2>0, <2>2 DEF ReopenYearOpen, ReopenLater
    <2>3. CASE ReopenSelect(c)
      <3>1. PICK row : tx'[c] = [tx[c] EXCEPT !.saw = row]
        BY <2>3, PutRow DEF ReopenSelect, IInv
      <3> QED BY <1>0, <2>0, <3>1 DEF TxRow
    <2>4. CASE ReopenUpdate(c)
      <3>1. PICK row : tx'[c] = [tx[c] EXCEPT !.row = row]
        BY <2>4, PutRow DEF ReopenUpdate, IInv
      <3> QED BY <1>0, <2>0, <3>1 DEF TxRow
    <2>5. CASE ReopenReverse(c)
      <3>1. year = "open"
        BY <1>0, <1>1, <2>5 DEF CallShut, KnowsOpenYear, Busy, ReopenReverse
      <3>2. StandingClosings = {}
        BY <3>1 DEF SettledInv, Standing, YearsEntries, StandingClosings
      <3>3. tx[c].closings = {}
        BY <2>5, <3>2 DEF ReopenReverse, Reversible, StandingClosings, IInv, CallInv, Found
      <3>4. Reversals(c, tx[c].closings) = {}
        BY <3>3 DEF Reversals
      <3>5. tx'[c] = [tx[c] EXCEPT !.adds = {}]
        BY <2>5, <3>4, PutRow DEF ReopenReverse, IInv
      <3> QED BY <1>0, <3>5 DEF TxRow
    <2>6. CASE ReopenFind(c)
      <3>1. PICK found : tx'[c] = [tx[c] EXCEPT !.closings = found]
        BY <2>6, PutRow DEF ReopenFind, IInv
      <3> QED BY <1>0, <2>0, <3>1 DEF TxRow
    <2> QED BY <2>1, <2>2, <2>3, <2>4, <2>5, <2>6
  <1> QED BY <1>1, <1>2, NoKnowledge DEF AddsByOp

LEMMA ModuleSettles ==
  ASSUME IInv, ShutInv, SettledInv, NEW c \in Calls,
         \/ \E p \in Periods, m \in Modules : CloseModule(c, p, m) \/ ReopenModule(c, p, m)
         \/ SetModuleOpen(c)
  PROVE  AddsByOp(c)' /\ KnowsYear(c)'
  <1>0. CallShut(c) /\ AddsByOp(c) /\ tx[c] \in TxRow
    BY DEF ShutInv, SettledInv, IInv, TypeOK
  <1>1. OpOf[c] = "module"
    BY <1>0, LabelTellsOp DEF CallShut, CloseModule, ReopenModule, SetModuleOpen, Begin
  <1>2. tx'[c].adds = {}
    <2>1. CASE SetModuleOpen(c)
      <3>1. PICK row : tx'[c] = [tx[c] EXCEPT !.row = row]
        BY <2>1, PutRow DEF SetModuleOpen, IInv
      <3>2. tx[c].adds = {}
        BY <1>0, <1>1 DEF AddsByOp
      <3> QED BY <1>0, <3>1, <3>2 DEF TxRow
    <2>2. ASSUME NEW p \in Periods, NEW m \in Modules, CloseModule(c, p, m)
          PROVE  tx'[c].adds = {}
      <3>1. PICK row : tx'[c] = [NoTx EXCEPT !.period = p, !.row = row]
        BY <2>2, PutRow DEF CloseModule, IInv
      <3> QED BY <3>1 DEF NoTx
    <2>3. ASSUME NEW p \in Periods, NEW m \in Modules, ReopenModule(c, p, m)
          PROVE  tx'[c].adds = {}
      <3>1. tx'[c] = [NoTx EXCEPT !.period = p, !.module = m]
        BY <2>3, PutRow DEF ReopenModule, IInv
      <3> QED BY <3>1 DEF NoTx
    <2> QED BY <2>1, <2>2, <2>3
  <1> QED BY <1>1, <1>2, NoKnowledge DEF AddsByOp

LEMMA YearSettles ==
  ASSUME IInv, ShutInv, SettledInv, NeverReopened, NEW c \in Calls, YearStep(c)
  PROVE  AddsByOp(c)' /\ KnowsYear(c)'
  <1> USE RowsAre
  <1>0. CallShut(c) /\ AddsByOp(c) /\ KnowsYear(c) /\ tx[c] \in TxRow
    BY DEF ShutInv, SettledInv, IInv, TypeOK
  <1>1. /\ OpOf[c] = "closeYear" /\ UNCHANGED committed
        /\ \A r \in Rows : hold[r] = c => hold'[r] = c
    BY <1>0, YearFrame DEF NeverReopened
  <1>2. Result' = Result /\ year' = year /\ (AllShut => AllShut')
    BY <1>1 DEF committed, Result, AllShut
  <1>3. ~ReopenYear(c) /\ ~ReopenYearPeriods(c) /\ ~ReopenYearFind(c) /\ ~ReverseAll(c)
    BY <1>0, <1>1, LabelTellsOp
       DEF CallShut, ReopenYear, ReopenYearPeriods, ReopenYearFind, ReverseAll, Begin
  <1>4. KnowsYear(c)'
    <2>1. year = "open"
      BY <1>0, <1>1, <1>3 DEF KnowsYear, Busy, YearStep, CloseYear, CloseYearPeriods,
         CloseYearCount, OpenLast, Transfer, SaveYear
    <2>2. pc'[c] = "periods" \/ AllShut
      <3>1. CASE CloseYear(c)
        BY <3>1 DEF CloseYear, Goto, IInv, TypeOK
      <3>2. CASE CloseYearPeriods(c)
        BY <3>2 DEF CloseYearPeriods, AllShut
      <3>3. CASE CloseYearCount(c) \/ OpenLast(c) \/ Transfer(c) \/ SaveYear(c)
        BY <1>0, <1>1, <3>3 DEF KnowsYear, Busy, CloseYearCount, OpenLast, Transfer, SaveYear
      <3> QED BY <1>3, <3>1, <3>2, <3>3 DEF YearStep
    <2>3. pc'[c] = "commit" => hold'[Year] = c
      <3> SUFFICES ASSUME pc'[c] = "commit" PROVE hold'[Year] = c
        OBVIOUS
      <3>1. SaveYear(c)
        BY <1>1, <1>3 DEF YearStep, CloseYear, CloseYearPeriods, CloseYearCount, OpenLast,
           Transfer, Goto, IInv, TypeOK
      <3> QED BY <1>1, <2>1, <3>1 DEF SaveYear, YearBecomes, Lock, IInv, TypeOK
    <2> QED BY <1>1, <1>2, <2>1, <2>2, <2>3 DEF KnowsYear
  <1>5. AddsByOp(c)'
    <2> SUFFICES tx'[c].adds = IF pc'[c] \in {"saveYear", "commit"} /\ Result # 0
                               THEN {Closing(c, -Result)} ELSE {}
      BY <1>1, <1>2 DEF AddsByOp
    <2>0. tx[c].adds = IF pc[c] \in {"saveYear", "commit"} /\ Result # 0
                       THEN {Closing(c, -Result)} ELSE {}
      BY <1>0, <1>1 DEF AddsByOp
    <2>1. CASE CloseYear(c) \/ CloseYearCount(c)
      <3>1. tx'[c] = tx[c] /\ pc[c] \notin {"saveYear", "commit"}
            /\ pc'[c] \notin {"saveYear", "commit"}
        BY <2>1 DEF CloseYear, CloseYearCount, Begin, Goto, IInv, TypeOK
      <3> QED BY <2>0, <3>1
    <2>2. CASE CloseYearPeriods(c)
      <3>1. tx'[c] = [NoTx EXCEPT !.saw = period[LastPeriod]] /\ pc'[c] = "count"
        BY <2>2, PutRow DEF CloseYearPeriods, Goto, IInv, TypeOK
      <3> QED BY <3>1 DEF NoTx
    <2>3. CASE OpenLast(c)
      <3>1. /\ tx'[c] = [tx[c] EXCEPT !.row = tx[c].saw]
            /\ pc[c] = "openLast" /\ pc'[c] = "transfer"
        BY <1>1, <2>3, PutRow DEF OpenLast, Goto, IInv, TypeOK
      <3>2. tx'[c].adds = tx[c].adds
        BY <1>0, <3>1 DEF TxRow
      <3> QED BY <2>0, <3>1, <3>2
    <2>4. CASE Transfer(c)
      <3>1. PICK adds : adds = IF Result = 0 THEN {} ELSE {Closing(c, -Result)}
        OBVIOUS
      <3>2. tx'[c] = [tx[c] EXCEPT !.adds = adds] /\ pc'[c] = "saveYear"
        BY <2>4, <3>1, PutRow DEF Transfer, Goto, IInv, TypeOK
      <3>3. tx'[c].adds = adds
        BY <1>0, <3>2 DEF TxRow
      <3> QED BY <3>1, <3>2, <3>3
    <2>5. CASE SaveYear(c)
      <3>1. tx'[c] = tx[c] /\ pc[c] = "saveYear" /\ pc'[c] = "commit"
        BY <2>5 DEF SaveYear, Goto, IInv, TypeOK
      <3> QED BY <2>0, <3>1
    <2>6. YearStep(c) => \/ CloseYear(c) \/ CloseYearCount(c) \/ CloseYearPeriods(c)
                         \/ OpenLast(c) \/ Transfer(c) \/ SaveYear(c)
      BY <1>3 DEF YearStep
    <2> QED BY <2>1, <2>2, <2>3, <2>4, <2>5, <2>6
  <1> QED BY <1>4, <1>5

LEMMA EndsSettle ==
  ASSUME IInv, NEW c \in Calls, Commit(c) \/ RollBack(c)
  PROVE  AddsByOp(c)' /\ KnowsYear(c)'
  <1>1. pc'[c] = "answered" /\ tx'[c] = NoTx
    BY PutRow DEF Commit, RollBack, Release, Goto, IInv, TypeOK
  <1>2. tx'[c].adds = {}
    BY <1>1 DEF NoTx
  <1> QED BY <1>1, <1>2 DEF AddsByOp, KnowsYear, Busy

LEMMA NextSettled ==
  ASSUME NeverReopened
  PROVE  IInv /\ ShutInv /\ SettledInv /\ [Next /\ ReopeningsApart' /\ ClosesInTurn']_vars
           => SettledInv'
  <1>1. ASSUME IInv, ShutInv, SettledInv, UNCHANGED vars PROVE SettledInv'
    <2>1. \A c \in Calls : AddsByOp(c)' /\ KnowsYear(c)'
      BY <1>1 DEF vars, SettledInv, AddsByOp, KnowsYear, Busy, AllShut, Result
    <2> QED BY <1>1, <2>1 DEF vars, SettledInv, Standing, YearsEntries, ClosedYearIsSettled,
               ClosesInTurn, Busy
  <1>2. ASSUME IInv, ShutInv, SettledInv, Next, ClosesInTurn' PROVE SettledInv'
    <2>1. PICK c \in Calls : Step(c)
      BY <1>2 DEF Next
    <2>2. AddsByOp(c)' /\ KnowsYear(c)'
      <3>1. CASE \/ \E p \in Periods, m \in Modules : Submit(c, p) \/ Post(c, p, m)
                 \/ \E e \in entries : Approve(c, e) \/ Reject(c, e)
        BY <1>2, <3>1, PostingSettles
      <3>2. CASE AuditRead(c) \/ AuditPost(c)
        BY <1>2, <3>2, AuditSettles
      <3>3. CASE \/ \E p \in Periods : ClosePeriod(c, p)
                 \/ CloseEarlier(c) \/ CloseUnposted(c) \/ CloseYearOpen(c)
        BY <1>2, <3>3, CloseSettles
      <3>4. CASE \/ \E p \in Periods : ReopenPeriod(c, p)
                 \/ ReopenYearOpen(c) \/ ReopenLater(c) \/ ReopenSelect(c) \/ ReopenUpdate(c)
                 \/ ReopenFind(c) \/ ReopenReverse(c)
        BY <1>2, <3>4, ReopenSettles
      <3>5. CASE \/ \E p \in Periods, m \in Modules :
                       CloseModule(c, p, m) \/ ReopenModule(c, p, m)
                 \/ SetModuleOpen(c)
        BY <1>2, <3>5, ModuleSettles
      <3>6. CASE YearStep(c)
        BY <1>2, <3>6, YearSettles
      <3>7. CASE Commit(c) \/ RollBack(c)
        BY <1>2, <3>7, EndsSettle
      <3> QED BY <2>1, <3>1, <3>2, <3>3, <3>4, <3>5, <3>6, <3>7, CallAssumption
              DEF Step, YearStep
    <2>3. \A d \in Calls : AddsByOp(d)' /\ KnowsYear(d)'
      BY <1>2, <2>1, <2>2, OthersSettle
    <2>4. Standing'
      <3>1. CASE UNCHANGED committed
        <4>1. \A e \in entries : e.by \in Calls
          BY <1>2 DEF IInv, TypeOK, Entry
        <4>2. \A d \in Calls : pc[d] = "answered" => pc'[d] = "answered"
          BY <1>2, <2>1, AnsweredIsOver, StepFootprint, OthersFrame DEF IInv
        <4> QED BY <1>2, <3>1, <4>1, <4>2 DEF committed, SettledInv, Standing, YearsEntries,
                   ClosedYearIsSettled
      <3>2. CASE Commit(c)
        BY <1>2, <2>1, <3>2, CommitInTheYear, CommitAfterTheYear DEF IInv, TypeOK, Status
      <3> QED BY <1>2, <2>1, <3>1, <3>2, StepFootprint DEF Footprint, IInv
    <2> QED BY <1>2, <2>3, <2>4 DEF SettledInv
  <1> QED BY <1>1, <1>2

(* What transfer's comment says, that what a close leaves is nothing,      *)
(* holds of a year that is never reopened, if its closes take turns and no *)
(* reopening of a period overlaps them.                                    *)
THEOREM UnreopenedYearIsSettled ==
  ASSUME \A c \in Calls : OpOf[c] # "reopenYear"
  PROVE  SettlingSpec => []ClosedYearIsSettled
  <1>1. NeverReopened
    BY DEF NeverReopened
  <1>2. /\ [Next /\ ReopeningsApart' /\ ClosesInTurn']_vars => [Next]_vars
        /\ [Next /\ ReopeningsApart' /\ ClosesInTurn']_vars => [Next /\ ReopeningsApart']_vars
    OBVIOUS
  <1>3. IInv /\ ShutInv /\ SettledInv /\ [Next /\ ReopeningsApart' /\ ClosesInTurn']_vars
          => SettledInv'
    BY <1>1, NextSettled
  <1>4. SettlingSpec => [](IInv /\ ShutInv /\ SettledInv)
    BY <1>2, <1>3, InitIInv, InitShut, InitSettled, NextIInv, NextShut, PTL DEF SettlingSpec
  <1>5. SettledInv => ClosedYearIsSettled
    BY DEF SettledInv, Standing
  <1> QED BY <1>4, <1>5, PTL
=============================================================================
