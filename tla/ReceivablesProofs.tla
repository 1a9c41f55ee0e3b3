------------------------ MODULE ReceivablesProofs ------------------------
(***************************************************************************)
(* Receivables keeps its types, lets an invoice owe what the ledger books, *)
(* credits no more than was invoiced, keeps status and balance together    *)
(* and implements Collections, for any number of clerks, invoices and      *)
(* receipts.  The argument is the locks: what a transaction has reached it *)
(* holds, so what it read is still there when it commits.                  *)
(***************************************************************************)
EXTENDS Receivables, FiniteSetTheorems, WellFoundedInduction, TLAPS

(* What a transaction k may count on.                                      *)
Reached(k) ==
  /\ k.at = "lock" => \A i \in Named(k.lines) : i \in k.todo \/ <<"invoice", i>> \in k.held
  /\ k.at \in {"apply", "commit"} => \A i \in Named(k.lines) : <<"invoice", i>> \in k.held
Current(k) ==
  k.at \in {"apply", "commit"} => \A i \in Named(k.lines) : k.seen[i] = invoice[i]
Asked(k) ==
  /\ k.op = "receive" => k.receipt \in Receipts /\ Surplus(k) \in Nat
  /\ k.op = "void" => k.receipt \in Receipts
  /\ k.op = "credit" =>
       \E i \in Invoices : \E amount \in 1 .. Net[i] : k.lines = [Nothing EXCEPT ![i] = amount]
  /\ k.at = "receipt" => k.op = "void"
  /\ k.at = "apply" => k.op = "receive"
Checked(k) ==
  k.at = "commit" => \A i \in Named(k.lines) :
    /\ k.op = "receive" => k.seen[i].status \in Open /\ k.lines[i] <= k.seen[i].balance
    /\ k.op = "void" => k.seen[i].balance + k.lines[i] <= Net[i]
    /\ k.op = "credit" => Creditable(i, k.seen[i], k.lines[i])
Sound(k) == Reached(k) /\ Current(k) /\ Asked(k) /\ Checked(k)

Exclusive == \A c, d \in Clerks : c # d => call[c].held \cap call[d].held = {}
WithinItsTotal == \A i \in Invoices : invoice[i].balance <= Net[i]
Documents == BalancesAreBooked /\ CreditsWithinTheInvoice /\ OpenWhileOwing /\ WithinItsTotal
IInv == TypeOK /\ (\A c \in Clerks : Sound(call[c])) /\ Exclusive /\ Documents

-----------------------------------------------------------------------------
LEMMA IdleIsACall == Idle \in Call /\ Sound(Idle)
<1>1. Nothing \in Amounts /\ Unread \in [Invoices -> Invoice]
  BY DEF Nothing, Amounts, Unread, Invoice
<1>2. Idle \in Call
  BY <1>1, ReceivablesAssumption DEF Idle, Call
<1>3. Sound(Idle)
  BY DEF Sound, Reached, Current, Asked, Checked, Idle
<1> QED BY <1>2, <1>3

LEMMA InitIsSound == Init => IInv
<1> SUFFICES ASSUME Init PROVE IInv
  OBVIOUS
<1>1. Net \in [Invoices -> Nat \ {0}]
  BY ReceivablesAssumption
<1>2. invoice \in [Invoices -> Invoice]
  BY <1>1 DEF Init, Invoice
<1>3. receipt \in [Receipts -> Receipt]
  BY DEF Init, Receipt, Unused, Nothing, Amounts
<1>4. notes \in Amounts /\ beyond \in Amounts /\ receivable \in [Invoices -> Int]
  BY <1>1 DEF Init, Amounts, Nothing
<1>5. call \in [Clerks -> Call] /\ \A c \in Clerks : Sound(call[c])
  BY IdleIsACall DEF Init
<1>6. Exclusive
  BY DEF Init, Exclusive, Idle
<1>7. \A i \in Invoices :
         /\ invoice[i].balance = Net[i] /\ invoice[i].status = "Pending"
         /\ invoice[i].credited = 0
         /\ receivable[i] = Net[i] /\ notes[i] = 0 /\ beyond[i] = 0
         /\ Net[i] \in Nat /\ Net[i] > 0
  BY <1>1 DEF Init, Nothing
<1>8. BalancesAreBooked /\ WithinItsTotal
  BY <1>7 DEF BalancesAreBooked, WithinItsTotal
<1>9. CreditsWithinTheInvoice
  BY <1>7 DEF CreditsWithinTheInvoice
<1>10. OpenWhileOwing
  BY <1>7 DEF OpenWhileOwing, Open
<1> QED BY <1>2, <1>3, <1>4, <1>5, <1>6, <1>8, <1>9, <1>10 DEF IInv, TypeOK, Documents

(* A step that writes no document.                                         *)
LEMMA GoesKeeps ==
  ASSUME IInv, NEW c \in Clerks, NEW new \in Call, Goes(c, new), Sound(new),
         \A row \in new.held : row \in call[c].held \/ IsFree(row)
  PROVE  IInv'
<1>1. call \in [Clerks -> Call] /\ call' = [call EXCEPT ![c] = new]
      /\ UNCHANGED <<invoice, receipt, notes, receivable, beyond>>
  BY DEF IInv, TypeOK, Goes
<1>2. TypeOK'
  BY <1>1 DEF IInv, TypeOK
<1>3. \A d \in Clerks : Sound(call'[d])
  BY <1>1 DEF IInv
<1>4. \A d \in Clerks : Sound(call[d])'
  BY <1>3, <1>1 DEF Sound, Reached, Current, Asked, Checked
<1>5. Exclusive'
  <2> SUFFICES ASSUME NEW a \in Clerks, NEW b \in Clerks, a # b,
                      NEW row \in call'[a].held, row \in call'[b].held
               PROVE  FALSE
    BY DEF Exclusive
  <2>1. CASE a # c /\ b # c
    BY <2>1, <1>1 DEF IInv, Exclusive
  <2>2. CASE a = c
    BY <2>2, <1>1 DEF IInv, Exclusive, IsFree
  <2>3. CASE b = c
    BY <2>3, <1>1 DEF IInv, Exclusive, IsFree
  <2> QED BY <2>1, <2>2, <2>3
<1>6. Documents'
  BY <1>1 DEF IInv, Documents, BalancesAreBooked, CreditsWithinTheInvoice, OpenWhileOwing,
              WithinItsTotal
<1> QED BY <1>2, <1>4, <1>5, <1>6 DEF IInv

LEMMA EndKeeps ==
  ASSUME IInv, NEW c \in Clerks, Goes(c, Idle) PROVE IInv'
<1>1. Idle.held = {}
  BY DEF Idle
<1> QED BY <1>1, GoesKeeps, IdleIsACall

-----------------------------------------------------------------------------
(* The steps that only move a transaction on.                              *)
LEMMA Mine ==
  ASSUME IInv, NEW c \in Clerks
  PROVE  /\ call[c] \in Call /\ Sound(call[c])
         /\ invoice \in [Invoices -> Invoice]
         /\ receipt \in [Receipts -> Receipt]
  BY DEF IInv, TypeOK

LEMMA ReceiveKeeps ==
  ASSUME IInv, NEW c \in Clerks, Receive(c) PROVE IInv'
<1>0. PICK r \in Receipts, cash \in 0 .. MaxCash, draw \in 0 .. MaxAdvance,
           lines \in [Invoices -> 0 .. MaxCash] : \E new :
        /\ new = [Idle EXCEPT !.op = "receive", !.at = "lock", !.receipt = r, !.cash = cash,
                              !.draw = draw, !.lines = lines, !.todo = Named(lines)]
        /\ Surplus(new) \in 0 .. MaxAdvance
        /\ Begin(c, new)
  BY DEF Receive
<1>1. PICK new :
        /\ new = [Idle EXCEPT !.op = "receive", !.at = "lock", !.receipt = r, !.cash = cash,
                              !.draw = draw, !.lines = lines, !.todo = Named(lines)]
        /\ Surplus(new) \in 0 .. MaxAdvance
        /\ Begin(c, new)
  BY <1>0
<1>2. lines \in Amounts /\ Named(lines) \subseteq Invoices /\ cash \in Nat /\ draw \in Nat
  BY ReceivablesAssumption DEF Amounts, Named
<1>3. new \in Call
  BY <1>1, <1>2, IdleIsACall DEF Call
<1>4. Surplus(new) \in Nat
  BY <1>1, ReceivablesAssumption
<1>5. /\ new.op = "receive" /\ new.at = "lock" /\ new.receipt \in Receipts
      /\ new.todo = Named(new.lines) /\ new.held = {}
  BY <1>1 DEF Idle
<1>6. Sound(new)
  BY <1>4, <1>5 DEF Sound, Reached, Current, Asked, Checked
<1>7. Goes(c, new)
  BY <1>1 DEF Begin, Goes
<1> QED BY <1>3, <1>5, <1>6, <1>7, GoesKeeps

LEMMA VoidKeeps ==
  ASSUME IInv, NEW c \in Clerks, Void(c) PROVE IInv'
<1>0. PICK r \in Receipts : \E new :
        /\ new = [Idle EXCEPT !.op = "void", !.at = "receipt", !.receipt = r]
        /\ Begin(c, new)
  BY DEF Void
<1>1. PICK new :
        /\ new = [Idle EXCEPT !.op = "void", !.at = "receipt", !.receipt = r]
        /\ Begin(c, new)
  BY <1>0
<1>2. new \in Call
  BY <1>1, IdleIsACall DEF Call
<1>3. new.op = "void" /\ new.at = "receipt" /\ new.receipt \in Receipts /\ new.held = {}
  BY <1>1 DEF Idle
<1>4. Sound(new)
  BY <1>3 DEF Sound, Reached, Current, Asked, Checked
<1>5. Goes(c, new)
  BY <1>1 DEF Begin, Goes
<1> QED BY <1>2, <1>3, <1>4, <1>5, GoesKeeps

LEMMA CreditKeeps ==
  ASSUME IInv, NEW c \in Clerks, Credit(c) PROVE IInv'
<1>0. PICK i \in Invoices : \E amount \in 1 .. Net[i] :
        Begin(c, [Idle EXCEPT !.op = "credit", !.at = "lock", !.todo = {i},
                              !.lines = [Nothing EXCEPT ![i] = amount]])
  BY DEF Credit
<1>a. PICK amount \in 1 .. Net[i] :
        Begin(c, [Idle EXCEPT !.op = "credit", !.at = "lock", !.todo = {i},
                              !.lines = [Nothing EXCEPT ![i] = amount]])
  BY <1>0
<1>1. PICK new :
        /\ new = [Idle EXCEPT !.op = "credit", !.at = "lock", !.todo = {i},
                              !.lines = [Nothing EXCEPT ![i] = amount]]
        /\ Begin(c, new)
  BY <1>a
<1>2. [Nothing EXCEPT ![i] = amount] \in Amounts
  BY ReceivablesAssumption DEF Nothing, Amounts
<1>3. Named([Nothing EXCEPT ![i] = amount]) \subseteq {i}
  BY DEF Named, Nothing
<1>4. new \in Call
  BY <1>1, <1>2, IdleIsACall DEF Call
<1>5. /\ new.op = "credit" /\ new.at = "lock" /\ new.held = {} /\ new.todo = {i}
      /\ new.lines = [Nothing EXCEPT ![i] = amount]
  BY <1>1 DEF Idle
<1>6. Sound(new)
  BY <1>1, <1>3, <1>5 DEF Sound, Reached, Current, Asked, Checked
<1>7. Goes(c, new)
  BY <1>1 DEF Begin, Goes
<1> QED BY <1>4, <1>5, <1>6, <1>7, GoesKeeps

LEMMA LockNextKeeps ==
  ASSUME IInv, NEW c \in Clerks, LockNext(c) PROVE IInv'
<1>0. PICK i \in call[c].todo :
        /\ call[c].at = "lock" /\ IsFree(<<"invoice", i>>)
        /\ Goes(c, [Holding(c, <<"invoice", i>>) EXCEPT !.todo = @ \ {i}])
  BY DEF LockNext
<1>1. PICK new :
        /\ call[c].at = "lock" /\ IsFree(<<"invoice", i>>)
        /\ new = [call[c] EXCEPT !.held = @ \cup {<<"invoice", i>>}, !.todo = @ \ {i}]
        /\ Goes(c, new)
  BY <1>0 DEF Holding
<1>2. call[c] \in Call /\ Sound(call[c]) /\ i \in Invoices /\ <<"invoice", i>> \in Rows
  BY Mine DEF Call, Rows
<1>3. new \in Call
  BY <1>1, <1>2 DEF Call
<1>4. /\ new.at = "lock" /\ new.op = call[c].op /\ new.lines = call[c].lines
      /\ new.receipt = call[c].receipt /\ new.cash = call[c].cash /\ new.draw = call[c].draw
      /\ new.held = call[c].held \cup {<<"invoice", i>>} /\ new.todo = call[c].todo \ {i}
  BY <1>1, <1>2 DEF Call
<1>5. Sound(new)
  BY <1>1, <1>2, <1>4 DEF Sound, Reached, Current, Asked, Checked, Surplus
<1> QED BY <1>1, <1>3, <1>4, <1>5, GoesKeeps

(* A read under the locks: what is seen is what is there.                  *)
LEMMA ReadingIsCurrent ==
  ASSUME IInv, NEW c \in Clerks
  PROVE  /\ Reading(c) \in [Invoices -> Invoice]
         /\ \A i \in Named(call[c].lines) : Reading(c)[i] = invoice[i]
<1>1. Unread \in [Invoices -> Invoice]
  BY DEF Unread, Invoice
<1>2. Named(call[c].lines) \subseteq Invoices
  BY DEF Named
<1> QED BY <1>1, <1>2, Mine DEF Reading

LEMMA ReadKeeps ==
  ASSUME IInv, NEW c \in Clerks, NEW op, NEW label \in {"apply", "commit"},
         Locked(c, op), label = "apply" => op = "receive",
         Goes(c, [call[c] EXCEPT !.at = label, !.seen = Reading(c)]),
         Checked([call[c] EXCEPT !.at = label, !.seen = Reading(c)])
  PROVE  IInv'
<1>1. PICK new : new = [call[c] EXCEPT !.at = label, !.seen = Reading(c)]
  OBVIOUS
<1>2. call[c] \in Call /\ Sound(call[c])
  BY Mine
<1>3. new \in Call
  BY <1>1, <1>2, ReadingIsCurrent DEF Call
<1>4. /\ new.at = label /\ new.op = op /\ new.lines = call[c].lines
      /\ new.receipt = call[c].receipt /\ new.cash = call[c].cash /\ new.draw = call[c].draw
      /\ new.held = call[c].held /\ new.seen = Reading(c)
      /\ call[c].op = op /\ call[c].at = "lock" /\ call[c].todo = {}
  BY <1>1, <1>2 DEF Call, Locked
<1>5. Reached(new)
  BY <1>2, <1>4 DEF Sound, Reached
<1>6. Current(new)
  BY <1>4, ReadingIsCurrent DEF Current
<1>7. Asked(new)
  BY <1>2, <1>4 DEF Sound, Asked, Surplus
<1>8. Sound(new)
  BY <1>1, <1>5, <1>6, <1>7 DEF Sound
<1> QED BY <1>1, <1>3, <1>4, <1>8, GoesKeeps

LEMMA ReadInvoicesKeeps ==
  ASSUME IInv, NEW c \in Clerks, ReadInvoices(c) PROVE IInv'
<1>1. call[c] \in Call
  BY Mine
<1>2. Checked([call[c] EXCEPT !.at = "apply", !.seen = Reading(c)])
  BY <1>1 DEF Checked, Call
<1> QED BY <1>2, ReadKeeps DEF ReadInvoices

LEMMA ReadForVoidKeeps ==
  ASSUME IInv, NEW c \in Clerks, ReadForVoid(c) PROVE IInv'
<1>1. CASE Goes(c, Idle)
  BY <1>1, EndKeeps
<1>2. CASE /\ Locked(c, "void") /\ Restorable(c)
           /\ Goes(c, [call[c] EXCEPT !.at = "commit", !.seen = Reading(c)])
  <2>1. PICK new : new = [call[c] EXCEPT !.at = "commit", !.seen = Reading(c)]
    OBVIOUS
  <2>2. new.op = "void" /\ new.lines = call[c].lines /\ new.seen = Reading(c)
    BY <1>2, <2>1, Mine DEF Call, Locked
  <2>3. Checked(new)
    BY <1>2, <2>2 DEF Checked, Restorable
  <2> QED BY <1>2, <2>1, <2>3, ReadKeeps
<1> QED BY <1>1, <1>2 DEF ReadForVoid

LEMMA ReadForCreditKeeps ==
  ASSUME IInv, NEW c \in Clerks, ReadForCredit(c) PROVE IInv'
<1>1. CASE Goes(c, Idle)
  BY <1>1, EndKeeps
<1>2. CASE /\ Locked(c, "credit")
           /\ \A i \in Named(call[c].lines) : Creditable(i, invoice[i], call[c].lines[i])
           /\ Goes(c, [call[c] EXCEPT !.at = "commit", !.seen = Reading(c)])
  <2>1. PICK new : new = [call[c] EXCEPT !.at = "commit", !.seen = Reading(c)]
    OBVIOUS
  <2>2. new.op = "credit" /\ new.lines = call[c].lines /\ new.seen = Reading(c)
    BY <1>2, <2>1, Mine DEF Call, Locked
  <2>3. Checked(new)
    BY <1>2, <2>2, ReadingIsCurrent DEF Checked
  <2> QED BY <1>2, <2>1, <2>3, ReadKeeps
<1> QED BY <1>1, <1>2 DEF ReadForCredit

LEMMA ApplyKeeps ==
  ASSUME IInv, NEW c \in Clerks, Apply(c) PROVE IInv'
<1>1. CASE Goes(c, Idle)
  BY <1>1, EndKeeps
<1>2. CASE /\ call[c].at = "apply" /\ IsFree(Series) /\ Covered(c)
           /\ Goes(c, [Holding(c, Series) EXCEPT !.at = "commit"])
  <2>1. PICK new : new = [call[c] EXCEPT !.held = @ \cup {Series}, !.at = "commit"]
    OBVIOUS
  <2>2. call[c] \in Call /\ Sound(call[c]) /\ Series \in Rows
    BY Mine DEF Rows
  <2>3. new \in Call
    BY <2>1, <2>2 DEF Call
  <2>4. /\ new.at = "commit" /\ new.op = call[c].op /\ new.lines = call[c].lines
        /\ new.receipt = call[c].receipt /\ new.cash = call[c].cash /\ new.draw = call[c].draw
        /\ new.held = call[c].held \cup {Series} /\ new.seen = call[c].seen
    BY <2>1, <2>2 DEF Call
  <2>5. call[c].op = "receive"
    BY <1>2, <2>2 DEF Sound, Asked
  <2>6. Reached(new) /\ Current(new)
    BY <1>2, <2>2, <2>4 DEF Sound, Reached, Current
  <2>7. Asked(new)
    BY <2>2, <2>4, <2>5 DEF Sound, Asked, Surplus
  <2>8. Checked(new)
    BY <1>2, <2>4, <2>5 DEF Checked, Covered
  <2>9. Goes(c, new)
    BY <1>2, <2>1 DEF Holding
  <2> QED BY <1>2, <2>3, <2>4, <2>6, <2>7, <2>8, <2>9, GoesKeeps DEF Sound
<1> QED BY <1>1, <1>2 DEF Apply

LEMMA LockReceiptKeeps ==
  ASSUME IInv, NEW c \in Clerks, LockReceipt(c) PROVE IInv'
<1>1. CASE Goes(c, Idle)
  BY <1>1, EndKeeps
<1>2. ASSUME NEW r, NEW row, r = call[c].receipt, row = <<"receipt", r>>,
             call[c].at = "receipt", IsFree(row),
             Goes(c, [call[c] EXCEPT !.at = "lock", !.lines = receipt[r].lines,
                      !.todo = Named(receipt[r].lines), !.held = @ \cup {row}])
      PROVE  IInv'
  <2>1. PICK new : new = [call[c] EXCEPT !.at = "lock", !.lines = receipt[r].lines,
                          !.todo = Named(receipt[r].lines), !.held = @ \cup {row}]
    OBVIOUS
  <2>2. call[c] \in Call /\ Sound(call[c]) /\ receipt \in [Receipts -> Receipt]
    BY Mine
  <2>3. call[c].op = "void" /\ r \in Receipts
    BY <1>2, <2>2 DEF Sound, Asked
  <2>4. receipt[r].lines \in Amounts /\ Named(receipt[r].lines) \subseteq Invoices /\ row \in Rows
    BY <1>2, <2>2, <2>3 DEF Receipt, Named, Rows
  <2>5. new \in Call
    BY <2>1, <2>2, <2>4 DEF Call
  <2>6. /\ new.at = "lock" /\ new.op = "void" /\ new.receipt \in Receipts
        /\ new.todo = Named(new.lines) /\ new.held = call[c].held \cup {row}
    BY <1>2, <2>1, <2>2, <2>3 DEF Call
  <2>7. Sound(new)
    BY <2>6 DEF Sound, Reached, Current, Asked, Checked
  <2> QED BY <1>2, <2>1, <2>5, <2>6, <2>7, GoesKeeps
<1> QED BY <1>1, <1>2 DEF LockReceipt, ReadReceipt

-----------------------------------------------------------------------------
(* The commits.  What a transaction writes it holds, so the others' view   *)
(* stays current.                                                          *)
LEMMA OthersKeep ==
  ASSUME IInv, NEW c \in Clerks, call[c].at = "commit",
         call' = [call EXCEPT ![c] = Idle],
         \A i \in Invoices \ Named(call[c].lines) : invoice'[i] = invoice[i]
  PROVE  /\ call' \in [Clerks -> Call]
         /\ (\A d \in Clerks : Sound(call[d]))'
         /\ Exclusive'
<1>1. call \in [Clerks -> Call] /\ Idle \in Call /\ Sound(call[c])
  BY IdleIsACall DEF IInv, TypeOK
<1>2. \A d \in Clerks : call'[d] = IF d = c THEN Idle ELSE call[d]
  BY <1>1
<1>3. Exclusive'
  BY <1>2 DEF IInv, Exclusive, Idle
<1>4. ASSUME NEW d \in Clerks PROVE Sound(call[d])'
  <2>1. CASE d = c
    BY <2>1, <1>2 DEF Sound, Reached, Current, Asked, Checked, Idle
  <2>2. CASE d # c
    <3>1. call'[d] = call[d] /\ Sound(call[d])
      BY <1>2, <2>2 DEF IInv
    <3>2. ASSUME call[d].at \in {"apply", "commit"}, NEW i \in Named(call[d].lines)
          PROVE  call[d].seen[i] = invoice'[i]
      <4>1. i \in Invoices /\ <<"invoice", i>> \in call[d].held /\ call[d].seen[i] = invoice[i]
        BY <3>1, <3>2 DEF Sound, Reached, Current, Named
      <4>2. <<"invoice", i>> \notin call[c].held
        BY <4>1, <2>2 DEF IInv, Exclusive
      <4>3. i \notin Named(call[c].lines)
        BY <4>2, <1>1 DEF Sound, Reached
      <4> QED BY <4>1, <4>3
    <3>3. Current(call[d])'
      BY <3>1, <3>2 DEF Current
    <3>4. (Reached(call[d]) /\ Asked(call[d]) /\ Checked(call[d]))'
      BY <3>1 DEF Sound, Reached, Asked, Checked
    <3> QED BY <3>3, <3>4 DEF Sound
  <2> QED BY <2>1, <2>2
<1> QED BY <1>1, <1>2, <1>3, <1>4

(* What a committing transaction knows of each invoice.                    *)
LEMMA AtCommit ==
  ASSUME IInv, NEW c \in Clerks, call[c].at = "commit", NEW i \in Invoices
  PROVE  /\ call[c].lines[i] \in Nat
         /\ i \notin Named(call[c].lines) => call[c].lines[i] = 0
         /\ i \in Named(call[c].lines) =>
              /\ call[c].seen[i] = invoice[i] /\ call[c].lines[i] > 0
              /\ call[c].op = "receive" =>
                   invoice[i].status \in Open /\ call[c].lines[i] <= invoice[i].balance
              /\ call[c].op = "void" => invoice[i].balance + call[c].lines[i] <= Net[i]
              /\ call[c].op = "credit" => Creditable(i, invoice[i], call[c].lines[i])
<1>1. call[c].lines \in Amounts /\ Sound(call[c])
  BY Mine DEF Call
<1>2. call[c].lines[i] \in Nat
  BY <1>1 DEF Amounts
<1> QED BY <1>1, <1>2 DEF Named, Sound, Current, Checked

LEMMA Books ==
  ASSUME IInv, NEW i \in Invoices
  PROVE  /\ invoice[i] \in Invoice /\ Net[i] \in Nat /\ Net[i] > 0
         /\ invoice[i].balance \in Nat /\ invoice[i].credited \in Nat
         /\ notes[i] \in Nat /\ beyond[i] \in Nat /\ receivable[i] \in Int
         /\ invoice[i].balance <= receivable[i] + beyond[i]
         /\ notes[i] < Net[i] => invoice[i].balance = receivable[i] + beyond[i]
         /\ notes[i] <= Net[i] /\ invoice[i].credited = notes[i]
         /\ invoice[i].status \in Open <=> invoice[i].balance > 0
         /\ invoice[i].balance <= Net[i]
<1>1. /\ invoice[i] \in Invoice /\ notes[i] \in Nat /\ beyond[i] \in Nat
      /\ receivable[i] \in Int /\ Net[i] \in Nat \ {0}
  BY ReceivablesAssumption DEF IInv, TypeOK, Amounts
<1>2. invoice[i].balance \in Nat /\ invoice[i].credited \in Nat
  BY <1>1 DEF Invoice
<1> QED BY <1>1, <1>2 DEF IInv, Documents, BalancesAreBooked, CreditsWithinTheInvoice,
           OpenWhileOwing, WithinItsTotal

(* One invoice's books are in order, whatever row, notes and entries it has. *)
InOrder(i, row, noted, booked, past) ==
  /\ row \in Invoice /\ noted \in Nat /\ booked \in Int /\ past \in Nat
  /\ row.balance <= booked + past
  /\ noted < Net[i] => row.balance = booked + past
  /\ noted <= Net[i] /\ row.credited = noted
  /\ row.status \in Open <=> row.balance > 0
  /\ row.balance <= Net[i]

LEMMA CommitKeeps ==
  ASSUME IInv, NEW c \in Clerks, call[c].at = "commit",
         call' = [call EXCEPT ![c] = Idle],
         receipt' \in [Receipts -> Receipt],
         invoice' = [i \in Invoices |-> invoice'[i]],
         notes' = [i \in Invoices |-> notes'[i]],
         receivable' = [i \in Invoices |-> receivable'[i]],
         beyond' = [i \in Invoices |-> beyond'[i]],
         \A i \in Invoices \ Named(call[c].lines) : invoice'[i] = invoice[i],
         \A i \in Invoices : InOrder(i, invoice'[i], notes'[i], receivable'[i], beyond'[i])
  PROVE  IInv'
<1>1. TypeOK'
  <2>1. /\ invoice' \in [Invoices -> Invoice] /\ notes' \in Amounts /\ beyond' \in Amounts
        /\ receivable' \in [Invoices -> Int]
    BY DEF InOrder, Amounts
  <2> QED BY <2>1, OthersKeep DEF TypeOK
<1>2. Documents'
  BY DEF InOrder, Documents, BalancesAreBooked, CreditsWithinTheInvoice, OpenWhileOwing,
         WithinItsTotal
<1> QED BY <1>1, <1>2, OthersKeep DEF IInv

LEMMA UntouchedInOrder ==
  ASSUME IInv, NEW i \in Invoices
  PROVE  InOrder(i, invoice[i], notes[i], receivable[i], beyond[i])
  BY Books DEF InOrder

(* The rows the three operations leave.                                    *)
LEMMA AfterReceiptIs ==
  ASSUME NEW row \in Invoice, NEW line \in Nat, line > 0, line <= row.balance
  PROVE  /\ AfterReceipt(row, line) \in Invoice
         /\ AfterReceipt(row, line).balance = row.balance - line
         /\ AfterReceipt(row, line).credited = row.credited
         /\ AfterReceipt(row, line).status \in Open <=> AfterReceipt(row, line).balance > 0
<1>1. PICK left, status :
        /\ left = row.balance - line
        /\ status = IF row.balance = line THEN "Paid" ELSE "Partially Paid"
  OBVIOUS
<1>2. row.balance \in Nat
  BY DEF Invoice
<1>a. PICK balance : balance = row.balance
  OBVIOUS
<1>b. balance \in Nat /\ line <= balance /\ left = balance - line
  BY <1>1, <1>2, <1>a
<1>c. left \in Nat /\ (left > 0 <=> balance # line)
  BY <1>b
<1>3. left \in Nat /\ (left > 0 <=> row.balance # line)
  BY <1>a, <1>c
<1>4. status \in {"Paid", "Partially Paid"} /\ (status \in Open <=> row.balance # line)
  BY <1>1 DEF Open
<1>5. AfterReceipt(row, line) = [row EXCEPT !.balance = left, !.status = status]
  BY <1>1 DEF AfterReceipt
<1>6. /\ AfterReceipt(row, line) \in Invoice
      /\ AfterReceipt(row, line).balance = left
      /\ AfterReceipt(row, line).credited = row.credited
      /\ AfterReceipt(row, line).status = status
  BY <1>3, <1>4, <1>5 DEF Invoice
<1> QED BY <1>1, <1>3, <1>4, <1>6

LEMMA AfterVoidIs ==
  ASSUME NEW i \in Invoices, NEW row \in Invoice, NEW line \in Nat, line > 0
  PROVE  /\ AfterVoid(i, row, line) \in Invoice
         /\ AfterVoid(i, row, line).balance = row.balance + line
         /\ AfterVoid(i, row, line).credited = row.credited
         /\ AfterVoid(i, row, line).status \in Open
<1>0. PICK status :
        status = IF row.balance + line >= Net[i] THEN "Pending" ELSE "Partially Paid"
  OBVIOUS
<1>1. PICK left : left = row.balance + line
  OBVIOUS
<1>a. row.balance \in Nat
  BY DEF Invoice
<1>2. left \in Nat
  BY <1>1, <1>a
<1>3. AfterVoid(i, row, line) = [row EXCEPT !.balance = left, !.status = status]
  BY <1>0, <1>1 DEF AfterVoid
<1>4. status \in {"Pending", "Partially Paid"}
  BY <1>0
<1> QED BY <1>1, <1>2, <1>3, <1>4 DEF Invoice, Open

LEMMA AfterCreditIs ==
  ASSUME IInv, NEW i \in Invoices, NEW amount \in Nat, amount > 0,
         amount <= Net[i] - invoice[i].credited
  PROVE  LET row == AfterCredit(i, invoice[i], amount)
         IN  /\ row \in Invoice /\ row.credited = invoice[i].credited + amount
             /\ row.balance \in Nat /\ row.balance <= invoice[i].balance
             /\ row.balance =
                  IF amount = Net[i] - invoice[i].credited \/ amount > invoice[i].balance
                  THEN 0 ELSE invoice[i].balance - amount
             /\ row.status \in Open <=> row.balance > 0
<1>1. PICK left :
        left = IF amount > invoice[i].balance THEN 0 ELSE invoice[i].balance - amount
  OBVIOUS
<1>2. left \in Nat /\ left <= invoice[i].balance /\ invoice[i].balance \in Nat
  BY <1>1, Books
<1>3. invoice[i].status \in {"Pending", "Partially Paid", "Paid", "Void"}
  BY Books DEF Invoice
<1>4. left > 0 => invoice[i].status \in Open
  BY <1>2, Books
<1>5. PICK credited : credited = invoice[i].credited + amount /\ credited \in Nat
  BY Books
<1>6. CASE amount = Net[i] - invoice[i].credited
  <2>1. AfterCredit(i, invoice[i], amount) =
          [balance |-> 0, status |-> "Void", credited |-> credited]
    BY <1>5, <1>6 DEF AfterCredit
  <2>2. PICK row : row = [balance |-> 0, status |-> "Void", credited |-> credited]
    OBVIOUS
  <2>3. /\ row \in Invoice /\ row.credited = credited /\ row.balance = 0
        /\ row.status \notin Open
    BY <1>5, <2>2 DEF Invoice, Open
  <2> QED BY <1>2, <1>5, <1>6, <2>1, <2>2, <2>3
<1>7. CASE amount # Net[i] - invoice[i].credited
  <2>1. PICK status : status = IF left = 0 THEN "Paid" ELSE invoice[i].status
    OBVIOUS
  <2>2. AfterCredit(i, invoice[i], amount) =
          [balance |-> left, status |-> status, credited |-> credited]
    BY <1>1, <1>5, <1>7, <2>1 DEF AfterCredit
  <2>3. status \in {"Pending", "Partially Paid", "Paid", "Void"}
    BY <1>3, <2>1
  <2>6. PICK row : row = [balance |-> left, status |-> status, credited |-> credited]
    OBVIOUS
  <2>4. CASE left = 0
    <3>1. status \notin Open
      BY <2>1, <2>4 DEF Open
    <3>2. /\ row \in Invoice /\ row.credited = credited /\ row.balance = 0
          /\ row.status = status
      BY <1>5, <2>3, <2>4, <2>6 DEF Invoice
    <3>3. row.status \in Open <=> row.balance > 0
      BY <3>1, <3>2
    <3> QED BY <1>1, <1>2, <1>5, <1>7, <2>2, <2>4, <2>6, <3>2, <3>3
  <2>5. CASE left # 0
    <3>1. left > 0
      BY <1>2, <2>5
    <3>2. status \in Open
      BY <1>4, <2>1, <2>5, <3>1
    <3>3. /\ row \in Invoice /\ row.credited = credited /\ row.balance = left
          /\ row.status = status
      BY <1>2, <1>5, <2>3, <2>6 DEF Invoice
    <3>4. row.status \in Open <=> row.balance > 0
      BY <3>1, <3>2, <3>3
    <3> QED BY <1>1, <1>2, <1>5, <1>7, <2>2, <2>6, <3>3, <3>4
  <2> QED BY <2>4, <2>5
<1> QED BY <1>6, <1>7

LEMMA CommitReceiptKeeps ==
  ASSUME IInv, NEW c \in Clerks, CommitReceipt(c) PROVE IInv'
<1>1. call[c].op = "receive" /\ call[c].at = "commit"
  BY DEF CommitReceipt
<1>2. receipt' \in [Receipts -> Receipt]
  <2>1. call[c] \in Call /\ call[c].receipt \in Receipts /\ Surplus(call[c]) \in Nat
    BY <1>1, Mine DEF Sound, Asked
  <2>2. call[c].lines \in Amounts /\ call[c].draw \in Nat
    BY <2>1 DEF Call
  <2>3. [status |-> "Posted", lines |-> call[c].lines, unapplied |-> Surplus(call[c]),
         drawn |-> call[c].draw] \in Receipt
    BY <2>1, <2>2 DEF Receipt
  <2> QED BY <2>3, Mine DEF CommitReceipt
<1>3. ASSUME NEW i \in Invoices
      PROVE  InOrder(i, invoice'[i], notes'[i], receivable'[i], beyond'[i])
  <2>1. /\ notes'[i] = notes[i] /\ beyond'[i] = beyond[i]
        /\ receivable'[i] = receivable[i] - call[c].lines[i]
    BY DEF CommitReceipt
  <2>2. CASE i \notin Named(call[c].lines)
    <3>1. invoice'[i] = invoice[i] /\ call[c].lines[i] = 0
      BY <1>1, <2>2, AtCommit DEF CommitReceipt
    <3>2. receivable'[i] = receivable[i]
      BY <2>1, <3>1, Books
    <3> QED BY <2>1, <3>1, <3>2, UntouchedInOrder
  <2>3. CASE i \in Named(call[c].lines)
    <3>1. invoice'[i] = AfterReceipt(invoice[i], call[c].lines[i])
      BY <1>1, <2>3, AtCommit DEF CommitReceipt
    <3>2. PICK amount : amount = call[c].lines[i]
      OBVIOUS
    <3>3. amount \in Nat /\ amount > 0 /\ amount <= invoice[i].balance
      BY <1>1, <2>3, <3>2, AtCommit
    <3>4. invoice[i] \in Invoice
      BY Books
    <3>5. /\ invoice'[i] \in Invoice
          /\ invoice'[i].balance = invoice[i].balance - amount
          /\ invoice'[i].credited = invoice[i].credited
          /\ invoice'[i].status \in Open <=> invoice'[i].balance > 0
      BY <3>1, <3>2, <3>3, <3>4, AfterReceiptIs
    <3> QED BY <2>1, <3>2, <3>3, <3>5, Books DEF InOrder
  <2> QED BY <2>2, <2>3
<1>4. \A i \in Invoices \ Named(call[c].lines) : invoice'[i] = invoice[i]
  BY DEF CommitReceipt
<1>5. /\ invoice' = [i \in Invoices |-> invoice'[i]] /\ notes' = [i \in Invoices |-> notes'[i]]
      /\ receivable' = [i \in Invoices |-> receivable'[i]]
      /\ beyond' = [i \in Invoices |-> beyond'[i]]
  BY DEF CommitReceipt, IInv, TypeOK, Amounts
<1> QED BY <1>1, <1>2, <1>3, <1>4, <1>5, CommitKeeps DEF CommitReceipt

LEMMA CommitVoidKeeps ==
  ASSUME IInv, NEW c \in Clerks, CommitVoid(c) PROVE IInv'
<1>1. call[c].op = "void" /\ call[c].at = "commit"
  BY DEF CommitVoid
<1>2. receipt' \in [Receipts -> Receipt]
  <2>1. call[c].receipt \in Receipts
    BY <1>1, Mine DEF Sound, Asked
  <2>2. [receipt[call[c].receipt] EXCEPT !.status = "Void"] \in Receipt
    BY <2>1, Mine DEF Receipt
  <2> QED BY <2>2, Mine DEF CommitVoid
<1>3. ASSUME NEW i \in Invoices
      PROVE  InOrder(i, invoice'[i], notes'[i], receivable'[i], beyond'[i])
  <2>1. /\ notes'[i] = notes[i] /\ beyond'[i] = beyond[i]
        /\ receivable'[i] = receivable[i] + call[c].lines[i]
    BY DEF CommitVoid
  <2>2. CASE i \notin Named(call[c].lines)
    <3>1. invoice'[i] = invoice[i] /\ call[c].lines[i] = 0
      BY <1>1, <2>2, AtCommit DEF CommitVoid
    <3>2. receivable'[i] = receivable[i]
      BY <2>1, <3>1, Books
    <3> QED BY <2>1, <3>1, <3>2, UntouchedInOrder
  <2>3. CASE i \in Named(call[c].lines)
    <3>1. invoice'[i] = AfterVoid(i, invoice[i], call[c].lines[i])
      BY <1>1, <2>3, AtCommit DEF CommitVoid
    <3>2. PICK amount : amount = call[c].lines[i]
      OBVIOUS
    <3>3. amount \in Nat /\ amount > 0 /\ invoice[i].balance + amount <= Net[i]
      BY <1>1, <2>3, <3>2, AtCommit
    <3>4. invoice[i] \in Invoice
      BY Books
    <3>5. /\ invoice'[i] \in Invoice
          /\ invoice'[i].balance = invoice[i].balance + amount
          /\ invoice'[i].credited = invoice[i].credited
          /\ invoice'[i].status \in Open
      BY <3>1, <3>2, <3>3, <3>4, AfterVoidIs
    <3> QED BY <2>1, <3>2, <3>3, <3>5, Books DEF InOrder
  <2> QED BY <2>2, <2>3
<1>4. \A i \in Invoices \ Named(call[c].lines) : invoice'[i] = invoice[i]
  BY DEF CommitVoid
<1>5. /\ invoice' = [i \in Invoices |-> invoice'[i]] /\ notes' = [i \in Invoices |-> notes'[i]]
      /\ receivable' = [i \in Invoices |-> receivable'[i]]
      /\ beyond' = [i \in Invoices |-> beyond'[i]]
  BY DEF CommitVoid, IInv, TypeOK, Amounts
<1> QED BY <1>1, <1>2, <1>3, <1>4, <1>5, CommitKeeps DEF CommitVoid

LEMMA CommitCreditKeeps ==
  ASSUME IInv, NEW c \in Clerks, CommitCredit(c) PROVE IInv'
<1>1. call[c].op = "credit" /\ call[c].at = "commit"
  BY DEF CommitCredit
<1>2. receipt' \in [Receipts -> Receipt]
  BY Mine DEF CommitCredit
<1>3. ASSUME NEW i \in Invoices
      PROVE  InOrder(i, invoice'[i], notes'[i], receivable'[i], beyond'[i])
  <2>1. /\ notes'[i] = notes[i] + call[c].lines[i]
        /\ receivable'[i] = receivable[i] - call[c].lines[i]
        /\ beyond'[i] = beyond[i] + Excess(i, call[c].lines[i])
    BY DEF CommitCredit
  <2>2. CASE i \notin Named(call[c].lines)
    <3>1. invoice'[i] = invoice[i] /\ call[c].lines[i] = 0
      BY <1>1, <2>2, AtCommit DEF CommitCredit
    <3>2. Excess(i, call[c].lines[i]) = 0
      BY <3>1, Books DEF Excess
    <3>3. receivable'[i] = receivable[i] /\ notes'[i] = notes[i] /\ beyond'[i] = beyond[i]
      BY <2>1, <3>1, <3>2, Books
    <3> QED BY <3>1, <3>3, UntouchedInOrder
  <2>3. CASE i \in Named(call[c].lines)
    <3>1. invoice'[i] = AfterCredit(i, invoice[i], call[c].lines[i])
      BY <1>1, <2>3, AtCommit DEF CommitCredit
    <3>2. PICK amount : amount = call[c].lines[i]
      OBVIOUS
    <3>3. amount \in Nat /\ amount > 0 /\ amount <= Net[i] - invoice[i].credited
      BY <1>1, <2>3, <3>2, AtCommit DEF Creditable
    <3>4. /\ invoice'[i] \in Invoice /\ invoice'[i].credited = invoice[i].credited + amount
          /\ invoice'[i].balance \in Nat /\ invoice'[i].balance <= invoice[i].balance
          /\ invoice'[i].balance =
               IF amount = Net[i] - invoice[i].credited \/ amount > invoice[i].balance
               THEN 0 ELSE invoice[i].balance - amount
          /\ invoice'[i].status \in Open <=> invoice'[i].balance > 0
      BY <3>1, <3>2, <3>3, AfterCreditIs
    <3>5. PICK old, owes, excess :
            /\ old = invoice[i].balance /\ owes = invoice'[i].balance
            /\ excess = IF amount > old THEN amount - old ELSE 0
      OBVIOUS
    <3>6. old \in Nat /\ excess \in Nat /\ (amount > old => excess = amount - old)
          /\ (amount <= old => excess = 0)
      BY <3>3, <3>5, Books
    <3>7. beyond'[i] = beyond[i] + excess /\ beyond'[i] \in Nat
      BY <2>1, <3>2, <3>5, <3>6, Books DEF Excess
    <3>8. notes[i] < Net[i] /\ old = receivable[i] + beyond[i]
      BY <3>3, <3>5, Books
    <3>9. /\ owes <= receivable'[i] + beyond'[i]
          /\ notes'[i] < Net[i] => owes = receivable'[i] + beyond'[i]
      BY <2>1, <3>2, <3>3, <3>4, <3>5, <3>6, <3>7, <3>8, Books
    <3> QED BY <2>1, <3>2, <3>3, <3>4, <3>5, <3>7, <3>9, Books DEF InOrder
  <2> QED BY <2>2, <2>3
<1>4. \A i \in Invoices \ Named(call[c].lines) : invoice'[i] = invoice[i]
  BY DEF CommitCredit
<1>5. /\ invoice' = [i \in Invoices |-> invoice'[i]] /\ notes' = [i \in Invoices |-> notes'[i]]
      /\ receivable' = [i \in Invoices |-> receivable'[i]]
      /\ beyond' = [i \in Invoices |-> beyond'[i]]
  BY DEF CommitCredit
<1> QED BY <1>1, <1>2, <1>3, <1>4, <1>5, CommitKeeps DEF CommitCredit

-----------------------------------------------------------------------------
LEMMA StutterKeeps == IInv /\ UNCHANGED vars => IInv'
<1> SUFFICES ASSUME IInv, UNCHANGED vars PROVE IInv'
  OBVIOUS
<1>1. TypeOK' /\ Exclusive' /\ Documents'
  BY DEF vars, IInv, TypeOK, Exclusive, Documents, BalancesAreBooked, CreditsWithinTheInvoice,
         OpenWhileOwing, WithinItsTotal
<1>2. (\A c \in Clerks : Sound(call[c]))'
  BY DEF vars, IInv, Sound, Reached, Current, Asked, Checked
<1> QED BY <1>1, <1>2 DEF IInv

LEMMA NextKeeps == IInv /\ [Next]_vars => IInv'
<1> SUFFICES ASSUME IInv, [Next]_vars PROVE IInv'
  OBVIOUS
<1>1. CASE UNCHANGED vars
  BY <1>1, StutterKeeps
<1>2. ASSUME NEW c \in Clerks, Receive(c) \/ Void(c) \/ Credit(c) PROVE IInv'
  BY <1>2, ReceiveKeeps, VoidKeeps, CreditKeeps
<1>3. ASSUME NEW c \in Clerks, Fails(c) PROVE IInv'
  BY <1>3, EndKeeps DEF Fails
<1>4. ASSUME NEW c \in Clerks, Step(c) PROVE IInv'
  BY <1>4, LockNextKeeps, ReadInvoicesKeeps, ApplyKeeps, CommitReceiptKeeps, LockReceiptKeeps,
     ReadForVoidKeeps, CommitVoidKeeps, ReadForCreditKeeps, CommitCreditKeeps DEF Step
<1> QED BY <1>1, <1>2, <1>3, <1>4 DEF Next

LEMMA Invariance == Spec => []IInv
<1>1. Init => IInv
  BY InitIsSound
<1>2. IInv /\ [Next]_vars => IInv'
  BY NextKeeps
<1> QED BY <1>1, <1>2, PTL DEF Spec

(* Every row, call and lock set is one the types name.                     *)
THEOREM TypeCorrect == Spec => []TypeOK
<1>1. IInv => TypeOK
  BY DEF IInv
<1> QED BY <1>1, Invariance, PTL

(* However receipts, voids and credit notes overlap, an invoice owes what  *)
(* the control account holds for it plus what notes credited beyond what   *)
(* it owed when they were issued; once credited in full, no more than that.*)
THEOREM BalancesAgreeWithTheLedger == Spec => []BalancesAreBooked
<1>1. IInv => BalancesAreBooked
  BY DEF IInv, Documents
<1> QED BY <1>1, Invariance, PTL

(* The credit notes of an invoice never add up to more than its total.     *)
THEOREM CreditsAreBounded == Spec => []CreditsWithinTheInvoice
<1>1. IInv => CreditsWithinTheInvoice
  BY DEF IInv, Documents
<1> QED BY <1>1, Invariance, PTL

(* The status of an invoice and its balance never part.                    *)
THEOREM StatusFollowsBalance == Spec => []OpenWhileOwing
<1>1. IInv => OpenWhileOwing
  BY DEF IInv, Documents
<1> QED BY <1>1, Invariance, PTL

-----------------------------------------------------------------------------
(* Sums over a finite set: the numbers of g over S, in the order CHOOSE    *)
(* takes them.                                                             *)
Picked(s) == CHOOSE x \in s : TRUE
Equation(g, S, F) ==
  F = [s \in SUBSET S |-> IF s = {} THEN 0 ELSE g[Picked(s)] + F[s \ {Picked(s)}]]
SumOver(g, S) == (CHOOSE F : Equation(g, S, F))[S]

(* The library's fold over a function is that sum.                         *)
LEMMA TotalIsASum ==
  ASSUME NEW g PROVE Total(g) = SumOver(g, DOMAIN g)
  BY DEF Total, FoldFunction, FoldFunctionOnSet, MapThenFoldSet, SumOver, Equation, Picked

(* Among the subsets of a finite set there is a least counterexample:      *)
(* that stands for induction.                                              *)
LEMMA LeastSet ==
  ASSUME NEW D, IsFiniteSet(D), NEW T \in SUBSET SUBSET D, T # {}
  PROVE  \E S \in T : \A U \in T : U \subseteq S => U = S
<1>1. IsWellFoundedOn(StrictSubsetOrdering(D), SUBSET D)
  BY FS_StrictSubsetOrderingWellFounded, FS_FiniteSubsetsOfFinite
<1>2. PICK S \in T : \A U \in T : <<U, S>> \notin StrictSubsetOrdering(D)
  BY <1>1, WFMin
<1>3. ASSUME NEW U \in T, U \subseteq S PROVE U = S
  BY <1>2, <1>3 DEF StrictSubsetOrdering
<1> QED BY <1>3

LEMMA PickedIsIn ==
  ASSUME NEW s, s # {} PROVE Picked(s) \in s
  BY DEF Picked

LEMMA EquationUnfolds ==
  ASSUME NEW g, NEW S, NEW F, Equation(g, S, F), NEW s \in SUBSET S
  PROVE  F[s] = IF s = {} THEN 0 ELSE g[Picked(s)] + F[s \ {Picked(s)}]
  BY DEF Equation

(* Two solutions agree wherever both are defined.                          *)
LEMMA EquationsAgree ==
  ASSUME NEW g, NEW h, NEW A, IsFiniteSet(A), NEW B, NEW F, NEW G,
         Equation(g, A, F), Equation(h, B, G), \A x \in A \cap B : g[x] = h[x]
  PROVE  \A s \in SUBSET (A \cap B) : F[s] = G[s]
<1> DEFINE Differ == {s \in SUBSET (A \cap B) : F[s] # G[s]}
<1> SUFFICES ASSUME Differ # {} PROVE FALSE
  OBVIOUS
<1>1. Differ \in SUBSET SUBSET A
  OBVIOUS
<1>2. PICK s \in Differ : \A U \in Differ : U \subseteq s => U = s
  <2> HIDE DEF Differ
  <2> QED BY <1>1, LeastSet
<1>3. s \in SUBSET A /\ s \in SUBSET B /\ F[s] # G[s]
  OBVIOUS
<1>4. s # {}
  BY <1>3, EquationUnfolds
<1>5. Picked(s) \in s
  BY <1>4, PickedIsIn
<1>6. F[s \ {Picked(s)}] = G[s \ {Picked(s)}]
  <2>1. s \ {Picked(s)} \subseteq s /\ s \ {Picked(s)} # s
    BY <1>5
  <2>2. s \ {Picked(s)} \notin Differ
    BY <1>2, <2>1
  <2> QED BY <1>3, <2>2
<1>7. g[Picked(s)] = h[Picked(s)]
  BY <1>3, <1>5
<1>8. F[s] = IF s = {} THEN 0 ELSE g[Picked(s)] + F[s \ {Picked(s)}]
  <2> HIDE DEF Differ
  <2> QED BY <1>3, EquationUnfolds
<1>9. G[s] = IF s = {} THEN 0 ELSE h[Picked(s)] + G[s \ {Picked(s)}]
  <2> HIDE DEF Differ
  <2> QED BY <1>3, EquationUnfolds
<1> QED BY <1>3, <1>4, <1>6, <1>7, <1>8, <1>9

(* There is one: from those of the smaller sets.                           *)
LEMMA EquationHasASolution ==
  ASSUME NEW g, NEW S, IsFiniteSet(S) PROVE \E F : Equation(g, S, F)
<1> DEFINE Without == {s \in SUBSET S : ~ \E F : Equation(g, s, F)}
<1> SUFFICES ASSUME Without # {} PROVE FALSE
  OBVIOUS
<1>2. PICK s \in Without : \A U \in Without : U \subseteq s => U = s
  <2>1. Without \in SUBSET SUBSET S
    OBVIOUS
  <2> HIDE DEF Without
  <2> QED BY <2>1, LeastSet
<1> DEFINE
    Of(t) == CHOOSE F : Equation(g, t, F)
    F == [t \in SUBSET s |-> IF t = {} THEN 0
                             ELSE g[Picked(t)] + Of(t \ {Picked(t)})[t \ {Picked(t)}]]
<1>3. ASSUME NEW t \in SUBSET s, t # s PROVE Equation(g, t, Of(t)) /\ IsFiniteSet(t)
  <2>1. t \notin Without /\ t \in SUBSET S
    BY <1>2, <1>3
  <2>2. \E G : Equation(g, t, G)
    BY <2>1
  <2> QED BY <2>1, <2>2, FS_Subset
<1>4. ASSUME NEW t \in SUBSET s, t # s PROVE F[t] = Of(t)[t]
  <2>1. CASE t = {}
    BY <2>1, <1>3, <1>4, EquationUnfolds
  <2>2. CASE t # {}
    <3>1. Picked(t) \in t
      BY <2>2, PickedIsIn
    <3>2. PICK u : u = t \ {Picked(t)}
      OBVIOUS
    <3>3. u \in SUBSET s /\ u # s /\ u \in SUBSET t
      BY <3>1, <3>2
    <3>4. Of(t)[u] = Of(u)[u]
      <4>1. Equation(g, t, Of(t)) /\ Equation(g, u, Of(u)) /\ IsFiniteSet(t)
        BY <1>3, <1>4, <3>3
      <4>2. u \in SUBSET (t \cap u)
        BY <3>3
      <4>3. PICK V, W : V = Of(t) /\ W = Of(u)
        OBVIOUS
      <4>4. \A x \in SUBSET (t \cap u) : V[x] = W[x]
        <5> HIDE DEF Of
        <5> QED BY <4>1, <4>3, EquationsAgree
      <4> QED BY <4>2, <4>3, <4>4
    <3>5. Of(t)[t] = g[Picked(t)] + Of(t)[u]
      <4>1. Equation(g, t, Of(t))
        BY <1>3, <1>4
      <4> HIDE DEF Of
      <4> QED BY <4>1, <2>2, <3>2, EquationUnfolds
    <3>6. F[t] = g[Picked(t)] + Of(u)[u]
      BY <2>2, <3>2
    <3> QED BY <3>4, <3>5, <3>6
  <2> QED BY <2>1, <2>2
<1>5. ASSUME NEW t \in SUBSET s, t # {}
      PROVE  F[t] = g[Picked(t)] + F[t \ {Picked(t)}]
  <2>1. Picked(t) \in t
    BY <1>5, PickedIsIn
  <2>2. t \ {Picked(t)} \in SUBSET s /\ t \ {Picked(t)} # s
    BY <2>1
  <2>3. F[t \ {Picked(t)}] = Of(t \ {Picked(t)})[t \ {Picked(t)}]
    BY <1>4, <2>2
  <2> QED BY <1>5, <2>3
<1>6. Equation(g, s, F)
  <2>1. F[{}] = 0
    OBVIOUS
  <2>2. F = [t \in SUBSET s |-> F[t]]
    OBVIOUS
  <2> HIDE DEF F
  <2> QED BY <1>5, <2>1, <2>2 DEF Equation
<1> QED BY <1>2, <1>6

LEMMA SumSolves ==
  ASSUME NEW g, NEW S, IsFiniteSet(S)
  PROVE  \E F : Equation(g, S, F) /\ \A s \in SUBSET S : SumOver(g, s) = F[s]
<1> DEFINE F == CHOOSE F : Equation(g, S, F)
<1>1. Equation(g, S, F)
  BY EquationHasASolution
<1>2. ASSUME NEW s \in SUBSET S PROVE SumOver(g, s) = F[s]
  <2> DEFINE G == CHOOSE G : Equation(g, s, G)
  <2>1. IsFiniteSet(s)
    BY FS_Subset
  <2>2. Equation(g, s, G)
    BY <2>1, EquationHasASolution
  <2>3. SumOver(g, s) = G[s]
    BY DEF SumOver
  <2>4. s \in SUBSET (s \cap S)
    OBVIOUS
  <2> HIDE DEF F, G
  <2> QED BY <1>1, <2>1, <2>2, <2>3, <2>4, EquationsAgree
<1> QED BY <1>1, <1>2

LEMMA SumOfPicked ==
  ASSUME NEW g, NEW S, IsFiniteSet(S)
  PROVE  SumOver(g, S) = IF S = {} THEN 0 ELSE g[Picked(S)] + SumOver(g, S \ {Picked(S)})
<1>1. PICK F : Equation(g, S, F) /\ \A s \in SUBSET S : SumOver(g, s) = F[s]
  BY SumSolves
<1>2. F[S] = IF S = {} THEN 0 ELSE g[Picked(S)] + F[S \ {Picked(S)}]
  BY <1>1, EquationUnfolds
<1> QED BY <1>1, <1>2

(* A sum depends on the values over its set only,                          *)
LEMMA SumSame ==
  ASSUME NEW S, IsFiniteSet(S), NEW g, NEW h, \A x \in S : g[x] = h[x]
  PROVE  SumOver(g, S) = SumOver(h, S)
<1>1. PICK F : Equation(g, S, F) /\ \A s \in SUBSET S : SumOver(g, s) = F[s]
  BY SumSolves
<1>2. PICK G : Equation(h, S, G) /\ \A s \in SUBSET S : SumOver(h, s) = G[s]
  BY SumSolves
<1>3. \A s \in SUBSET (S \cap S) : F[s] = G[s]
  BY <1>1, <1>2, EquationsAgree
<1> QED BY <1>1, <1>2, <1>3

(* is an integer when they are,                                            *)
LEMMA SumIsAnInt ==
  ASSUME NEW S, IsFiniteSet(S), NEW g, \A x \in S : g[x] \in Int
  PROVE  SumOver(g, S) \in Int
<1> DEFINE Wrong == {s \in SUBSET S : SumOver(g, s) \notin Int}
<1> SUFFICES ASSUME Wrong # {} PROVE FALSE
  OBVIOUS
<1>1. PICK s \in Wrong : \A U \in Wrong : U \subseteq s => U = s
  <2>1. Wrong \in SUBSET SUBSET S
    OBVIOUS
  <2> HIDE DEF Wrong
  <2> QED BY <2>1, LeastSet
<1>2. s \in SUBSET S /\ SumOver(g, s) \notin Int /\ IsFiniteSet(s)
  BY FS_Subset
<1>3. s # {}
  <2>1. SumOver(g, s) = IF s = {} THEN 0 ELSE g[Picked(s)] + SumOver(g, s \ {Picked(s)})
    BY <1>2, SumOfPicked
  <2> QED BY <1>2, <2>1
<1>4. Picked(s) \in s /\ g[Picked(s)] \in Int
  BY <1>2, <1>3, PickedIsIn
<1>5. SumOver(g, s \ {Picked(s)}) \in Int
  BY <1>1, <1>2, <1>4
<1>6. SumOver(g, s) = g[Picked(s)] + SumOver(g, s \ {Picked(s)})
  BY <1>2, <1>3, SumOfPicked
<1> QED BY <1>2, <1>4, <1>5, <1>6

(* and takes its set in any order.                                         *)
LEMMA SumWithout ==
  ASSUME NEW S, IsFiniteSet(S), NEW g, \A x \in S : g[x] \in Int, NEW a \in S
  PROVE  SumOver(g, S) = g[a] + SumOver(g, S \ {a})
<1> DEFINE
    Wrong == {s \in SUBSET S : \E x \in s : SumOver(g, s) # g[x] + SumOver(g, s \ {x})}
<1> SUFFICES ASSUME Wrong # {} PROVE FALSE
  OBVIOUS
<1>1. PICK s \in Wrong : \A U \in Wrong : U \subseteq s => U = s
  <2>1. Wrong \in SUBSET SUBSET S
    OBVIOUS
  <2> HIDE DEF Wrong
  <2> QED BY <2>1, LeastSet
<1>2. s \in SUBSET S /\ IsFiniteSet(s)
  BY FS_Subset
<1>3. PICK x \in s : SumOver(g, s) # g[x] + SumOver(g, s \ {x})
  BY <1>1
<1>4. PICK y \in s : y = Picked(s)
  BY <1>3, PickedIsIn
<1>5. SumOver(g, s) = g[y] + SumOver(g, s \ {y})
  BY <1>2, <1>3, <1>4, SumOfPicked
<1>6. x # y
  BY <1>3, <1>5
<1>7. s \ {x} \notin Wrong /\ s \ {y} \notin Wrong
  BY <1>1
<1>8. SumOver(g, s \ {y}) = g[x] + SumOver(g, (s \ {y}) \ {x})
  BY <1>2, <1>6, <1>7
<1>9. SumOver(g, s \ {x}) = g[y] + SumOver(g, (s \ {x}) \ {y})
  BY <1>2, <1>6, <1>7
<1>10. PICK rest : rest = s \ {x, y}
  OBVIOUS
<1>11. (s \ {y}) \ {x} = rest /\ (s \ {x}) \ {y} = rest
  BY <1>10
<1>12. SumOver(g, rest) \in Int
  BY <1>2, <1>10, FS_Subset, SumIsAnInt
<1>13. g[x] \in Int /\ g[y] \in Int
  BY <1>2
<1>14. PICK u, v, w : u = g[x] /\ v = g[y] /\ w = SumOver(g, rest)
  OBVIOUS
<1>15. u + (v + w) = v + (u + w)
  BY <1>12, <1>13, <1>14
<1> QED BY <1>3, <1>5, <1>8, <1>9, <1>11, <1>14, <1>15

LEMMA SumWith ==
  ASSUME NEW S, IsFiniteSet(S), NEW r, r \notin S, NEW g, NEW h, h[r] \in Int,
         \A x \in S : g[x] \in Int /\ h[x] = g[x]
  PROVE  SumOver(h, S \cup {r}) = SumOver(g, S) + h[r] /\ SumOver(g, S) \in Int
<1>1. IsFiniteSet(S \cup {r}) /\ (S \cup {r}) \ {r} = S
  BY FS_AddElement
<1>2. \A x \in S \cup {r} : h[x] \in Int
  OBVIOUS
<1>3. SumOver(h, S \cup {r}) = h[r] + SumOver(h, (S \cup {r}) \ {r})
  BY <1>1, <1>2, SumWithout
<1>4. SumOver(h, S) = SumOver(g, S)
  BY SumSame
<1>5. SumOver(g, S) \in Int
  BY SumIsAnInt
<1>6. PICK u, v : u = SumOver(g, S) /\ v = h[r]
  OBVIOUS
<1>7. v + u = u + v
  BY <1>5, <1>6
<1> QED BY <1>1, <1>3, <1>4, <1>5, <1>6, <1>7

LEMMA SumLess ==
  ASSUME NEW S, IsFiniteSet(S), NEW r \in S, NEW g, NEW h, g[r] \in Int,
         \A x \in S \ {r} : g[x] \in Int /\ h[x] = g[x]
  PROVE  SumOver(h, S \ {r}) = SumOver(g, S) - g[r] /\ SumOver(g, S) \in Int
<1>1. IsFiniteSet(S \ {r}) /\ r \notin S \ {r} /\ (S \ {r}) \cup {r} = S
  BY FS_RemoveElement
<1>2. SumOver(h, S \ {r}) = SumOver(g, S \ {r})
  BY <1>1, SumSame
<1>3. SumOver(g, S) = SumOver(g, S \ {r}) + g[r] /\ SumOver(g, S \ {r}) \in Int
  BY <1>1, SumWith
<1> QED BY <1>2, <1>3

LEMMA EmptySum ==
  ASSUME NEW g PROVE SumOver(g, {}) = 0
<1>1. IsFiniteSet({})
  BY FS_EmptySet
<1> QED BY <1>1, SumOfPicked

-----------------------------------------------------------------------------
(* The receipts.  A number is one transaction's until it is on a receipt;  *)
(* who voids a receipt has locked it while it was in force and still holds *)
(* it, so it is given back once, with the lines it was booked with.        *)
Filed(k) ==
  /\ k.op = "receive" => receipt[k.receipt].status = "none"
  /\ k.op = "void" =>
       /\ receipt[k.receipt].status # "none"
       /\ k.at \in {"lock", "commit"} =>
            /\ <<"receipt", k.receipt>> \in k.held
            /\ receipt[k.receipt].status = "Posted" /\ receipt[k.receipt].lines = k.lines
NumberedApart ==
  \A c, d \in Clerks : c # d /\ call[c].op = "receive" /\ call[d].op = "receive" =>
    call[c].receipt # call[d].receipt
LInv ==
  /\ \A c \in Clerks : Filed(call[c])
  /\ NumberedApart
  /\ IsFiniteSet(InForce)
  /\ LedgerIsTheDocuments

Lines(i) == [r \in Receipts |-> receipt[r].lines[i]]

LEMMA TotalIs ==
  ASSUME NEW S, IsFiniteSet(S), NEW f, f = [r \in S |-> f[r]],
         NEW g, \A r \in S : f[r] = g[r]
  PROVE  Total(f) = SumOver(g, S)
<1>1. DOMAIN f = S
  OBVIOUS
<1>2. Total(f) = SumOver(f, S)
  BY <1>1, TotalIsASum
<1> QED BY <1>2, SumSame

LEMMA AppliedIs ==
  ASSUME IsFiniteSet(InForce), NEW i PROVE Applied(i) = SumOver(Lines(i), InForce)
<1>1. PICK f : f = [r \in InForce |-> receipt[r].lines[i]]
  OBVIOUS
<1>2. \A r \in InForce : f[r] = Lines(i)[r]
  BY <1>1 DEF InForce, Lines
<1>3. Applied(i) = Total(f)
  BY <1>1 DEF Applied
<1> QED BY <1>1, <1>2, <1>3, TotalIs

LEMMA AppliedNextIs ==
  ASSUME IsFiniteSet(InForce'), NEW i PROVE Applied(i)' = SumOver(Lines(i)', InForce')
<1>1. PICK f : f = [r \in InForce' |-> receipt'[r].lines[i]]
  OBVIOUS
<1>2. PICK g : g = Lines(i)'
  OBVIOUS
<1>3. \A r \in InForce' : f[r] = g[r]
  BY <1>1, <1>2 DEF InForce, Lines
<1>4. Applied(i)' = Total(f)
  BY <1>1 DEF Applied
<1> QED BY <1>1, <1>2, <1>3, <1>4, TotalIs

LEMMA InitIsBooked == Init => LInv
<1> SUFFICES ASSUME Init PROVE LInv
  OBVIOUS
<1>1. InForce = {}
  BY DEF Init, InForce, Unused
<1>2. IsFiniteSet(InForce)
  BY <1>1, FS_EmptySet
<1>3. ASSUME NEW i \in Invoices PROVE receivable[i] = Net[i] - Applied(i) - notes[i]
  <2>1. Applied(i) = 0
    BY <1>1, <1>2, AppliedIs, EmptySum
  <2>2. receivable[i] = Net[i] /\ notes[i] = 0 /\ Net[i] \in Nat
    BY ReceivablesAssumption DEF Init, Nothing
  <2> QED BY <2>1, <2>2
<1>4. (\A c \in Clerks : Filed(call[c])) /\ NumberedApart
  BY DEF Init, Filed, NumberedApart, Idle
<1> QED BY <1>2, <1>3, <1>4 DEF LInv, LedgerIsTheDocuments

(* A step that writes no document leaves a transaction as it was filed, or *)
(* begins one, or ends it.                                                 *)
LEMMA GoesKeepsBooks ==
  ASSUME IInv, LInv, NEW c \in Clerks, NEW new, Goes(c, new), Filed(new),
         new.op = "receive" => \/ call[c].op = "receive" /\ new.receipt = call[c].receipt
                               \/ \A d \in Clerks : new.receipt # call[d].receipt
  PROVE  LInv'
<1>1. /\ \A d \in Clerks : call'[d] = IF d = c THEN new ELSE call[d]
      /\ UNCHANGED <<receipt, notes, receivable>>
  BY DEF IInv, TypeOK, Goes
<1>2. \A d \in Clerks : Filed(call[d])'
  BY <1>1 DEF LInv, Filed
<1>3. NumberedApart'
  BY <1>1 DEF LInv, NumberedApart
<1>4. InForce' = InForce /\ IsFiniteSet(InForce')
  BY <1>1 DEF LInv, InForce
<1>5. ASSUME NEW i \in Invoices PROVE Applied(i)' = Applied(i)
  <2>1. PICK f, g : /\ f = [r \in InForce |-> receipt[r].lines[i]]
                    /\ g = [r \in InForce' |-> receipt'[r].lines[i]]
    OBVIOUS
  <2>2. f = g
    BY <1>1, <1>4, <2>1
  <2>3. Applied(i) = Total(f) /\ Applied(i)' = Total(g)
    BY <2>1 DEF Applied
  <2> QED BY <2>2, <2>3
<1>6. LedgerIsTheDocuments'
  BY <1>1, <1>5 DEF LInv, LedgerIsTheDocuments
<1> QED BY <1>2, <1>3, <1>4, <1>6 DEF LInv

LEMMA BeginsKeepBooks ==
  ASSUME IInv, LInv, NEW c \in Clerks, Receive(c) \/ Void(c) \/ Credit(c)
  PROVE  LInv'
<1>1. CASE Receive(c)
  <2>1. PICK r \in Receipts, cash \in 0 .. MaxCash, draw \in 0 .. MaxAdvance,
             lines \in [Invoices -> 0 .. MaxCash] : \E new :
          /\ new = [Idle EXCEPT !.op = "receive", !.at = "lock", !.receipt = r, !.cash = cash,
                                !.draw = draw, !.lines = lines, !.todo = Named(lines)]
          /\ NextReceipt(r) /\ Begin(c, new)
    BY <1>1 DEF Receive
  <2>2. PICK new :
          /\ new = [Idle EXCEPT !.op = "receive", !.at = "lock", !.receipt = r, !.cash = cash,
                                !.draw = draw, !.lines = lines, !.todo = Named(lines)]
          /\ NextReceipt(r) /\ Begin(c, new)
    BY <2>1
  <2>3. new.op = "receive" /\ new.receipt = r /\ Goes(c, new)
    BY <2>2 DEF Idle, Begin, Goes
  <2>4. receipt[r] = Unused /\ \A d \in Clerks : call[d].receipt # r
    BY <2>2 DEF NextReceipt
  <2>5. Filed(new)
    BY <2>3, <2>4 DEF Filed, Unused
  <2> QED BY <2>3, <2>4, <2>5, GoesKeepsBooks
<1>2. CASE Void(c)
  <2>1. PICK r \in Receipts : \E new :
          /\ new = [Idle EXCEPT !.op = "void", !.at = "receipt", !.receipt = r]
          /\ receipt[r].status # "none" /\ Begin(c, new)
    BY <1>2 DEF Void
  <2>2. PICK new :
          /\ new = [Idle EXCEPT !.op = "void", !.at = "receipt", !.receipt = r]
          /\ receipt[r].status # "none" /\ Begin(c, new)
    BY <2>1
  <2>3. new.op = "void" /\ new.at = "receipt" /\ new.receipt = r /\ Goes(c, new)
    BY <2>2 DEF Idle, Begin, Goes
  <2> QED BY <2>2, <2>3, GoesKeepsBooks DEF Filed
<1>3. CASE Credit(c)
  <2>1. PICK i \in Invoices : \E amount \in 1 .. Net[i] : \E new :
          /\ new = [Idle EXCEPT !.op = "credit", !.at = "lock", !.todo = {i},
                                !.lines = [Nothing EXCEPT ![i] = amount]]
          /\ Begin(c, new)
    BY <1>3 DEF Credit
  <2>2. PICK new : new.op = "credit" /\ Begin(c, new)
    BY <2>1 DEF Idle
  <2> QED BY <2>2, GoesKeepsBooks DEF Filed, Begin, Goes
<1> QED BY <1>1, <1>2, <1>3

(* A transaction that goes on with what it is about.                       *)
LEMMA OnwardKeepsBooks ==
  ASSUME IInv, LInv, NEW c \in Clerks, NEW new, Goes(c, new),
         new.op = call[c].op, new.receipt = call[c].receipt, new.lines = call[c].lines,
         call[c].held \subseteq new.held,
         call[c].op = "void" => call[c].at \in {"lock", "commit"}
  PROVE  LInv'
<1>1. Filed(call[c])
  BY DEF LInv
<1> QED BY <1>1, GoesKeepsBooks DEF Filed

LEMMA EndKeepsBooks ==
  ASSUME IInv, LInv, NEW c \in Clerks, Goes(c, Idle) PROVE LInv'
<1>1. Idle.op = "none"
  BY DEF Idle
<1> QED BY <1>1, GoesKeepsBooks DEF Filed

LEMMA StepsKeepBooks ==
  ASSUME IInv, LInv, NEW c \in Clerks,
         LockNext(c) \/ ReadInvoices(c) \/ Apply(c) \/ LockReceipt(c) \/ ReadForVoid(c)
           \/ ReadForCredit(c)
  PROVE  LInv'
<1>0. call[c] \in Call /\ Sound(call[c])
  BY Mine
<1>1. CASE Goes(c, Idle)
  BY <1>1, EndKeepsBooks
<1>2. CASE LockNext(c)
  <2>1. PICK i \in call[c].todo : \E new :
          /\ call[c].at = "lock" /\ Goes(c, new)
          /\ new = [call[c] EXCEPT !.held = @ \cup {<<"invoice", i>>}, !.todo = @ \ {i}]
    BY <1>2 DEF LockNext, Holding
  <2>2. PICK new :
          /\ call[c].at = "lock" /\ Goes(c, new)
          /\ new = [call[c] EXCEPT !.held = @ \cup {<<"invoice", i>>}, !.todo = @ \ {i}]
    BY <2>1
  <2>3. /\ new.op = call[c].op /\ new.receipt = call[c].receipt
        /\ new.lines = call[c].lines /\ call[c].held \subseteq new.held
    BY <1>0, <2>2 DEF Call
  <2> QED BY <2>2, <2>3, OnwardKeepsBooks
<1>3. ASSUME NEW label, NEW op, Locked(c, op),
             Goes(c, [call[c] EXCEPT !.at = label, !.seen = Reading(c)])
      PROVE  LInv'
  <2>1. PICK new : new = [call[c] EXCEPT !.at = label, !.seen = Reading(c)]
    OBVIOUS
  <2>2. /\ new.op = call[c].op /\ new.receipt = call[c].receipt
        /\ new.lines = call[c].lines /\ call[c].held = new.held
    BY <1>0, <2>1 DEF Call
  <2> QED BY <1>3, <2>1, <2>2, OnwardKeepsBooks DEF Locked
<1>4. CASE /\ call[c].at = "apply"
           /\ Goes(c, [call[c] EXCEPT !.held = @ \cup {Series}, !.at = "commit"])
  <2>1. PICK new : new = [call[c] EXCEPT !.held = @ \cup {Series}, !.at = "commit"]
    OBVIOUS
  <2>2. /\ new.op = call[c].op /\ new.receipt = call[c].receipt
        /\ new.lines = call[c].lines /\ call[c].held \subseteq new.held
    BY <1>0, <2>1 DEF Call
  <2>3. call[c].op = "receive"
    BY <1>0, <1>4 DEF Sound, Asked
  <2> QED BY <1>4, <2>1, <2>2, <2>3, OnwardKeepsBooks
<1>5. ASSUME NEW r, NEW row, r = call[c].receipt, row = <<"receipt", r>>,
             call[c].at = "receipt", receipt[r].status = "Posted",
             Goes(c, [call[c] EXCEPT !.at = "lock", !.lines = receipt[r].lines,
                      !.todo = Named(receipt[r].lines), !.held = @ \cup {row}])
      PROVE  LInv'
  <2>1. PICK new : new = [call[c] EXCEPT !.at = "lock", !.lines = receipt[r].lines,
                          !.todo = Named(receipt[r].lines), !.held = @ \cup {row}]
    OBVIOUS
  <2>2. call[c].op = "void"
    BY <1>0, <1>5 DEF Sound, Asked
  <2>3. /\ new.op = "void" /\ new.receipt = r /\ new.lines = receipt[r].lines
        /\ row \in new.held
    BY <1>0, <1>5, <2>1, <2>2 DEF Call
  <2>4. Filed(new)
    BY <1>5, <2>3 DEF Filed
  <2> QED BY <1>5, <2>1, <2>3, <2>4, GoesKeepsBooks
<1>6. CASE LockReceipt(c)
  BY <1>1, <1>5, <1>6 DEF LockReceipt, ReadReceipt
<1>7. CASE ReadInvoices(c) \/ ReadForVoid(c) \/ ReadForCredit(c)
  BY <1>1, <1>3, <1>7 DEF ReadInvoices, ReadForVoid, ReadForCredit
<1>8. CASE Apply(c)
  BY <1>1, <1>4, <1>8 DEF Apply, Holding
<1> QED BY <1>2, <1>6, <1>7, <1>8

-----------------------------------------------------------------------------
(* The commits: one receipt more in force, one less, or the same ones.     *)
LEMMA OthersStayFiled ==
  ASSUME IInv, LInv, NEW c \in Clerks, call[c].at = "commit", call[c].op \in {"receive", "void"},
         call' = [call EXCEPT ![c] = Idle],
         \A r \in Receipts \ {call[c].receipt} : receipt'[r] = receipt[r],
         receipt'[call[c].receipt].status # "none"
  PROVE  (\A d \in Clerks : Filed(call[d]))' /\ NumberedApart'
<1>1. \A d \in Clerks : call'[d] = IF d = c THEN Idle ELSE call[d]
  BY DEF IInv, TypeOK
<1>2. Idle.op = "none"
  BY DEF Idle
<1>3. ASSUME NEW d \in Clerks, d # c PROVE Filed(call[d])'
  <2>1. call'[d] = call[d] /\ Filed(call[d]) /\ Filed(call[c]) /\ Sound(call[d])
    BY <1>1, <1>3, Mine DEF LInv
  <2>2. CASE call[d].op = "receive"
    <3>1. call[d].receipt \in Receipts /\ call[d].receipt # call[c].receipt
      BY <1>3, <2>1, <2>2 DEF LInv, NumberedApart, Filed, Sound, Asked
    <3> QED BY <2>1, <2>2, <3>1 DEF Filed
  <2>3. CASE call[d].op = "void"
    <3>1. call[d].receipt \in Receipts
      BY <2>1, <2>3 DEF Sound, Asked
    <3>2. CASE call[d].receipt # call[c].receipt
      BY <2>1, <2>3, <3>1, <3>2 DEF Filed
    <3>3. CASE call[d].receipt = call[c].receipt
      <4>1. call[c].op = "void" /\ <<"receipt", call[c].receipt>> \in call[c].held
        BY <2>1, <2>3, <3>3 DEF Filed
      <4>2. call[d].at \notin {"lock", "commit"}
        BY <1>3, <2>1, <2>3, <3>3, <4>1 DEF Filed, IInv, Exclusive
      <4> QED BY <2>1, <2>3, <3>3, <4>2 DEF Filed
    <3> QED BY <3>2, <3>3
  <2>4. CASE call[d].op \notin {"receive", "void"}
    BY <2>1, <2>4 DEF Filed
  <2> QED BY <2>2, <2>3, <2>4
<1>4. Filed(call[c])'
  BY <1>1, <1>2 DEF Filed
<1>5. NumberedApart'
  BY <1>1, <1>2 DEF LInv, NumberedApart
<1> QED BY <1>3, <1>4, <1>5

LEMMA CommitReceiptKeepsBooks ==
  ASSUME IInv, LInv, NEW c \in Clerks, CommitReceipt(c) PROVE LInv'
<1>1. PICK r \in Receipts : r = call[c].receipt
  BY Mine DEF CommitReceipt, Sound, Asked
<1>2. /\ call[c].op = "receive" /\ call[c].at = "commit" /\ call' = [call EXCEPT ![c] = Idle]
      /\ receipt[r].status = "none" /\ notes' = notes
      /\ receipt \in [Receipts -> Receipt] /\ call[c].lines \in Amounts
  BY <1>1, Mine DEF CommitReceipt, LInv, Filed, Call
<1>3. /\ \A s \in Receipts \ {r} : receipt'[s] = receipt[s]
      /\ receipt'[r].status = "Posted" /\ receipt'[r].lines = call[c].lines
  BY <1>1, <1>2 DEF CommitReceipt
<1>4. InForce' = InForce \cup {r} /\ r \notin InForce
  BY <1>2, <1>3 DEF InForce
<1>5. IsFiniteSet(InForce) /\ IsFiniteSet(InForce')
  BY <1>4, FS_AddElement DEF LInv
<1>6. ASSUME NEW i \in Invoices PROVE receivable'[i] = Net[i] - Applied(i)' - notes'[i]
  <2>1. PICK g, h : g = Lines(i) /\ h = Lines(i)'
    OBVIOUS
  <2>2. h[r] = call[c].lines[i] /\ call[c].lines[i] \in Int
    BY <1>2, <1>3, <2>1 DEF Lines, Amounts
  <2>3. \A s \in InForce : g[s] \in Int /\ h[s] = g[s]
    BY <1>2, <1>3, <1>4, <2>1 DEF Lines, InForce, Receipt, Amounts
  <2>4. /\ SumOver(h, InForce \cup {r}) = SumOver(g, InForce) + h[r]
        /\ SumOver(g, InForce) \in Int
    BY <1>4, <1>5, <2>2, <2>3, SumWith
  <2>5. Applied(i) = SumOver(g, InForce)
    BY <1>5, <2>1, AppliedIs
  <2>6. Applied(i)' = SumOver(h, InForce')
    BY <1>5, <2>1, AppliedNextIs
  <2>7. receivable'[i] = receivable[i] - call[c].lines[i]
    BY DEF CommitReceipt
  <2>8. receivable[i] = Net[i] - Applied(i) - notes[i]
    BY DEF LInv, LedgerIsTheDocuments
  <2>9. Net[i] \in Int /\ notes[i] \in Int
    BY Books
  <2>10. PICK before, line : before = SumOver(g, InForce) /\ line = call[c].lines[i]
    OBVIOUS
  <2>11. Applied(i)' = before + line /\ Applied(i) = before
    BY <1>4, <2>2, <2>4, <2>5, <2>6, <2>10
  <2> QED BY <1>2, <2>2, <2>4, <2>7, <2>8, <2>9, <2>10, <2>11
<1>7. (\A d \in Clerks : Filed(call[d]))' /\ NumberedApart'
  BY <1>1, <1>2, <1>3, OthersStayFiled
<1> QED BY <1>5, <1>6, <1>7 DEF LInv, LedgerIsTheDocuments

LEMMA CommitVoidKeepsBooks ==
  ASSUME IInv, LInv, NEW c \in Clerks, CommitVoid(c) PROVE LInv'
<1>1. PICK r \in Receipts : r = call[c].receipt
  BY Mine DEF CommitVoid, Sound, Asked
<1>2. /\ call[c].op = "void" /\ call[c].at = "commit" /\ call' = [call EXCEPT ![c] = Idle]
      /\ receipt[r].status = "Posted" /\ receipt[r].lines = call[c].lines /\ notes' = notes
      /\ receipt \in [Receipts -> Receipt] /\ call[c].lines \in Amounts
  BY <1>1, Mine DEF CommitVoid, LInv, Filed, Call
<1>3. (\A s \in Receipts \ {r} : receipt'[s] = receipt[s]) /\ receipt'[r].status = "Void"
  BY <1>1, <1>2 DEF CommitVoid, Receipt
<1>4. InForce' = InForce \ {r} /\ r \in InForce
  BY <1>2, <1>3 DEF InForce
<1>5. IsFiniteSet(InForce) /\ IsFiniteSet(InForce')
  BY <1>4, FS_RemoveElement DEF LInv
<1>6. ASSUME NEW i \in Invoices PROVE receivable'[i] = Net[i] - Applied(i)' - notes'[i]
  <2>1. PICK g, h : g = Lines(i) /\ h = Lines(i)'
    OBVIOUS
  <2>2. g[r] = call[c].lines[i] /\ call[c].lines[i] \in Int
    BY <1>2, <2>1 DEF Lines, Amounts
  <2>3. \A s \in InForce \ {r} : g[s] \in Int /\ h[s] = g[s]
    BY <1>2, <1>3, <2>1 DEF Lines, InForce, Receipt, Amounts
  <2>4. /\ SumOver(h, InForce \ {r}) = SumOver(g, InForce) - g[r]
        /\ SumOver(g, InForce) \in Int
    BY <1>4, <1>5, <2>2, <2>3, SumLess
  <2>5. Applied(i) = SumOver(g, InForce)
    BY <1>5, <2>1, AppliedIs
  <2>6. Applied(i)' = SumOver(h, InForce')
    BY <1>5, <2>1, AppliedNextIs
  <2>7. receivable'[i] = receivable[i] + call[c].lines[i]
    BY DEF CommitVoid
  <2>8. receivable[i] = Net[i] - Applied(i) - notes[i]
    BY DEF LInv, LedgerIsTheDocuments
  <2>9. Net[i] \in Int /\ notes[i] \in Int
    BY Books
  <2>10. PICK before, line : before = SumOver(g, InForce) /\ line = call[c].lines[i]
    OBVIOUS
  <2>11. Applied(i)' = before - line /\ Applied(i) = before
    BY <1>4, <2>2, <2>4, <2>5, <2>6, <2>10
  <2> QED BY <1>2, <2>2, <2>4, <2>7, <2>8, <2>9, <2>10, <2>11
<1>7. (\A d \in Clerks : Filed(call[d]))' /\ NumberedApart'
  BY <1>1, <1>2, <1>3, OthersStayFiled
<1> QED BY <1>5, <1>6, <1>7 DEF LInv, LedgerIsTheDocuments

LEMMA CommitCreditKeepsBooks ==
  ASSUME IInv, LInv, NEW c \in Clerks, CommitCredit(c) PROVE LInv'
<1>1. /\ \A d \in Clerks : call'[d] = IF d = c THEN Idle ELSE call[d]
      /\ receipt' = receipt /\ Idle.op = "none"
  BY DEF CommitCredit, IInv, TypeOK, Idle
<1>2. (\A d \in Clerks : Filed(call[d]))' /\ NumberedApart'
  BY <1>1 DEF LInv, Filed, NumberedApart
<1>3. InForce' = InForce /\ IsFiniteSet(InForce')
  BY <1>1 DEF LInv, InForce
<1>4. ASSUME NEW i \in Invoices PROVE receivable'[i] = Net[i] - Applied(i)' - notes'[i]
  <2>1. PICK g : g = Lines(i) /\ g = Lines(i)'
    BY <1>1 DEF Lines
  <2>2. Applied(i) = SumOver(g, InForce) /\ Applied(i)' = SumOver(g, InForce)
    BY <1>3, <2>1, AppliedIs, AppliedNextIs
  <2>3. \A s \in InForce : g[s] \in Int
    BY <2>1, Mine DEF Lines, InForce, Receipt, Amounts
  <2>4. SumOver(g, InForce) \in Int
    BY <1>3, <2>3, SumIsAnInt
  <2>5. call[c].lines[i] \in Int
    BY Mine DEF Call, Amounts
  <2>6. receivable'[i] = receivable[i] - call[c].lines[i] /\ notes'[i] = notes[i] + call[c].lines[i]
    BY DEF CommitCredit
  <2>7. receivable[i] = Net[i] - Applied(i) - notes[i]
    BY DEF LInv, LedgerIsTheDocuments
  <2>8. Net[i] \in Int /\ notes[i] \in Int
    BY Books
  <2>9. PICK before, line : before = SumOver(g, InForce) /\ line = call[c].lines[i]
    OBVIOUS
  <2>10. before \in Int /\ line \in Int /\ Applied(i) = before /\ Applied(i)' = before
    BY <2>2, <2>4, <2>5, <2>9
  <2> QED BY <2>6, <2>7, <2>8, <2>9, <2>10
<1> QED BY <1>2, <1>3, <1>4 DEF LInv, LedgerIsTheDocuments

LEMMA NextKeepsBooks == IInv /\ LInv /\ [Next]_vars => LInv'
<1> SUFFICES ASSUME IInv, LInv, [Next]_vars PROVE LInv'
  OBVIOUS
<1>1. CASE UNCHANGED vars
  <2>1. \A i \in Invoices : Applied(i)' = Applied(i)
    BY <1>1 DEF vars, Applied, InForce
  <2> QED BY <1>1, <2>1 DEF vars, LInv, Filed, NumberedApart, InForce, LedgerIsTheDocuments
<1>2. ASSUME NEW c \in Clerks, Receive(c) \/ Void(c) \/ Credit(c) PROVE LInv'
  BY <1>2, BeginsKeepBooks
<1>3. ASSUME NEW c \in Clerks, Fails(c) PROVE LInv'
  BY <1>3, EndKeepsBooks DEF Fails
<1>4. ASSUME NEW c \in Clerks, Step(c) PROVE LInv'
  BY <1>4, StepsKeepBooks, CommitReceiptKeepsBooks, CommitVoidKeepsBooks, CommitCreditKeepsBooks
     DEF Step
<1> QED BY <1>1, <1>2, <1>3, <1>4 DEF Next

LEMMA BooksInvariance == Spec => [](IInv /\ LInv)
<1>1. Init => LInv
  BY InitIsBooked
<1>2. IInv /\ LInv /\ [Next]_vars => LInv'
  BY NextKeepsBooks
<1> QED BY <1>1, <1>2, Invariance, PTL DEF Spec

(* The control account is, for each invoice, what it was issued for less   *)
(* the lines of the receipts in force and its credit notes: two voids that *)
(* overlap do not both give an amount back, and no receipt is booked twice *)
(* (the row lock of voidPayment, the numbering of create).                 *)
THEOREM TheLedgerAddsUp == Spec => []LedgerIsTheDocuments
<1>1. LInv => LedgerIsTheDocuments
  BY DEF LInv
<1> QED BY <1>1, BooksInvariance, PTL

-----------------------------------------------------------------------------
(* The advances.  AdvancesOverdrawn shows two transactions overdraw them;  *)
(* it takes two: one at a time, what was weighed is still so at the commit.*)
Weighed(k) ==
  k.at = "commit" =>
    /\ k.op = "receive" /\ k.draw > 0 => k.draw <= Outstanding
    /\ k.op = "void" => Unspent(k.receipt)
SInv == AdvancesAreNotOverdrawn /\ \A c \in Clerks : Weighed(call[c])

Advances == [r \in Receipts |-> Advanced(r)]

LEMMA OutstandingIs ==
  ASSUME IsFiniteSet(InForce) PROVE Outstanding = SumOver(Advances, InForce)
<1>1. PICK f : f = [r \in InForce |-> Advanced(r)]
  OBVIOUS
<1>2. \A r \in InForce : f[r] = Advances[r]
  BY <1>1 DEF InForce, Advances
<1>3. Outstanding = Total(f)
  BY <1>1 DEF Outstanding
<1> QED BY <1>1, <1>2, <1>3, TotalIs

LEMMA OutstandingNextIs ==
  ASSUME IsFiniteSet(InForce') PROVE Outstanding' = SumOver(Advances', InForce')
<1>1. PICK f : f = [r \in InForce' |-> Advanced(r)']
  OBVIOUS
<1>2. PICK g : g = Advances'
  OBVIOUS
<1>3. \A r \in InForce' : f[r] = g[r]
  BY <1>1, <1>2 DEF InForce, Advances
<1>4. Outstanding' = Total(f)
  BY <1>1 DEF Outstanding
<1> QED BY <1>1, <1>2, <1>3, <1>4, TotalIs

LEMMA SameReceiptsSameAdvances ==
  ASSUME receipt' = receipt
  PROVE  Outstanding' = Outstanding /\ \A r : Advanced(r)' = Advanced(r)
<1>1. \A r : Advanced(r)' = Advanced(r)
  BY DEF Advanced
<1>2. PICK f, g : f = [r \in InForce |-> Advanced(r)] /\ g = [r \in InForce' |-> Advanced(r)']
  OBVIOUS
<1>3. f = g
  BY <1>1, <1>2 DEF InForce
<1>4. Outstanding = Total(f) /\ Outstanding' = Total(g)
  BY <1>2 DEF Outstanding
<1> QED BY <1>1, <1>3, <1>4

LEMMA AdvancesAreInts ==
  ASSUME IInv, LInv
  PROVE  /\ \A r \in Receipts : Advances[r] \in Int /\ Advances[r] = Advanced(r)
         /\ Outstanding \in Int
<1>1. \A r \in Receipts : Advances[r] \in Int /\ Advances[r] = Advanced(r)
  BY Mine DEF IInv, TypeOK, Advances, Advanced, Receipt
<1>2. \A r \in InForce : Advances[r] \in Int
  BY <1>1 DEF InForce
<1> QED BY <1>1, <1>2, OutstandingIs, SumIsAnInt DEF LInv

LEMMA InitIsSolvent == Init => SInv
<1> SUFFICES ASSUME Init PROVE SInv
  OBVIOUS
<1>1. InForce = {} /\ IsFiniteSet(InForce)
  BY FS_EmptySet DEF Init, InForce, Unused
<1>2. Outstanding = 0
  BY <1>1, OutstandingIs, EmptySum
<1>3. \A c \in Clerks : Weighed(call[c])
  BY DEF Init, Weighed, Idle
<1> QED BY <1>2, <1>3 DEF SInv, AdvancesAreNotOverdrawn

(* The only transaction goes on, begins or ends.                           *)
LEMMA GoesKeepsSolvent ==
  ASSUME IInv, SInv, \A c, d \in Clerks : c = d, NEW c \in Clerks, NEW new, Goes(c, new),
         Weighed(new)
  PROVE  SInv'
<1>1. receipt' = receipt /\ \A d \in Clerks : call'[d] = new
  BY DEF Goes, IInv, TypeOK
<1>2. Outstanding' = Outstanding /\ \A r : Advanced(r)' = Advanced(r)
  BY <1>1, SameReceiptsSameAdvances
<1> QED BY <1>1, <1>2 DEF SInv, Weighed, Unspent, AdvancesAreNotOverdrawn

LEMMA SilentKeepsSolvent ==
  ASSUME IInv, SInv, \A c, d \in Clerks : c = d, NEW c \in Clerks,
         Receive(c) \/ Void(c) \/ Credit(c) \/ Fails(c) \/ LockNext(c) \/ ReadInvoices(c)
           \/ Apply(c) \/ LockReceipt(c) \/ ReadForVoid(c) \/ ReadForCredit(c)
  PROVE  SInv'
<1>0. call[c] \in Call /\ Sound(call[c])
  BY Mine
<1>1. ASSUME NEW new, Goes(c, new), new.at # "commit" PROVE SInv'
  BY <1>1, GoesKeepsSolvent DEF Weighed
<1>2. CASE Receive(c) \/ Void(c) \/ Credit(c)
  <2>1. CASE Receive(c)
    <3>1. PICK r \in Receipts, cash \in 0 .. MaxCash, draw \in 0 .. MaxAdvance,
               lines \in [Invoices -> 0 .. MaxCash] : \E new :
            /\ new = [Idle EXCEPT !.op = "receive", !.at = "lock", !.receipt = r, !.cash = cash,
                                  !.draw = draw, !.lines = lines, !.todo = Named(lines)]
            /\ Begin(c, new)
      BY <2>1 DEF Receive
    <3>2. \E new : new.at = "lock" /\ Begin(c, new)
      BY <3>1 DEF Idle
    <3> QED BY <1>1, <3>2 DEF Begin, Goes
  <2>2. CASE Void(c)
    <3>1. \E new : new.at = "receipt" /\ Begin(c, new)
      BY <2>2 DEF Void, Idle
    <3> QED BY <1>1, <3>1 DEF Begin, Goes
  <2>3. CASE Credit(c)
    <3>1. \E new : new.at = "lock" /\ Begin(c, new)
      BY <2>3 DEF Credit, Idle
    <3> QED BY <1>1, <3>1 DEF Begin, Goes
  <2> QED BY <1>2, <2>1, <2>2, <2>3
<1>3. CASE Goes(c, Idle)
  <2>1. Idle.at # "commit"
    BY DEF Idle
  <2> QED BY <1>1, <1>3, <2>1
<1>4. CASE LockNext(c) \/ ReadInvoices(c)
  <2>1. \E new : new.at # "commit" /\ Goes(c, new)
    BY <1>0, <1>4 DEF LockNext, ReadInvoices, Holding, Locked, Call
  <2> QED BY <1>1, <2>1
<1>5. CASE LockReceipt(c)
  <2>1. \E new : new.at # "commit" /\ Goes(c, new)
    BY <1>0, <1>5 DEF LockReceipt, ReadReceipt, Idle, Call
  <2> QED BY <1>1, <2>1
<1>6. CASE call[c].at = "apply" /\ Funded(c) /\ Goes(c, [Holding(c, Series) EXCEPT !.at = "commit"])
  <2>1. PICK new : new = [call[c] EXCEPT !.held = @ \cup {Series}, !.at = "commit"]
    OBVIOUS
  <2>2. new.op = call[c].op /\ new.draw = call[c].draw /\ call[c].op = "receive"
    BY <1>0, <1>6, <2>1 DEF Call, Sound, Asked
  <2>3. Weighed(new)
    BY <1>6, <2>2 DEF Weighed, Funded
  <2> QED BY <1>6, <2>1, <2>3, GoesKeepsSolvent DEF Holding
<1>7. CASE /\ Locked(c, "void") /\ Unspent(call[c].receipt)
           /\ Goes(c, [call[c] EXCEPT !.at = "commit", !.seen = Reading(c)])
  <2>1. PICK new : new = [call[c] EXCEPT !.at = "commit", !.seen = Reading(c)]
    OBVIOUS
  <2>2. new.op = "void" /\ new.receipt = call[c].receipt
    BY <1>0, <1>7, <2>1 DEF Call, Locked
  <2> QED BY <1>7, <2>1, <2>2, GoesKeepsSolvent DEF Weighed
<1>8. CASE /\ Locked(c, "credit")
           /\ Goes(c, [call[c] EXCEPT !.at = "commit", !.seen = Reading(c)])
  <2>1. PICK new : new = [call[c] EXCEPT !.at = "commit", !.seen = Reading(c)]
    OBVIOUS
  <2>2. new.op = "credit"
    BY <1>0, <1>8, <2>1 DEF Call, Locked
  <2> QED BY <1>8, <2>1, <2>2, GoesKeepsSolvent DEF Weighed
<1>9. CASE Apply(c)
  BY <1>3, <1>6, <1>9 DEF Apply
<1>10. CASE ReadForVoid(c)
  BY <1>3, <1>7, <1>10 DEF ReadForVoid
<1>11. CASE ReadForCredit(c)
  BY <1>3, <1>8, <1>11 DEF ReadForCredit
<1>12. CASE Fails(c)
  BY <1>3, <1>12 DEF Fails
<1> QED BY <1>2, <1>4, <1>5, <1>9, <1>10, <1>11, <1>12

LEMMA CommitsKeepSolvent ==
  ASSUME IInv, LInv, LInv', SInv, \A c, d \in Clerks : c = d, NEW c \in Clerks,
         CommitReceipt(c) \/ CommitVoid(c) \/ CommitCredit(c)
  PROVE  SInv'
<1>1. \A d \in Clerks : Weighed(call[d])'
  <2>1. call' = [call EXCEPT ![c] = Idle] /\ Idle.at # "commit"
    BY DEF CommitReceipt, CommitVoid, CommitCredit, Idle
  <2>2. \A d \in Clerks : call'[d].at # "commit"
    BY <2>1 DEF IInv, TypeOK
  <2> QED BY <2>2 DEF Weighed
<1>2. /\ IsFiniteSet(InForce) /\ IsFiniteSet(InForce') /\ Outstanding \in Int /\ Outstanding >= 0
      /\ \A r \in Receipts : Advances[r] \in Int /\ Advances[r] = Advanced(r)
  BY AdvancesAreInts DEF LInv, SInv, AdvancesAreNotOverdrawn
<1>3. Outstanding = SumOver(Advances, InForce) /\ Outstanding' = SumOver(Advances', InForce')
  BY <1>2, OutstandingIs, OutstandingNextIs
<1>4. PICK g, h, r : g = Advances /\ h = Advances' /\ r = call[c].receipt
  OBVIOUS
<1>5. ASSUME CommitCredit(c) PROVE Outstanding' >= 0
  BY <1>2, <1>5, SameReceiptsSameAdvances DEF CommitCredit
<1>6. ASSUME CommitReceipt(c) PROVE Outstanding' >= 0
  <2>1. /\ r \in Receipts /\ receipt[r].status = "none" /\ receipt \in [Receipts -> Receipt]
        /\ call[c].draw \in Nat /\ Surplus(call[c]) \in Nat
        /\ call[c].draw > 0 => call[c].draw <= Outstanding
    BY <1>4, <1>6, Mine DEF CommitReceipt, LInv, Filed, SInv, Weighed, Sound, Asked, Call
  <2>2. PICK row : row = [status |-> "Posted", lines |-> call[c].lines,
                          unapplied |-> Surplus(call[c]), drawn |-> call[c].draw]
    OBVIOUS
  <2>3. receipt' = [receipt EXCEPT ![r] = row]
    BY <1>4, <1>6, <2>2 DEF CommitReceipt
  <2>4. /\ receipt'[r] = row /\ \A s \in Receipts \ {r} : receipt'[s] = receipt[s]
    BY <2>1, <2>3
  <2>5. InForce' = InForce \cup {r} /\ r \notin InForce
    BY <2>1, <2>2, <2>4 DEF InForce
  <2>6. h[r] = Surplus(call[c]) - call[c].draw
    BY <1>4, <2>1, <2>2, <2>4 DEF Advances, Advanced
  <2>7. \A s \in InForce : g[s] \in Int /\ h[s] = g[s]
    BY <1>2, <1>4, <2>4, <2>5 DEF Advances, Advanced, InForce
  <2>8. PICK surplus, draw : surplus = Surplus(call[c]) /\ draw = call[c].draw
    OBVIOUS
  <2>9. h[r] \in Int /\ h[r] = surplus - draw /\ surplus \in Nat /\ draw \in Nat
    BY <2>1, <2>6, <2>8
  <2>10. SumOver(h, InForce \cup {r}) = SumOver(g, InForce) + h[r]
    <3>1. IsFiniteSet(InForce)
      BY <1>2
    <3>2. PICK S : S = InForce
      OBVIOUS
    <3>3. r \notin S /\ h[r] \in Int
      BY <2>5, <2>9, <3>2
    <3>4. \A s \in S : g[s] \in Int /\ h[s] = g[s]
      BY <2>7, <3>2
    <3>5. SumOver(h, S \cup {r}) = SumOver(g, S) + h[r]
      BY <3>1, <3>2, <3>3, <3>4, SumWith
    <3> QED BY <3>2, <3>5
  <2>11. Outstanding' = Outstanding + h[r]
    BY <1>3, <1>4, <2>5, <2>10
  <2> QED BY <1>2, <2>1, <2>8, <2>9, <2>11
<1>7. ASSUME CommitVoid(c) PROVE Outstanding' >= 0
  <2>1. /\ r \in Receipts /\ receipt[r].status = "Posted" /\ receipt \in [Receipts -> Receipt]
        /\ Unspent(r)
    BY <1>4, <1>7, Mine DEF CommitVoid, LInv, Filed, SInv, Weighed, Sound, Asked
  <2>2. (\A s \in Receipts \ {r} : receipt'[s] = receipt[s]) /\ receipt'[r].status = "Void"
    BY <1>4, <1>7, <2>1 DEF CommitVoid, Receipt
  <2>3. InForce' = InForce \ {r} /\ r \in InForce
    BY <2>1, <2>2 DEF InForce
  <2>4. \A s \in InForce \ {r} : g[s] \in Int /\ h[s] = g[s]
    BY <1>2, <1>4, <2>2 DEF Advances, Advanced, InForce
  <2>5. g[r] \in Int /\ g[r] = Advanced(r)
    BY <1>2, <1>4, <2>1
  <2>6. SumOver(h, InForce \ {r}) = SumOver(g, InForce) - g[r]
    BY <1>2, <2>3, <2>4, <2>5, SumLess
  <2>7. Outstanding' = Outstanding - g[r]
    BY <1>3, <1>4, <2>3, <2>6
  <2>8. g[r] > 0 => Outstanding - g[r] >= 0
    BY <2>1, <2>5 DEF Unspent
  <2> QED BY <1>2, <2>5, <2>7, <2>8
<1>8. Outstanding' >= 0
  BY <1>5, <1>6, <1>7
<1> QED BY <1>1, <1>8 DEF SInv, AdvancesAreNotOverdrawn

LEMMA NextKeepsSolvent ==
  ASSUME \A c, d \in Clerks : c = d, IInv, LInv, LInv', SInv, [Next]_vars PROVE SInv'
<1>1. CASE UNCHANGED vars
  <2>1. Outstanding' = Outstanding /\ \A r : Advanced(r)' = Advanced(r)
    BY <1>1, SameReceiptsSameAdvances DEF vars
  <2> QED BY <1>1, <2>1 DEF vars, SInv, Weighed, Unspent, AdvancesAreNotOverdrawn
<1>2. ASSUME NEW c \in Clerks, CommitReceipt(c) \/ CommitVoid(c) \/ CommitCredit(c)
      PROVE  SInv'
  BY <1>2, CommitsKeepSolvent
<1>3. ASSUME NEW c \in Clerks,
             Receive(c) \/ Void(c) \/ Credit(c) \/ Fails(c) \/ LockNext(c) \/ ReadInvoices(c)
               \/ Apply(c) \/ LockReceipt(c) \/ ReadForVoid(c) \/ ReadForCredit(c)
      PROVE  SInv'
  BY <1>3, SilentKeepsSolvent
<1> QED BY <1>1, <1>2, <1>3 DEF Next, Step

(* Served one at a time, receipts and voids never leave the customer with  *)
(* a negative balance on account, as customer-payment.entity.ts says: what *)
(* create and voidPayment read without a lock then is still so.            *)
THEOREM AloneNothingIsOverdrawn ==
  ASSUME \A c, d \in Clerks : c = d
  PROVE  Spec => []AdvancesAreNotOverdrawn
<1>1. Init => SInv
  BY InitIsSolvent
<1>2. IInv /\ LInv /\ LInv' /\ SInv /\ [Next]_vars => SInv'
  BY NextKeepsSolvent
<1>3. SInv => AdvancesAreNotOverdrawn
  BY DEF SInv
<1> QED BY <1>1, <1>2, <1>3, BooksInvariance, PTL DEF Spec

-----------------------------------------------------------------------------
(* The refinement: a commit is one abstract operation, the rest is silent. *)
LEMMA InitImplements == Init => Collected!Init
<1> SUFFICES ASSUME Init PROVE Collected!Init
  OBVIOUS
<1>1. [i \in Invoices |-> invoice[i].balance] = Net
  BY ReceivablesAssumption DEF Init
<1>2. [i \in Invoices |-> invoice[i].credited] = [i \in Invoices |-> 0]
  BY DEF Init
<1> QED BY <1>1, <1>2 DEF Init, Collected!Init

LEMMA SilentSteps ==
  UNCHANGED <<invoice, receivable>> => UNCHANGED Collected!vars
  BY DEF Collected!vars

LEMMA CommitReceiptImplements ==
  ASSUME IInv, NEW c \in Clerks, CommitReceipt(c) PROVE Collected!Collect
<1>1. PICK part : part = call[c].lines
  OBVIOUS
<1>2. call[c].op = "receive" /\ call[c].at = "commit"
  BY DEF CommitReceipt
<1>3. ASSUME NEW i \in Invoices
      PROVE  /\ part[i] \in 0 .. Net[i] /\ part[i] <= invoice[i].balance
             /\ invoice'[i].balance = invoice[i].balance - part[i]
             /\ invoice'[i].credited = invoice[i].credited
  <2>1. CASE i \notin Named(call[c].lines)
    <3>1. invoice'[i] = invoice[i] /\ part[i] = 0
      BY <1>1, <1>2, <2>1, AtCommit DEF CommitReceipt
    <3> QED BY <3>1, Books
  <2>2. CASE i \in Named(call[c].lines)
    <3>1. invoice'[i] = AfterReceipt(invoice[i], part[i]) /\ invoice[i] \in Invoice
      BY <1>1, <1>2, <2>2, AtCommit, Books DEF CommitReceipt
    <3>2. part[i] \in Nat /\ part[i] > 0 /\ part[i] <= invoice[i].balance
      BY <1>1, <1>2, <2>2, AtCommit
    <3> QED BY <3>1, <3>2, AfterReceiptIs, Books
  <2> QED BY <2>1, <2>2
<1>4. part \in [Invoices -> UNION {0 .. Net[i] : i \in Invoices}]
  BY <1>1, <1>3, Mine DEF Call, Amounts
<1>5. /\ [i \in Invoices |-> invoice'[i].balance] = [i \in Invoices |-> invoice[i].balance - part[i]]
      /\ [i \in Invoices |-> invoice'[i].credited] = [i \in Invoices |-> invoice[i].credited]
      /\ receivable' = [i \in Invoices |-> receivable[i] - part[i]]
  BY <1>1, <1>3 DEF CommitReceipt
<1> QED BY <1>3, <1>4, <1>5 DEF Collected!Collect, Collected!Amounts

LEMMA CommitVoidImplements ==
  ASSUME IInv, NEW c \in Clerks, CommitVoid(c) PROVE Collected!GiveBack
<1>1. PICK part : part = call[c].lines
  OBVIOUS
<1>2. call[c].op = "void" /\ call[c].at = "commit"
  BY DEF CommitVoid
<1>3. ASSUME NEW i \in Invoices
      PROVE  /\ part[i] \in 0 .. Net[i]
             /\ part[i] > 0 => invoice[i].balance + part[i] <= Net[i]
             /\ invoice'[i].balance = invoice[i].balance + part[i]
             /\ invoice'[i].credited = invoice[i].credited
  <2>1. CASE i \notin Named(call[c].lines)
    <3>1. invoice'[i] = invoice[i] /\ part[i] = 0
      BY <1>1, <1>2, <2>1, AtCommit DEF CommitVoid
    <3> QED BY <3>1, Books
  <2>2. CASE i \in Named(call[c].lines)
    <3>1. invoice'[i] = AfterVoid(i, invoice[i], part[i]) /\ invoice[i] \in Invoice
      BY <1>1, <1>2, <2>2, AtCommit, Books DEF CommitVoid
    <3>2. part[i] \in Nat /\ part[i] > 0 /\ invoice[i].balance + part[i] <= Net[i]
      BY <1>1, <1>2, <2>2, AtCommit
    <3>3. /\ invoice'[i].balance = invoice[i].balance + part[i]
          /\ invoice'[i].credited = invoice[i].credited
      BY <3>1, <3>2, AfterVoidIs
    <3>4. part[i] <= Net[i]
      BY <3>2, Books
    <3> QED BY <3>2, <3>3, <3>4, Books
  <2> QED BY <2>1, <2>2
<1>4. part \in [Invoices -> UNION {0 .. Net[i] : i \in Invoices}]
  BY <1>1, <1>3, Mine DEF Call, Amounts
<1>5. /\ [i \in Invoices |-> invoice'[i].balance] = [i \in Invoices |-> invoice[i].balance + part[i]]
      /\ [i \in Invoices |-> invoice'[i].credited] = [i \in Invoices |-> invoice[i].credited]
      /\ receivable' = [i \in Invoices |-> receivable[i] + part[i]]
  BY <1>1, <1>3 DEF CommitVoid
<1> QED BY <1>3, <1>4, <1>5 DEF Collected!GiveBack, Collected!Amounts

LEMMA CommitCreditImplements ==
  ASSUME IInv, NEW c \in Clerks, CommitCredit(c)
  PROVE  \E i \in Invoices : \E amount \in 1 .. Net[i] : Collected!Credit(i, amount)
<1>1. call[c].op = "credit" /\ call[c].at = "commit"
  BY DEF CommitCredit
<1>2. PICK i \in Invoices : \E amount \in 1 .. Net[i] :
        call[c].lines = [Nothing EXCEPT ![i] = amount]
  BY <1>1, Mine DEF Sound, Asked
<1>3. PICK amount \in 1 .. Net[i] : call[c].lines = [Nothing EXCEPT ![i] = amount]
  BY <1>2
<1>4. /\ call[c].lines[i] = amount /\ amount \in Nat /\ amount > 0
      /\ \A j \in Invoices \ {i} : call[c].lines[j] = 0
  BY <1>3, Books DEF Nothing
<1>5. i \in Named(call[c].lines) /\ \A j \in Invoices \ {i} : j \notin Named(call[c].lines)
  BY <1>4 DEF Named
<1>6. \A j \in Invoices \ {i} : invoice'[j] = invoice[j] /\ receivable'[j] = receivable[j]
  BY <1>4, <1>5, Books DEF CommitCredit
<1>7. invoice'[i] = AfterCredit(i, invoice[i], amount) /\ receivable'[i] = receivable[i] - amount
  BY <1>1, <1>4, <1>5, AtCommit DEF CommitCredit
<1>8. amount <= Net[i] - invoice[i].credited
  BY <1>1, <1>4, <1>5, AtCommit DEF Creditable
<1>9. PICK credited : credited = invoice[i].credited + amount /\ credited \in Nat
  BY <1>4, Books
<1>10. credited = Net[i] <=> amount = Net[i] - invoice[i].credited
  BY <1>4, <1>9, Books
<1>11. /\ invoice'[i].credited = credited
       /\ invoice'[i].balance = IF amount > invoice[i].balance \/ credited = Net[i] THEN 0
                                ELSE invoice[i].balance - amount
  BY <1>7, <1>9, <1>10 DEF AfterCredit
<1>12. PICK owed, owed1, credits, credits1 :
         /\ owed = [j \in Invoices |-> invoice[j].balance]
         /\ owed1 = [j \in Invoices |-> invoice'[j].balance]
         /\ credits = [j \in Invoices |-> invoice[j].credited]
         /\ credits1 = [j \in Invoices |-> invoice'[j].credited]
  OBVIOUS
<1>13. /\ owed[i] = invoice[i].balance /\ owed1[i] = invoice'[i].balance
       /\ credits[i] = invoice[i].credited /\ credits1[i] = credited
       /\ \A j \in Invoices \ {i} : owed1[j] = owed[j] /\ credits1[j] = credits[j]
  BY <1>6, <1>11, <1>12
<1>14. credits1 = [credits EXCEPT ![i] = credits[i] + amount]
  BY <1>9, <1>12, <1>13
<1>15. owed1 = [owed EXCEPT ![i] = IF amount > owed[i] \/ credits1[i] = Net[i] THEN 0
                                   ELSE owed[i] - amount]
  BY <1>11, <1>12, <1>13
<1>16. receivable' = [receivable EXCEPT ![i] = receivable[i] - amount]
  BY <1>6, <1>7 DEF CommitCredit, IInv, TypeOK
<1>17. credits[i] + amount <= Net[i]
  BY <1>4, <1>8, <1>13, Books
<1>18. Collected!Credit(i, amount)
  BY <1>12, <1>14, <1>15, <1>16, <1>17 DEF Collected!Credit
<1> QED BY <1>3, <1>18

LEMMA NextImplements == IInv /\ [Next]_vars => [Collected!Next]_(Collected!vars)
<1> SUFFICES ASSUME IInv, [Next]_vars PROVE [Collected!Next]_(Collected!vars)
  OBVIOUS
<1>1. CASE UNCHANGED vars
  BY <1>1, SilentSteps DEF vars
<1>2. ASSUME NEW c \in Clerks, CommitReceipt(c) PROVE Collected!Next
  BY <1>2, CommitReceiptImplements DEF Collected!Next
<1>3. ASSUME NEW c \in Clerks, CommitVoid(c) PROVE Collected!Next
  BY <1>3, CommitVoidImplements DEF Collected!Next
<1>4. ASSUME NEW c \in Clerks, CommitCredit(c) PROVE Collected!Next
  BY <1>4, CommitCreditImplements DEF Collected!Next
<1>5. ASSUME NEW c \in Clerks, Receive(c) \/ Void(c) \/ Credit(c) \/ Fails(c)
      PROVE  UNCHANGED Collected!vars
  BY <1>5, SilentSteps DEF Receive, Void, Credit, Fails, Begin, Goes
<1>6. ASSUME NEW c \in Clerks, LockNext(c) \/ ReadInvoices(c) \/ Apply(c) \/ LockReceipt(c)
                              \/ ReadForVoid(c) \/ ReadForCredit(c)
      PROVE  UNCHANGED Collected!vars
  BY <1>6, SilentSteps
     DEF LockNext, ReadInvoices, Apply, LockReceipt, ReadReceipt, ReadForVoid, ReadForCredit, Goes
<1> QED BY <1>1, <1>2, <1>3, <1>4, <1>5, <1>6 DEF Next, Step

(* Every behaviour of the overlapping transactions is one of documents     *)
(* changed one operation at a time.                                        *)
THEOREM SpecImplementsCollections == Spec => ImplementsCollections
<1>1. Init => Collected!Init
  BY InitImplements
<1>2. IInv /\ [Next]_vars => [Collected!Next]_(Collected!vars)
  BY NextImplements
<1>3. Spec => Collected!Spec
  BY <1>1, <1>2, Invariance, PTL DEF Spec, Collected!Spec
<1> QED BY <1>3 DEF ImplementsCollections
=============================================================================
