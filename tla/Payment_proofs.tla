--------------------------- MODULE Payment_proofs ---------------------------
(***************************************************************************)
(* Theorems about module Payment, for any messages and orders and any set  *)
(* of faults.                                                              *)
(***************************************************************************)
EXTENDS Payment, TLAPS

-----------------------------------------------------------------------------
(* The inductive invariant.                                                *)

\* The rows of a transaction that is complete.
FinalRows(d) ==
  IF d \in charged
  THEN [payment |-> "COMPLETED", event |-> "PaymentCompleted", attempt |-> FALSE]
  ELSE [payment |-> "FAILED", event |-> "PaymentFailed", attempt |-> TRUE]

\* What the transaction of d has saved when the handler reaches a statement.
Saved(d) ==
  CASE pc[d] \in {"provider", "saveResult"} ->
         [payment |-> "PROCESSING", event |-> "none", attempt |-> FALSE]
    [] pc[d] = "saveEvent" ->
         [payment |-> FinalRows(d).payment, event |-> "none", attempt |-> FALSE]
    [] pc[d] = "saveAttempt" -> [FinalRows(d) EXCEPT !.attempt = FALSE]
    [] pc[d] = "commit" -> FinalRows(d)
    [] OTHER -> NoRows

\* The open transaction holds what the statements so far have saved, and an
\* attempt is saved only for a payment that the provider declined.
TransactionsFit ==
  \A d \in Deliveries : /\ tx[d] = Saved(d)
                        /\ pc[d] = "saveAttempt" => d \notin charged

\* Until its commit, a handler has made no payment; until it has called the
\* provider, it has charged nobody.
NothingBeforeItsTime ==
  \A d \in Deliveries :
    /\ pc[d] \in {"queued", "find"} \cup InTransaction => db[d] = NoRows
    /\ pc[d] \in {"queued", "find", "insert", "provider"} => d \notin charged

\* A handler marks its event only when its order has a payment.
MarkersSawPayment ==
  \A d \in Deliveries : pc[d] = "mark" => Paid(OrderOf[d])

\* Two handlers of one order are running only if the order is overlapped.
RunningAlone ==
  \A d, x \in Deliveries :
    Running(d) /\ Running(x) /\ OrderOf[d] = OrderOf[x] =>
      d = x \/ OrderOf[d] \in overlapped

\* A handler inside its transaction is the first for its order.
FirstPayment ==
  \A d, x \in Deliveries :
    pc[d] \in InTransaction /\ OrderOf[x] = OrderOf[d] =>
      db[x] = NoRows \/ OrderOf[d] \in overlapped

IInv == /\ TypeOK
        /\ TransactionsFit
        /\ NothingBeforeItsTime
        /\ PaymentsAreAnnounced
        /\ MarkersSawPayment
        /\ ProcessedIsPaid
        /\ RunningAlone
        /\ FirstPayment
        /\ OnePaymentUnlessOverlapped

-----------------------------------------------------------------------------
(* Facts about the operators.                                              *)

\* A statement of the transaction sets one column.
LEMMA RowUpdates ==
  ASSUME NEW r \in Rows, NEW x
  PROVE  /\ [r EXCEPT !.payment = x]
              = [payment |-> x, event |-> r.event, attempt |-> r.attempt]
         /\ [r EXCEPT !.event = x]
              = [payment |-> r.payment, event |-> x, attempt |-> r.attempt]
         /\ [r EXCEPT !.attempt = x]
              = [payment |-> r.payment, event |-> r.event, attempt |-> x]
  BY DEF Rows

\* What a transaction has saved when it is complete is a set of rows.
LEMMA FinalRowsTyped ==
  ASSUME NEW d \in Deliveries
  PROVE  FinalRows(d) \in Rows /\ FinalRows(d) # NoRows
  BY DEF FinalRows, Rows, NoRows

\* An order with a payment keeps it.
LEMMA PaidStaysPaid ==
  ASSUME \A x \in Deliveries : db[x].payment # "none" => db'[x].payment # "none",
         NEW o, Paid(o)
  PROVE  Paid(o)'
  BY DEF Paid

\* What is committed is complete.
LEMMA CommittedRowsAreFinal ==
  ASSUME PaymentsAreAnnounced, NEW d \in Deliveries, db[d] # NoRows
  PROVE  db[d] = FinalRows(d) /\ db[d].payment # "none"
  <1>1. db[d] = FinalRows(d)
    BY DEF PaymentsAreAnnounced, FinalRows
  <1> QED
    BY <1>1 DEF FinalRows

\* When the handler of d moves on, and has just started or was running
\* already, RunningAlone still holds.
LEMMA MoveKeepsRunningAlone ==
  ASSUME TypeOK, RunningAlone, NEW d \in Deliveries, NEW label,
         pc' = [pc EXCEPT ![d] = label],
         \/ Start(d)
         \/ (Running(d) \/ label = "done") /\ overlapped' = overlapped
  PROVE  /\ RunningAlone'
         /\ overlapped \subseteq overlapped'
         /\ overlapped' \subseteq Orders
  <1>1. overlapped \subseteq overlapped' /\ overlapped' \subseteq Orders
    BY OrderOfAssumption DEF Start, TypeOK
  <1>2. ASSUME NEW x \in Deliveries, NEW y \in Deliveries, x # y,
               Running(x)', Running(y)', OrderOf[x] = OrderOf[y]
        PROVE  OrderOf[x] \in overlapped'
    <2>1. CASE (x = d \/ y = d) /\ Start(d)
      BY <1>2, <2>1 DEF Start, Running, SameOrder, TypeOK
    <2>2. CASE (x = d \/ y = d) /\ Running(d)
      BY <1>1, <1>2, <2>2 DEF RunningAlone, Running, TypeOK
    <2>3. CASE x # d /\ y # d
      BY <1>1, <1>2, <2>3 DEF RunningAlone, Running, TypeOK
    <2>4. CASE (x = d \/ y = d) /\ label = "done"
      BY <1>2, <2>4 DEF Running, TypeOK
    <2> QED
      BY <2>1, <2>2, <2>3, <2>4
  <1> QED
    BY <1>1, <1>2 DEF RunningAlone
-----------------------------------------------------------------------------
(* The steps that preserve the invariant.                                  *)

Labels == {"queued", "find", "mark", "done"} \cup InTransaction

\* A step of the handler of d to a statement it may run next, with what the
\* invariant asks of a handler there, while the committed rows stay.
MovesTo(d, label) ==
  /\ label \in Labels \ {"queued"}
  /\ pc' = [pc EXCEPT ![d] = label]
  /\ \/ Start(d)
     \/ (Running(d) \/ label = "done") /\ overlapped' = overlapped
  /\ tx' \in [Deliveries -> Rows]
  /\ \A x \in Deliveries \ {d} : tx'[x] = tx[x]
  /\ tx'[d] = Saved(d)'
  /\ \/ charged' = charged
     \/ pc[d] = "provider" /\ charged' = charged \cup {d}
  /\ label \in {"find", "insert", "provider", "saveAttempt"} => d \notin charged'
  /\ db' = db /\ processed' = processed
  /\ label \in {"find"} \cup InTransaction => db[d] = NoRows
  /\ label \in InTransaction =>
       \/ pc[d] \in InTransaction
       \/ \A x \in SameOrder(d) : db[x] = NoRows
  /\ label = "mark" => Paid(OrderOf[d])

LEMMA MovesToKeepsIInv ==
  ASSUME IInv, NEW d \in Deliveries, NEW label, MovesTo(d, label)
  PROVE  IInv'
  <1> USE DEF IInv
  <1>1. /\ label \in Labels \ {"queued"} /\ pc' = [pc EXCEPT ![d] = label]
        /\ db' = db /\ processed' = processed
        /\ charged \subseteq charged' /\ charged' \subseteq charged \cup {d}
        /\ charged' = charged \/ pc[d] = "provider"
    BY DEF MovesTo
  <1>2. /\ RunningAlone'
        /\ overlapped \subseteq overlapped' /\ overlapped' \subseteq Orders
    BY MoveKeepsRunningAlone DEF MovesTo
  <1>3. TypeOK'
    BY <1>1, <1>2 DEF MovesTo, TypeOK, Labels
  <1>4. TransactionsFit'
    <2>1. ASSUME NEW x \in Deliveries, x # d
          PROVE  /\ pc'[x] = pc[x] /\ Saved(x)' = Saved(x)
                 /\ x \in charged' <=> x \in charged
      BY <1>1, <2>1 DEF Saved, FinalRows, TypeOK
    <2> QED
      BY <1>1, <2>1 DEF TransactionsFit, MovesTo, TypeOK
  <1>5. NothingBeforeItsTime'
    BY <1>1 DEF NothingBeforeItsTime, MovesTo, TypeOK, Labels, InTransaction
  <1>6. PaymentsAreAnnounced'
    BY <1>1 DEF PaymentsAreAnnounced, NothingBeforeItsTime, InTransaction
  <1>7. MarkersSawPayment' /\ ProcessedIsPaid'
    BY <1>1 DEF MarkersSawPayment, ProcessedIsPaid, Paid, MovesTo, TypeOK
  <1>8. FirstPayment'
    BY <1>1, <1>2 DEF FirstPayment, MovesTo, SameOrder, TypeOK
  <1>9. OnePaymentUnlessOverlapped'
    BY <1>1, <1>2 DEF OnePaymentUnlessOverlapped, OnePayment
  <1> QED
    BY <1>2, <1>3, <1>4, <1>5, <1>6, <1>7, <1>8, <1>9

\* The end of a handler, however it comes about.
LEMMA EndKeepsIInv ==
  ASSUME IInv, NEW d \in Deliveries, EndTransaction(d, "done"),
         UNCHANGED <<processed, db, charged>>,
         Start(d) \/ overlapped' = overlapped
  PROVE  IInv'
  <1>1. MovesTo(d, "done")
    <2>1. NoRows \in Rows
      BY DEF NoRows, Rows
    <2> QED
      BY <2>1 DEF MovesTo, EndTransaction, Goto, Labels, InTransaction, IInv,
                  TypeOK, Saved
  <1> QED
    BY <1>1, MovesToKeepsIInv

LEMMA CheckProcessedKeepsIInv ==
  ASSUME IInv, NEW d \in Deliveries, CheckProcessed(d)
  PROVE  IInv'
  <1>1. pc[d] = "queued" /\ d \notin charged /\ db[d] = NoRows /\ tx[d] = NoRows
    BY DEF CheckProcessed, Start, IInv, NothingBeforeItsTime, TransactionsFit, Saved
  <1>2. MovesTo(d, "done") \/ MovesTo(d, "find")
    BY <1>1 DEF CheckProcessed, MovesTo, Goto, Labels, InTransaction, IInv,
                TypeOK, Saved
  <1> QED
    BY <1>2, MovesToKeepsIInv

\* findByOrderId: no committed payment, no other transaction of this order.
LEMMA FindExistingKeepsIInv ==
  ASSUME IInv, NEW d \in Deliveries, FindExisting(d)
  PROVE  IInv'
  <1>1. /\ pc[d] = "find" /\ d \notin charged /\ db[d] = NoRows /\ tx[d] = NoRows
        /\ UNCHANGED <<processed, db, tx, charged, overlapped>>
    BY DEF FindExisting, IInv, NothingBeforeItsTime, TransactionsFit, Saved
  <1>2. CASE ExistingPayment(d)
    <2>1. MovesTo(d, "mark")
      BY <1>1, <1>2
      DEF FindExisting, ExistingPayment, MovesTo, Goto, Labels, InTransaction,
          IInv, TypeOK, Saved, Running, Paid, SameOrder
    <2> QED
      BY <2>1, MovesToKeepsIInv
  <1>3. CASE ~ExistingPayment(d)
    <2>1. \A x \in SameOrder(d) : db[x] = NoRows
      BY <1>3, CommittedRowsAreFinal DEF ExistingPayment, IInv, SameOrder
    <2>2. MovesTo(d, "insert")
      BY <1>1, <1>3, <2>1
      DEF FindExisting, MovesTo, Goto, Labels, InTransaction, IInv, TypeOK,
          Saved, Running
    <2> QED
      BY <2>2, MovesToKeepsIInv
  <1> QED
    BY <1>2, <1>3

\* A statement that saves what the invariant expects keeps it.
LEMMA SaveKeepsIInv ==
  ASSUME IInv, NEW d \in Deliveries, NEW label \in InTransaction,
         NEW next \in InTransaction, NEW rows \in Rows,
         Save(d, label, rows, next), rows = Saved(d)',
         next \in {"insert", "provider", "saveAttempt"} => d \notin charged
  PROVE  IInv'
  <1>1. MovesTo(d, next)
    BY DEF Save, MovesTo, Goto, Labels, InTransaction, IInv, TypeOK, Running,
           NothingBeforeItsTime
  <1> QED
    BY <1>1, MovesToKeepsIInv

LEMMA ProviderKeepsIInv ==
  ASSUME IInv, NEW d \in Deliveries, ProviderAccepts(d) \/ ProviderDeclines(d)
  PROVE  IInv'
  <1>1. db[d] = NoRows /\ tx[d] = Saved(d)
    BY DEF ProviderAccepts, ProviderDeclines, InTransaction, IInv,
           NothingBeforeItsTime, TransactionsFit
  <1>2. MovesTo(d, "saveResult")
    BY <1>1 DEF ProviderAccepts, ProviderDeclines, MovesTo, Goto, Labels,
                InTransaction, IInv, TypeOK, Saved, Running
  <1> QED
    BY <1>2, MovesToKeepsIInv

LEMMA SavePaymentKeepsIInv ==
  ASSUME IInv, NEW d \in Deliveries, SavePayment(d)
  PROVE  IInv'
  <1> DEFINE rows == [NoRows EXCEPT !.payment = "PROCESSING"]
  <1>1. /\ pc[d] = "insert" /\ pc'[d] = "provider" /\ charged' = charged
        /\ Save(d, "insert", rows, "provider")
    BY DEF SavePayment, Save, Goto, IInv, TypeOK
  <1>2. d \notin charged
    BY <1>1 DEF IInv, NothingBeforeItsTime
  <1>3. rows = [payment |-> "PROCESSING", event |-> "none", attempt |-> FALSE]
    <2>1. /\ NoRows \in Rows
          /\ NoRows.event = "none" /\ NoRows.attempt = FALSE
      BY DEF NoRows, Rows
    <2> QED
      BY <2>1, RowUpdates
  <1>4. rows \in Rows /\ rows = Saved(d)'
    BY <1>1, <1>3 DEF Saved, Rows
  <1> QED
    BY <1>1, <1>2, <1>4, SaveKeepsIInv DEF InTransaction

LEMMA SaveResultKeepsIInv ==
  ASSUME IInv, NEW d \in Deliveries, SaveResult(d)
  PROVE  IInv'
  <1> DEFINE result == IF Success(d) THEN "COMPLETED" ELSE "FAILED"
             rows == [tx[d] EXCEPT !.payment = result]
  <1>1. /\ pc[d] = "saveResult" /\ pc'[d] = "saveEvent" /\ charged' = charged
        /\ Save(d, "saveResult", rows, "saveEvent")
    BY DEF SaveResult, Save, Goto, IInv, TypeOK
  <1>2. tx[d] = [payment |-> "PROCESSING", event |-> "none", attempt |-> FALSE]
    BY <1>1 DEF IInv, TransactionsFit, Saved
  <1>3. rows = [payment |-> result, event |-> "none", attempt |-> FALSE]
    <2>1. tx[d] \in Rows
      BY DEF IInv, TypeOK
    <2>2. rows = [payment |-> result, event |-> tx[d].event, attempt |-> tx[d].attempt]
      BY <2>1, RowUpdates
    <2> QED
      BY <1>2, <2>2
  <1>4. rows \in Rows
    BY <1>3 DEF Rows
  <1>5. rows = Saved(d)'
    BY <1>1, <1>3 DEF Saved, FinalRows, Success
  <1> QED
    BY <1>1, <1>4, <1>5, SaveKeepsIInv DEF InTransaction

LEMMA SaveEventKeepsIInv ==
  ASSUME IInv, NEW d \in Deliveries, SaveEvent(d)
  PROVE  IInv'
  <1> DEFINE type == IF Success(d) THEN "PaymentCompleted" ELSE "PaymentFailed"
             next == IF Success(d) THEN "commit" ELSE "saveAttempt"
             rows == [tx[d] EXCEPT !.event = type]
  <1>1. /\ pc[d] = "saveEvent" /\ pc'[d] = next /\ charged' = charged
        /\ Save(d, "saveEvent", rows, next)
    BY DEF SaveEvent, Save, Goto, IInv, TypeOK
  <1>2. tx[d] = [payment |-> FinalRows(d).payment, event |-> "none",
                 attempt |-> FALSE]
    BY <1>1 DEF IInv, TransactionsFit, Saved
  <1>3. rows = [payment |-> FinalRows(d).payment, event |-> type,
                attempt |-> FALSE]
    <2>1. tx[d] \in Rows
      BY DEF IInv, TypeOK
    <2>2. rows = [payment |-> tx[d].payment, event |-> type, attempt |-> tx[d].attempt]
      BY <2>1, RowUpdates
    <2> QED
      BY <1>2, <2>2
  <1>4. CASE Success(d)
    <2>1. rows = FinalRows(d)
      BY <1>3, <1>4 DEF FinalRows, Success
    <2>2. rows = Saved(d)'
      BY <1>1, <1>4, <2>1 DEF Saved, FinalRows
    <2> QED
      BY <1>1, <1>4, <2>1, <2>2, FinalRowsTyped, SaveKeepsIInv DEF InTransaction
  <1>5. CASE ~Success(d)
    <2>1. rows = [payment |-> "FAILED", event |-> "PaymentFailed",
                  attempt |-> FALSE]
      BY <1>3, <1>5 DEF FinalRows, Success
    <2>2. Saved(d)' = [FinalRows(d) EXCEPT !.attempt = FALSE]
      BY <1>1, <1>5 DEF Saved, FinalRows
    <2>3. rows = Saved(d)' /\ rows \in Rows
      BY <1>5, <2>1, <2>2 DEF FinalRows, Success, Rows
    <2> QED
      BY <1>1, <1>5, <2>3, SaveKeepsIInv DEF InTransaction, Success
  <1> QED
    BY <1>4, <1>5

LEMMA SaveAttemptKeepsIInv ==
  ASSUME IInv, NEW d \in Deliveries, SaveAttempt(d)
  PROVE  IInv'
  <1> DEFINE rows == [tx[d] EXCEPT !.attempt = TRUE]
  <1>1. /\ pc[d] = "saveAttempt" /\ pc'[d] = "commit" /\ charged' = charged
        /\ Save(d, "saveAttempt", rows, "commit")
    BY DEF SaveAttempt, Save, Goto, IInv, TypeOK
  <1>2. tx[d] = [FinalRows(d) EXCEPT !.attempt = FALSE] /\ d \notin charged
    BY <1>1 DEF IInv, TransactionsFit, Saved
  <1>3. rows = FinalRows(d)
    <2>1. FinalRows(d) = [payment |-> "FAILED", event |-> "PaymentFailed",
                          attempt |-> TRUE]
      BY <1>2 DEF FinalRows
    <2>2. tx[d] = [payment |-> FinalRows(d).payment, event |-> FinalRows(d).event,
                   attempt |-> FALSE]
      BY <1>2, FinalRowsTyped, RowUpdates
    <2>3. tx[d] \in Rows
      BY DEF IInv, TypeOK
    <2>4. rows = [payment |-> tx[d].payment, event |-> tx[d].event,
                  attempt |-> TRUE]
      BY <2>3, RowUpdates
    <2> QED
      BY <2>1, <2>2, <2>4
  <1>4. rows = Saved(d)'
    BY <1>1, <1>3 DEF Saved, FinalRows
  <1> QED
    BY <1>1, <1>3, <1>4, FinalRowsTyped, SaveKeepsIInv DEF InTransaction

\* The transaction commits, seen by the handler or not.  All other handlers
\* of an order that is not overlapped are over or not started.
LEMMA CommitKeepsIInv ==
  ASSUME IInv, NEW d \in Deliveries, NEW label \in {"mark", "done"},
         pc[d] = "commit", CommitRows(d), EndTransaction(d, label),
         UNCHANGED <<processed, charged, overlapped>>
  PROVE  IInv'
  <1> USE DEF IInv
  <1>1. /\ pc' = [pc EXCEPT ![d] = label]
        /\ tx' = [tx EXCEPT ![d] = NoRows]
        /\ db' = [db EXCEPT ![d] = FinalRows(d)]
        /\ db[d] = NoRows
    BY DEF CommitRows, EndTransaction, Goto, TransactionsFit, Saved,
           NothingBeforeItsTime, InTransaction
  <1>2. db'[d] = FinalRows(d) /\ db'[d].payment # "none"
    BY <1>1 DEF TypeOK, FinalRows
  <1>3. \A x \in Deliveries : db[x].payment # "none" => db'[x].payment # "none"
    BY <1>1, <1>2 DEF TypeOK
  <1>4. TypeOK'
    <2>1. NoRows \in Rows
      BY DEF NoRows, Rows
    <2> QED
      BY <1>1, <2>1, FinalRowsTyped DEF TypeOK
  <1>5. TransactionsFit'
    BY <1>1 DEF TransactionsFit, Saved, FinalRows, TypeOK
  <1>6. NothingBeforeItsTime'
    BY <1>1 DEF NothingBeforeItsTime, TypeOK, InTransaction
  <1>7. PaymentsAreAnnounced'
    BY <1>1 DEF PaymentsAreAnnounced, FinalRows, TypeOK
  <1>8. MarkersSawPayment'
    BY <1>1, <1>2, <1>3, PaidStaysPaid DEF MarkersSawPayment, Paid, TypeOK
  <1>9. ProcessedIsPaid'
    BY <1>3, PaidStaysPaid DEF ProcessedIsPaid
  <1>10. RunningAlone'
    <2>1. Running(d)
      BY DEF Running
    <2> QED
      BY <1>1, <2>1, MoveKeepsRunningAlone
  <1>11. ASSUME NEW x \in Deliveries, NEW y \in Deliveries,
                x # d, pc[x] \in InTransaction, OrderOf[x] = OrderOf[d]
         PROVE  OrderOf[d] \in overlapped
    BY <1>11 DEF RunningAlone, Running, InTransaction
  <1>12. FirstPayment'
    BY <1>1, <1>11 DEF FirstPayment, TypeOK, InTransaction
  <1>13. OnePaymentUnlessOverlapped'
    <2>1. ASSUME NEW x \in Deliveries, OrderOf[x] = OrderOf[d], x # d
          PROVE  db[x] = NoRows \/ OrderOf[d] \in overlapped
      BY <2>1 DEF FirstPayment, InTransaction
    <2> QED
      BY <1>1, <2>1 DEF OnePaymentUnlessOverlapped, OnePayment, TypeOK
  <1> QED
    BY <1>4, <1>5, <1>6, <1>7, <1>8, <1>9, <1>10, <1>12, <1>13

\* The event is marked as processed, and the handler is over.
LEMMA MarkKeepsIInv ==
  ASSUME IInv, NEW d \in Deliveries, pc[d] = "mark", Mark(d),
         pc' = [pc EXCEPT ![d] = "done"],
         tx' = tx \/ tx' = [tx EXCEPT ![d] = NoRows],
         UNCHANGED <<db, charged, overlapped>>
  PROVE  IInv'
  <1> USE DEF IInv
  <1>1. tx' = tx
    BY DEF TransactionsFit, Saved, TypeOK
  <1>2. TypeOK'
    BY <1>1, OrderOfAssumption DEF TypeOK, Mark
  <1>3. TransactionsFit'
    BY <1>1 DEF TransactionsFit, Saved, FinalRows, TypeOK
  <1>4. NothingBeforeItsTime' /\ FirstPayment'
    BY DEF NothingBeforeItsTime, FirstPayment, TypeOK, InTransaction
  <1>5. PaymentsAreAnnounced' /\ OnePaymentUnlessOverlapped'
    BY DEF PaymentsAreAnnounced, OnePaymentUnlessOverlapped, OnePayment
  <1>6. MarkersSawPayment' /\ ProcessedIsPaid'
    BY DEF MarkersSawPayment, ProcessedIsPaid, Paid, Mark, TypeOK
  <1>7. RunningAlone'
    BY MoveKeepsRunningAlone
  <1> QED
    BY <1>2, <1>3, <1>4, <1>5, <1>6, <1>7

\* A step of one handler moves no other one and leaves committed rows alone.
LEMMA StepsOfOneHandler ==
  ASSUME IInv, NEW d \in Deliveries,
         handleOrderCreated(d) \/ Crash(d) \/ Lose(d)
  PROVE  /\ \A x \in Deliveries \ {d} : pc'[x] = pc[x] /\ db'[x] = db[x]
         /\ \A x \in Deliveries : db[x] # NoRows => db'[x] = db[x]
  <1>1. \A label : /\ Goto(d, label) => \A x \in Deliveries \ {d} : pc'[x] = pc[x]
                   /\ EndTransaction(d, label) =>
                        \A x \in Deliveries \ {d} : pc'[x] = pc[x]
    BY DEF IInv, TypeOK, Goto, EndTransaction
  <1>2. CASE Commit(d) \/ CommitThrows(d)
    <2>1. db[d] = NoRows /\ CommitRows(d)
      BY <1>2 DEF Commit, CommitThrows, IInv, NothingBeforeItsTime, InTransaction
    <2> QED
      BY <1>1, <1>2, <2>1 DEF Commit, CommitThrows, Catch, CommitRows, IInv, TypeOK
  <1>3. CASE processPayment(d) /\ ~(Commit(d) \/ CommitThrows(d))
    BY <1>1, <1>3
    DEF processPayment, FindExisting, SavePayment, ProviderAccepts,
        ProviderDeclines, SaveResult, SaveEvent, SaveAttempt, Save
  <1>4. CASE ~processPayment(d)
    BY <1>1, <1>4
    DEF handleOrderCreated, CheckProcessed, StatementThrows, MarkAsProcessed,
        MarkThrows, Crash, Lose, Catch
  <1> QED
    BY <1>2, <1>3, <1>4

-----------------------------------------------------------------------------
(* Theorems.                                                               *)

LEMMA InitIInv == Init => IInv
  <1> SUFFICES ASSUME Init PROVE IInv
    OBVIOUS
  <1>1. TypeOK
    BY DEF Init, TypeOK, NoRows, Rows
  <1>2. TransactionsFit /\ NothingBeforeItsTime /\ PaymentsAreAnnounced
    BY DEF Init, TransactionsFit, Saved, NothingBeforeItsTime,
           PaymentsAreAnnounced, InTransaction
  <1>3. MarkersSawPayment /\ ProcessedIsPaid /\ RunningAlone
    BY DEF Init, MarkersSawPayment, ProcessedIsPaid, RunningAlone, Running
  <1>4. FirstPayment /\ OnePaymentUnlessOverlapped
    BY DEF Init, FirstPayment, OnePaymentUnlessOverlapped, OnePayment
  <1> QED
    BY <1>1, <1>2, <1>3, <1>4 DEF IInv

LEMMA NextKeepsIInv == IInv /\ [Next]_vars => IInv'
  <1> SUFFICES ASSUME IInv, [Next]_vars PROVE IInv'
    OBVIOUS
  <1>1. ASSUME NEW d \in Deliveries, processPayment(d) PROVE IInv'
    <2>1. CASE Commit(d) \/ CommitThrows(d)
      BY <2>1, CommitKeepsIInv DEF Commit, CommitThrows, Catch
    <2> QED
      BY <1>1, <2>1, FindExistingKeepsIInv, SavePaymentKeepsIInv,
         ProviderKeepsIInv, SaveResultKeepsIInv, SaveEventKeepsIInv,
         SaveAttemptKeepsIInv
      DEF processPayment
  <1>2. ASSUME NEW d \in Deliveries, CheckProcessed(d) PROVE IInv'
    BY <1>2, CheckProcessedKeepsIInv
  <1>3. ASSUME NEW d \in Deliveries, StatementThrows(d) PROVE IInv'
    BY <1>3, EndKeepsIInv DEF StatementThrows, Catch
  <1>4. ASSUME NEW d \in Deliveries, MarkAsProcessed(d) PROVE IInv'
    BY <1>4, MarkKeepsIInv DEF MarkAsProcessed, Goto
  <1>5. ASSUME NEW d \in Deliveries, MarkThrows(d) PROVE IInv'
    <2>1. CASE Mark(d)
      BY <1>5, <2>1, MarkKeepsIInv DEF MarkThrows, Catch, EndTransaction, Goto
    <2>2. CASE UNCHANGED processed
      BY <1>5, <2>2, EndKeepsIInv DEF MarkThrows, Catch
    <2> QED
      BY <1>5, <2>1, <2>2 DEF MarkThrows
  <1>6. ASSUME NEW d \in Deliveries, Crash(d) PROVE IInv'
    BY <1>6, EndKeepsIInv DEF Crash
  <1>7. ASSUME NEW d \in Deliveries, Lose(d) PROVE IInv'
    <2>1. tx' = [tx EXCEPT ![d] = NoRows]
      BY <1>7 DEF Lose, IInv, TypeOK, TransactionsFit, Saved
    <2> QED
      BY <1>7, <2>1, EndKeepsIInv DEF Lose, EndTransaction
  <1>8. CASE UNCHANGED vars
    BY <1>8 DEF vars, IInv, TypeOK, TransactionsFit, Saved, FinalRows,
                NothingBeforeItsTime, PaymentsAreAnnounced, MarkersSawPayment,
                ProcessedIsPaid, Paid, RunningAlone, Running, FirstPayment,
                OnePaymentUnlessOverlapped, OnePayment
  <1> QED
    BY <1>1, <1>2, <1>3, <1>4, <1>5, <1>6, <1>7, <1>8
    DEF Next, handleOrderCreated

\* The inductive invariant holds throughout.
THEOREM InductiveInvariant == Spec => []IInv
  BY InitIInv, NextKeepsIInv, PTL DEF Spec

\* The variables have their types.
THEOREM TypeCorrect == Spec => []TypeOK
  <1>1. IInv => TypeOK
    BY DEF IInv
  <1> QED
    BY <1>1, InductiveInvariant, PTL

\* Whatever statement fails and wherever a service dies, what is committed is
\* a payment with its final status, that agrees with what the provider did,
\* and the event that announces it.
THEOREM CommittedPaymentsAreAnnounced == Spec => []PaymentsAreAnnounced
  <1>1. IInv => PaymentsAreAnnounced
    BY DEF IInv
  <1> QED
    BY <1>1, InductiveInvariant, PTL

\* No redelivery is ignored for an order without a payment.
THEOREM ProcessedOrdersArePaid == Spec => []ProcessedIsPaid
  <1>1. IInv => ProcessedIsPaid
    BY DEF IInv
  <1> QED
    BY <1>1, InductiveInvariant, PTL

\* An order whose messages did not overlap has one payment at most.
THEOREM PaymentsAreUnique == Spec => []OnePaymentUnlessOverlapped
  <1>1. IInv => OnePaymentUnlessOverlapped
    BY DEF IInv
  <1> QED
    BY <1>1, InductiveInvariant, PTL

\* Only a handler at its provider call charges, and FirstPayment says that the
\* order of such a handler has no payment or is overlapped.
LEMMA ChargeIsFirst ==
  ASSUME IInv, [Next]_vars, NEW d \in Deliveries, d \in charged' \ charged
  PROVE  OrderOf[d] \in overlapped \/ ~Paid(OrderOf[d])
  <1>1. pc[d] = "provider"
    BY DEF Next, handleOrderCreated, processPayment, CheckProcessed, FindExisting,
           SavePayment, ProviderAccepts, ProviderDeclines, SaveResult, SaveEvent,
           SaveAttempt, Save, Commit, CommitThrows, StatementThrows,
           MarkAsProcessed, MarkThrows, Crash, Lose, vars
  <1>2. \A x \in Deliveries :
          OrderOf[x] = OrderOf[d] => db[x] = NoRows \/ OrderOf[d] \in overlapped
    BY <1>1 DEF IInv, FirstPayment, InTransaction
  <1> QED
    BY <1>2 DEF Paid, NoRows

\* Nobody is charged for an order that has a payment, unless its messages have
\* overlapped.
THEOREM PaidOrdersAreNotCharged == Spec => PaidOrderIsNotCharged
  <1>1. IInv /\ [Next]_vars =>
          [\A d \in Deliveries :
             d \in charged' \ charged =>
               OrderOf[d] \in overlapped \/ ~Paid(OrderOf[d])]_vars
    BY ChargeIsFirst
  <1> QED
    BY <1>1, InductiveInvariant, PTL DEF Spec, PaidOrderIsNotCharged
=============================================================================
