------------------------------ MODULE Payment ------------------------------
(***************************************************************************)
(* The payment service: the consumer of OrderCreated messages and          *)
(* PaymentService.processPayment.                                          *)
(*                                                                         *)
(* One process per delivered message.  The queue is consumed with noAck    *)
(* and without a prefetch limit, so a delivered message is gone from the   *)
(* broker and any number of handlers run at the same time.  The outbox of  *)
(* the order service may deliver the same event more than once; an order   *)
(* has one OrderCreated event, so the order stands for its event, too.     *)
(***************************************************************************)
EXTENDS Naturals

CONSTANTS Deliveries,   \* messages with pattern order.created
          Orders,       \* orders
          OrderOf,      \* the order each message is about
          Faults        \* the faults that may happen

\* "loss": the broker restarts (messages are not persistent).
ASSUME FaultsAssumption == Faults \subseteq {"crash", "database", "loss"}
ASSUME OrderOfAssumption == OrderOf \in [Deliveries -> Orders]

VARIABLES processed,  \* events in processed_events
          db,         \* what the transaction of each delivery committed
          pc,         \* the statement the handler runs next
          tx,         \* what its open transaction has saved
          charged,    \* history: deliveries whose provider call succeeded
          overlapped  \* history: orders with two handlers at the same time

vars == <<processed, db, pc, tx, charged, overlapped>>

\* The rows one transaction writes: a payment, its outbox event and, for a
\* failed payment, a payment attempt.
Rows == [payment : {"none", "PROCESSING", "COMPLETED", "FAILED"},
         event : {"none", "PaymentCompleted", "PaymentFailed"},
         attempt : BOOLEAN]
NoRows == [payment |-> "none", event |-> "none", attempt |-> FALSE]

InTransaction == {"insert", "provider", "saveResult", "saveEvent",
                  "saveAttempt", "commit"}

TypeOK ==
  /\ processed \subseteq Orders
  /\ db \in [Deliveries -> Rows] /\ tx \in [Deliveries -> Rows]
  /\ pc \in [Deliveries -> {"queued", "find", "mark", "done"} \cup InTransaction]
  /\ charged \subseteq Deliveries
  /\ overlapped \subseteq Orders

Init ==
  /\ processed = {}
  /\ db = [d \in Deliveries |-> NoRows]
  /\ pc = [d \in Deliveries |-> "queued"]
  /\ tx = [d \in Deliveries |-> NoRows]
  /\ charged = {}
  /\ overlapped = {}

-----------------------------------------------------------------------------
(* Helpers.  Those named ...Mutant change the operator that follows them   *)
(* the way a slip in the code would; no action uses them.                  *)

SameOrder(d) == {x \in Deliveries : OrderOf[x] = OrderOf[d]}
Running(d) == pc[d] \notin {"queued", "done"}

\* The handler of d starts, maybe beside another handler for its order.
Start(d) ==
  /\ pc[d] = "queued"
  /\ overlapped' = IF \E x \in SameOrder(d) : Running(x)
                   THEN overlapped \cup {OrderOf[d]} ELSE overlapped

\* findByOrderId, which runs outside the transaction and sees what others
\* have committed.
ExistingPaymentMutant(d) ==
  \E x \in SameOrder(d) : db[x].payment = "PROCESSING"
ExistingPayment(d) == \E x \in SameOrder(d) : db[x].payment # "none"

Goto(d, label) == pc' = [pc EXCEPT ![d] = label]

\* A statement of the transaction: it saves rows nobody else sees.
Save(d, label, rows, next) ==
  /\ pc[d] = label
  /\ tx' = [tx EXCEPT ![d] = rows]
  /\ Goto(d, next)
  /\ UNCHANGED <<processed, db, charged, overlapped>>

\* The transaction ends, committed or not, and the handler goes on to label.
CommitRowsMutant(d) == db' = [db EXCEPT ![d] = [tx[d] EXCEPT !.event = "none"]]
CommitRows(d) == db' = [db EXCEPT ![d] = tx[d]]
EndTransaction(d, label) ==
  /\ tx' = [tx EXCEPT ![d] = NoRows]
  /\ Goto(d, label)

\* The consumer catches every error: the handler is over, the message gone.
CatchMutant(d) == EndTransaction(d, IF pc[d] = "mark" THEN "done" ELSE "mark")
Catch(d) == EndTransaction(d, "done")

MarkWrongIdMutant(d) == processed' = processed \cup {d}
Mark(d) == processed' = processed \cup {OrderOf[d]}

-----------------------------------------------------------------------------
(* handleOrderCreated and processPayment.                                  *)

CheckProcessed(d) ==
  /\ Start(d)
  /\ Goto(d, IF OrderOf[d] \in processed THEN "done" ELSE "find")
  /\ UNCHANGED <<processed, db, tx, charged>>

FindExisting(d) ==
  /\ pc[d] = "find"
  /\ Goto(d, IF ExistingPayment(d) THEN "mark" ELSE "insert")
  /\ UNCHANGED <<processed, db, tx, charged, overlapped>>

SavePayment(d) ==
  Save(d, "insert", [NoRows EXCEPT !.payment = "PROCESSING"], "provider")

\* callPaymentProvider: the money moves or it does not, whatever becomes of
\* the transaction.
ProviderAccepts(d) ==
  /\ pc[d] = "provider"
  /\ charged' = charged \cup {d}
  /\ Goto(d, "saveResult")
  /\ UNCHANGED <<processed, db, tx, overlapped>>
ProviderDeclines(d) ==
  /\ pc[d] = "provider"
  /\ Goto(d, "saveResult")
  /\ UNCHANGED <<processed, db, tx, charged, overlapped>>

Success(d) == d \in charged
SaveResult(d) ==
  Save(d, "saveResult",
       [tx[d] EXCEPT !.payment = IF Success(d) THEN "COMPLETED" ELSE "FAILED"],
       "saveEvent")
SaveEvent(d) ==
  Save(d, "saveEvent",
       [tx[d] EXCEPT !.event = IF Success(d) THEN "PaymentCompleted"
                                             ELSE "PaymentFailed"],
       IF Success(d) THEN "commit" ELSE "saveAttempt")
SaveAttempt(d) ==
  Save(d, "saveAttempt", [tx[d] EXCEPT !.attempt = TRUE], "commit")

Commit(d) ==
  /\ pc[d] = "commit"
  /\ CommitRows(d)
  /\ EndTransaction(d, "mark")
  /\ UNCHANGED <<processed, charged, overlapped>>

\* The commit is reported as failed although the transaction committed.
CommitThrows(d) ==
  /\ "database" \in Faults
  /\ pc[d] = "commit"
  /\ CommitRows(d)
  /\ Catch(d)
  /\ UNCHANGED <<processed, charged, overlapped>>

\* A statement before or inside the transaction throws: rollback.
StatementThrows(d) ==
  /\ "database" \in Faults
  /\ \/ Start(d)
     \/ /\ pc[d] \in {"find"} \cup (InTransaction \ {"provider"})
        /\ UNCHANGED overlapped
  /\ Catch(d)
  /\ UNCHANGED <<processed, db, charged>>

MarkAsProcessed(d) ==
  /\ pc[d] = "mark"
  /\ Mark(d)
  /\ Goto(d, "done")
  /\ UNCHANGED <<db, tx, charged, overlapped>>

\* markAsProcessed throws, with the row saved or not.
MarkThrows(d) ==
  /\ "database" \in Faults
  /\ pc[d] = "mark"
  /\ Mark(d) \/ UNCHANGED processed
  /\ Catch(d)
  /\ UNCHANGED <<db, charged, overlapped>>

-----------------------------------------------------------------------------
(* The environment.                                                        *)

\* The service dies; the transaction is rolled back, the message was acked.
Crash(d) ==
  /\ "crash" \in Faults
  /\ Running(d)
  /\ EndTransaction(d, "done")
  /\ UNCHANGED <<processed, db, charged, overlapped>>

Lose(d) ==
  /\ "loss" \in Faults
  /\ pc[d] = "queued"
  /\ Goto(d, "done")
  /\ UNCHANGED <<processed, db, tx, charged, overlapped>>

processPayment(d) ==
  \/ FindExisting(d) \/ SavePayment(d)
  \/ ProviderAccepts(d) \/ ProviderDeclines(d)
  \/ SaveResult(d) \/ SaveEvent(d) \/ SaveAttempt(d)
  \/ Commit(d) \/ CommitThrows(d)
handleOrderCreated(d) ==
  \/ CheckProcessed(d) \/ processPayment(d) \/ StatementThrows(d)
  \/ MarkAsProcessed(d) \/ MarkThrows(d)

Next == \E d \in Deliveries : handleOrderCreated(d) \/ Crash(d) \/ Lose(d)

Spec == Init /\ [][Next]_vars

-----------------------------------------------------------------------------
(* Properties.                                                             *)

Paid(o) == \E d \in Deliveries : OrderOf[d] = o /\ db[d].payment # "none"

\* A payment is never visible half-done: it has its final status, the one
\* event that announces it, an attempt if it failed, and it is COMPLETED
\* exactly if the provider took the money.
PaymentsAreAnnounced ==
  \A d \in Deliveries : db[d] # NoRows =>
    db[d] = IF d \in charged
            THEN [payment |-> "COMPLETED", event |-> "PaymentCompleted",
                  attempt |-> FALSE]
            ELSE [payment |-> "FAILED", event |-> "PaymentFailed",
                  attempt |-> TRUE]

\* An event counts as processed only when its order has a payment, so that a
\* redelivery is never ignored for an order that has none.
ProcessedIsPaid == \A o \in processed : Paid(o)

\* One payment for each order: the promise of the checks for processed events
\* and for existing payments ...
OnePayment(o) ==
  \A d, x \in Deliveries :
    OrderOf[d] = o /\ OrderOf[x] = o /\ db[d] # NoRows /\ db[x] # NoRows => d = x
OnePaymentPerOrder == \A o \in Orders : OnePayment(o)

\* ... which is kept, whatever crashes and errors come in between, for every
\* order whose messages have been handled one after the other ...
OnePaymentUnlessOverlapped == \A o \in Orders \ overlapped : OnePayment(o)

\* ... and nobody is charged for such an order once it has a payment.
PaidOrderIsNotCharged ==
  [][\A d \in Deliveries :
       d \in charged' \ charged =>
         OrderOf[d] \in overlapped \/ ~Paid(OrderOf[d])]_vars
=============================================================================
