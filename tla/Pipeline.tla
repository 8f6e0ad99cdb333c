------------------------------ MODULE Pipeline ------------------------------
(***************************************************************************)
(* An order on its way through the services: the outbox of the order       *)
(* service, payment_service_queue, the payment service, its outbox, the    *)
(* fanout exchange payment.events, and a service that consumes it (email   *)
(* or notification, which do not affect each other).                       *)
(*                                                                         *)
(* The two outboxes are taken at their word, as EventDelivery: module      *)
(* Outbox shows that the code keeps it.  The consumers are the modules     *)
(* Payment and Confirmation; here their messages come from an outbox.  The *)
(* i-th copy of the event of order o is <<o, i>>, which also names the     *)
(* payment and the event its handler may write; the i-th copy of that      *)
(* event e is <<e, i>>.                                                    *)
(***************************************************************************)
EXTENDS Naturals, FiniteSetsExt

CONSTANTS Orders,        \* the orders that may be created
          OrderRetries,  \* failed attempts after which the outbox of the order
          EventRetries,  \* service, and that of the payment service, gives up
          OrderResends,  \* connections that may break while they publish an
          EventResends,  \* OrderCreated event, and an event of a payment
          MaxBreaks,     \* connections that may break altogether
          Faults         \* the faults of the consumers that may happen

ASSUME RetriesAssumption ==
         OrderRetries \in Nat \ {0} /\ EventRetries \in Nat \ {0}
ASSUME ResendsAssumption ==
         OrderResends \in Nat /\ EventResends \in Nat /\ MaxBreaks \in Nat
ASSUME FaultsAssumption == Faults \subseteq {"crash", "database", "loss"}

VARIABLES
  orderPhase, orderHanded, orderFailures, orderResent,  \* outbox of the orders
  paid, db, payPc, tx, charged, payOverlap,             \* payment service
  eventPhase, eventHanded, eventFailures, eventResent,  \* outbox of the payments
  mailed, status, mailPc, sent, mailOverlap,            \* email or notification
  bound       \* the queue is bound to the exchange payment.events

orderOutbox == <<orderPhase, orderHanded, orderFailures, orderResent>>
payment     == <<paid, db, payPc, tx, charged, payOverlap>>
eventOutbox == <<eventPhase, eventHanded, eventFailures, eventResent>>
mail        == <<mailed, status, mailPc, sent, mailOverlap>>
vars        == <<orderOutbox, payment, eventOutbox, mail, bound>>

\* An outbox publishes an event as often as it may fail, at most, and again for
\* each connection that breaks.
OrderMessages == Orders \X (1..(OrderRetries + OrderResends))
EventMessages == OrderMessages \X (1..(EventRetries + EventResends))

\* What a message is a copy of, and which copy it is.
Original(m) == m[1]
Copy(m)     == m[2]

OrderOutbox == INSTANCE EventDelivery
                 WITH Events <- Orders, MaxRetries <- OrderRetries,
                      MaxResends <- OrderResends, phase <- orderPhase,
                      handed <- orderHanded, failures <- orderFailures,
                      resent <- orderResent

Pay == INSTANCE Payment
         WITH Deliveries <- OrderMessages,
              OrderOf <- [m \in OrderMessages |-> Original(m)],
              processed <- paid, pc <- payPc, overlapped <- payOverlap

EventOutbox == INSTANCE EventDelivery
                 WITH Events <- OrderMessages, MaxRetries <- EventRetries,
                      MaxResends <- EventResends, phase <- eventPhase,
                      handed <- eventHanded, failures <- eventFailures,
                      resent <- eventResent

Mail == INSTANCE Confirmation
          WITH Deliveries <- EventMessages, Events <- OrderMessages,
               EventOf <- [m \in EventMessages |-> Original(m)],
               processed <- mailed, pc <- mailPc, overlapped <- mailOverlap

Init ==
  /\ OrderOutbox!Init /\ Pay!Init /\ EventOutbox!Init /\ Mail!Init
  /\ bound = FALSE

-----------------------------------------------------------------------------
(* Actions.  The operators named ...Mutant change the one that follows     *)
(* them the way a slip in the code would; no action uses them.             *)

\* POST /orders commits an order with its event.
CreateOrder(o) ==
  /\ OrderOutbox!Record(o)
  /\ UNCHANGED <<payment, eventOutbox, mail, bound>>

\* The order outbox puts a copy into payment_service_queue, which exists from
\* the first connection of either side on, or books what came of it.
RelayOrder(o) ==
  /\ OrderOutbox!Attempt(o)
  /\ UNCHANGED <<payment, eventOutbox, mail, bound>>

\* The connections to the broker that have broken so far.
Breaks ==
  MapThenSumSet(LAMBDA o : orderResent[o], Orders)
    + MapThenSumSet(LAMBDA e : eventResent[e], OrderMessages)

\* The connection breaks and the copy is sent again, ...
ResendOrder(o) ==
  /\ Breaks < MaxBreaks
  /\ OrderOutbox!Resend(o)
  /\ UNCHANGED <<payment, eventOutbox, mail, bound>>

\* ... or the service dies, or a statement of its worker fails, and claimed
\* orders stay as they are.
StrandOrders(left) ==
  /\ OrderOutbox!Strand(left)
  /\ UNCHANGED <<payment, eventOutbox, mail, bound>>

\* A copy is delivered only after it was put in the queue.
InOrderQueue(m) == Copy(m) <= orderHanded[Original(m)]

\* The transaction of the payment also records its event.
WithEventMutant(m) == UNCHANGED eventOutbox
WithEvent(m) == IF db' = db THEN UNCHANGED eventOutbox ELSE EventOutbox!Record(m)

HandleOrderCreated(m) ==
  /\ InOrderQueue(m)
  /\ Pay!handleOrderCreated(m)
  /\ WithEvent(m)
  /\ UNCHANGED <<orderOutbox, mail, bound>>

PaymentFault(m) ==
  /\ InOrderQueue(m)
  /\ Pay!Crash(m) \/ Pay!Lose(m)
  /\ UNCHANGED <<orderOutbox, eventOutbox, mail, bound>>

\* The pattern under which the outbox of the payment service publishes each
\* type of event, and those the email and notification services handle.
PatternOf == [PaymentCompleted |-> "payment.paymentcompleted",
              PaymentFailed |-> "payment.paymentfailed"]
HandledPatterns == {"payment.paymentcompleted"}

\* The exchange forwards a copy to the queue only if the queue is bound, and
\* a message whose pattern has no handler is dropped.
ReachesHandlerMutant(e) == bound
ReachesHandler(e) == bound /\ PatternOf[db[e].event] \in HandledPatterns

\* The copy of e that the payment outbox has just published.
Exchange(e) ==
  /\ mailPc' = IF ReachesHandler(e) THEN mailPc
               ELSE [mailPc EXCEPT ![<<e, eventHanded'[e]>>] = "done"]
  /\ UNCHANGED <<orderOutbox, payment, mailed, status, sent, mailOverlap, bound>>

PublishEvent(e) == EventOutbox!HandOver(e) /\ Exchange(e)
ResendEvent(e)  ==
  Breaks < MaxBreaks /\ EventOutbox!Resend(e) /\ Exchange(e)

BookEvent(e) ==
  /\ \/ EventOutbox!Settle(e)
     \/ \E left \in SUBSET OrderMessages : EventOutbox!Fail(e, left)
  /\ UNCHANGED <<orderOutbox, payment, mail, bound>>

StrandEvents(left) ==
  /\ EventOutbox!Strand(left)
  /\ UNCHANGED <<orderOutbox, payment, mail, bound>>

InMailQueue(m) == Copy(m) <= eventHanded[Original(m)]

HandlePaymentCompleted(m) ==
  /\ InMailQueue(m)
  /\ Mail!handlePaymentCompleted(m)
  /\ UNCHANGED <<orderOutbox, payment, eventOutbox, bound>>

MailFault(m) ==
  /\ InMailQueue(m)
  /\ Mail!Crash(m) \/ Mail!Lose(m)
  /\ UNCHANGED <<orderOutbox, payment, eventOutbox, bound>>

\* QueueBindingService.onModuleInit, when the consumer starts.
BindQueue ==
  /\ ~bound
  /\ bound' = TRUE
  /\ UNCHANGED <<orderOutbox, payment, eventOutbox, mail>>

Next ==
  \/ \E o \in Orders : CreateOrder(o) \/ RelayOrder(o) \/ ResendOrder(o)
  \/ \E left \in SUBSET Orders : StrandOrders(left)
  \/ \E m \in OrderMessages : HandleOrderCreated(m) \/ PaymentFault(m)
  \/ \E e \in OrderMessages : PublishEvent(e) \/ ResendEvent(e) \/ BookEvent(e)
  \/ \E left \in SUBSET OrderMessages : StrandEvents(left)
  \/ \E m \in EventMessages : HandlePaymentCompleted(m) \/ MailFault(m)
  \/ BindQueue

Spec == Init /\ [][Next]_vars

\* No event stays owed for ever (ConcludesEvents in module Outbox): the worker
\* goes on with it or, if it dies or fails, strands it, and with that the
\* fairness of its steps ends.  The broker pushes the messages it has, and
\* awaited calls return.
FairSpec ==
  /\ Spec
  /\ \A o \in Orders : WF_vars(RelayOrder(o))
  /\ \A m \in OrderMessages :
       /\ WF_vars(HandleOrderCreated(m))
       /\ WF_vars(PublishEvent(m) \/ BookEvent(m))
  /\ \A m \in EventMessages : WF_vars(HandlePaymentCompleted(m))

-----------------------------------------------------------------------------
(* Properties.                                                             *)

MailsFor(o) == {m \in sent : Original(Original(m)) = o}

\* Nobody is told of a payment that was not made: behind every mail there is
\* an order that was created, a charge for it, and a committed COMPLETED
\* payment that says so.
MailsAreForPaidOrders ==
  \A m \in sent :
    LET e == Original(m) IN
    /\ orderPhase[Original(e)] # "none"
    /\ e \in charged
    /\ db[e].payment = "COMPLETED"

\* Both outboxes may publish their events more than once; an order whose
\* messages were never handled at the same time is still confirmed once.
OneMailPerOrder ==
  \A o \in Orders : \A m, n \in MailsFor(o) :
    \/ m = n
    \/ o \in payOverlap
    \/ Original(m) \in mailOverlap

\* What an outbox will not publish again.
Over(phase) == phase \in {"settled", "dead", "stranded"}

\* The ways an order can go wrong.  Its event, or every copy of it, is lost
\* before there is a payment ...
PaymentsOf(o) == {m \in OrderMessages : Original(m) = o /\ db[m].payment # "none"}
OrderLost(o) ==
  /\ Over(orderPhase[o])
  /\ \A m \in OrderMessages : Original(m) = o /\ InOrderQueue(m) => payPc[m] = "done"
  /\ PaymentsOf(o) = {}

\* ... or there is a COMPLETED payment whose event was recorded, and it or
\* every copy of it is lost before there is a mail.
EventLost(e) ==
  /\ db[e].payment = "COMPLETED"
  /\ Over(eventPhase[e])
  /\ \A m \in EventMessages : Original(m) = e /\ InMailQueue(m) => mailPc[m] = "done"
  /\ \A m \in sent : Original(m) # e

Declined(o)  == \E m \in PaymentsOf(o) : db[m].payment = "FAILED"
Confirmed(o) == MailsFor(o) # {}

\* An order that is created when the queues are bound is confirmed in the end,
\* or its payment is declined, or it is lost at a place that can be named: its
\* event or that of its payment is dead or stranded in an outbox, or was
\* published and every copy of it was dropped by a handler that failed.  No
\* payment is left without an event, no copy waits in a queue.
EveryOrderIsConcluded ==
  \A o \in Orders :
    orderPhase[o] = "owed" /\ orderHanded[o] = 0 /\ bound ~>
      \/ Confirmed(o) \/ Declined(o) \/ OrderLost(o)
      \/ \E e \in PaymentsOf(o) : EventLost(e)
=============================================================================
