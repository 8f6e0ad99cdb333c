-------------------------- MODULE Pipeline_proofs --------------------------
(***************************************************************************)
(* Theorems about module Pipeline, for any orders, any number of attempts  *)
(* and of re-sends of the two outboxes and any set of faults.  The         *)
(* consumers are instances of Payment and Confirmation, so what            *)
(* Payment_proofs and Confirmation_proofs show of a step holds of their    *)
(* steps here.                                                             *)
(***************************************************************************)
EXTENDS Pipeline, TLAPS

\* The instances Pay and Mail once more, with their theorems.
Payments == INSTANCE Payment_proofs
              WITH Deliveries <- OrderMessages,
                   OrderOf <- [m \in OrderMessages |-> Original(m)],
                   processed <- paid, pc <- payPc, overlapped <- payOverlap

Mails == INSTANCE Confirmation_proofs
           WITH Deliveries <- EventMessages, Events <- OrderMessages,
                EventOf <- [m \in EventMessages |-> Original(m)],
                processed <- mailed, pc <- mailPc, overlapped <- mailOverlap

-----------------------------------------------------------------------------
(* The inductive invariant.                                                *)

\* An outbox hands over only what is recorded in it, and no event more often
\* than there are messages for its copies.
OutboxFits(events, retries, resends, phase, handed, failures, resent) ==
  /\ phase \in [events -> {"none", "owed", "settled", "dead", "stranded"}]
  /\ handed \in [events -> 0..(retries + resends)]
  /\ failures \in [events -> Nat]
  /\ resent \in [events -> 0..resends]
  /\ \A e \in events : /\ phase[e] = "none" => handed[e] = 0
                       /\ phase[e] \in {"none", "owed"} => failures[e] < retries
OrdersFit ==
  OutboxFits(Orders, OrderRetries, OrderResends,
             orderPhase, orderHanded, orderFailures, orderResent)
EventsFit ==
  OutboxFits(OrderMessages, EventRetries, EventResends,
             eventPhase, eventHanded, eventFailures, eventResent)
OutboxesFit == OrdersFit /\ EventsFit

\* An event is in the outbox of the payment service only with its payment.
EventsHavePayments ==
  \A e \in OrderMessages : eventPhase[e] # "none" => db[e] # Payments!NoRows

\* No message is handled before it is in its queue.
QueuedFirst ==
  /\ \A m \in OrderMessages : payPc[m] # "queued" => InOrderQueue(m)
  /\ \A m \in EventMessages : mailPc[m] # "queued" => InMailQueue(m)

\* A message in the queue of the email or notification service is about a
\* completed payment, unless it was dropped and so led to no mail.
OnlyPaymentsArrive ==
  \A m \in EventMessages :
    /\ InMailQueue(m) /\ mailPc[m] # "done" => db[Original(m)].event = "PaymentCompleted"
    /\ m \in sent => db[Original(m)].event = "PaymentCompleted"

IInv == /\ Payments!IInv
        /\ Mails!IInv
        /\ OutboxesFit
        /\ EventsHavePayments
        /\ QueuedFirst
        /\ OnlyPaymentsArrive

-----------------------------------------------------------------------------
(* The consumers here are those of Payment_proofs and Confirmation_proofs. *)

\* The constants are fit for Payment and Confirmation.
LEMMA ConsumerAssumptions ==
  /\ [m \in OrderMessages |-> Original(m)] \in [OrderMessages -> Orders]
  /\ [m \in EventMessages |-> Original(m)] \in [EventMessages -> OrderMessages]
  /\ \A m \in OrderMessages : Original(m) \in Orders /\ Copy(m) \in 1..(OrderRetries + OrderResends)
  /\ \A m \in EventMessages :
       Original(m) \in OrderMessages /\ Copy(m) \in 1..(EventRetries + EventResends)
  BY DEF OrderMessages, EventMessages, Original, Copy

LEMMA SameProcessPayment ==
  ASSUME NEW m \in OrderMessages
  PROVE  Pay!processPayment(m) <=> Payments!processPayment(m)
  BY DEF Pay!processPayment, Payments!processPayment, Pay!FindExisting,
         Payments!FindExisting, Pay!ExistingPayment, Payments!ExistingPayment,
         Pay!SameOrder, Payments!SameOrder, Pay!SavePayment,
         Payments!SavePayment, Pay!ProviderAccepts, Payments!ProviderAccepts,
         Pay!ProviderDeclines, Payments!ProviderDeclines, Pay!SaveResult,
         Payments!SaveResult, Pay!SaveEvent, Payments!SaveEvent,
         Pay!SaveAttempt, Payments!SaveAttempt, Pay!Save, Payments!Save,
         Pay!Success, Payments!Success, Pay!Commit, Payments!Commit,
         Pay!CommitThrows, Payments!CommitThrows, Pay!CommitRows,
         Payments!CommitRows, Pay!Catch, Payments!Catch, Pay!EndTransaction,
         Payments!EndTransaction, Pay!Goto, Payments!Goto, Pay!NoRows,
         Payments!NoRows

\* Both instances of Payment start in the same state and take the same steps.
LEMMA SamePayments ==
  /\ Pay!Init <=> Payments!Init
  /\ \A m \in OrderMessages :
       /\ Pay!handleOrderCreated(m) <=> Payments!handleOrderCreated(m)
       /\ Pay!Crash(m) <=> Payments!Crash(m)
       /\ Pay!Lose(m) <=> Payments!Lose(m)
  <1>1. Pay!Init <=> Payments!Init
    BY DEF Pay!Init, Payments!Init, Pay!NoRows, Payments!NoRows
  <1>2. ASSUME NEW m \in OrderMessages
        PROVE  /\ Pay!handleOrderCreated(m) <=> Payments!handleOrderCreated(m)
               /\ Pay!Crash(m) <=> Payments!Crash(m)
               /\ Pay!Lose(m) <=> Payments!Lose(m)
    <2>1. Pay!handleOrderCreated(m) <=> Payments!handleOrderCreated(m)
      BY SameProcessPayment
      DEF Pay!handleOrderCreated, Payments!handleOrderCreated,
          Pay!CheckProcessed, Payments!CheckProcessed, Pay!StatementThrows,
          Payments!StatementThrows, Pay!MarkAsProcessed,
          Payments!MarkAsProcessed, Pay!MarkThrows, Payments!MarkThrows,
          Pay!Start, Payments!Start, Pay!Running, Payments!Running,
          Pay!SameOrder, Payments!SameOrder, Pay!Goto, Payments!Goto,
          Pay!Catch, Payments!Catch, Pay!EndTransaction,
          Payments!EndTransaction, Pay!Mark, Payments!Mark, Pay!InTransaction,
          Payments!InTransaction, Pay!NoRows, Payments!NoRows
    <2>2. (Pay!Crash(m) <=> Payments!Crash(m)) /\ (Pay!Lose(m) <=> Payments!Lose(m))
      BY DEF Pay!Crash, Payments!Crash, Pay!Lose, Payments!Lose, Pay!Running,
             Payments!Running, Pay!Goto, Payments!Goto, Pay!EndTransaction,
             Payments!EndTransaction, Pay!NoRows, Payments!NoRows
    <2> QED
      BY <2>1, <2>2
  <1> QED
    BY <1>1, <1>2

LEMMA SameSendConfirmation ==
  ASSUME NEW m \in EventMessages
  PROVE  Mail!sendConfirmation(m) <=> Mails!sendConfirmation(m)
  BY DEF Mail!sendConfirmation, Mails!sendConfirmation, Mail!FindExisting,
         Mails!FindExisting, Mail!ExistingRow, Mails!ExistingRow,
         Mail!SameEvent, Mails!SameEvent, Mail!CreateRow, Mails!CreateRow,
         Mail!SendMail, Mails!SendMail, Mail!UpdateSent, Mails!UpdateSent,
         Mail!UpdateSentThrows, Mails!UpdateSentThrows, Mail!UpdateFailed,
         Mails!UpdateFailed, Mail!SetStatus, Mails!SetStatus, Mail!Catch,
         Mails!Catch, Mail!Goto, Mails!Goto

\* Both instances of Confirmation start in the same state and take the same
\* steps.
LEMMA SameMails ==
  /\ Mail!Init <=> Mails!Init
  /\ \A m \in EventMessages :
       /\ Mail!handlePaymentCompleted(m) <=> Mails!handlePaymentCompleted(m)
       /\ Mail!Crash(m) <=> Mails!Crash(m)
       /\ Mail!Lose(m) <=> Mails!Lose(m)
  <1>1. Mail!Init <=> Mails!Init
    BY DEF Mail!Init, Mails!Init
  <1>2. ASSUME NEW m \in EventMessages
        PROVE  /\ Mail!handlePaymentCompleted(m) <=> Mails!handlePaymentCompleted(m)
               /\ Mail!Crash(m) <=> Mails!Crash(m)
               /\ Mail!Lose(m) <=> Mails!Lose(m)
    <2>1. Mail!handlePaymentCompleted(m) <=> Mails!handlePaymentCompleted(m)
      BY SameSendConfirmation
      DEF Mail!handlePaymentCompleted, Mails!handlePaymentCompleted,
          Mail!CheckProcessed, Mails!CheckProcessed, Mail!MarkAsProcessed,
          Mails!MarkAsProcessed, Mail!StatementThrows, Mails!StatementThrows,
          Mail!Start, Mails!Start, Mail!Running, Mails!Running,
          Mail!SameEvent, Mails!SameEvent, Mail!SetStatus, Mails!SetStatus,
          Mail!Catch, Mails!Catch, Mail!Goto, Mails!Goto, Mail!Mark,
          Mails!Mark
    <2>2. (Mail!Crash(m) <=> Mails!Crash(m)) /\ (Mail!Lose(m) <=> Mails!Lose(m))
      BY DEF Mail!Crash, Mails!Crash, Mail!Lose, Mails!Lose, Mail!Running,
             Mails!Running, Mail!Goto, Mails!Goto
    <2> QED
      BY <2>1, <2>2
  <1> QED
    BY <1>1, <1>2

-----------------------------------------------------------------------------
(* What a step of one part does.                                           *)

LEMMA OrderOutboxStep ==
  ASSUME OrdersFit,
         \/ \E o \in Orders : \/ OrderOutbox!Record(o) \/ OrderOutbox!Attempt(o)
                              \/ OrderOutbox!Resend(o)
         \/ \E left \in SUBSET Orders : OrderOutbox!Strand(left)
  PROVE  /\ OrdersFit'
         /\ \A x \in Orders : orderHanded[x] <= orderHanded'[x]
  <1> USE RetriesAssumption, ResendsAssumption DEF OrdersFit, OutboxFits
  <1>1. ASSUME NEW o \in Orders, OrderOutbox!Record(o) \/ OrderOutbox!Settle(o)
        PROVE  OrdersFit' /\ orderHanded' = orderHanded
    BY <1>1 DEF OrderOutbox!Record, OrderOutbox!Settle
  <1>2. ASSUME NEW o \in Orders, OrderOutbox!HandOver(o)
        PROVE  /\ OrdersFit'
               /\ \A x \in Orders : orderHanded[x] <= orderHanded'[x]
    BY <1>2 DEF OrderOutbox!HandOver, OrderOutbox!Publish
  <1>3. ASSUME NEW o \in Orders, OrderOutbox!Resend(o)
        PROVE  /\ OrdersFit'
               /\ \A x \in Orders : orderHanded[x] <= orderHanded'[x]
    BY <1>3 DEF OrderOutbox!Resend, OrderOutbox!Publish
  <1>4. ASSUME NEW o \in Orders, NEW left \in SUBSET Orders, OrderOutbox!Fail(o, left)
        PROVE  OrdersFit' /\ orderHanded' = orderHanded
    BY <1>4 DEF OrderOutbox!Fail, OrderOutbox!Owed, OrderOutbox!NextPhase
  <1>5. ASSUME NEW left \in SUBSET Orders, OrderOutbox!Strand(left)
        PROVE  OrdersFit' /\ orderHanded' = orderHanded
    BY <1>5 DEF OrderOutbox!Strand, OrderOutbox!Owed
  <1> QED
    BY <1>1, <1>2, <1>3, <1>4, <1>5 DEF OrderOutbox!Attempt

\* Only Record puts an event into the outbox of the payment service.
LEMMA EventOutboxStep ==
  ASSUME EventsFit,
         \/ \E e \in OrderMessages :
              \/ EventOutbox!HandOver(e) \/ EventOutbox!Resend(e)
              \/ EventOutbox!Settle(e)
              \/ \E left \in SUBSET OrderMessages : EventOutbox!Fail(e, left)
         \/ \E left \in SUBSET OrderMessages : EventOutbox!Strand(left)
  PROVE  /\ EventsFit'
         /\ \A x \in OrderMessages : eventHanded[x] <= eventHanded'[x]
         /\ \A x \in OrderMessages : eventPhase[x] = "none" => eventPhase'[x] = "none"
  <1> USE RetriesAssumption, ResendsAssumption DEF EventsFit, OutboxFits
  <1>1. ASSUME NEW e \in OrderMessages, EventOutbox!Settle(e)
        PROVE  /\ EventsFit' /\ eventHanded' = eventHanded
               /\ \A x \in OrderMessages : eventPhase[x] = "none" => eventPhase'[x] = "none"
    BY <1>1 DEF EventOutbox!Settle
  <1>2. ASSUME NEW e \in OrderMessages, EventOutbox!HandOver(e)
        PROVE  /\ EventsFit' /\ eventPhase' = eventPhase
               /\ \A x \in OrderMessages : eventHanded[x] <= eventHanded'[x]
    BY <1>2 DEF EventOutbox!HandOver, EventOutbox!Publish
  <1>3. ASSUME NEW e \in OrderMessages, EventOutbox!Resend(e)
        PROVE  /\ EventsFit' /\ eventPhase' = eventPhase
               /\ \A x \in OrderMessages : eventHanded[x] <= eventHanded'[x]
    BY <1>3 DEF EventOutbox!Resend, EventOutbox!Publish
  <1>4. ASSUME NEW e \in OrderMessages, NEW left \in SUBSET OrderMessages,
               EventOutbox!Fail(e, left)
        PROVE  /\ EventsFit' /\ eventHanded' = eventHanded
               /\ \A x \in OrderMessages : eventPhase[x] = "none" => eventPhase'[x] = "none"
    BY <1>4 DEF EventOutbox!Fail, EventOutbox!Owed, EventOutbox!NextPhase
  <1>5. ASSUME NEW left \in SUBSET OrderMessages, EventOutbox!Strand(left)
        PROVE  /\ EventsFit' /\ eventHanded' = eventHanded
               /\ \A x \in OrderMessages : eventPhase[x] = "none" => eventPhase'[x] = "none"
    BY <1>5 DEF EventOutbox!Strand, EventOutbox!Owed
  <1> QED
    BY <1>1, <1>2, <1>3, <1>4, <1>5

LEMMA RecordEventStep ==
  ASSUME EventsFit, NEW e \in OrderMessages, EventOutbox!Record(e)
  PROVE  /\ EventsFit' /\ eventHanded' = eventHanded
         /\ \A x \in OrderMessages \ {e} : eventPhase'[x] = eventPhase[x]
  BY DEF EventsFit, OutboxFits, EventOutbox!Record

\* A step of the payment service changes the rows of its own message only, and
\* those only once.
LEMMA PaymentStep ==
  ASSUME Payments!IInv, NEW m \in OrderMessages,
         Pay!handleOrderCreated(m) \/ Pay!Crash(m) \/ Pay!Lose(m)
  PROVE  /\ Payments!IInv'
         /\ \A x \in OrderMessages \ {m} : payPc'[x] = payPc[x] /\ db'[x] = db[x]
         /\ \A x \in OrderMessages : db[x] # Payments!NoRows => db'[x] = db[x]
         /\ db' # db => db'[m] # Payments!NoRows
  <1>1. Payments!handleOrderCreated(m) \/ Payments!Crash(m) \/ Payments!Lose(m)
    BY SamePayments
  <1>2. Payments!IInv'
    BY <1>1, ConsumerAssumptions, FaultsAssumption, Payments!NextKeepsIInv
    DEF Payments!Next
  <1>3. /\ \A x \in OrderMessages \ {m} : payPc'[x] = payPc[x] /\ db'[x] = db[x]
        /\ \A x \in OrderMessages : db[x] # Payments!NoRows => db'[x] = db[x]
    BY <1>1, ConsumerAssumptions, FaultsAssumption, Payments!StepsOfOneHandler
  <1>4. db' # db => db'[m] # Payments!NoRows
    <2>1. db \in [OrderMessages -> Payments!Rows] /\ db' \in [OrderMessages -> Payments!Rows]
      BY <1>2 DEF Payments!IInv, Payments!TypeOK
    <2> QED
      BY <1>3, <2>1
  <1> QED
    BY <1>2, <1>3, <1>4

LEMMA MailStep ==
  ASSUME Mails!IInv, NEW m \in EventMessages,
         Mail!handlePaymentCompleted(m) \/ Mail!Crash(m) \/ Mail!Lose(m)
  PROVE  /\ Mails!IInv'
         /\ mailPc[m] # "done"
         /\ \A x \in EventMessages \ {m} : mailPc'[x] = mailPc[x]
         /\ sent' \subseteq sent \cup {m}
  <1>1. Mails!handlePaymentCompleted(m) \/ Mails!Crash(m) \/ Mails!Lose(m)
    BY SameMails
  <1>2. Mails!IInv'
    BY <1>1, ConsumerAssumptions, FaultsAssumption, Mails!NextKeepsIInv
    DEF Mails!Next
  <1> QED
    BY <1>1, <1>2, ConsumerAssumptions, FaultsAssumption, Mails!StepsOfOneHandler

\* Payments and mails that do not change keep their invariants.
LEMMA PaymentsStay == Payments!IInv /\ UNCHANGED payment => Payments!IInv'
  BY ConsumerAssumptions, FaultsAssumption, Payments!NextKeepsIInv
  DEF payment, Payments!vars

LEMMA MailsStay == Mails!IInv /\ UNCHANGED mail => Mails!IInv'
  BY ConsumerAssumptions, FaultsAssumption, Mails!NextKeepsIInv
  DEF mail, Mails!vars

-----------------------------------------------------------------------------
(* The invariant is inductive.                                             *)

LEMMA InitIInv == Init => IInv
  <1> SUFFICES ASSUME Init PROVE IInv
    OBVIOUS
  <1>1. Payments!Init /\ Mails!Init
    BY SamePayments, SameMails DEF Init
  <1>2. Payments!IInv /\ Mails!IInv
    BY <1>1, ConsumerAssumptions, FaultsAssumption, Payments!InitIInv, Mails!InitIInv
  <1>3. OutboxesFit /\ EventsHavePayments
    BY RetriesAssumption, ResendsAssumption
    DEF Init, OutboxesFit, OrdersFit, EventsFit, OutboxFits,
        EventsHavePayments, OrderOutbox!Init, EventOutbox!Init
  <1>4. QueuedFirst
    BY <1>1 DEF QueuedFirst, Payments!Init, Mails!Init
  <1>5. OnlyPaymentsArrive
    <2>1. ASSUME NEW m \in EventMessages
          PROVE  ~InMailQueue(m) /\ m \notin sent
      BY <1>1, ConsumerAssumptions
      DEF Init, EventOutbox!Init, InMailQueue, Mails!Init
    <2> QED
      BY <2>1 DEF OnlyPaymentsArrive
  <1> QED
    BY <1>2, <1>3, <1>4, <1>5 DEF IInv

LEMMA OrderOutboxKeepsIInv ==
  ASSUME IInv,
         \/ \E o \in Orders : CreateOrder(o) \/ RelayOrder(o) \/ ResendOrder(o)
         \/ \E left \in SUBSET Orders : StrandOrders(left)
  PROVE  IInv'
  <1> USE DEF IInv
  <1>1. /\ OrdersFit'
        /\ \A x \in Orders : orderHanded[x] <= orderHanded'[x]
        /\ UNCHANGED <<payment, eventOutbox, mail, bound>>
    BY OrderOutboxStep
    DEF OutboxesFit, CreateOrder, RelayOrder, ResendOrder, StrandOrders
  <1>2. Payments!IInv' /\ Mails!IInv'
    BY <1>1, PaymentsStay, MailsStay
  <1>3. OutboxesFit' /\ EventsHavePayments'
    BY <1>1
    DEF OutboxesFit, EventsFit, OutboxFits, EventsHavePayments, eventOutbox, payment
  <1>4. QueuedFirst'
    <2>1. ASSUME NEW m \in OrderMessages, InOrderQueue(m)
          PROVE  InOrderQueue(m)'
      BY <1>1, <1>3, <2>1, ConsumerAssumptions
      DEF InOrderQueue, OutboxesFit, OrdersFit, OutboxFits
    <2> QED
      BY <1>1, <2>1 DEF QueuedFirst, InMailQueue, payment, mail, eventOutbox
  <1>5. OnlyPaymentsArrive'
    BY <1>1 DEF OnlyPaymentsArrive, InMailQueue, payment, mail, eventOutbox
  <1> QED
    BY <1>2, <1>3, <1>4, <1>5

LEMMA PaymentKeepsIInv ==
  ASSUME IInv, NEW m \in OrderMessages, HandleOrderCreated(m) \/ PaymentFault(m)
  PROVE  IInv'
  <1> USE DEF IInv
  <1>1. /\ Payments!IInv'
        /\ \A x \in OrderMessages \ {m} : payPc'[x] = payPc[x] /\ db'[x] = db[x]
        /\ \A x \in OrderMessages : db[x] # Payments!NoRows => db'[x] = db[x]
        /\ db' # db => db'[m] # Payments!NoRows
        /\ InOrderQueue(m) /\ UNCHANGED <<orderOutbox, mail, bound>>
    BY PaymentStep DEF HandleOrderCreated, PaymentFault
  <1>2. UNCHANGED eventOutbox \/ (db' # db /\ EventOutbox!Record(m))
    BY DEF HandleOrderCreated, WithEvent, PaymentFault
  <1>3. Mails!IInv'
    BY <1>1, MailsStay
  <1>4. OutboxesFit' /\ EventsHavePayments'
    <2>1. CASE UNCHANGED eventOutbox
      BY <1>1, <2>1
      DEF OutboxesFit, OrdersFit, EventsFit, OutboxFits, EventsHavePayments,
          orderOutbox, eventOutbox
    <2>2. CASE db' # db /\ EventOutbox!Record(m)
      <3>1. EventsHavePayments'
        BY <1>1, <2>2, RecordEventStep DEF OutboxesFit, EventsHavePayments
      <3> QED
        BY <1>1, <2>2, <3>1, RecordEventStep
        DEF OutboxesFit, OrdersFit, OutboxFits, orderOutbox
    <2> QED
      BY <1>2, <2>1, <2>2
  <1>5. eventHanded' = eventHanded
    BY <1>2 DEF eventOutbox, EventOutbox!Record
  <1>6. QueuedFirst'
    BY <1>1, <1>5 DEF QueuedFirst, InOrderQueue, InMailQueue, orderOutbox, mail
  <1>7. OnlyPaymentsArrive'
    <2>1. ASSUME NEW x \in EventMessages, db[Original(x)].event = "PaymentCompleted"
          PROVE  db'[Original(x)].event = "PaymentCompleted"
      BY <1>1, <2>1, ConsumerAssumptions DEF Payments!NoRows
    <2> QED
      BY <1>1, <1>5, <2>1 DEF OnlyPaymentsArrive, InMailQueue, mail
  <1> QED
    BY <1>1, <1>3, <1>4, <1>6, <1>7

\* The copy that the exchange gets is queued, or it is dropped there and then.
LEMMA PublishEventKeepsIInv ==
  ASSUME IInv, NEW e \in OrderMessages, PublishEvent(e) \/ ResendEvent(e)
  PROVE  IInv'
  <1> USE DEF IInv
  <1>1. /\ EventsFit'
        /\ \A x \in OrderMessages : eventHanded[x] <= eventHanded'[x]
        /\ eventPhase' = eventPhase /\ eventPhase[e] # "none"
        /\ eventHanded' = [eventHanded EXCEPT ![e] = @ + 1]
        /\ UNCHANGED <<orderOutbox, payment, mailed, status, sent, mailOverlap, bound>>
    <2>1. EventsFit' /\ \A x \in OrderMessages : eventHanded[x] <= eventHanded'[x]
      BY EventOutboxStep DEF OutboxesFit, PublishEvent, ResendEvent
    <2> QED
      BY <2>1
      DEF PublishEvent, ResendEvent, Exchange, EventOutbox!HandOver,
          EventOutbox!Resend, EventOutbox!Publish
  <1>2. /\ eventHanded \in [OrderMessages -> 0..(EventRetries + EventResends)]
        /\ eventHanded' \in [OrderMessages -> 0..(EventRetries + EventResends)]
        /\ eventHanded'[e] = eventHanded[e] + 1
        /\ mailPc \in [EventMessages -> {"queued", "find", "create", "send",
                          "update", "updateFailed", "mark", "done"}]
    BY <1>1 DEF OutboxesFit, EventsFit, OutboxFits, Mails!IInv, Mails!TypeOK
  <1>3. PICK new \in EventMessages :
          /\ new = <<e, eventHanded'[e]>>
          /\ Original(new) = e /\ Copy(new) = eventHanded'[e]
    <2>1. <<e, eventHanded'[e]>> \in EventMessages
      BY <1>2, RetriesAssumption, ResendsAssumption DEF EventMessages
    <2> QED
      BY <2>1 DEF Original, Copy
  <1>4. \A m \in EventMessages :
          /\ InMailQueue(m) => InMailQueue(m)'
          /\ InMailQueue(m)' => InMailQueue(m) \/ m = new
    <2>1. ASSUME NEW m \in EventMessages, Original(m) # e
          PROVE  InMailQueue(m) <=> InMailQueue(m)'
      BY <1>1, <1>2, <2>1, ConsumerAssumptions DEF InMailQueue
    <2>2. ASSUME NEW m \in EventMessages, Original(m) = e
          PROVE  /\ InMailQueue(m) => InMailQueue(m)'
                 /\ InMailQueue(m)' => InMailQueue(m) \/ m = new
      <3>1. m = <<e, Copy(m)>>
        BY <2>2 DEF EventMessages, Original, Copy
      <3>2. Copy(m) \in Nat /\ eventHanded[e] \in Nat
        BY <1>2, ConsumerAssumptions
      <3>3. Copy(m) <= eventHanded[e] + 1 => Copy(m) <= eventHanded[e] \/ m = new
        BY <1>2, <1>3, <3>1, <3>2
      <3> QED
        BY <1>2, <2>2, <3>2, <3>3 DEF InMailQueue
    <2> QED
      BY <2>1, <2>2
  <1>5. \/ ReachesHandler(e) /\ mailPc' = mailPc
        \/ mailPc' = [mailPc EXCEPT ![new] = "done"]
    BY <1>3 DEF PublishEvent, ResendEvent, Exchange
  <1>6. Payments!IInv'
    BY <1>1, PaymentsStay
  <1>7. Mails!IInv'
    <2>1. CASE mailPc' = mailPc
      BY <1>1, <2>1, MailsStay DEF mail
    <2>2. CASE mailPc' = [mailPc EXCEPT ![new] = "done"]
      BY <1>1, <1>3, <2>2, ConsumerAssumptions, FaultsAssumption, Mails!EndKeepsIInv
    <2> QED
      BY <1>5, <2>1, <2>2
  <1>8. OutboxesFit' /\ EventsHavePayments'
    BY <1>1
    DEF OutboxesFit, OrdersFit, OutboxFits, EventsHavePayments, orderOutbox, payment
  <1>9. QueuedFirst'
    <2>1. InMailQueue(new)'
      BY <1>2, <1>3 DEF InMailQueue
    <2>2. \A m \in EventMessages : mailPc'[m] # "queued" => mailPc[m] # "queued" \/ m = new
      BY <1>2, <1>5
    <2> QED
      BY <1>1, <1>4, <2>1, <2>2
      DEF QueuedFirst, InOrderQueue, orderOutbox, payment
  <1>10. ReachesHandler(e) => db[e].event = "PaymentCompleted"
    <2>1. db[e].event \in {"PaymentCompleted", "PaymentFailed"}
      <3>1. db[e] # Payments!NoRows
        BY <1>1 DEF EventsHavePayments
      <3> QED
        BY <3>1 DEF Payments!IInv, Payments!PaymentsAreAnnounced
    <2> QED
      BY <2>1 DEF ReachesHandler, PatternOf, HandledPatterns
  <1>11. OnlyPaymentsArrive'
    <2> SUFFICES ASSUME NEW m \in EventMessages
                 PROVE  /\ InMailQueue(m)' /\ mailPc'[m] # "done" =>
                             db[Original(m)].event = "PaymentCompleted"
                        /\ m \in sent => db[Original(m)].event = "PaymentCompleted"
      BY <1>1 DEF OnlyPaymentsArrive, payment
    <2>1. CASE InMailQueue(m) /\ mailPc[m] # "done"
      BY <2>1 DEF OnlyPaymentsArrive
    <2>2. CASE InMailQueue(m) /\ mailPc[m] = "done"
      BY <1>2, <1>3, <1>5, <2>2 DEF OnlyPaymentsArrive
    <2>3. CASE ~InMailQueue(m) /\ InMailQueue(m)'
      <3>1. m = new
        BY <1>4, <2>3
      <3> QED
        BY <1>2, <1>3, <1>5, <1>10, <3>1 DEF OnlyPaymentsArrive
    <2> QED
      BY <1>4, <2>1, <2>2, <2>3 DEF OnlyPaymentsArrive
  <1> QED
    BY <1>6, <1>7, <1>8, <1>9, <1>11

LEMMA BookEventKeepsIInv ==
  ASSUME IInv,
         \/ \E e \in OrderMessages : BookEvent(e)
         \/ \E left \in SUBSET OrderMessages : StrandEvents(left)
  PROVE  IInv'
  <1> USE DEF IInv
  <1>1. /\ EventsFit'
        /\ \A x \in OrderMessages : eventPhase[x] = "none" => eventPhase'[x] = "none"
        /\ eventHanded' = eventHanded
        /\ UNCHANGED <<orderOutbox, payment, mail, bound>>
    <2>1. /\ EventsFit'
          /\ \A x \in OrderMessages : eventPhase[x] = "none" => eventPhase'[x] = "none"
      BY EventOutboxStep DEF OutboxesFit, BookEvent, StrandEvents
    <2> QED
      BY <2>1
      DEF BookEvent, StrandEvents, EventOutbox!Fail, EventOutbox!Settle,
          EventOutbox!Strand
  <1>2. Payments!IInv' /\ Mails!IInv'
    BY <1>1, PaymentsStay, MailsStay
  <1>3. OutboxesFit' /\ EventsHavePayments'
    BY <1>1
    DEF OutboxesFit, OrdersFit, OutboxFits, EventsHavePayments, orderOutbox, payment
  <1>4. QueuedFirst' /\ OnlyPaymentsArrive'
    BY <1>1
    DEF QueuedFirst, OnlyPaymentsArrive, InOrderQueue, InMailQueue, orderOutbox,
        payment, mail
  <1> QED
    BY <1>2, <1>3, <1>4

LEMMA MailKeepsIInv ==
  ASSUME IInv, NEW m \in EventMessages, HandlePaymentCompleted(m) \/ MailFault(m)
  PROVE  IInv'
  <1> USE DEF IInv
  <1>1. /\ Mails!IInv'
        /\ mailPc[m] # "done" /\ InMailQueue(m)
        /\ \A x \in EventMessages \ {m} : mailPc'[x] = mailPc[x]
        /\ sent' \subseteq sent \cup {m}
        /\ UNCHANGED <<orderOutbox, payment, eventOutbox, bound>>
    BY MailStep DEF HandlePaymentCompleted, MailFault
  <1>2. Payments!IInv'
    BY <1>1, PaymentsStay
  <1>3. OutboxesFit' /\ EventsHavePayments' /\ QueuedFirst'
    BY <1>1
    DEF OutboxesFit, OrdersFit, EventsFit, OutboxFits, EventsHavePayments,
        QueuedFirst, InOrderQueue, InMailQueue, orderOutbox, payment, eventOutbox
  <1>4. OnlyPaymentsArrive'
    BY <1>1 DEF OnlyPaymentsArrive, InMailQueue, payment, eventOutbox
  <1> QED
    BY <1>1, <1>2, <1>3, <1>4

LEMMA NextKeepsIInv == IInv /\ [Next]_vars => IInv'
  <1> SUFFICES ASSUME IInv, [Next]_vars PROVE IInv'
    OBVIOUS
  <1>1. CASE BindQueue \/ UNCHANGED vars
    <2>1. UNCHANGED <<orderOutbox, payment, eventOutbox, mail>>
      BY <1>1 DEF BindQueue, vars
    <2>2. Payments!IInv' /\ Mails!IInv'
      BY <2>1, PaymentsStay, MailsStay DEF IInv
    <2> QED
      BY <2>1, <2>2
      DEF IInv, OutboxesFit, OrdersFit, EventsFit, OutboxFits,
          EventsHavePayments, QueuedFirst, OnlyPaymentsArrive, InOrderQueue, InMailQueue, orderOutbox, payment,
          eventOutbox, mail
  <1> QED
    BY <1>1, OrderOutboxKeepsIInv, PaymentKeepsIInv, PublishEventKeepsIInv,
       BookEventKeepsIInv, MailKeepsIInv
    DEF Next

\* The inductive invariant holds throughout.
THEOREM InductiveInvariant == Spec => []IInv
  BY InitIInv, NextKeepsIInv, PTL DEF Spec

-----------------------------------------------------------------------------
(* Consequences.                                                           *)

\* Nobody is told of a payment that was not made: every mail goes back to an
\* order that was created, a charge for it and a COMPLETED payment.
THEOREM MailsFollowPayments == Spec => []MailsAreForPaidOrders
  <1>1. ASSUME IInv, NEW m \in sent
        PROVE  LET e == Original(m) IN
               /\ orderPhase[Original(e)] # "none"
               /\ e \in charged
               /\ db[e].payment = "COMPLETED"
    <2> DEFINE e == Original(m)
    <2>1. m \in EventMessages /\ e \in OrderMessages /\ Original(e) \in Orders
      BY <1>1, ConsumerAssumptions DEF IInv, Mails!IInv, Mails!TypeOK
    <2>2. db[e].event = "PaymentCompleted"
      BY <1>1, <2>1 DEF IInv, OnlyPaymentsArrive
    <2>3. e \in charged /\ db[e].payment = "COMPLETED"
      <3>1. db[e] # Payments!NoRows
        BY <2>2 DEF Payments!NoRows
      <3> QED
        BY <1>1, <2>1, <2>2, <3>1 DEF IInv, Payments!IInv, Payments!PaymentsAreAnnounced
    <2>4. payPc[e] # "queued"
      BY <1>1, <2>1, <2>3 DEF IInv, Payments!IInv, Payments!NothingBeforeItsTime
    <2>5. Copy(e) <= orderHanded[Original(e)] /\ Copy(e) \in Nat \ {0}
      BY <1>1, <2>1, <2>4, ConsumerAssumptions, RetriesAssumption, ResendsAssumption
      DEF IInv, QueuedFirst, InOrderQueue
    <2>6. orderPhase[Original(e)] # "none"
      BY <1>1, <2>1, <2>5, RetriesAssumption, ResendsAssumption
      DEF IInv, OutboxesFit, OrdersFit, OutboxFits
    <2> QED
      BY <2>3, <2>6
  <1>2. IInv => MailsAreForPaidOrders
    BY <1>1 DEF MailsAreForPaidOrders
  <1> QED
    BY <1>2, InductiveInvariant, PTL

\* However often the two outboxes publish, an order is confirmed once unless two
\* messages about it, or about its payment, were handled at the same time.
THEOREM OrdersAreConfirmedOnce == Spec => []OneMailPerOrder
  <1>1. ASSUME IInv, NEW o \in Orders, NEW m \in MailsFor(o), NEW n \in MailsFor(o),
               m # n, o \notin payOverlap
        PROVE  Original(m) \in mailOverlap
    <2>1. /\ m \in sent /\ m \in EventMessages /\ Original(m) \in OrderMessages
          /\ n \in sent /\ n \in EventMessages /\ Original(n) \in OrderMessages
          /\ Original(Original(m)) = o /\ Original(Original(n)) = o
      BY <1>1, ConsumerAssumptions DEF MailsFor, IInv, Mails!IInv, Mails!TypeOK
    <2>2. /\ db[Original(m)] # Payments!NoRows
          /\ db[Original(n)] # Payments!NoRows
      BY <1>1, <2>1 DEF IInv, OnlyPaymentsArrive, Payments!NoRows
    <2>3. Original(m) = Original(n)
      BY <1>1, <2>1, <2>2
      DEF IInv, Payments!IInv, Payments!OnePaymentUnlessOverlapped, Payments!OnePayment
    <2>4. n \in Mails!SameEvent(m) \cap sent
      BY <2>1, <2>3 DEF Mails!SameEvent
    <2>5. \/ [x \in EventMessages |-> Original(x)][m] \in mailOverlap
          \/ Mails!SameEvent(m) \cap sent = {m}
      BY <1>1, <2>1 DEF IInv, Mails!IInv, Mails!OneMailUnlessOverlapped
    <2> QED
      BY <1>1, <2>1, <2>4, <2>5
  <1>2. IInv => OneMailPerOrder
    BY <1>1 DEF OneMailPerOrder
  <1> QED
    BY <1>2, InductiveInvariant, PTL

\* The pipeline drives its two outboxes and the payment service as their modules
\* describe them.  (Not Confirmation: a dropped copy is over without a fault.)
THEOREM PipelineRunsItsParts ==
  Spec => OrderOutbox!Spec /\ EventOutbox!Spec /\ Pay!Spec
  <1>1. Init => OrderOutbox!Init /\ EventOutbox!Init /\ Pay!Init
    BY DEF Init
  <1>2. [Next]_vars => /\ [OrderOutbox!Next]_(OrderOutbox!vars)
                       /\ [EventOutbox!Next]_(EventOutbox!vars)
                       /\ [Pay!Next]_(Pay!vars)
    <2> USE DEF orderOutbox, eventOutbox, payment, OrderOutbox!vars,
                EventOutbox!vars, Pay!vars
    <2>1. ASSUME \/ \E o \in Orders :
                      CreateOrder(o) \/ RelayOrder(o) \/ ResendOrder(o)
                 \/ \E left \in SUBSET Orders : StrandOrders(left)
          PROVE  /\ OrderOutbox!Next
                 /\ UNCHANGED EventOutbox!vars /\ UNCHANGED Pay!vars
      BY <2>1 DEF CreateOrder, RelayOrder, ResendOrder, StrandOrders, OrderOutbox!Next
    <2>2. ASSUME NEW m \in OrderMessages, HandleOrderCreated(m) \/ PaymentFault(m)
          PROVE  /\ UNCHANGED OrderOutbox!vars
                 /\ EventOutbox!Next \/ UNCHANGED EventOutbox!vars
                 /\ Pay!Next
      BY <2>2 DEF HandleOrderCreated, WithEvent, PaymentFault, EventOutbox!Next, Pay!Next
    <2>3. ASSUME \/ \E e \in OrderMessages :
                      PublishEvent(e) \/ ResendEvent(e) \/ BookEvent(e)
                 \/ \E left \in SUBSET OrderMessages : StrandEvents(left)
          PROVE  /\ UNCHANGED OrderOutbox!vars /\ EventOutbox!Next
                 /\ UNCHANGED Pay!vars
      BY <2>3
      DEF PublishEvent, ResendEvent, Exchange, BookEvent, StrandEvents,
          EventOutbox!Next, EventOutbox!Attempt
    <2>4. ASSUME \/ \E m \in EventMessages : HandlePaymentCompleted(m) \/ MailFault(m)
                 \/ BindQueue \/ UNCHANGED vars
          PROVE  /\ UNCHANGED OrderOutbox!vars /\ UNCHANGED EventOutbox!vars
                 /\ UNCHANGED Pay!vars
      BY <2>4 DEF HandlePaymentCompleted, MailFault, BindQueue, vars
    <2> QED
      BY <2>1, <2>2, <2>3, <2>4 DEF Next
  <1> QED
    BY <1>1, <1>2, PTL DEF Spec, OrderOutbox!Spec, EventOutbox!Spec, Pay!Spec
=============================================================================
