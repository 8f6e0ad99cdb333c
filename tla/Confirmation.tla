---------------------------- MODULE Confirmation ----------------------------
(***************************************************************************)
(* The consumers of PaymentCompleted.  The email service and the           *)
(* notification service run the same statements on tables of their own     *)
(* (emails, notifications), so one module stands for either: a "mail" is   *)
(* an e-mail there and a push notification here.                           *)
(*                                                                         *)
(* One process per delivered message, as in module Payment.                *)
(***************************************************************************)
EXTENDS Naturals

CONSTANTS Deliveries,   \* messages with pattern payment.paymentcompleted
          Events,       \* PaymentCompleted events
          EventOf,      \* the event each message is a copy of
          Faults        \* the faults that may happen

ASSUME FaultsAssumption == Faults \subseteq {"crash", "database", "loss"}
ASSUME EventOfAssumption == EventOf \in [Deliveries -> Events]

VARIABLES processed,  \* events in processed_events
          status,     \* status of the row each delivery inserted
          pc,         \* the statement the handler runs next
          sent,       \* history: deliveries that sent a mail
          overlapped  \* history: events with two handlers at the same time

vars == <<processed, status, pc, sent, overlapped>>

TypeOK ==
  /\ processed \subseteq Events
  /\ status \in [Deliveries -> {"none", "PENDING", "SENT", "FAILED"}]
  /\ pc \in [Deliveries -> {"queued", "find", "create", "send", "update",
                            "updateFailed", "mark", "done"}]
  /\ sent \subseteq Deliveries
  /\ overlapped \subseteq Events

Init ==
  /\ processed = {}
  /\ status = [d \in Deliveries |-> "none"]
  /\ pc = [d \in Deliveries |-> "queued"]
  /\ sent = {}
  /\ overlapped = {}

-----------------------------------------------------------------------------
(* Helpers.  Those named ...Mutant change the operator that follows them   *)
(* the way a slip in the code would; no action uses them.                  *)

SameEvent(d) == {x \in Deliveries : EventOf[x] = EventOf[d]}
Running(d) == pc[d] \notin {"queued", "done"}

\* The handler of d starts, maybe beside another handler for its event.
Start(d) ==
  /\ pc[d] = "queued"
  /\ overlapped' = IF \E x \in SameEvent(d) : Running(x)
                   THEN overlapped \cup {EventOf[d]} ELSE overlapped

\* findByEventId: a row in whatever status.
ExistingRowMutant(d) == \E x \in SameEvent(d) : status[x] = "SENT"
ExistingRow(d) == \E x \in SameEvent(d) : status[x] # "none"

Goto(d, label) == pc' = [pc EXCEPT ![d] = label]
SetStatus(d, new) == status' = [status EXCEPT ![d] = new]
MarkWrongIdMutant(d) == processed' = processed \cup {d}
Mark(d) == processed' = processed \cup {EventOf[d]}

\* Where an error in the handler leads: always to the end.
CatchMutant(d) == Goto(d, IF pc[d] = "mark" THEN "done" ELSE "mark")
Catch(d) == Goto(d, "done")

-----------------------------------------------------------------------------
(* handlePaymentCompleted and sendConfirmationEmail / sendNotification.    *)

CheckProcessed(d) ==
  /\ Start(d)
  /\ Goto(d, IF EventOf[d] \in processed THEN "done" ELSE "find")
  /\ UNCHANGED <<processed, status, sent>>

FindExisting(d) ==
  /\ pc[d] = "find"
  /\ Goto(d, IF ExistingRow(d) THEN "mark" ELSE "create")
  /\ UNCHANGED <<processed, status, sent, overlapped>>

CreateRow(d) ==
  /\ pc[d] = "create"
  /\ SetStatus(d, "PENDING")
  /\ Goto(d, "send")
  /\ UNCHANGED <<processed, sent, overlapped>>

\* Sending is a call that cannot fail in this code: it writes to the log.
SendMailMutant(d) ==
  /\ pc[d] = "send"
  /\ Goto(d, "update")
  /\ UNCHANGED <<processed, status, sent, overlapped>>
SendMail(d) ==
  /\ pc[d] = "send"
  /\ sent' = sent \cup {d}
  /\ Goto(d, "update")
  /\ UNCHANGED <<processed, status, overlapped>>

UpdateSent(d) ==
  /\ pc[d] = "update"
  /\ SetStatus(d, "SENT")
  /\ Goto(d, "mark")
  /\ UNCHANGED <<processed, sent, overlapped>>

\* The update throws, applied or not, after the mail is gone.
UpdateSentThrows(d) ==
  /\ "database" \in Faults
  /\ pc[d] = "update"
  /\ SetStatus(d, "SENT") \/ UNCHANGED status
  /\ Goto(d, "updateFailed")
  /\ UNCHANGED <<processed, sent, overlapped>>

\* The catch block of the service; it throws on to the consumer.
UpdateFailed(d) ==
  /\ pc[d] = "updateFailed"
  /\ SetStatus(d, "FAILED")
  /\ Catch(d)
  /\ UNCHANGED <<processed, sent, overlapped>>

MarkAsProcessed(d) ==
  /\ pc[d] = "mark"
  /\ Mark(d)
  /\ Goto(d, "done")
  /\ UNCHANGED <<status, sent, overlapped>>

\* Any other statement throws, applied or not.
StatementThrows(d) ==
  /\ "database" \in Faults
  /\ \/ Start(d)
     \/ pc[d] \in {"find", "create", "updateFailed", "mark"} /\ UNCHANGED overlapped
  /\ \/ UNCHANGED <<processed, status>>
     \/ pc[d] = "create" /\ SetStatus(d, "PENDING") /\ UNCHANGED processed
     \/ pc[d] = "updateFailed" /\ SetStatus(d, "FAILED") /\ UNCHANGED processed
     \/ pc[d] = "mark" /\ Mark(d) /\ UNCHANGED status
  /\ Catch(d)
  /\ UNCHANGED sent

-----------------------------------------------------------------------------
(* The environment: the service dies, the broker loses the message.        *)

Crash(d) ==
  /\ "crash" \in Faults
  /\ Running(d)
  /\ Goto(d, "done")
  /\ UNCHANGED <<processed, status, sent, overlapped>>

Lose(d) ==
  /\ "loss" \in Faults
  /\ pc[d] = "queued"
  /\ Goto(d, "done")
  /\ UNCHANGED <<processed, status, sent, overlapped>>

sendConfirmation(d) ==
  \/ FindExisting(d) \/ CreateRow(d) \/ SendMail(d)
  \/ UpdateSent(d) \/ UpdateSentThrows(d) \/ UpdateFailed(d)
handlePaymentCompleted(d) ==
  \/ CheckProcessed(d) \/ sendConfirmation(d) \/ MarkAsProcessed(d)
  \/ StatementThrows(d)

Next == \E d \in Deliveries : handlePaymentCompleted(d) \/ Crash(d) \/ Lose(d)

Spec == Init /\ [][Next]_vars

-----------------------------------------------------------------------------
(* Properties.                                                             *)

\* A row that says SENT belongs to a mail that went out, also when statements
\* fail before or after they are applied.
SentRowsWereSent == \A d \in Deliveries : status[d] = "SENT" => d \in sent

\* "Failed to send confirmation email": a row that says FAILED belongs to a
\* mail that did not go out.
FailedRowsWereNotSent ==
  \A d \in Deliveries : status[d] = "FAILED" => d \notin sent

\* As long as the copies of an event are handled one after the other, they
\* lead to one mail at most, whatever fails in between: the row that stops the
\* next copy is inserted before the mail goes.
OneMailUnlessOverlapped ==
  \A d \in sent : EventOf[d] \in overlapped \/ SameEvent(d) \cap sent = {d}

\* An event counts as processed only if some delivery inserted its row.
ProcessedHasRow ==
  \A d \in Deliveries : EventOf[d] \in processed => ExistingRow(d)

\* "already processed": an event that counts as processed has had its mail.
ProcessedWasMailed ==
  \A d \in Deliveries : EventOf[d] \in processed => SameEvent(d) \cap sent # {}
=============================================================================
