------------------------------- MODULE Outbox -------------------------------
(***************************************************************************)
(* The outbox of one service: the table outbox_events, the business        *)
(* transactions that record events in it, and the OutboxPublisherWorkers   *)
(* (one per running instance of the service) that claim pending rows,      *)
(* publish them and book the result.                                       *)
(*                                                                         *)
(* Every statement the worker awaits is an action of its own, so other     *)
(* workers, crashes and failing statements come between any two of them.   *)
(* An event is its position in the order of "createdAt".  That column is   *)
(* filled with the start time of the recording transaction, so events may  *)
(* be committed (action Record) in any order.                              *)
(***************************************************************************)
EXTENDS Naturals, FiniteSets

CONSTANTS Events,      \* the events that may be recorded, by createdAt
          Workers,     \* the worker of each running service instance
          BatchSize,   \* rows per claim (50 in the code)
          MaxRetries,  \* failed attempts before FAILED (5 in the code)
          MaxResends,  \* broken connections to the broker, for each event
          Faults       \* the faults that may happen

ASSUME EventsAssumption == Events \subseteq Nat
ASSUME LimitsAssumption ==
         BatchSize \in Nat \ {0} /\ MaxRetries \in Nat \ {0} /\ MaxResends \in Nat
\* "broker": publish rejects.  "connection": it waits for another connection
\* to the broker.  "leak": database connections come in an open transaction.
ASSUME FaultsAssumption ==
         Faults \subseteq {"crash", "database", "broker", "connection", "leak"}

VARIABLES status,           \* outbox_events.status, "NONE" before the insert
          processingClaim,  \* outbox_events."processingClaim"
          retryCount,       \* outbox_events."retryCount"
          pc,               \* the statement the worker will run next
          claimId,          \* the worker's local claimId
          batch,            \* the worker's events not yet dealt with
          readRetries,      \* event.retryCount as the claim read it
          lastClaim,        \* uuid(): the last claim id given out
          late,             \* what an uncommitted booking says of the event
          published,        \* history: copies of the event put in the broker
          resent            \* history: copies sent again on a new connection

table == <<status, processingClaim, retryCount>>
local == <<pc, claimId, batch, readRetries>>
broker == <<published, resent>>
vars  == <<table, local, lastClaim, late, broker>>

Statuses  == {"NONE", "PENDING", "PROCESSING", "SENT", "FAILED"}
NoClaim   == 0
NoRetries == [e \in Events |-> 0]

TypeOK ==
  /\ status \in [Events -> Statuses]
  /\ processingClaim \in [Events -> Nat]
  /\ retryCount \in [Events -> 0..MaxRetries]
  /\ pc \in [Workers -> {"idle", "claiming", "publishing",
                         "markSent", "markFailed"}]
  /\ claimId \in [Workers -> Nat]
  /\ batch \in [Workers -> SUBSET Events]
  /\ readRetries \in [Workers -> [Events -> 0..MaxRetries]]
  /\ lastClaim \in Nat
  /\ late \in [Events -> {"none", "sent", "failed"}]
  /\ published \in [Events -> Nat]
  /\ resent \in [Events -> 0..MaxResends]

Init ==
  /\ status = [e \in Events |-> "NONE"]
  /\ processingClaim = [e \in Events |-> NoClaim]
  /\ retryCount = [e \in Events |-> 0]
  /\ pc = [w \in Workers |-> "idle"]
  /\ claimId = [w \in Workers |-> NoClaim]
  /\ batch = [w \in Workers |-> {}]
  /\ readRetries = [w \in Workers |-> NoRetries]
  /\ lastClaim = 0
  /\ late = [e \in Events |-> "none"]
  /\ published = [e \in Events |-> 0]
  /\ resent = [e \in Events |-> 0]

-----------------------------------------------------------------------------
(* Helpers.  Those named ...Mutant change the operator they follow or      *)
(* precede the way a slip in the code would; no action uses them.          *)

isProcessing(w) == pc[w] # "idle"

\* The rows a SELECT ... FOR UPDATE SKIP LOCKED finds: PENDING, and not in
\* the open claim transaction of another worker.
ClaimableMutant ==
  {e \in Events : status[e] = "PENDING"}
ClaimableOnceMutant ==
  {e \in Events : /\ status[e] = "PENDING" /\ retryCount[e] = 0
                  /\ \A w \in Workers : pc[w] = "claiming" => e \notin batch[w]}
Claimable ==
  {e \in Events : /\ status[e] = "PENDING"
                  /\ \A w \in Workers : pc[w] = "claiming" => e \notin batch[w]}

\* ORDER BY "createdAt" ASC LIMIT batchSize
Oldest(rows) ==
  {e \in rows : Cardinality({x \in rows : x < e}) < BatchSize}

\* The event the for loop is at: the oldest one left in the batch.
IsCurrent(w, e) == e \in batch[w] /\ \A x \in batch[w] : e <= x

\* WHERE id = eventId AND "processingClaim" = claimId
RowMatchesMutant(w, e) == TRUE
RowMatches(w, e) == processingClaim[e] = claimId[w]

\* The row update of markEventAsSent and markEventAsFailed.
UpdateRow(w, e, newStatus, newRetries) ==
  IF RowMatches(w, e)
  THEN /\ status' = [status EXCEPT ![e] = newStatus]
       /\ retryCount' = [retryCount EXCEPT ![e] = newRetries]
       /\ processingClaim' = [processingClaim EXCEPT ![e] = NoClaim]
  ELSE UNCHANGED table

\* The argument the worker passes as retryCount, and the status it leads to.
NextRetryCountMutant(w, e) == readRetries[w][e]
NextRetryCount(w, e) == readRetries[w][e] + 1
StatusAfterFailureMutant(n) == IF n > MaxRetries THEN "FAILED" ELSE "PENDING"
StatusAfterFailure(n) == IF n >= MaxRetries THEN "FAILED" ELSE "PENDING"

MarkSentRow(w, e) == UpdateRow(w, e, "SENT", retryCount[e])
MarkFailedRowMutant(w, e) ==
  LET n == NextRetryCount(w, e) IN
  UpdateRow(w, e, IF n >= MaxRetries THEN "FAILED" ELSE "PROCESSING", n)
MarkFailedRow(w, e) ==
  LET n == NextRetryCount(w, e) IN UpdateRow(w, e, StatusAfterFailure(n), n)

Goto(w, label) ==
  /\ pc' = [pc EXCEPT ![w] = label]
  /\ UNCHANGED <<claimId, batch, readRetries>>

\* finally { isProcessing = false }: the cycle ends, its locals are gone.
EndCycle(w) ==
  /\ pc' = [pc EXCEPT ![w] = "idle"]
  /\ claimId' = [claimId EXCEPT ![w] = NoClaim]
  /\ batch' = [batch EXCEPT ![w] = {}]
  /\ readRetries' = [readRetries EXCEPT ![w] = NoRetries]

\* The next iteration of the for loop, or the end of the cycle.
NextEvent(w, e) ==
  IF batch[w] = {e}
  THEN EndCycle(w)
  ELSE /\ pc' = [pc EXCEPT ![w] = "publishing"]
       /\ batch' = [batch EXCEPT ![w] = @ \ {e}]
       /\ UNCHANGED <<claimId, readRetries>>

-----------------------------------------------------------------------------
(* Actions.                                                                *)

\* A business transaction that saved e as an OutboxEvent commits.
Record(e) ==
  /\ status[e] = "NONE"
  /\ status' = [status EXCEPT ![e] = "PENDING"]
  /\ UNCHANGED <<processingClaim, retryCount, local, lastClaim, late, broker>>

\* A cron tick that finds nothing to claim: the cycle ends at once.  (A tick
\* while isProcessing(w) holds is skipped and changes nothing either.)
PollEmpty(w) ==
  /\ ~isProcessing(w)
  /\ Claimable = {}
  /\ UNCHANGED vars

\* A cron tick opens the claim transaction and locks the rows it selects.
SelectPending(w) ==
  /\ ~isProcessing(w)
  /\ Claimable # {}
  /\ batch' = [batch EXCEPT ![w] = Oldest(Claimable)]
  /\ pc' = [pc EXCEPT ![w] = "claiming"]
  /\ UNCHANGED <<table, claimId, readRetries, lastClaim, late, broker>>

\* The UPDATE of the claim transaction and its commit.
ClaimRows(w) ==
  /\ pc[w] = "claiming"
  /\ lastClaim' = lastClaim + 1
  /\ status' = [e \in Events |-> IF e \in batch[w] THEN "PROCESSING" ELSE status[e]]
  /\ processingClaim' =
       [e \in Events |-> IF e \in batch[w] THEN lastClaim' ELSE processingClaim[e]]
  /\ UNCHANGED <<retryCount, late, broker>>

\* The claim commits and the worker gets the claimed rows, oldest first.
CommitClaim(w) ==
  /\ ClaimRows(w)
  /\ claimId' = [claimId EXCEPT ![w] = lastClaim']
  /\ readRetries' = [readRetries EXCEPT ![w] =
                       [e \in Events |-> IF e \in batch[w] THEN retryCount[e] ELSE 0]]
  /\ pc' = [pc EXCEPT ![w] = "publishing"]
  /\ UNCHANGED batch

\* The claim commits but the worker sees an error: the outer catch ends the
\* cycle and nobody holds the claim.
LoseClaim(w) ==
  /\ "database" \in Faults
  /\ ClaimRows(w)
  /\ EndCycle(w)

\* The claim transaction fails and is rolled back.
RollbackClaim(w) ==
  /\ "database" \in Faults
  /\ pc[w] = "claiming"
  /\ EndCycle(w)
  /\ UNCHANGED <<table, lastClaim, late, broker>>

\* messagePublisher.publish: one more copy of e reaches the broker.
Publish(w, e) ==
  /\ pc[w] = "publishing" /\ IsCurrent(w, e)
  /\ published' = [published EXCEPT ![e] = @ + 1]
  /\ UNCHANGED <<table, lastClaim, late>>

\* The broker confirms the message ...
PublishConfirmed(w, e) ==
  Publish(w, e) /\ Goto(w, "markSent") /\ UNCHANGED resent

\* ... or the connection breaks before it does.  The channel of both
\* publishers keeps the message and sends it again on its next connection,
\* while publish goes on waiting.  (A message that had not arrived is sent
\* again, too, which makes no second copy.)
Resend(w, e) ==
  /\ "connection" \in Faults
  /\ resent[e] < MaxResends
  /\ Publish(w, e) /\ Goto(w, "publishing")
  /\ resent' = [resent EXCEPT ![e] = @ + 1]

\* publish rejects although the message has arrived: the channel is closed on
\* the way out, or only some queues of the exchange took the message ...
PublishUnconfirmed(w, e) ==
  /\ "broker" \in Faults
  /\ Publish(w, e) /\ Goto(w, "markFailed") /\ UNCHANGED resent

\* ... and publish rejects and no copy arrives.
PublishLostMutant(w, e) ==
  /\ "broker" \in Faults
  /\ pc[w] = "publishing" /\ IsCurrent(w, e)
  /\ Goto(w, "markSent")
  /\ UNCHANGED <<table, lastClaim, late, broker>>
PublishLost(w, e) ==
  /\ "broker" \in Faults
  /\ pc[w] = "publishing" /\ IsCurrent(w, e)
  /\ Goto(w, "markFailed")
  /\ UNCHANGED <<table, lastClaim, late, broker>>

MarkEventAsSent(w, e) ==
  /\ pc[w] = "markSent" /\ IsCurrent(w, e)
  /\ MarkSentRow(w, e)
  /\ NextEvent(w, e)
  /\ UNCHANGED <<lastClaim, late, broker>>

\* markEventAsSent throws, with the row updated or not: the inner catch books
\* the event as failed.
MarkEventAsSentThrows(w, e) ==
  /\ "database" \in Faults
  /\ pc[w] = "markSent" /\ IsCurrent(w, e)
  /\ MarkSentRow(w, e) \/ UNCHANGED table
  /\ Goto(w, "markFailed")
  /\ UNCHANGED <<lastClaim, late, broker>>

MarkEventAsFailed(w, e) ==
  /\ pc[w] = "markFailed" /\ IsCurrent(w, e)
  /\ MarkFailedRow(w, e)
  /\ NextEvent(w, e)
  /\ UNCHANGED <<lastClaim, late, broker>>

\* markEventAsFailed throws out of the for loop: the rest of the batch is
\* dropped by the outer catch.
MarkEventAsFailedThrows(w, e) ==
  /\ "database" \in Faults
  /\ pc[w] = "markFailed" /\ IsCurrent(w, e)
  /\ MarkFailedRow(w, e) \/ UNCHANGED table
  /\ EndCycle(w)
  /\ UNCHANGED <<lastClaim, late, broker>>

\* The update runs on a connection that an early return of processPayment has
\* left in a transaction (see ConnectionPool): it returns and is not committed.
BookUncommitted(w, e) ==
  /\ "leak" \in Faults
  /\ pc[w] \in {"markSent", "markFailed"} /\ IsCurrent(w, e)
  /\ RowMatches(w, e)
  /\ late' = [late EXCEPT ![e] = IF pc[w] = "markSent" THEN "sent" ELSE "failed"]
  /\ NextEvent(w, e)
  /\ UNCHANGED <<table, lastClaim, broker>>

\* That transaction is committed by a later user of the connection ...
LateCommit(e) ==
  /\ late[e] # "none"
  /\ late' = [late EXCEPT ![e] = "none"]
  /\ processingClaim' = [processingClaim EXCEPT ![e] = NoClaim]
  /\ LET n == retryCount[e] + 1 IN
     IF late[e] = "sent"
     THEN status' = [status EXCEPT ![e] = "SENT"] /\ UNCHANGED retryCount
     ELSE /\ status' = [status EXCEPT ![e] = StatusAfterFailure(n)]
          /\ retryCount' = [retryCount EXCEPT ![e] = n]
  /\ UNCHANGED <<local, lastClaim, broker>>

\* ... or undone by one, by the pool, or by the end of the instance.
LateUndo(e) ==
  /\ late[e] # "none"
  /\ late' = [late EXCEPT ![e] = "none"]
  /\ UNCHANGED <<table, local, lastClaim, broker>>

\* The service instance dies and is started again.  Its row locks go, its
\* claims stay: no statement ever looks at "processingStartedAt".
Crash(w) ==
  /\ "crash" \in Faults
  /\ isProcessing(w)
  /\ EndCycle(w)
  /\ UNCHANGED <<table, lastClaim, late, broker>>

PublishStep(w, e) ==
  \/ PublishConfirmed(w, e) \/ PublishUnconfirmed(w, e) \/ PublishLost(w, e)
BookStep(w, e) ==
  \/ MarkEventAsSent(w, e) \/ MarkEventAsSentThrows(w, e)
  \/ MarkEventAsFailed(w, e) \/ MarkEventAsFailedThrows(w, e)
  \/ BookUncommitted(w, e)
ClaimStep(w) ==
  SelectPending(w) \/ CommitClaim(w) \/ LoseClaim(w) \/ RollbackClaim(w)

\* publishPendingEvents
WorkerStep(w) ==
  ClaimStep(w) \/ \E e \in Events : PublishStep(w, e) \/ BookStep(w, e)

Next ==
  \/ \E e \in Events : Record(e) \/ LateCommit(e) \/ LateUndo(e)
  \/ \E w \in Workers : WorkerStep(w) \/ PollEmpty(w) \/ Crash(w)
  \/ \E w \in Workers, e \in Events : Resend(w, e)

Spec == Init /\ [][Next]_vars

\* The cron job fires for ever and every awaited call returns; claims are not
\* rolled back for ever, and no transaction stays open for ever: the next
\* claim on its connection commits it, and the pool closes it when idle.
FairSpec ==
  /\ Spec
  /\ \A w \in Workers : WF_vars(WorkerStep(w)) /\ SF_vars(CommitClaim(w))
  /\ \A e \in Events : WF_vars(LateCommit(e) \/ LateUndo(e))

-----------------------------------------------------------------------------
(* Properties.                                                             *)

\* No event is in the hands of two workers, whether it is being selected or
\* already claimed (FOR UPDATE SKIP LOCKED plus the claim id).
ClaimExclusive ==
  \A v, w \in Workers : v # w => batch[v] \cap batch[w] = {}

\* A row says who owns it: an event a worker still has to deal with is
\* PROCESSING under that worker's claim with the retryCount the worker read,
\* unless it is the event whose markEventAsSent was applied and then reported
\* as failed; and no row is PROCESSING without a claim.
HeldRowsAreOwned ==
  /\ \A e \in Events : status[e] = "PROCESSING" <=> processingClaim[e] # NoClaim
  /\ \A w \in Workers : pc[w] \in {"publishing", "markSent", "markFailed"} =>
       \A e \in batch[w] :
         /\ readRetries[w][e] = retryCount[e]
         /\ \/ status[e] = "PROCESSING" /\ processingClaim[e] = claimId[w]
            \/ status[e] = "SENT" /\ pc[w] = "markFailed" /\ IsCurrent(w, e)

\* An event is marked SENT only after it reached the broker: the promise the
\* outbox pattern is used for.
SentWasPublished ==
  \A e \in Events : status[e] = "SENT" => published[e] > 0

\* Duplicates are bounded: a publish() leaves one copy in the broker, and one
\* more for each connection that breaks under it, and there is one publish()
\* per booked failure and one more, MaxRetries at most.
PublishesAreBounded ==
  \A e \in Events : /\ published[e] <= retryCount[e] + 1 + resent[e]
                    /\ published[e] <= MaxRetries + resent[e]

\* SENT and FAILED are final, and no copy follows them into the broker: a
\* worker with an old claim can neither reopen nor republish an event.
TerminalIsFinal ==
  [][\A e \in Events : status[e] \in {"SENT", "FAILED"} =>
       status'[e] = status[e] /\ published'[e] = published[e]]_vars

\* "Failed to publish event ..., will retry": an event whose publication
\* failed becomes PENDING again or reaches a final state.
FailedPublishIsRetried ==
  \A w \in Workers, e \in Events :
    (pc[w] = "markFailed" /\ IsCurrent(w, e)) ~> status[e] # "PROCESSING"

-----------------------------------------------------------------------------
(* Refinement.                                                             *)

\* A claimed row that no worker deals with any more, and that no open
\* transaction has booked: nothing in the code looks at it again.
Stranded(e) ==
  /\ status[e] = "PROCESSING"
  /\ \A w \in Workers : e \notin batch[w]
  /\ late[e] = "none"

\* The abstract phase of a row.
PhaseOf(e) ==
  CASE status[e] = "NONE" -> "none"
    [] Stranded(e) -> "stranded"
    [] status[e] \in {"PENDING", "PROCESSING"} /\ ~Stranded(e) -> "owed"
    [] status[e] = "SENT" -> "settled"
    [] status[e] = "FAILED" -> "dead"

Delivery == INSTANCE EventDelivery
              WITH phase <- [e \in Events |-> PhaseOf(e)],
                   handed <- published,
                   failures <- retryCount

\* The outbox keeps the promise of EventDelivery: in particular a stranded
\* event is never published or booked again.
DeliversEvents == Delivery!Spec

\* Whatever fails, an event that somebody deals with, or will select, does
\* not stay so for ever: it ends as SENT, as FAILED, or stranded.
ConcludesEvents == Delivery!Concludes

\* Faults that leave an event to nobody.
StrandingFault(e) ==
  \/ LateUndo(e)
  \/ \E w \in Workers :
       \/ Crash(w) \/ LoseClaim(w)
       \/ \E x \in Events : MarkEventAsFailedThrows(w, x)
StrandsByFault ==
  \A e \in Events : Stranded(e)' /\ ~Stranded(e) => StrandingFault(e)

\* An event is stranded only when an instance dies or loses a claim, when
\* markEventAsFailed throws, or when a booking is undone.  A broker that
\* rejects, or whose connections break, and another worker with the same rows
\* never strand an event, so without those faults every event is settled.
OnlyFaultsStrand == [][StrandsByFault]_vars
=============================================================================
