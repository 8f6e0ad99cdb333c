---------------------------- MODULE Idempotency ----------------------------
(***************************************************************************)
(* POST /orders in the order service: the IdempotencyInterceptor, the      *)
(* IdempotencyService with its table of idempotency records, and           *)
(* OrderService.createOrder, which the interceptor guards.                 *)
(*                                                                         *)
(* One process per HTTP request; a client retry is another request with    *)
(* the same key.  Every awaited statement is an action of its own.  The    *)
(* order that request r creates is named r.                                *)
(***************************************************************************)
EXTENDS Naturals

CONSTANTS Requests,     \* POST /orders requests with a valid key
          Keys,         \* idempotency keys
          KeyOf,        \* the key each request carries
          NoOrder,      \* null
          NoRecord,     \* no row with this key
          MaxAttempts,  \* attempts of withRetry (3 in the code)
          Environment   \* what else may happen, see EnvironmentAssumption

\* "expiry": a record gets older than its 24 hours.
ASSUME EnvironmentAssumption ==
         Environment \subseteq {"crash", "database", "expiry"}
ASSUME KeyOfAssumption == KeyOf \in [Requests -> Keys]
ASSUME NullsAssumption == NoOrder \notin Requests
ASSUME MaxAttemptsAssumption == MaxAttempts \in Nat \ {0}

VARIABLES table,      \* idempotency_records
          orders,     \* committed rows of orders
          events,     \* committed OrderCreated rows of outbox_events
          pc,         \* the statement the request runs next
          tx,         \* what its open transaction has saved
          attempts,   \* failed attempts of withRetry
          answer,     \* what the client was told
          body,       \* the order in the answer
          disturbed   \* history: keys with two requests at the same time, or
                      \* with a record that expired

vars == <<table, orders, events, pc, tx, attempts, answer, body, disturbed>>
request == <<pc, tx, attempts, answer, body>>

Null == NoOrder

Record == [isProcessing : BOOLEAN,
           responseBody : Requests \cup {Null},
           expired : BOOLEAN,
           insertedBy : Requests]   \* history: whose insert it is
ASSUME NoRecordAssumption == NoRecord \notin Record

Acquiring  == {"read", "delete", "reinsert", "reread"}
Processing == {"saveOrder", "saveEvent", "commit", "readBack", "complete", "unlock"}

TypeOK ==
  /\ table \in [Keys -> Record \cup {NoRecord}]
  /\ orders \subseteq Requests /\ events \subseteq Requests
  /\ pc \in [Requests -> {"new", "done"} \cup Acquiring \cup Processing]
  /\ tx \in [Requests -> SUBSET {"order", "event"}]
  /\ attempts \in [Requests -> 0..(MaxAttempts - 1)]
  /\ answer \in [Requests -> {"none", "created", "replayed", "conflict", "error"}]
  /\ body \in [Requests -> Requests \cup {Null}]
  /\ disturbed \subseteq Keys

Init ==
  /\ table = [k \in Keys |-> NoRecord]
  /\ orders = {} /\ events = {}
  /\ pc = [r \in Requests |-> "new"]
  /\ tx = [r \in Requests |-> {}]
  /\ attempts = [r \in Requests |-> 0]
  /\ answer = [r \in Requests |-> "none"]
  /\ body = [r \in Requests |-> Null]
  /\ disturbed = {}

-----------------------------------------------------------------------------
(* Helpers.  Those named ...Mutant change the operator that follows them   *)
(* the way a slip in the code would; no action uses them.                  *)

Row(r) == table[KeyOf[r]]
SetRow(r, row) == table' = [table EXCEPT ![KeyOf[r]] = row]
NewRecord(r) ==
  [isProcessing |-> TRUE, responseBody |-> Null, expired |-> FALSE, insertedBy |-> r]

\* INSERT ... ON CONFLICT DO NOTHING
InsertOrIgnore(r) == IF Row(r) = NoRecord THEN SetRow(r, NewRecord(r))
                     ELSE UNCHANGED table
\* UPDATE ... WHERE "idempotencyKey" = key
CompleteRowMutant(r) ==
  IF Row(r) = NoRecord
  THEN UNCHANGED table
  ELSE SetRow(r, [Row(r) EXCEPT !.isProcessing = FALSE])
CompleteRow(r) ==
  IF Row(r) = NoRecord
  THEN UNCHANGED table
  ELSE SetRow(r, [Row(r) EXCEPT !.isProcessing = FALSE, !.responseBody = r])
\* DELETE ... WHERE "idempotencyKey" = key, whoever inserted the row
DeleteRow(r) == SetRow(r, NoRecord)

\* acquireLock treats a row that is being processed as its own insert.
LooksInsertedLooseMutant(row) == row # NoRecord
LooksInsertedSwappedMutant(row) ==
  row # NoRecord /\ row.isProcessing /\ row.responseBody # Null
LooksInserted(row) ==
  row # NoRecord /\ row.isProcessing /\ row.responseBody = Null

Goto(r, label) ==
  /\ pc' = [pc EXCEPT ![r] = label]
  /\ UNCHANGED <<tx, attempts, answer, body>>

\* The response is sent, or, with "none", the connection just breaks.
Answer(r, kind, order) ==
  /\ pc' = [pc EXCEPT ![r] = "done"]
  /\ tx' = [tx EXCEPT ![r] = {}]
  /\ attempts' = [attempts EXCEPT ![r] = 0]
  /\ answer' = [answer EXCEPT ![r] = kind]
  /\ body' = [body EXCEPT ![r] = order]

\* The result of acquireLock for a row that it does not take for its own.
AnswerFrom(r, row) ==
  IF row = NoRecord \/ row.isProcessing
  THEN Answer(r, "conflict", Null)
  ELSE Answer(r, "replayed", row.responseBody)

\* createOrder throws: the transaction is rolled back and the error goes to
\* catchError of the interceptor.
ThrowToUnlockMutant(r) ==
  /\ pc' = [pc EXCEPT ![r] = "complete"]
  /\ tx' = [tx EXCEPT ![r] = {}]
  /\ attempts' = [attempts EXCEPT ![r] = 0]
  /\ UNCHANGED <<answer, body>>
ThrowToUnlock(r) ==
  /\ pc' = [pc EXCEPT ![r] = "unlock"]
  /\ tx' = [tx EXCEPT ![r] = {}]
  /\ attempts' = [attempts EXCEPT ![r] = 0]
  /\ UNCHANGED <<answer, body>>

\* withRetry: another attempt, if there is one left.
MayRetryMutant(r) == attempts[r] + 1 <= MaxAttempts
MayRetry(r) == attempts[r] + 1 < MaxAttempts
Retry(r) ==
  /\ attempts' = [attempts EXCEPT ![r] = @ + 1]
  /\ UNCHANGED <<pc, tx, answer, body>>

SameKey(r) == {q \in Requests \ {r} : KeyOf[q] = KeyOf[r]}
Running(r) == pc[r] \notin {"new", "done"}

\* The request arrives, maybe while another one with its key is running.
Arrive(r) ==
  /\ pc[r] = "new"
  /\ disturbed' = IF \E q \in SameKey(r) : Running(q)
                  THEN disturbed \cup {KeyOf[r]} ELSE disturbed

-----------------------------------------------------------------------------
(* acquireLock.                                                            *)

Insert(r) ==
  /\ Arrive(r)
  /\ InsertOrIgnore(r)
  /\ Goto(r, "read")
  /\ UNCHANGED <<orders, events>>

Read(r) ==
  /\ pc[r] = "read"
  /\ IF LooksInserted(Row(r)) THEN Goto(r, "saveOrder")
     ELSE IF Row(r) = NoRecord THEN Goto(r, "reinsert")
     ELSE IF Row(r).expired THEN Goto(r, "delete")
     ELSE AnswerFrom(r, Row(r))
  /\ UNCHANGED <<table, orders, events, disturbed>>

DeleteExpired(r) ==
  /\ pc[r] = "delete"
  /\ DeleteRow(r)
  /\ Goto(r, "reinsert")
  /\ UNCHANGED <<orders, events, disturbed>>

\* The plain INSERT, which somebody else's row makes fail.
Reinsert(r) ==
  /\ pc[r] = "reinsert"
  /\ InsertOrIgnore(r)
  /\ Goto(r, IF Row(r) = NoRecord THEN "saveOrder" ELSE "reread")
  /\ UNCHANGED <<orders, events, disturbed>>

Reread(r) ==
  /\ pc[r] = "reread"
  /\ AnswerFrom(r, Row(r))
  /\ UNCHANGED <<table, orders, events, disturbed>>

\* A statement of acquireLock throws, applied or not; there is no catchError
\* around acquireLock, so nothing is unlocked.
AcquireThrows(r) ==
  /\ "database" \in Environment
  /\ Arrive(r) \/ (pc[r] \in Acquiring /\ UNCHANGED disturbed)
  /\ \/ UNCHANGED table
     \/ pc[r] \in {"new", "reinsert"} /\ InsertOrIgnore(r)
     \/ pc[r] = "delete" /\ DeleteRow(r)
  /\ Answer(r, "error", Null)
  /\ UNCHANGED <<orders, events>>

-----------------------------------------------------------------------------
(* createOrder: the order and its event are saved in one transaction.      *)

Save(r, label, what, next) ==
  /\ pc[r] = label
  /\ tx' = [tx EXCEPT ![r] = @ \cup {what}]
  /\ pc' = [pc EXCEPT ![r] = next]
  /\ UNCHANGED <<table, orders, events, attempts, answer, body, disturbed>>

SaveOrderMutant(r) ==
  /\ pc[r] = "saveOrder"
  /\ orders' = orders \cup {r}
  /\ pc' = [pc EXCEPT ![r] = "saveEvent"]
  /\ UNCHANGED <<table, events, tx, attempts, answer, body, disturbed>>
SaveOrder(r) == Save(r, "saveOrder", "order", "saveEvent")
SaveEvent(r) == Save(r, "saveEvent", "event", "commit")

ApplyTransaction(r) ==
  /\ orders' = IF "order" \in tx[r] THEN orders \cup {r} ELSE orders
  /\ events' = IF "event" \in tx[r] THEN events \cup {r} ELSE events

CommitOrder(r) ==
  /\ pc[r] = "commit"
  /\ ApplyTransaction(r)
  /\ pc' = [pc EXCEPT ![r] = "readBack"]
  /\ tx' = [tx EXCEPT ![r] = {}]
  /\ UNCHANGED <<table, attempts, answer, body, disturbed>>

\* createOrder fails before its commit: bad input, a failing statement.
CreateThrows(r) ==
  /\ pc[r] \in {"saveOrder", "saveEvent", "commit"}
  /\ ThrowToUnlock(r)
  /\ UNCHANGED <<table, orders, events, disturbed>>

\* The commit is reported as failed although the transaction committed.
CommitThrows(r) ==
  /\ "database" \in Environment
  /\ pc[r] = "commit"
  /\ ApplyTransaction(r)
  /\ ThrowToUnlock(r)
  /\ UNCHANGED <<table, disturbed>>

ReadBack(r) ==
  /\ pc[r] = "readBack"
  /\ Goto(r, "complete")
  /\ UNCHANGED <<table, orders, events, disturbed>>

\* findByIdWithItems throws after the commit; rollbackTransaction then throws
\* too, there being no transaction any more.
ReadBackThrows(r) ==
  /\ "database" \in Environment
  /\ pc[r] = "readBack"
  /\ ThrowToUnlock(r)
  /\ UNCHANGED <<table, orders, events, disturbed>>

-----------------------------------------------------------------------------
(* complete and unlock, each with its retries.                             *)

Complete(r) ==
  /\ pc[r] = "complete"
  /\ CompleteRow(r)
  /\ Answer(r, "created", r)
  /\ UNCHANGED <<orders, events, disturbed>>

\* catchError also sees an error of complete.
CompleteThrows(r) ==
  /\ "database" \in Environment
  /\ pc[r] = "complete"
  /\ CompleteRow(r) \/ UNCHANGED table
  /\ IF MayRetry(r) THEN Retry(r) ELSE ThrowToUnlock(r)
  /\ UNCHANGED <<orders, events, disturbed>>

Unlock(r) ==
  /\ pc[r] = "unlock"
  /\ DeleteRow(r)
  /\ Answer(r, "error", Null)
  /\ UNCHANGED <<orders, events, disturbed>>

UnlockThrows(r) ==
  /\ "database" \in Environment
  /\ pc[r] = "unlock"
  /\ DeleteRow(r) \/ UNCHANGED table
  /\ IF MayRetry(r) THEN Retry(r) ELSE Answer(r, "error", Null)
  /\ UNCHANGED <<orders, events, disturbed>>

-----------------------------------------------------------------------------
(* The environment.                                                        *)

\* The instance that serves r dies.  An open transaction is rolled back, the
\* idempotency record stays.
Crash(r) ==
  /\ "crash" \in Environment
  /\ Running(r)
  /\ Answer(r, "none", Null)
  /\ UNCHANGED <<table, orders, events, disturbed>>

\* A record gets older than 24 hours.  Requests take much less, so the one
\* that inserted it is over.
Expire(k) ==
  /\ "expiry" \in Environment
  /\ table[k] # NoRecord /\ ~table[k].expired
  /\ pc[table[k].insertedBy] = "done"
  /\ table' = [table EXCEPT ![k].expired = TRUE]
  /\ disturbed' = disturbed \cup {k}
  /\ UNCHANGED <<orders, events, request>>

\* An operation of IdempotencyService that nothing in the repository calls
\* yet: DELETE ... WHERE "expiresAt" < now.
CleanupExpired ==
  /\ "expiry" \in Environment
  /\ \E k \in Keys : table[k] # NoRecord /\ table[k].expired
  /\ table' = [k \in Keys |->
                IF table[k] # NoRecord /\ table[k].expired THEN NoRecord ELSE table[k]]
  /\ UNCHANGED <<orders, events, request, disturbed>>

AcquireLock(r) ==
  \/ Insert(r) \/ Read(r) \/ DeleteExpired(r) \/ Reinsert(r) \/ Reread(r)
  \/ AcquireThrows(r)
CreateOrder(r) ==
  \/ SaveOrder(r) \/ SaveEvent(r) \/ CommitOrder(r) \/ ReadBack(r)
  \/ CreateThrows(r) \/ CommitThrows(r) \/ ReadBackThrows(r)
Finish(r) ==
  Complete(r) \/ CompleteThrows(r) \/ Unlock(r) \/ UnlockThrows(r)
RequestStep(r) == AcquireLock(r) \/ CreateOrder(r) \/ Finish(r)

Next ==
  \/ \E r \in Requests : RequestStep(r) \/ Crash(r)
  \/ \E k \in Keys : Expire(k)
  \/ CleanupExpired

Spec == Init /\ [][Next]_vars

-----------------------------------------------------------------------------
(* Properties.                                                             *)

Acknowledged(r) == answer[r] \in {"created", "replayed"}

\* An order and its OrderCreated event exist together or not at all, at
\* whatever statement createOrder fails.
OrderIffEvent == orders = events

\* A client is only ever told of an order that exists, and a replay only of
\* one that was made for the same key, also when other requests delete and
\* insert the record at the same time.
AnswersAreGenuine ==
  \A r \in Requests : Acknowledged(r) =>
    /\ body[r] \in orders
    /\ KeyOf[body[r]] = KeyOf[r]
    /\ answer[r] = "created" => body[r] = r

\* Clients that retry one after the other and got an order once get the same
\* order for the life of the record, whatever crashes and database errors came
\* in between.
AcknowledgedOrderIsStable ==
  \A r \in Requests : \A q \in SameKey(r) :
    Acknowledged(r) /\ Acknowledged(q) =>
      body[r] = body[q] \/ KeyOf[r] \in disturbed

\* Retries make a second order only when a request failed after it had
\* committed the first: its transaction committed, but it ended in an error
\* or with its instance.  (So they do make one: keys give no exactly-once
\* processing.)
Failed(r) == pc[r] = "done" /\ ~Acknowledged(r)
SecondOrderNeedsFailure ==
  \A r \in orders : \A q \in SameKey(r) \cap orders :
    Failed(r) \/ Failed(q) \/ KeyOf[r] \in disturbed

\* A record left behind by a crash or by a failed unlock never locks a
\* client out: whoever retries after the last request is over gets through.
NeverLockedOut ==
  \A r \in Requests : answer[r] = "conflict" => KeyOf[r] \in disturbed

\* "Concurrent requests with the same key return 409": two requests with one
\* key are never processed at the same time.
NoConcurrentProcessing ==
  \A r \in Requests : \A q \in SameKey(r) :
    ~ (pc[r] \in Processing /\ pc[q] \in Processing)
=============================================================================
