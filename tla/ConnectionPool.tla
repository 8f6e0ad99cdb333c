--------------------------- MODULE ConnectionPool ---------------------------
(***************************************************************************)
(* The pool of database connections of one service instance, and the       *)
(* statements that compete for it: the requests of the order service or    *)
(* the message handlers of the payment service, and the outbox worker.     *)
(*                                                                         *)
(* createOrder and processPayment hold a connection for their transaction  *)
(* and need a second one for a query through a repository.  A connection   *)
(* is given back as it is: what its user left open stays open for the next *)
(* user.  TypeORM and the pool of pg are not part of this code; they are   *)
(* modelled from how it uses them, with their default settings.            *)
(***************************************************************************)
CONSTANTS Connections,  \* the pool (10 in the code, by default)
          Handlers,     \* requests, or messages about an order
          Orders,       \* orders
          OrderOf,      \* the order each handler is about
          Bookings,     \* outbox rows the worker marks as sent or failed
          None,         \* no connection
          Faults        \* the faults that may happen

\* "statement": a statement fails in the database.  "connection": it breaks.
ASSUME FaultsAssumption == Faults \subseteq {"statement", "connection", "crash"}
ASSUME OrderOfAssumption == OrderOf \in [Handlers -> Orders]
ASSUME NoneAssumption == None \notin Connections

VARIABLES service,      \* whose pool it is
          pc,           \* the statement the handler runs next
          conn,         \* the connection of its query runner
          leaked,       \* connections that nobody will ever release
          tx,           \* the transaction of each connection, in the database
          work,         \* what that transaction has written
          durable,      \* what is committed
          returned,     \* history: writes that were reported as done
          undone,       \* history: handlers whose transaction was rolled back
          earlyReturn   \* history: processPayment returned inside the transaction

history == <<returned, undone, earlyReturn>>
vars == <<service, pc, conn, leaked, tx, work, durable, history>>

Payment(h) == <<"row", h>>      \* or the order, with its outbox event
Processed(h) == <<"mark", h>>
Booking(b) == <<"booking", b>>
Writes == ({"row", "mark"} \X Handlers) \cup ({"booking"} \X Bookings)

TypeOK ==
  /\ service \in {"order", "payment"}
  /\ pc \in [Handlers -> {"queued", "connect", "start", "find", "save", "commit",
                          "readBack", "settle", "mark", "done"}]
  /\ conn \in [Handlers -> Connections \cup {None}]
  /\ leaked \subseteq Connections
  /\ tx \in [Connections -> {"none", "open", "aborted"}]
  /\ work \in [Connections -> SUBSET Writes]
  /\ durable \subseteq Writes /\ returned \subseteq Writes
  /\ undone \subseteq Handlers /\ earlyReturn \in BOOLEAN
  /\ \A g, h \in Handlers : g # h /\ conn[g] = conn[h] => conn[g] = None
  /\ \A h \in Handlers : conn[h] \notin leaked

Init ==
  /\ service \in {"order", "payment"}
  /\ pc = [h \in Handlers |-> "queued"]
  /\ conn = [h \in Handlers |-> None]
  /\ leaked = {}
  /\ tx = [c \in Connections |-> "none"]
  /\ work = [c \in Connections |-> {}]
  /\ durable = {} /\ returned = {} /\ undone = {}
  /\ earlyReturn = FALSE

-----------------------------------------------------------------------------
(* Helpers.  Those named ...Mutant change the operator that follows them   *)
(* the way a slip in the code would; no action uses them.                  *)

Held == {conn[h] : h \in Handlers}
FreeMutant == Connections \ leaked
Free == Connections \ (Held \cup leaked)

\* In an aborted transaction every statement fails, START TRANSACTION too.
Works(c) == tx[c] # "aborted"
Usable(h) == conn[h] # None /\ Works(conn[h])
Sees(c) == durable \cup work[c]
Copies(h) == {g \in Handlers : OrderOf[g] = OrderOf[h]}

Goto(h, label) == pc' = [pc EXCEPT ![h] = label]
Fail(h) == Goto(h, IF service = "order" THEN "settle" ELSE "done")
Release(h) == conn' = [conn EXCEPT ![h] = None]

Clean(c) ==
  /\ tx' = [tx EXCEPT ![c] = "none"]
  /\ work' = [work EXCEPT ![c] = {}]
CommitOn(c, writes) == Clean(c) /\ durable' = durable \cup work[c] \cup writes

\* A single statement: part of the transaction that is open on the
\* connection, if there is one.
Write(c, write) ==
  IF tx[c] = "open"
  THEN work' = [work EXCEPT ![c] = @ \cup {write}] /\ UNCHANGED durable
  ELSE durable' = durable \cup {write} /\ UNCHANGED work

\* repository.save: START TRANSACTION, which is a no-op in an open
\* transaction, the statement, COMMIT.
SaveInTransactionMutant(c, write) == Write(c, write) /\ UNCHANGED tx
SaveInTransaction(c, write) == CommitOn(c, {write})

-----------------------------------------------------------------------------
(* The handlers.                                                           *)

\* findProcessedEvent, or acquireLock: on any free connection, given back
\* at once.
Check(h) ==
  /\ pc[h] = "queued"
  /\ \E c \in Free :
       /\ Works(c)
       /\ Goto(h, IF \E g \in Copies(h) : Processed(g) \in Sees(c)
                  THEN "done" ELSE "connect")
  /\ UNCHANGED <<service, conn, leaked, tx, work, durable, history>>

\* A lone statement fails on c: c is in an aborted transaction, or in none and
\* the database throws.  (WorkerThrows has the failure in an open one.)
Refuses(c) == ~Works(c) \/ (tx[c] = "none" /\ "statement" \in Faults)

CheckThrows(h) ==
  /\ pc[h] = "queued"
  /\ \E c \in Free : Refuses(c)
  /\ Goto(h, "done")
  /\ UNCHANGED <<service, conn, leaked, tx, work, durable, history>>

Connect(h) ==
  /\ pc[h] = "connect"
  /\ \E c \in Free : conn' = [conn EXCEPT ![h] = c]
  /\ Goto(h, "start")
  /\ UNCHANGED <<service, leaked, tx, work, durable, history>>

StartTransaction(h) ==
  /\ pc[h] = "start" /\ Usable(h)
  /\ tx' = [tx EXCEPT ![conn[h]] = "open"]
  /\ Goto(h, IF service = "payment" THEN "find" ELSE "save")
  /\ UNCHANGED <<service, conn, leaked, work, durable, history>>

\* startTransaction stands before the try: nothing releases the connection.
StartThrows(h) ==
  /\ pc[h] = "start"
  /\ "statement" \in Faults \/ ~Usable(h)
  /\ leaked' = leaked \cup ({conn[h]} \ {None})
  /\ Release(h)
  /\ Fail(h)
  /\ UNCHANGED <<service, tx, work, durable, history>>

\* The finally clause alone: the connection goes back, the transaction on it
\* stays open.
ReturnEarlyMutant(h) ==
  /\ Goto(h, "mark")
  /\ earlyReturn' = TRUE
  /\ UNCHANGED conn
ReturnEarly(h) ==
  /\ Release(h)
  /\ Goto(h, "mark")
  /\ earlyReturn' = TRUE

\* findByOrderId runs on a second connection.
FindExisting(h) ==
  /\ pc[h] = "find"
  /\ \E c \in Free :
       /\ Works(c)
       /\ IF \E g \in Copies(h) : Payment(g) \in Sees(c)
          THEN ReturnEarly(h)
          ELSE Goto(h, "save") /\ UNCHANGED <<conn, earlyReturn>>
  /\ UNCHANGED <<service, leaked, tx, work, durable, returned, undone>>

\* The catch clause: ROLLBACK, then the connection goes back.
UndoMutant(h) ==
  /\ undone' = IF Payment(h) \in durable THEN undone ELSE undone \cup {h}
  /\ Release(h)
  /\ Fail(h)
  /\ UNCHANGED <<service, leaked, durable, returned, earlyReturn, tx, work>>
Undo(h) ==
  /\ IF conn[h] = None THEN UNCHANGED <<tx, work>> ELSE Clean(conn[h])
  /\ undone' = IF Payment(h) \in durable THEN undone ELSE undone \cup {h}
  /\ Release(h)
  /\ Fail(h)
  /\ UNCHANGED <<service, leaked, durable, returned, earlyReturn>>

FindThrows(h) ==
  /\ pc[h] = "find"
  /\ \E c \in Free : Refuses(c)
  /\ Undo(h)

\* The order or the payment with its outbox event.
Save(h) ==
  /\ pc[h] = "save" /\ conn[h] # None
  /\ work' = [work EXCEPT ![conn[h]] = @ \cup {Payment(h)}]
  /\ Goto(h, "commit")
  /\ UNCHANGED <<service, conn, leaked, tx, durable, history>>

StatementThrows(h) ==
  /\ pc[h] \in {"save", "commit"}
  /\ "statement" \in Faults \/ conn[h] = None
  /\ Undo(h)

Commit(h) ==
  /\ pc[h] = "commit" /\ conn[h] # None
  /\ CommitOn(conn[h], {})
  /\ returned' = returned \cup {Payment(h)}
  /\ IF service = "payment"
     THEN Goto(h, "mark") /\ Release(h)
     ELSE Goto(h, "readBack") /\ UNCHANGED conn
  /\ UNCHANGED <<service, leaked, undone, earlyReturn>>

\* findByIdWithItems, on a second connection while the first is still held;
\* whether it returns or throws, the first is released.
ReadBack(h) ==
  /\ pc[h] = "readBack"
  /\ Free # {}
  /\ Release(h)
  /\ Goto(h, "settle")
  /\ UNCHANGED <<service, leaked, tx, work, durable, history>>

\* complete or unlock.
Settle(h) ==
  /\ pc[h] = "settle"
  /\ Free # {}
  /\ Goto(h, "done")
  /\ UNCHANGED <<service, conn, leaked, tx, work, durable, history>>

MarkAsProcessed(h) ==
  /\ pc[h] = "mark"
  /\ \E c \in Free : Works(c) /\ SaveInTransaction(c, Processed(h))
  /\ returned' = returned \cup {Processed(h)}
  /\ Goto(h, "done")
  /\ UNCHANGED <<service, conn, leaked, undone, earlyReturn>>

\* save rolls back what it runs in; an aborted transaction it does not reach.
MarkThrows(h) ==
  /\ pc[h] = "mark"
  /\ \E c \in Free : IF Works(c) THEN "statement" \in Faults /\ Clean(c)
                     ELSE UNCHANGED <<tx, work>>
  /\ Goto(h, "done")
  /\ UNCHANGED <<service, conn, leaked, durable, history>>

-----------------------------------------------------------------------------
(* The outbox worker: single updates, and the claim in a transaction.      *)

MarkEvent(b) ==
  /\ Booking(b) \notin returned
  /\ \E c \in Free : Works(c) /\ Write(c, Booking(b))
  /\ returned' = returned \cup {Booking(b)}
  /\ UNCHANGED <<service, pc, conn, leaked, tx, undone, earlyReturn>>

\* Where no transaction was left open it changes nothing here.
ClaimPendingEvents(c) ==
  /\ c \in Free /\ tx[c] = "open"
  /\ CommitOn(c, {})
  /\ UNCHANGED <<service, pc, conn, leaked, history>>

\* A single statement fails on a connection with an open transaction.
WorkerThrows(c) ==
  /\ "statement" \in Faults
  /\ c \in Free /\ tx[c] = "open"
  /\ tx' = [tx EXCEPT ![c] = "aborted"]
  /\ work' = [work EXCEPT ![c] = {}]
  /\ UNCHANGED <<service, pc, conn, leaked, durable, history>>

-----------------------------------------------------------------------------
(* The pool and the environment.                                           *)

\* The pool closes a connection that nobody used for ten seconds, and opens
\* another one when it needs it.
CloseIdle(c) ==
  /\ c \in Free /\ tx[c] # "none"
  /\ Clean(c)
  /\ UNCHANGED <<service, pc, conn, leaked, durable, history>>

\* The connection of a handler breaks; a COMMIT may have arrived before.
\* TypeORM hands the connection back to the pool, which replaces it.
Break(h) ==
  /\ "connection" \in Faults
  /\ conn[h] # None
  /\ \/ CommitOn(conn[h], {}) /\ pc[h] = "commit"
     \/ Clean(conn[h]) /\ UNCHANGED durable
  /\ Release(h)
  /\ UNCHANGED <<service, pc, leaked, history>>

InTransaction == {"start", "find", "save", "commit"}

\* The instance dies and starts again.
Crash ==
  /\ "crash" \in Faults
  /\ pc' = [h \in Handlers |-> IF pc[h] = "queued" THEN "queued" ELSE "done"]
  /\ conn' = [h \in Handlers |-> None]
  /\ leaked' = {}
  /\ tx' = [c \in Connections |-> "none"]
  /\ work' = [c \in Connections |-> {}]
  /\ undone' = undone \cup
       {h \in Handlers : pc[h] \in InTransaction /\ Payment(h) \notin durable}
  /\ UNCHANGED <<service, durable, returned, earlyReturn>>

HandlerStep(h) ==
  \/ Check(h) \/ CheckThrows(h) \/ Connect(h)
  \/ StartTransaction(h) \/ StartThrows(h)
  \/ FindExisting(h) \/ FindThrows(h) \/ Save(h) \/ StatementThrows(h)
  \/ Commit(h) \/ ReadBack(h) \/ Settle(h) \/ MarkAsProcessed(h) \/ MarkThrows(h)

Next ==
  \/ \E h \in Handlers : HandlerStep(h) \/ Break(h)
  \/ \E b \in Bookings : MarkEvent(b)
  \/ \E c \in Connections : ClaimPendingEvents(c) \/ WorkerThrows(c) \/ CloseIdle(c)
  \/ Crash

Spec == Init /\ [][Next]_vars

\* Awaited statements return or throw, and the pool serves its queue in turn.
\* Nothing makes a request wait no longer than some time.
FairSpec == Spec /\ \A h \in Handlers : WF_vars(pc[h] # "queued" /\ HandlerStep(h))

-----------------------------------------------------------------------------
(* Properties.                                                             *)

\* A write that was reported as done is committed, whoever used the
\* connection before and will use it next.  The one exception are the bookings
\* of the payment service's outbox worker, once a processPayment has returned
\* early: they run outside any transaction of their own, perhaps in the one it
\* has left open, and are lost when that one is rolled back or closed.
ReturnedIsDurable ==
  \A write \in returned :
    \/ write \in durable
    \/ /\ earlyReturn /\ service = "payment"
       /\ \E b \in Bookings : write = Booking(b)

\* What processPayment or createOrder has rolled back is never committed by
\* somebody who gets the connection later.
UndoneStaysUndone == \A h \in undone : Payment(h) \notin durable

\* Every connection is leaked, or held by a handler that waits for another.
NeedsSecond(h) == pc[h] \in {"find", "readBack"}
Exhausted ==
  \A c \in Connections :
    c \in leaked \/ \E h \in Handlers : conn[h] = c /\ NeedsSecond(h)

\* Every handler that has started finishes, whatever fails, as long as there
\* is one connection that is not leaked or held by a handler that waits for
\* its second.
EveryHandlerFinishes ==
  \A h \in Handlers : pc[h] # "queued" ~> pc[h] = "done" \/ Exhausted
=============================================================================
