------------------------ MODULE ConnectionPool_proofs ------------------------
(***************************************************************************)
(* Theorems about module ConnectionPool, for pools of any size, any        *)
(* handlers, orders and bookings, and any set of faults.                   *)
(***************************************************************************)
EXTENDS ConnectionPool, TLAPS

-----------------------------------------------------------------------------
(* The inductive invariant.                                                *)

\* A row waits for its commit in the transaction of the handler that saved it,
\* and nowhere else.
RowsWaitWithTheirHandler ==
  \A h \in Handlers : \A c \in Connections :
    Payment(h) \in work[c] <=> pc[h] = "commit" /\ conn[h] = c

\* Only handlers between connect() and release() hold a connection.
Holding == {"start", "find", "save", "commit", "readBack"}
HoldersAreHolding == \A h \in Handlers : conn[h] # None => pc[h] \in Holding

\* A connection that is free and in a transaction was left there by a
\* processPayment that returned early.
LeftOpenAfterEarlyReturn ==
  \A c \in Free : tx[c] # "none" => earlyReturn

\* After its commit createOrder holds a connection without a transaction.
ReadBackIsClean ==
  \A h \in Handlers :
    pc[h] = "readBack" /\ conn[h] # None => tx[conn[h]] = "none"

\* A handler whose transaction was rolled back never gets to another commit.
UndoneAreOver == \A h \in undone : pc[h] \in {"settle", "done"}

\* ReturnedIsDurable without the name of the service: that one is an
\* invariant of its own.
ReturnedOrBooked ==
  \A write \in returned :
    \/ write \in durable
    \/ earlyReturn /\ \E b \in Bookings : write = Booking(b)

IInv == /\ TypeOK
        /\ RowsWaitWithTheirHandler
        /\ HoldersAreHolding
        /\ LeftOpenAfterEarlyReturn
        /\ ReadBackIsClean
        /\ UndoneAreOver
        /\ ReturnedOrBooked
        /\ UndoneStaysUndone

\* Only processPayment looks for an existing row inside its transaction, so
\* only the payment service returns early.
EarlyReturnsArePayments ==
  /\ earlyReturn => service = "payment"
  /\ \A h \in Handlers : pc[h] = "find" => service = "payment"
-----------------------------------------------------------------------------
(* Facts about the operators.                                              *)

Labels == {"queued", "connect", "start", "find", "save", "commit", "readBack",
           "settle", "mark", "done"}

\* Writes of different kinds, or of different handlers, are different.
LEMMA WritesDiffer ==
  ASSUME NEW g, NEW h, NEW b
  PROVE  /\ Payment(g) = Payment(h) => g = h
         /\ Payment(g) # Processed(h)
         /\ Payment(g) # Booking(b)
  BY DEF Payment, Processed, Booking

LEMMA WritesTyped ==
  /\ \A h \in Handlers : Payment(h) \in Writes /\ Processed(h) \in Writes
  /\ \A b \in Bookings : Booking(b) \in Writes
  BY DEF Payment, Processed, Booking, Writes

\* A free connection is nobody's, and no row waits on it.
LEMMA FreeHasNoRow ==
  ASSUME IInv, NEW c \in Free
  PROVE  /\ c \in Connections /\ c \notin leaked
         /\ \A h \in Handlers : conn[h] # c /\ Payment(h) \notin work[c]
  BY DEF Free, Held, IInv, RowsWaitWithTheirHandler

\* What is durable stays durable, so only new returns and the end of an early
\* return could break the promise.
LEMMA DurableGrows ==
  ASSUME ReturnedOrBooked, durable \subseteq durable', earlyReturn => earlyReturn',
         \A write \in returned' \ returned :
           \/ write \in durable'
           \/ earlyReturn' /\ \E b \in Bookings : write = Booking(b)
  PROVE  ReturnedOrBooked'
  BY DEF ReturnedOrBooked

\* A row becomes durable only from the transaction of its handler, which is
\* not over.
LEMMA UndoneRowsStayOut ==
  ASSUME IInv, NEW h \in undone, NEW c \in Connections
  PROVE  h \in Handlers /\ Payment(h) \notin durable \cup work[c]
  BY DEF IInv, TypeOK, UndoneAreOver, UndoneStaysUndone, RowsWaitWithTheirHandler

-----------------------------------------------------------------------------
(* The steps that preserve the invariant.                                  *)

\* A handler goes on and the pool stays as it is.
LEMMA MoveKeepsIInv ==
  ASSUME IInv, NEW h \in Handlers, NEW label \in Labels \ {"commit", "readBack"},
         pc' = [pc EXCEPT ![h] = label], pc[h] # "commit",
         h \in undone => label \in {"settle", "done"},
         conn[h] # None => label \in Holding,
         UNCHANGED <<service, conn, leaked, tx, work, durable, history>>
  PROVE  IInv'
  <1> USE DEF IInv, history
  <1>1. TypeOK'
    BY DEF TypeOK, Labels
  <1>2. RowsWaitWithTheirHandler'
    BY DEF RowsWaitWithTheirHandler, TypeOK
  <1>3. LeftOpenAfterEarlyReturn' /\ ReadBackIsClean' /\ UndoneAreOver'
    BY DEF LeftOpenAfterEarlyReturn, ReadBackIsClean, UndoneAreOver, Free, Held,
           TypeOK
  <1>4. HoldersAreHolding'
    BY DEF HoldersAreHolding, TypeOK
  <1>5. ReturnedOrBooked' /\ UndoneStaysUndone'
    BY DEF ReturnedOrBooked, UndoneStaysUndone
  <1> QED
    BY <1>1, <1>2, <1>3, <1>4, <1>5

LEMMA ConnectKeepsIInv ==
  ASSUME IInv, NEW h \in Handlers, Connect(h)
  PROVE  IInv'
  <1> USE DEF IInv
  <1>1. PICK c \in Free : conn' = [conn EXCEPT ![h] = c]
    BY DEF Connect
  <1>2. /\ pc[h] = "connect" /\ pc' = [pc EXCEPT ![h] = "start"]
        /\ UNCHANGED <<service, leaked, tx, work, durable, returned, undone,
                       earlyReturn>>
    BY DEF Connect, Goto, history
  <1>3. TypeOK'
    BY <1>1, <1>2, FreeHasNoRow DEF TypeOK
  <1>4. RowsWaitWithTheirHandler'
    BY <1>1, <1>2, FreeHasNoRow DEF RowsWaitWithTheirHandler, TypeOK
  <1>5. HoldersAreHolding' /\ LeftOpenAfterEarlyReturn'
    <2>1. conn[h] = None
      BY <1>2 DEF HoldersAreHolding, Holding
    <2> QED
      BY <1>1, <1>2, <2>1, NoneAssumption
      DEF HoldersAreHolding, Holding, LeftOpenAfterEarlyReturn, Free, Held, TypeOK
  <1>6. ReadBackIsClean' /\ UndoneAreOver'
    BY <1>1, <1>2 DEF ReadBackIsClean, UndoneAreOver, TypeOK
  <1>7. ReturnedOrBooked' /\ UndoneStaysUndone'
    BY <1>2 DEF ReturnedOrBooked, UndoneStaysUndone
  <1> QED
    BY <1>3, <1>4, <1>5, <1>6, <1>7

\* The transaction starts on a connection that nobody else can use.
LEMMA StartTransactionKeepsIInv ==
  ASSUME IInv, NEW h \in Handlers, StartTransaction(h)
  PROVE  IInv'
  <1> USE DEF IInv
  <1>1. PICK label \in {"find", "save"} : pc' = [pc EXCEPT ![h] = label]
    BY DEF StartTransaction, Goto
  <1>2. /\ pc[h] = "start" /\ conn[h] # None /\ conn[h] \in Connections
        /\ tx' = [tx EXCEPT ![conn[h]] = "open"]
        /\ UNCHANGED <<service, conn, leaked, work, durable, returned, undone,
                       earlyReturn>>
    BY DEF StartTransaction, Usable, history, TypeOK
  <1>3. TypeOK'
    BY <1>1, <1>2 DEF TypeOK
  <1>4. RowsWaitWithTheirHandler' /\ HoldersAreHolding' /\ UndoneAreOver'
    BY <1>1, <1>2
    DEF RowsWaitWithTheirHandler, HoldersAreHolding, Holding, UndoneAreOver, TypeOK
  <1>5. LeftOpenAfterEarlyReturn'
    BY <1>2 DEF LeftOpenAfterEarlyReturn, Free, Held, TypeOK
  <1>6. ReadBackIsClean'
    BY <1>1, <1>2 DEF ReadBackIsClean, TypeOK
  <1>7. ReturnedOrBooked' /\ UndoneStaysUndone'
    BY <1>2 DEF ReturnedOrBooked, UndoneStaysUndone
  <1> QED
    BY <1>3, <1>4, <1>5, <1>6, <1>7

\* A connection that is never released is not free, whatever runs on it.
LEMMA StartThrowsKeepsIInv ==
  ASSUME IInv, NEW h \in Handlers, StartThrows(h)
  PROVE  IInv'
  <1> USE DEF IInv
  <1>1. PICK label \in {"settle", "done"} : pc' = [pc EXCEPT ![h] = label]
    BY DEF StartThrows, Fail, Goto
  <1>2. /\ pc[h] = "start" /\ conn' = [conn EXCEPT ![h] = None]
        /\ leaked' = leaked \cup ({conn[h]} \ {None})
        /\ UNCHANGED <<service, tx, work, durable, returned, undone, earlyReturn>>
    BY DEF StartThrows, Release, history
  <1>3. TypeOK'
    BY <1>1, <1>2, NoneAssumption DEF TypeOK
  <1>4. RowsWaitWithTheirHandler' /\ HoldersAreHolding'
    BY <1>1, <1>2, NoneAssumption
    DEF RowsWaitWithTheirHandler, HoldersAreHolding, TypeOK
  <1>5. LeftOpenAfterEarlyReturn'
    BY <1>2, NoneAssumption DEF LeftOpenAfterEarlyReturn, Free, Held, TypeOK
  <1>6. ReadBackIsClean' /\ UndoneAreOver'
    BY <1>1, <1>2 DEF ReadBackIsClean, UndoneAreOver, TypeOK
  <1>7. ReturnedOrBooked' /\ UndoneStaysUndone'
    BY <1>2 DEF ReturnedOrBooked, UndoneStaysUndone
  <1> QED
    BY <1>3, <1>4, <1>5, <1>6, <1>7

\* The early return gives a connection back in its transaction, and says so.
LEMMA FindExistingKeepsIInv ==
  ASSUME IInv, NEW h \in Handlers, FindExisting(h)
  PROVE  IInv'
  <1> USE DEF IInv
  <1>1. CASE ReturnEarly(h)
    <2>1. /\ pc[h] = "find" /\ pc' = [pc EXCEPT ![h] = "mark"]
          /\ conn' = [conn EXCEPT ![h] = None] /\ earlyReturn'
          /\ UNCHANGED <<service, leaked, tx, work, durable, returned, undone>>
      BY <1>1 DEF FindExisting, ReturnEarly, Goto, Release
    <2>2. TypeOK'
      BY <1>1, <2>1, NoneAssumption DEF TypeOK, ReturnEarly
    <2>3. RowsWaitWithTheirHandler' /\ HoldersAreHolding'
      BY <2>1, NoneAssumption
      DEF RowsWaitWithTheirHandler, HoldersAreHolding, TypeOK
    <2>4. LeftOpenAfterEarlyReturn' /\ ReadBackIsClean' /\ UndoneAreOver'
      BY <2>1 DEF LeftOpenAfterEarlyReturn, ReadBackIsClean, UndoneAreOver, TypeOK
    <2>5. ReturnedOrBooked' /\ UndoneStaysUndone'
      BY <2>1 DEF ReturnedOrBooked, UndoneStaysUndone
    <2> QED
      BY <2>2, <2>3, <2>4, <2>5
  <1>2. CASE Goto(h, "save") /\ UNCHANGED <<conn, earlyReturn>>
    <2>1. pc[h] = "find" /\ h \notin undone
      BY DEF FindExisting, UndoneAreOver
    <2> QED
      BY <1>2, <2>1, MoveKeepsIInv
      DEF FindExisting, Goto, Labels, Holding, history
  <1> QED
    BY <1>1, <1>2 DEF FindExisting

\* A transaction is rolled back: its row waits nowhere any more.
LEMMA UndoKeepsIInv ==
  ASSUME IInv, NEW h \in Handlers, Undo(h), pc[h] \in {"find", "save", "commit"}
  PROVE  IInv'
  <1> USE DEF IInv
  <1>1. PICK label \in {"settle", "done"} : pc' = [pc EXCEPT ![h] = label]
    BY DEF Undo, Fail, Goto
  <1>2. /\ conn' = [conn EXCEPT ![h] = None]
        /\ undone' \subseteq undone \cup {h} /\ undone \subseteq undone'
        /\ h \in undone' => Payment(h) \notin durable
        /\ UNCHANGED <<service, leaked, durable, returned, earlyReturn>>
    BY DEF Undo, Release, UndoneStaysUndone
  <1>3. /\ tx' \in [Connections -> {"none", "open", "aborted"}]
        /\ work' \in [Connections -> SUBSET Writes]
        /\ \A c \in Connections :
             IF c = conn[h] THEN tx'[c] = "none" /\ work'[c] = {}
             ELSE tx'[c] = tx[c] /\ work'[c] = work[c]
    <2>1. CASE conn[h] = None
      BY <2>1, NoneAssumption DEF Undo, TypeOK
    <2>2. CASE conn[h] # None
      BY <2>2 DEF Undo, Clean, TypeOK
    <2> QED
      BY <2>1, <2>2
  <1>4. TypeOK'
    BY <1>1, <1>2, <1>3, NoneAssumption DEF TypeOK
  <1>5. RowsWaitWithTheirHandler' /\ HoldersAreHolding'
    BY <1>1, <1>2, <1>3, NoneAssumption
    DEF RowsWaitWithTheirHandler, HoldersAreHolding, TypeOK
  <1>6. LeftOpenAfterEarlyReturn'
    BY <1>2, <1>3 DEF LeftOpenAfterEarlyReturn, Free, Held, TypeOK
  <1>7. ReadBackIsClean' /\ UndoneAreOver'
    BY <1>1, <1>2, <1>3 DEF ReadBackIsClean, UndoneAreOver, TypeOK
  <1>8. ReturnedOrBooked' /\ UndoneStaysUndone'
    BY <1>2 DEF ReturnedOrBooked, UndoneStaysUndone
  <1> QED
    BY <1>4, <1>5, <1>6, <1>7, <1>8

LEMMA SaveKeepsIInv ==
  ASSUME IInv, NEW h \in Handlers, Save(h)
  PROVE  IInv'
  <1> USE DEF IInv
  <1>1. /\ pc[h] = "save" /\ pc' = [pc EXCEPT ![h] = "commit"]
        /\ conn[h] # None /\ conn[h] \in Connections
        /\ work' = [work EXCEPT ![conn[h]] = @ \cup {Payment(h)}]
        /\ UNCHANGED <<service, conn, leaked, tx, durable, returned, undone,
                       earlyReturn>>
    BY DEF Save, Goto, history, TypeOK
  <1>2. TypeOK'
    BY <1>1, WritesTyped DEF TypeOK
  <1>3. RowsWaitWithTheirHandler'
    <2>1. ASSUME NEW g \in Handlers, NEW c \in Connections
          PROVE  Payment(g) \in work'[c] <=> pc'[g] = "commit" /\ conn[g] = c
      <3>1. CASE g = h
        BY <1>1, <3>1 DEF RowsWaitWithTheirHandler, TypeOK
      <3>2. CASE g # h
        <4>1. Payment(g) # Payment(h)
          BY <3>2, WritesDiffer
        <4>2. Payment(g) \in work'[c] <=> Payment(g) \in work[c]
          BY <1>1, <4>1 DEF TypeOK
        <4> QED
          BY <1>1, <3>2, <4>2 DEF RowsWaitWithTheirHandler, TypeOK
      <3> QED
        BY <3>1, <3>2
    <2> QED
      BY <1>1, <2>1 DEF RowsWaitWithTheirHandler
  <1>4. HoldersAreHolding' /\ ReadBackIsClean' /\ UndoneAreOver'
    BY <1>1 DEF HoldersAreHolding, Holding, ReadBackIsClean, UndoneAreOver, TypeOK
  <1>5. LeftOpenAfterEarlyReturn'
    BY <1>1 DEF LeftOpenAfterEarlyReturn, Free, Held
  <1>6. ReturnedOrBooked' /\ UndoneStaysUndone'
    BY <1>1 DEF ReturnedOrBooked, UndoneStaysUndone
  <1> QED
    BY <1>2, <1>3, <1>4, <1>5, <1>6
\* The commit makes the row durable, before anybody is told.
LEMMA CommitKeepsIInv ==
  ASSUME IInv, NEW h \in Handlers, Commit(h)
  PROVE  IInv'
  <1> USE DEF IInv
  <1>1. /\ pc[h] = "commit" /\ conn[h] # None /\ conn[h] \in Connections
        /\ tx' = [tx EXCEPT ![conn[h]] = "none"]
        /\ work' = [work EXCEPT ![conn[h]] = {}]
        /\ durable' = durable \cup work[conn[h]] \cup {}
        /\ returned' = returned \cup {Payment(h)}
        /\ UNCHANGED <<service, leaked, undone, earlyReturn>>
    BY DEF Commit, CommitOn, Clean, TypeOK
  <1>2. \/ /\ pc' = [pc EXCEPT ![h] = "mark"]
           /\ conn' = [conn EXCEPT ![h] = None]
        \/ /\ pc' = [pc EXCEPT ![h] = "readBack"]
           /\ conn' = conn
    BY DEF Commit, Goto, Release
  <1>3. TypeOK'
    BY <1>1, <1>2, WritesTyped, NoneAssumption DEF TypeOK
  <1>4. RowsWaitWithTheirHandler' /\ HoldersAreHolding'
    <2>1. RowsWaitWithTheirHandler'
      BY <1>1, <1>2, NoneAssumption DEF RowsWaitWithTheirHandler, TypeOK
    <2>2. HoldersAreHolding'
      BY <1>1, <1>2, NoneAssumption DEF HoldersAreHolding, Holding, TypeOK
    <2> QED
      BY <2>1, <2>2
  <1>5. LeftOpenAfterEarlyReturn'
    BY <1>1, <1>2 DEF LeftOpenAfterEarlyReturn, Free, Held, TypeOK
  <1>6. ReadBackIsClean' /\ UndoneAreOver'
    BY <1>1, <1>2 DEF ReadBackIsClean, UndoneAreOver, TypeOK
  <1>7. ReturnedOrBooked'
    BY <1>1, DurableGrows DEF RowsWaitWithTheirHandler
  <1>8. UndoneStaysUndone'
    BY <1>1, UndoneRowsStayOut DEF UndoneStaysUndone
  <1> QED
    BY <1>3, <1>4, <1>5, <1>6, <1>7, <1>8

LEMMA ReadBackKeepsIInv ==
  ASSUME IInv, NEW h \in Handlers, ReadBack(h)
  PROVE  IInv'
  <1> USE DEF IInv
  <1>1. /\ pc[h] = "readBack" /\ pc' = [pc EXCEPT ![h] = "settle"]
        /\ conn' = [conn EXCEPT ![h] = None]
        /\ UNCHANGED <<service, leaked, tx, work, durable, returned, undone,
                       earlyReturn>>
    BY DEF ReadBack, Goto, Release, history
  <1>2. TypeOK'
    BY <1>1, NoneAssumption DEF TypeOK
  <1>3. RowsWaitWithTheirHandler' /\ HoldersAreHolding'
    BY <1>1, NoneAssumption DEF RowsWaitWithTheirHandler, HoldersAreHolding, TypeOK
  <1>4. LeftOpenAfterEarlyReturn'
    BY <1>1 DEF LeftOpenAfterEarlyReturn, ReadBackIsClean, Free, Held, TypeOK
  <1>5. ReadBackIsClean' /\ UndoneAreOver'
    BY <1>1 DEF ReadBackIsClean, UndoneAreOver, TypeOK
  <1>6. ReturnedOrBooked' /\ UndoneStaysUndone'
    BY <1>1 DEF ReturnedOrBooked, UndoneStaysUndone
  <1> QED
    BY <1>2, <1>3, <1>4, <1>5, <1>6

\* A statement on a free connection c: it may end the transaction that was
\* left open there, add a booking to it, or commit it.
OnFree(c) ==
  /\ c \in Free
  /\ \E state \in {"none", "open", "aborted"} :
       /\ tx' = [tx EXCEPT ![c] = state]
       /\ state # "none" => tx[c] # "none"
  /\ \E writes \in SUBSET Writes :
       /\ work' = [work EXCEPT ![c] = writes]
       /\ \A write \in writes \ work[c] : \E b \in Bookings : write = Booking(b)
  /\ durable \subseteq durable'
  /\ \A write \in durable' \ durable :
       \/ write \in work[c]
       \/ \E h \in Handlers : write = Processed(h)
       \/ \E b \in Bookings : write = Booking(b)

LEMMA OnFreeKeepsIInv ==
  ASSUME IInv, NEW c, OnFree(c),
         \/ pc' = pc
         \/ \E h \in Handlers : pc[h] = "mark" /\ pc' = [pc EXCEPT ![h] = "done"],
         durable' \subseteq Writes, returned' \subseteq Writes, ReturnedOrBooked',
         UNCHANGED <<service, conn, leaked, undone, earlyReturn>>
  PROVE  IInv'
  <1> USE DEF IInv
  <1>1. /\ c \in Connections /\ \A h \in Handlers : conn[h] # c
        /\ c \in Free /\ \A h \in Handlers : Payment(h) \notin work[c]
    BY FreeHasNoRow DEF OnFree
  <1>2. PICK state \in {"none", "open", "aborted"} :
          tx' = [tx EXCEPT ![c] = state] /\ (state # "none" => tx[c] # "none")
    BY DEF OnFree
  <1>3. PICK writes \in SUBSET Writes :
          /\ work' = [work EXCEPT ![c] = writes]
          /\ \A write \in writes \ work[c] : \E b \in Bookings : write = Booking(b)
    BY DEF OnFree
  <1>4. \A h \in Handlers : Payment(h) \notin writes
    BY <1>1, <1>3, WritesDiffer
  <1>5. TypeOK'
    BY <1>1, <1>2, <1>3 DEF TypeOK
  <1>6. RowsWaitWithTheirHandler'
    <2>1. \A h \in Handlers : pc'[h] = "commit" <=> pc[h] = "commit"
      BY DEF TypeOK
    <2> QED
      BY <1>1, <1>3, <1>4, <2>1 DEF RowsWaitWithTheirHandler, TypeOK
  <1>7. HoldersAreHolding' /\ UndoneAreOver'
    BY DEF HoldersAreHolding, Holding, UndoneAreOver, TypeOK
  <1>8. LeftOpenAfterEarlyReturn'
    BY <1>1, <1>2 DEF LeftOpenAfterEarlyReturn, Free, Held, TypeOK
  <1>9. ReadBackIsClean'
    BY <1>1, <1>2, NoneAssumption DEF ReadBackIsClean, TypeOK
  <1>10. UndoneStaysUndone'
    <2>1. ASSUME NEW h \in undone PROVE Payment(h) \notin durable'
      <3>1. Payment(h) \notin durable /\ Payment(h) \notin work[c]
        BY <1>1, UndoneRowsStayOut
      <3> QED
        BY <3>1, WritesDiffer DEF OnFree
    <2> QED
      BY <2>1 DEF UndoneStaysUndone
  <1> QED
    BY <1>5, <1>6, <1>7, <1>8, <1>9, <1>10

\* A statement that ends the transaction on a free connection.
LEMMA EndsOnFree ==
  ASSUME NEW c \in Free, NEW state \in {"none", "aborted"},
         tx' = [tx EXCEPT ![c] = state], state # "none" => tx[c] # "none",
         work' = [work EXCEPT ![c] = {}], durable \subseteq durable',
         \A write \in durable' \ durable :
           \/ write \in work[c]
           \/ \E h \in Handlers : write = Processed(h)
  PROVE  OnFree(c)
  <1>1. {} \in SUBSET Writes
    OBVIOUS
  <1>2. \E writes \in SUBSET Writes :
          /\ work' = [work EXCEPT ![c] = writes]
          /\ \A write \in writes \ work[c] : \E b \in Bookings : write = Booking(b)
    BY <1>1
  <1> QED
    BY <1>2 DEF OnFree

\* markAsProcessed commits what was left open on its connection, too.
LEMMA MarkAsProcessedKeepsIInv ==
  ASSUME IInv, NEW h \in Handlers, MarkAsProcessed(h)
  PROVE  IInv'
  <1>1. PICK c \in Free : Works(c) /\ SaveInTransaction(c, Processed(h))
    BY DEF MarkAsProcessed
  <1>2. /\ tx' = [tx EXCEPT ![c] = "none"] /\ work' = [work EXCEPT ![c] = {}]
        /\ durable' = durable \cup work[c] \cup {Processed(h)}
    BY <1>1 DEF SaveInTransaction, CommitOn, Clean
  <1>3. c \in Connections /\ OnFree(c)
    BY <1>2, FreeHasNoRow, EndsOnFree
  <1>4. durable' \subseteq Writes /\ returned' \subseteq Writes
    BY <1>2, <1>3, WritesTyped DEF MarkAsProcessed, IInv, TypeOK
  <1>5. ReturnedOrBooked'
    BY <1>2, DurableGrows DEF MarkAsProcessed, IInv
  <1> QED
    BY <1>3, <1>4, <1>5, OnFreeKeepsIInv DEF MarkAsProcessed, Goto

LEMMA MarkThrowsKeepsIInv ==
  ASSUME IInv, NEW h \in Handlers, MarkThrows(h)
  PROVE  IInv'
  <1>1. PICK c \in Free : Clean(c) \/ UNCHANGED <<tx, work>>
    BY DEF MarkThrows
  <1>2. c \in Connections /\ tx[c] \in {"none", "open", "aborted"}
        /\ work[c] \in SUBSET Writes
    BY FreeHasNoRow DEF IInv, TypeOK
  <1>3. UNCHANGED <<service, conn, leaked, durable, returned, undone, earlyReturn>>
    BY DEF MarkThrows, history
  <1>4. OnFree(c)
    <2>1. CASE Clean(c)
      BY <1>3, <2>1, EndsOnFree DEF Clean
    <2>2. CASE UNCHANGED <<tx, work>>
      <3>1. tx' = [tx EXCEPT ![c] = tx[c]] /\ work' = [work EXCEPT ![c] = work[c]]
        BY <2>2 DEF IInv, TypeOK
      <3> QED
        BY <1>2, <1>3, <3>1 DEF OnFree
    <2> QED
      BY <1>1, <2>1, <2>2
  <1> QED
    BY <1>3, <1>4, OnFreeKeepsIInv
    DEF MarkThrows, Goto, IInv, TypeOK, ReturnedOrBooked

\* A booking that lands in somebody's open transaction is not durable, and
\* only an early return leaves such a transaction on a free connection.
LEMMA MarkEventKeepsIInv ==
  ASSUME IInv, NEW b \in Bookings, MarkEvent(b)
  PROVE  IInv'
  <1>1. PICK c \in Free : Works(c) /\ Write(c, Booking(b))
    BY DEF MarkEvent
  <1>2. /\ c \in Connections /\ tx[c] \in {"none", "open", "aborted"}
        /\ work[c] \in SUBSET Writes
        /\ tx' = [tx EXCEPT ![c] = tx[c]]
        /\ work = [work EXCEPT ![c] = work[c]]
    BY FreeHasNoRow DEF MarkEvent, IInv, TypeOK
  <1>3. /\ returned' = returned \cup {Booking(b)}
        /\ UNCHANGED <<service, pc, conn, leaked, undone, earlyReturn>>
    BY DEF MarkEvent
  <1>4. CASE tx[c] = "open"
    <2>1. /\ work' = [work EXCEPT ![c] = work[c] \cup {Booking(b)}]
          /\ durable' = durable
      BY <1>1, <1>4 DEF Write
    <2>2. OnFree(c)
      <3>1. work[c] \cup {Booking(b)} \in SUBSET Writes
        BY <1>2, WritesTyped
      <3> QED
        BY <1>2, <1>4, <2>1, <3>1 DEF OnFree
    <2>3. earlyReturn
      BY <1>4 DEF IInv, LeftOpenAfterEarlyReturn
    <2>4. ReturnedOrBooked'
      BY <1>3, <2>1, <2>3, DurableGrows DEF IInv
    <2> QED
      BY <1>3, <2>1, <2>2, <2>4, WritesTyped, OnFreeKeepsIInv DEF IInv, TypeOK
  <1>5. CASE tx[c] # "open"
    <2>1. work' = work /\ durable' = durable \cup {Booking(b)}
      BY <1>1, <1>5 DEF Write
    <2>2. OnFree(c)
      BY <1>2, <2>1 DEF OnFree
    <2>3. ReturnedOrBooked'
      BY <1>3, <2>1, DurableGrows DEF IInv
    <2> QED
      BY <1>3, <2>1, <2>2, <2>3, WritesTyped, OnFreeKeepsIInv DEF IInv, TypeOK
  <1> QED
    BY <1>4, <1>5

\* The worker's claim, a failing statement of the worker, and the pool that
\* closes an idle connection.
LEMMA LeftOpenKeepsIInv ==
  ASSUME IInv, NEW c \in Connections,
         ClaimPendingEvents(c) \/ WorkerThrows(c) \/ CloseIdle(c)
  PROVE  IInv'
  <1>1. /\ c \in Free /\ tx[c] # "none"
        /\ UNCHANGED <<service, pc, conn, leaked, returned, undone, earlyReturn>>
    BY DEF ClaimPendingEvents, WorkerThrows, CloseIdle, history
  <1>2. /\ \E state \in {"none", "aborted"} : tx' = [tx EXCEPT ![c] = state]
        /\ work' = [work EXCEPT ![c] = {}]
        /\ durable \subseteq durable' /\ durable' \subseteq durable \cup work[c]
    BY DEF ClaimPendingEvents, WorkerThrows, CloseIdle, CommitOn, Clean
  <1>3. OnFree(c)
    BY <1>1, <1>2, EndsOnFree
  <1>4. durable' \subseteq Writes
    BY <1>2 DEF IInv, TypeOK
  <1>5. ReturnedOrBooked'
    BY <1>1, <1>2, DurableGrows DEF IInv
  <1> QED
    BY <1>1, <1>3, <1>4, <1>5, OnFreeKeepsIInv DEF IInv, TypeOK

\* A broken connection ends its transaction one way or the other, and the row
\* in it was nobody else's.
LEMMA BreakKeepsIInv ==
  ASSUME IInv, NEW h \in Handlers, Break(h)
  PROVE  IInv'
  <1> USE DEF IInv
  <1>1. /\ conn[h] # None /\ conn[h] \in Connections
        /\ tx' = [tx EXCEPT ![conn[h]] = "none"]
        /\ work' = [work EXCEPT ![conn[h]] = {}]
        /\ conn' = [conn EXCEPT ![h] = None]
        /\ UNCHANGED <<service, pc, leaked, returned, undone, earlyReturn>>
    BY DEF Break, CommitOn, Clean, Release, history, TypeOK
  <1>2. durable \subseteq durable' /\ durable' \subseteq durable \cup work[conn[h]]
    BY DEF Break, CommitOn
  <1>3. TypeOK'
    BY <1>1, <1>2, NoneAssumption DEF TypeOK
  <1>4. RowsWaitWithTheirHandler' /\ HoldersAreHolding'
    <2>1. RowsWaitWithTheirHandler'
      BY <1>1, NoneAssumption DEF RowsWaitWithTheirHandler, TypeOK
    <2>2. HoldersAreHolding'
      BY <1>1 DEF HoldersAreHolding, TypeOK
    <2> QED
      BY <2>1, <2>2
  <1>5. LeftOpenAfterEarlyReturn'
    BY <1>1 DEF LeftOpenAfterEarlyReturn, Free, Held, TypeOK
  <1>6. ReadBackIsClean' /\ UndoneAreOver'
    BY <1>1 DEF ReadBackIsClean, UndoneAreOver, TypeOK
  <1>7. ReturnedOrBooked'
    BY <1>1, <1>2, DurableGrows
  <1>8. UndoneStaysUndone'
    BY <1>1, <1>2, UndoneRowsStayOut DEF UndoneStaysUndone
  <1> QED
    BY <1>3, <1>4, <1>5, <1>6, <1>7, <1>8

\* The instance dies: whatever was in a transaction is undone.
LEMMA CrashKeepsIInv ==
  ASSUME IInv, Crash
  PROVE  IInv'
  <1> USE DEF IInv, Crash
  <1>1. TypeOK'
    BY NoneAssumption DEF TypeOK
  <1>2. RowsWaitWithTheirHandler' /\ HoldersAreHolding'
    BY NoneAssumption DEF RowsWaitWithTheirHandler, HoldersAreHolding
  <1>3. LeftOpenAfterEarlyReturn' /\ ReadBackIsClean'
    BY DEF LeftOpenAfterEarlyReturn, ReadBackIsClean, Free
  <1>4. UndoneAreOver'
    BY DEF UndoneAreOver, TypeOK, InTransaction
  <1>5. ReturnedOrBooked' /\ UndoneStaysUndone'
    BY DEF ReturnedOrBooked, UndoneStaysUndone
  <1> QED
    BY <1>1, <1>2, <1>3, <1>4, <1>5

-----------------------------------------------------------------------------
(* Theorems.                                                               *)

LEMMA InitIInv == Init => IInv
  <1> SUFFICES ASSUME Init PROVE IInv
    OBVIOUS
  <1>1. TypeOK
    BY DEF Init, TypeOK
  <1>2. RowsWaitWithTheirHandler /\ HoldersAreHolding
    BY NoneAssumption DEF Init, RowsWaitWithTheirHandler, HoldersAreHolding
  <1>3. LeftOpenAfterEarlyReturn /\ ReadBackIsClean
    BY DEF Init, LeftOpenAfterEarlyReturn, ReadBackIsClean, Free
  <1>4. UndoneAreOver /\ ReturnedOrBooked /\ UndoneStaysUndone
    BY DEF Init, UndoneAreOver, ReturnedOrBooked, UndoneStaysUndone
  <1> QED
    BY <1>1, <1>2, <1>3, <1>4 DEF IInv

LEMMA NextKeepsIInv == IInv /\ [Next]_vars => IInv'
  <1> SUFFICES ASSUME IInv, [Next]_vars PROVE IInv'
    OBVIOUS
  <1>1. ASSUME NEW h \in Handlers, Check(h) PROVE IInv'
    <2>1. /\ pc[h] = "queued" /\ h \notin undone /\ conn[h] = None
          /\ \E label \in {"done", "connect"} : pc' = [pc EXCEPT ![h] = label]
      BY <1>1 DEF Check, Goto, IInv, UndoneAreOver, HoldersAreHolding, Holding
    <2> QED
      BY <1>1, <2>1, MoveKeepsIInv DEF Check, Labels
  <1>6. ASSUME NEW h \in Handlers, CheckThrows(h) PROVE IInv'
    <2>1. pc[h] = "queued" /\ conn[h] = None
      BY <1>6 DEF CheckThrows, IInv, HoldersAreHolding, Holding
    <2> QED
      BY <1>6, <2>1, MoveKeepsIInv DEF CheckThrows, Goto, Labels
  <1>2. ASSUME NEW h \in Handlers, FindThrows(h) \/ StatementThrows(h) PROVE IInv'
    BY <1>2, UndoKeepsIInv DEF FindThrows, StatementThrows
  <1>3. ASSUME NEW h \in Handlers, Settle(h) PROVE IInv'
    <2>1. pc[h] = "settle" /\ conn[h] = None
      BY <1>3 DEF Settle, IInv, HoldersAreHolding, Holding
    <2> QED
      BY <1>3, <2>1, MoveKeepsIInv DEF Settle, Goto, Labels
  <1>4. ASSUME NEW h \in Handlers, HandlerStep(h) PROVE IInv'
    BY <1>1, <1>2, <1>3, <1>4, <1>6, ConnectKeepsIInv, StartTransactionKeepsIInv,
       StartThrowsKeepsIInv, FindExistingKeepsIInv, SaveKeepsIInv,
       CommitKeepsIInv, ReadBackKeepsIInv, MarkAsProcessedKeepsIInv,
       MarkThrowsKeepsIInv
    DEF HandlerStep
  <1>5. CASE UNCHANGED vars
    BY <1>5 DEF vars, history, IInv, TypeOK, RowsWaitWithTheirHandler,
                HoldersAreHolding, LeftOpenAfterEarlyReturn, Free, Held,
                ReadBackIsClean, UndoneAreOver, ReturnedOrBooked,
                UndoneStaysUndone
  <1> QED
    BY <1>4, <1>5, MarkEventKeepsIInv, LeftOpenKeepsIInv, BreakKeepsIInv,
       CrashKeepsIInv
    DEF Next

\* The inductive invariant holds throughout.
THEOREM InductiveInvariant == Spec => []IInv
  BY InitIInv, NextKeepsIInv, PTL DEF Spec

\* The variables have their types, no connection serves two handlers, and a
\* leaked one serves none.
THEOREM TypeCorrect == Spec => []TypeOK
  <1>1. IInv => TypeOK
    BY DEF IInv
  <1> QED
    BY <1>1, InductiveInvariant, PTL

\* The one step to the lookup and the one early return are the payment
\* service's, and the service does not change.
LEMMA EarlyReturnsStayPayments ==
  ASSUME IInv, EarlyReturnsArePayments, [Next]_vars
  PROVE  EarlyReturnsArePayments'
  <1> USE DEF EarlyReturnsArePayments, Goto, Fail
  <1>1. ASSUME NEW h \in Handlers, StartTransaction(h)
        PROVE  EarlyReturnsArePayments'
    BY <1>1 DEF StartTransaction, history, IInv, TypeOK
  <1>2. ASSUME NEW h \in Handlers, FindExisting(h)
        PROVE  EarlyReturnsArePayments'
    BY <1>2 DEF FindExisting, ReturnEarly, IInv, TypeOK
  <1>3. ASSUME NEW h \in Handlers, FindThrows(h) \/ StatementThrows(h)
        PROVE  EarlyReturnsArePayments'
    BY <1>3 DEF FindThrows, StatementThrows, Undo, IInv, TypeOK
  <1>4. ASSUME NEW h \in Handlers,
               \/ Check(h) \/ CheckThrows(h) \/ Connect(h) \/ StartThrows(h)
               \/ Save(h) \/ Commit(h) \/ ReadBack(h) \/ Settle(h)
               \/ MarkAsProcessed(h) \/ MarkThrows(h)
        PROVE  EarlyReturnsArePayments'
    <2>1. /\ UNCHANGED <<service, earlyReturn>>
          /\ \E label \in Labels \ {"find"} : pc' = [pc EXCEPT ![h] = label]
      BY <1>4
      DEF Check, CheckThrows, Connect, StartThrows, Save, Commit, ReadBack,
          Settle, MarkAsProcessed, MarkThrows, history, Labels
    <2> QED
      BY <2>1 DEF IInv, TypeOK
  <1>5. ASSUME NEW h \in Handlers, HandlerStep(h)
        PROVE  EarlyReturnsArePayments'
    BY <1>1, <1>2, <1>3, <1>4, <1>5 DEF HandlerStep
  <1>6. CASE \/ \E h \in Handlers : Break(h)
             \/ \E b \in Bookings : MarkEvent(b)
             \/ \E c \in Connections :
                  ClaimPendingEvents(c) \/ WorkerThrows(c) \/ CloseIdle(c)
    BY <1>6
    DEF Break, MarkEvent, ClaimPendingEvents, WorkerThrows, CloseIdle, history
  <1>7. CASE Crash
    BY <1>7 DEF Crash
  <1>8. CASE UNCHANGED vars
    BY <1>8 DEF vars, history
  <1> QED
    BY <1>5, <1>6, <1>7, <1>8 DEF Next

\* A write that has returned is committed, or it is a booking by the worker of
\* a payment service in which a processPayment has returned early.
THEOREM ReturnedWritesAreDurable == Spec => []ReturnedIsDurable
  <1>1. Init => EarlyReturnsArePayments
    BY DEF Init, EarlyReturnsArePayments
  <1>2. IInv /\ EarlyReturnsArePayments => ReturnedIsDurable
    BY DEF IInv, ReturnedOrBooked, EarlyReturnsArePayments, ReturnedIsDurable
  <1> QED
    BY <1>1, <1>2, InductiveInvariant, EarlyReturnsStayPayments, PTL DEF Spec

\* What was rolled back is never committed by the next user of the connection.
THEOREM UndoneRowsStayUndone == Spec => []UndoneStaysUndone
  <1>1. IInv => UndoneStaysUndone
    BY DEF IInv
  <1> QED
    BY <1>1, InductiveInvariant, PTL
=============================================================================
