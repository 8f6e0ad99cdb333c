------------------------- MODULE Idempotency_proofs -------------------------
(***************************************************************************)
(* Theorems about module Idempotency, for any requests and keys, any       *)
(* number of attempts, and any environment.                                *)
(***************************************************************************)
EXTENDS Idempotency, TLAPS

-----------------------------------------------------------------------------
(* The inductive invariant.                                                *)

\* What the transaction of a request has saved when it reaches a statement.
SavedBefore(label) ==
  CASE label = "saveEvent" -> {"order"}
    [] label = "commit"    -> {"order", "event"}
    [] OTHER               -> {}
TransactionsFit == \A r \in Requests : tx[r] = SavedBefore(pc[r])

\* Statements that only a request without an order, or with one, reaches; a
\* request that met a conflict has none.
BeforeOrder == {"new", "saveOrder", "saveEvent", "commit"} \cup Acquiring
AfterOrder  == {"readBack", "complete"}
OrdersFit ==
  \A r \in Requests : /\ pc[r] \in BeforeOrder => r \notin orders
                      /\ pc[r] \in AfterOrder => r \in orders
                      /\ pc[r] # "done" => answer[r] = "none"
                      /\ answer[r] = "conflict" => r \notin orders

\* A record is being processed until it gets a response, which is an order
\* that exists and was made for its key.
RowsAreGenuine ==
  \A k \in Keys : table[k] # NoRecord =>
    /\ table[k].isProcessing <=> table[k].responseBody = Null
    /\ table[k].responseBody # Null =>
         /\ table[k].responseBody \in orders
         /\ KeyOf[table[k].responseBody] = k

\* Two requests with one key are running only if the key is disturbed; so is
\* the key of a record that has expired.
RunningAlone ==
  \A r \in Requests : \A q \in SameKey(r) :
    Running(r) /\ Running(q) => KeyOf[r] \in disturbed
ExpiredIsDisturbed ==
  \A k \in Keys : table[k] # NoRecord /\ table[k].expired => k \in disturbed

\* Undisturbed, a request finds a record after its insert and takes none of the
\* ways around it, and the record is there until the request deletes it.
NeedsRow == {"read"} \cup (Processing \ {"unlock"})
StraightOn ==
  \A r \in Requests : KeyOf[r] \notin disturbed =>
    /\ pc[r] \notin {"delete", "reinsert", "reread"}
    /\ pc[r] \in NeedsRow => Row(r) # NoRecord

\* Undisturbed, the order a client was told of stays in the record, and nobody
\* processes a request with this key again.
Completed(row, order) ==
  row # NoRecord /\ ~row.isProcessing /\ row.responseBody = order
AcknowledgedStays ==
  \A r \in Requests : Acknowledged(r) /\ KeyOf[r] \notin disturbed =>
    /\ Completed(Row(r), body[r])
    /\ \A q \in Requests : KeyOf[q] = KeyOf[r] => pc[q] \notin Processing

IInv == /\ TypeOK
        /\ OrderIffEvent
        /\ TransactionsFit
        /\ OrdersFit
        /\ RowsAreGenuine
        /\ AnswersAreGenuine
        /\ RunningAlone
        /\ ExpiredIsDisturbed
        /\ StraightOn
        /\ AcknowledgedStays
        /\ SecondOrderNeedsFailure
        /\ NeverLockedOut

-----------------------------------------------------------------------------
(* Facts about the operators.                                              *)

Labels == {"new", "done"} \cup Acquiring \cup Processing

LEMMA NewRecordTyped ==
  ASSUME NEW r \in Requests
  PROVE  /\ NewRecord(r) \in Record /\ NewRecord(r) # NoRecord
         /\ NewRecord(r).isProcessing /\ NewRecord(r).responseBody = Null
         /\ ~NewRecord(r).expired
  <1>1. NewRecord(r) \in Record
    BY DEF NewRecord, Record, Null
  <1> QED
    BY <1>1, NoRecordAssumption DEF NewRecord

\* complete() sets two columns, expiry another one.
CompletedRow(row, r) == [row EXCEPT !.isProcessing = FALSE, !.responseBody = r]

LEMMA CompletedRowTyped ==
  ASSUME NEW row \in Record, NEW r \in Requests
  PROVE  /\ CompletedRow(row, r) \in Record
         /\ CompletedRow(row, r) # NoRecord
         /\ CompletedRow(row, r).isProcessing = FALSE
         /\ CompletedRow(row, r).responseBody = r
         /\ CompletedRow(row, r).expired = row.expired
  <1>1. CompletedRow(row, r) \in Record
    BY DEF CompletedRow, Record
  <1>2. /\ CompletedRow(row, r).isProcessing = FALSE
        /\ CompletedRow(row, r).responseBody = r
        /\ CompletedRow(row, r).expired = row.expired
    BY DEF CompletedRow, Record
  <1> QED
    BY <1>1, <1>2, NoRecordAssumption

LEMMA ExpiredRowTyped ==
  ASSUME NEW row \in Record
  PROVE  LET new == [row EXCEPT !.expired = TRUE] IN
         /\ new \in Record /\ new # NoRecord
         /\ new.isProcessing = row.isProcessing
         /\ new.responseBody = row.responseBody
  <1> DEFINE new == [row EXCEPT !.expired = TRUE]
  <1>1. new \in Record
    BY DEF Record
  <1>2. new.isProcessing = row.isProcessing /\ new.responseBody = row.responseBody
    BY DEF Record
  <1> QED
    BY <1>1, <1>2, NoRecordAssumption

\* What the statements of a request may do to the record of its key.
RowStays      == table' = table
RowInserted(r)  == Row(r) = NoRecord /\ SetRow(r, NewRecord(r))
RowDeleted(r)   == SetRow(r, NoRecord)
RowCompleted(r) == Row(r) # NoRecord /\ SetRow(r, CompletedRow(Row(r), r))

LEMMA RowEffects ==
  ASSUME TypeOK, NEW r \in Requests,
         \/ RowStays \/ RowInserted(r) \/ RowDeleted(r) \/ RowCompleted(r)
  PROVE  /\ KeyOf[r] \in Keys
         /\ table' \in [Keys -> Record \cup {NoRecord}]
         /\ \A k \in Keys \ {KeyOf[r]} : table'[k] = table[k]
         /\ RowStays => Row(r)' = Row(r)
         /\ RowInserted(r) => Row(r) = NoRecord /\ Row(r)' = NewRecord(r)
         /\ RowDeleted(r) => Row(r)' = NoRecord
         /\ RowCompleted(r) => /\ Row(r) \in Record /\ Row(r) # NoRecord
                              /\ Row(r)' = CompletedRow(Row(r), r)
  <1>1. KeyOf[r] \in Keys /\ Row(r) \in Record \cup {NoRecord}
    BY KeyOfAssumption DEF TypeOK, Row
  <1>2. Row(r) # NoRecord => /\ Row(r) \in Record
                             /\ CompletedRow(Row(r), r) \in Record
    BY <1>1, CompletedRowTyped
  <1>3. ASSUME NEW row \in Record \cup {NoRecord}, SetRow(r, row)
        PROVE  /\ table' \in [Keys -> Record \cup {NoRecord}]
               /\ \A k \in Keys \ {KeyOf[r]} : table'[k] = table[k]
               /\ Row(r)' = row
    BY <1>1, <1>3 DEF SetRow, Row, TypeOK
  <1>4. RowStays => /\ table' \in [Keys -> Record \cup {NoRecord}]
                    /\ \A k \in Keys \ {KeyOf[r]} : table'[k] = table[k]
                    /\ Row(r)' = Row(r)
    BY DEF RowStays, Row, TypeOK
  <1> QED
    BY <1>1, <1>2, <1>3, <1>4, NewRecordTyped DEF RowInserted, RowDeleted, RowCompleted

\* The statements of the code have these effects.
LEMMA StatementsHaveRowEffects ==
  ASSUME NEW r \in Requests
  PROVE  /\ InsertOrIgnore(r) => RowStays \/ RowInserted(r)
         /\ CompleteRow(r) => RowStays \/ RowCompleted(r)
         /\ DeleteRow(r) => RowDeleted(r)
  BY DEF InsertOrIgnore, CompleteRow, DeleteRow, RowStays, RowInserted,
         RowDeleted, RowCompleted, CompletedRow

\* When a request moves on, and has just arrived or was running already,
\* RunningAlone still holds.
LEMMA MoveKeepsRunningAlone ==
  ASSUME TypeOK, RunningAlone, NEW r \in Requests, NEW label,
         pc' = [pc EXCEPT ![r] = label],
         Arrive(r) \/ (Running(r) /\ disturbed' = disturbed)
  PROVE  /\ RunningAlone'
         /\ disturbed \subseteq disturbed' /\ disturbed' \subseteq Keys
         /\ \A k \in Keys : k # KeyOf[r] /\ k \in disturbed' => k \in disturbed
  <1>1. /\ disturbed \subseteq disturbed' /\ disturbed' \subseteq Keys
        /\ \A k \in Keys : k # KeyOf[r] /\ k \in disturbed' => k \in disturbed
    BY KeyOfAssumption DEF Arrive, TypeOK
  <1>2. ASSUME NEW x \in Requests, NEW y \in SameKey(x), Running(x)', Running(y)'
        PROVE  KeyOf[x] \in disturbed'
    <2>1. y \in Requests /\ y # x /\ KeyOf[y] = KeyOf[x] /\ x \in SameKey(y)
      BY <1>2 DEF SameKey
    <2>2. CASE (x = r \/ y = r) /\ Arrive(r)
      BY <1>2, <2>1, <2>2 DEF Arrive, Running, SameKey, TypeOK
    <2>3. CASE (x = r \/ y = r) /\ Running(r)
      BY <1>1, <1>2, <2>1, <2>3 DEF RunningAlone, Running, TypeOK
    <2>4. CASE x # r /\ y # r
      BY <1>1, <1>2, <2>1, <2>4 DEF RunningAlone, Running, TypeOK
    <2> QED
      BY <2>2, <2>3, <2>4
  <1> QED
    BY <1>1, <1>2 DEF RunningAlone, SameKey
-----------------------------------------------------------------------------
(* A step of one request, with what the invariant asks of it: it goes on   *)
(* to the statement label, its client is told kind and order.              *)

Moves(r, label) ==
  /\ label \in Labels \ {"new"}
  /\ pc' = [pc EXCEPT ![r] = label]
  /\ tx' = [tx EXCEPT ![r] = SavedBefore(label)]
  /\ attempts' \in [Requests -> 0..(MaxAttempts - 1)]
  /\ Arrive(r) \/ (Running(r) /\ disturbed' = disturbed)

\* The order exists from the commit on.
Commits(r, label) ==
  /\ \/ orders' = orders /\ events' = events
     \/ /\ pc[r] = "commit"
        /\ orders' = orders \cup {r} /\ events' = events \cup {r}
  /\ label \in BeforeOrder => r \notin orders'
  /\ label \in AfterOrder => r \in orders'

\* The record of the key changes, if at all, in a statement that does so.
Touches(r, label) ==
  /\ \/ RowStays
     \/ RowInserted(r)
     \/ RowDeleted(r) /\ pc[r] \in {"delete", "unlock"}
     \/ RowCompleted(r) /\ pc[r] = "complete"
  /\ label \in Processing /\ pc[r] \notin Processing =>
       KeyOf[r] \in disturbed \/ LooksInserted(Row(r))
  /\ label \in {"delete", "reinsert", "reread"} => KeyOf[r] \in disturbed
  /\ label \in NeedsRow => KeyOf[r] \in disturbed' \/ Row(r)' # NoRecord

\* The client is told of no order, of the one just made, or of the one in the
\* record.
Tells(r, label, kind, order) ==
  /\ answer' = [answer EXCEPT ![r] = kind]
  /\ body' = [body EXCEPT ![r] = order]
  /\ order \in Requests \cup {Null}
  /\ \/ kind \in {"none", "error"}
     \/ /\ kind = "conflict" /\ pc[r] \in BeforeOrder \ {"commit"}
        /\ KeyOf[r] \in disturbed
     \/ /\ kind = "created" /\ order = r /\ pc[r] = "complete"
        /\ Row(r) = NoRecord \/ RowCompleted(r)
     \/ /\ kind = "replayed" /\ RowStays
        /\ Row(r) # NoRecord /\ ~Row(r).isProcessing
        /\ order = Row(r).responseBody
  /\ kind # "none" => label = "done"

StepOf(r, label, kind, order) ==
  /\ Moves(r, label) /\ Commits(r, label) /\ Touches(r, label)
  /\ Tells(r, label, kind, order)

LEMMA StepKeepsIInv ==
  ASSUME IInv, NEW r \in Requests, NEW label, NEW kind, NEW order,
         StepOf(r, label, kind, order)
  PROVE  IInv'
  <1> USE DEF IInv, StepOf
  <1> DEFINE k == KeyOf[r]
  <1>1. /\ label \in Labels \ {"new"} /\ pc' = [pc EXCEPT ![r] = label]
        /\ pc[r] \in Labels /\ pc[r] # "done" /\ pc'[r] = label
        /\ \A q \in Requests : q # r => pc'[q] = pc[q]
        /\ k \in Keys /\ \A q \in Requests : KeyOf[q] \in Keys
    BY KeyOfAssumption DEF Moves, Arrive, Running, TypeOK, Labels
  <1>2. /\ RunningAlone'
        /\ disturbed \subseteq disturbed' /\ disturbed' \subseteq Keys
        /\ \A x \in Keys : x # k /\ x \in disturbed' => x \in disturbed
    BY MoveKeepsRunningAlone DEF Moves
  <1>3. /\ table' \in [Keys -> Record \cup {NoRecord}]
        /\ \A x \in Keys \ {k} : table'[x] = table[x]
        /\ \/ table'[k] = table[k]
           \/ table[k] = NoRecord /\ table'[k] = NewRecord(r)
           \/ table'[k] = NoRecord /\ pc[r] \in {"delete", "unlock"}
           \/ /\ table[k] \in Record /\ table[k] # NoRecord /\ pc[r] = "complete"
              /\ table'[k] = CompletedRow(table[k], r)
    BY <1>1, RowEffects DEF Touches, Row
  <1>4. /\ orders \subseteq orders' /\ orders' \subseteq orders \cup {r}
        /\ orders' = events' /\ orders' \subseteq Requests
        /\ r \in orders' /\ r \notin orders => pc[r] = "commit"
    BY DEF Commits, OrderIffEvent, TypeOK
  <1>5. pc[r] = "complete" => r \in orders
    BY DEF OrdersFit, AfterOrder
  <1>6. /\ \A q \in Requests : q # r => answer'[q] = answer[q] /\ body'[q] = body[q]
        /\ answer'[r] = kind /\ body'[r] = order
        /\ answer[r] = "none"
    BY <1>1 DEF Tells, TypeOK, OrdersFit
  <1>7. TypeOK'
    <2>1. tx' \in [Requests -> SUBSET {"order", "event"}]
      BY DEF Moves, SavedBefore, TypeOK
    <2>2. /\ kind \in {"none", "created", "replayed", "conflict", "error"}
          /\ order \in Requests \cup {Null}
      BY <1>1 DEF Tells, TypeOK, Row, Record
    <2> QED
      BY <1>1, <1>2, <1>3, <1>4, <2>1, <2>2 DEF Moves, Tells, TypeOK, Labels
  <1>8. OrderIffEvent' /\ TransactionsFit'
    BY <1>1, <1>4 DEF OrderIffEvent, TransactionsFit, Moves, TypeOK
  <1>9. OrdersFit'
    BY <1>1, <1>4, <1>6 DEF OrdersFit, Commits, Tells, BeforeOrder, AfterOrder
  <1>10. RowsAreGenuine'
    <2>1. ASSUME NEW x \in Keys \ {k}, table'[x] # NoRecord
          PROVE  /\ table'[x].isProcessing <=> table'[x].responseBody = Null
                 /\ table'[x].responseBody # Null =>
                      /\ table'[x].responseBody \in orders'
                      /\ KeyOf[table'[x].responseBody] = x
      BY <1>3, <1>4, <2>1 DEF RowsAreGenuine
    <2>2. ASSUME table'[k] # NoRecord
          PROVE  /\ table'[k].isProcessing <=> table'[k].responseBody = Null
                 /\ table'[k].responseBody # Null =>
                      /\ table'[k].responseBody \in orders'
                      /\ KeyOf[table'[k].responseBody] = k
      <3>1. CASE table'[k] = table[k]
        BY <1>1, <1>4, <2>2, <3>1 DEF RowsAreGenuine
      <3>2. CASE table'[k] = NewRecord(r)
        BY <3>2, NewRecordTyped
      <3>3. CASE /\ table[k] \in Record /\ pc[r] = "complete"
                 /\ table'[k] = CompletedRow(table[k], r)
        <4>1. table'[k].isProcessing = FALSE /\ table'[k].responseBody = r
          <5>1. CompletedRow(table[k], r).isProcessing = FALSE
            BY <3>3, CompletedRowTyped
          <5>2. CompletedRow(table[k], r).responseBody = r
            BY <3>3, CompletedRowTyped
          <5> QED
            BY <3>3, <5>1, <5>2
        <4>2. r # Null /\ r \in orders' /\ KeyOf[r] = k
          BY <1>4, <1>5, <3>3, NullsAssumption DEF Null
        <4> QED
          BY <4>1, <4>2
      <3> QED
        BY <1>3, <2>2, <3>1, <3>2, <3>3
    <2> QED
      BY <1>1, <2>1, <2>2 DEF RowsAreGenuine
  <1>11. AnswersAreGenuine'
    <2>1. ASSUME NEW q \in Requests, q # r, Acknowledged(q)'
          PROVE  /\ body'[q] \in orders'
                 /\ KeyOf[body'[q]] = KeyOf[q]
                 /\ answer'[q] = "created" => body'[q] = q
      BY <1>4, <1>6, <2>1 DEF AnswersAreGenuine, Acknowledged
    <2>2. ASSUME Acknowledged(r)'
          PROVE  /\ body'[r] \in orders'
                 /\ KeyOf[body'[r]] = KeyOf[r]
                 /\ answer'[r] = "created" => body'[r] = r
      <3>1. CASE kind = "created"
        BY <1>4, <1>5, <1>6, <3>1 DEF Tells
      <3>2. CASE kind = "replayed"
        <4>1. Row(r) # NoRecord /\ ~Row(r).isProcessing /\ order = Row(r).responseBody
          BY <3>2 DEF Tells
        <4> QED
          BY <1>1, <1>4, <1>6, <3>2, <4>1 DEF RowsAreGenuine, Row
      <3> QED
        BY <1>6, <2>2, <3>1, <3>2 DEF Acknowledged
    <2> QED
      BY <2>1, <2>2 DEF AnswersAreGenuine
  <1>12. ExpiredIsDisturbed'
    <2>1. ASSUME NEW x \in Keys \ {k}, table'[x] # NoRecord, table'[x].expired
          PROVE  x \in disturbed'
      BY <1>2, <1>3, <2>1 DEF ExpiredIsDisturbed
    <2>2. ASSUME table'[k] # NoRecord, table'[k].expired
          PROVE  k \in disturbed'
      <3>1. CASE table'[k] = table[k]
        BY <1>1, <1>2, <2>2, <3>1 DEF ExpiredIsDisturbed
      <3>2. CASE table'[k] = NewRecord(r)
        BY <2>2, <3>2, NewRecordTyped
      <3>3. CASE /\ table[k] \in Record /\ table[k] # NoRecord
                 /\ table'[k] = CompletedRow(table[k], r)
        <4>1. table[k].expired
          <5>1. CompletedRow(table[k], r).expired = table[k].expired
            BY <3>3, CompletedRowTyped
          <5> QED
            BY <2>2, <3>3, <5>1
        <4> QED
          BY <1>1, <1>2, <3>3, <4>1 DEF ExpiredIsDisturbed
      <3> QED
        BY <1>3, <2>2, <3>1, <3>2, <3>3
    <2> QED
      BY <1>1, <2>1, <2>2 DEF ExpiredIsDisturbed
  <1>13. \A q \in SameKey(r) : Running(q) /\ Running(r) => k \in disturbed
    BY DEF RunningAlone
  <1>14. StraightOn'
    <2>1. ASSUME NEW q \in Requests, q # r, KeyOf[q] \notin disturbed'
          PROVE  /\ pc'[q] \notin {"delete", "reinsert", "reread"}
                 /\ pc'[q] \in NeedsRow => table'[KeyOf[q]] # NoRecord
      <3>1. KeyOf[q] \notin disturbed /\ pc'[q] = pc[q]
        BY <1>1, <1>2, <2>1
      <3>2. CASE KeyOf[q] # k
        BY <1>1, <1>3, <2>1, <3>1, <3>2 DEF StraightOn, Row
      <3>3. CASE KeyOf[q] = k
        <4>1. pc[q] \notin NeedsRow
          <5>1. SUFFICES ASSUME pc[q] \in NeedsRow PROVE FALSE
            OBVIOUS
          <5>2. Running(q) /\ q \in SameKey(r)
            BY <2>1, <3>3, <5>1 DEF Running, NeedsRow, Processing, SameKey
          <5> QED
            BY <1>13, <2>1, <3>1, <3>3, <5>2 DEF Moves, Arrive
        <4> QED
          BY <2>1, <3>1, <4>1 DEF StraightOn
      <3> QED
        BY <3>2, <3>3
    <2>2. ASSUME k \notin disturbed'
          PROVE  /\ pc'[r] \notin {"delete", "reinsert", "reread"}
                 /\ pc'[r] \in NeedsRow => table'[k] # NoRecord
      BY <1>1, <1>2, <2>2 DEF Touches, Row
    <2> QED
      BY <2>1, <2>2 DEF StraightOn, Row
  <1>15. ASSUME NEW q \in SameKey(r), k \notin disturbed', pc[r] # "new" \/ Running(q)
         PROVE  ~Running(q) /\ Running(r)
    BY <1>1, <1>2, <1>13, <1>15 DEF Moves, Arrive, Running
  <1>16. AcknowledgedStays'
    <2>1. ASSUME NEW x \in Requests, x # r, Acknowledged(x)', KeyOf[x] \notin disturbed'
          PROVE  /\ Completed(table'[KeyOf[x]], body'[x])
                 /\ \A q \in Requests : KeyOf[q] = KeyOf[x] => pc'[q] \notin Processing
      <3>1. /\ Completed(Row(x), body[x]) /\ body'[x] = body[x]
            /\ \A q \in Requests : KeyOf[q] = KeyOf[x] => pc[q] \notin Processing
            /\ KeyOf[x] \notin disturbed
        BY <1>2, <1>6, <2>1 DEF AcknowledgedStays, Acknowledged
      <3>2. CASE KeyOf[x] # k
        BY <1>1, <1>3, <3>1, <3>2 DEF Row
      <3>3. CASE KeyOf[x] = k
        <4>1. /\ pc[r] \notin Processing /\ pc[r] # "delete"
              /\ Completed(table[k], body[x]) /\ k \notin disturbed
          BY <3>1, <3>3 DEF StraightOn, Row
        <4>2. table'[k] = table[k]
          BY <1>3, <4>1 DEF Completed, Processing
        <4>3. label \notin Processing
          BY <4>1 DEF Touches, LooksInserted, Completed, Row
        <4> QED
          BY <1>1, <3>1, <3>3, <4>1, <4>2, <4>3
      <3> QED
        BY <3>2, <3>3
    <2>2. ASSUME Acknowledged(r)', k \notin disturbed'
          PROVE  /\ Completed(table'[k], body'[r])
                 /\ \A q \in Requests : KeyOf[q] = k => pc'[q] \notin Processing
      <3>1. k \notin disturbed /\ label = "done" /\ kind \in {"created", "replayed"}
        BY <1>2, <1>6, <2>2 DEF Acknowledged, Tells
      <3>2. Completed(table'[k], order)
        <4>1. CASE kind = "created"
          <5>1. Row(r) # NoRecord /\ pc[r] = "complete"
            BY <3>1, <4>1 DEF StraightOn, Tells, NeedsRow, Processing
          <5>2. order = r /\ RowCompleted(r)
            BY <4>1, <5>1 DEF Tells
          <5>3. Row(r) \in Record /\ Row(r)' = CompletedRow(Row(r), r)
            BY <5>2, RowEffects
          <5>4. /\ CompletedRow(Row(r), r) # NoRecord
                /\ CompletedRow(Row(r), r).isProcessing = FALSE
                /\ CompletedRow(Row(r), r).responseBody = r
            BY <5>3, CompletedRowTyped
          <5> QED
            BY <5>2, <5>3, <5>4 DEF Completed, Row
        <4>2. CASE kind = "replayed"
          BY <4>2 DEF Tells, RowStays, Completed, Row
        <4> QED
          BY <3>1, <4>1, <4>2
      <3>3. ASSUME NEW q \in Requests, KeyOf[q] = k, pc'[q] \in Processing
            PROVE  FALSE
        <4>1. q # r /\ q \in SameKey(r) /\ Running(q)
          BY <1>1, <3>1, <3>3 DEF SameKey, Running, Processing
        <4> QED
          BY <1>15, <2>2, <4>1
      <3> QED
        BY <1>6, <3>2, <3>3
    <2> QED
      BY <1>1, <2>1, <2>2 DEF AcknowledgedStays, Row
  <1>17. \A q \in Requests : Failed(q) => Failed(q)'
    BY <1>1, <1>6 DEF Failed, Acknowledged
  <1>18. SecondOrderNeedsFailure'
    <2>1. ASSUME NEW q \in SameKey(r) \cap orders, r \in orders', r \notin orders,
                 k \notin disturbed'
          PROVE  Failed(q)'
      <3>1. pc[r] = "commit" /\ pc[r] \in Processing /\ q \in Requests /\ KeyOf[q] = k
        BY <1>4, <2>1 DEF SameKey, Processing
      <3>2. pc[q] = "done"
        BY <1>15, <2>1, <3>1 DEF OrdersFit, BeforeOrder, Running
      <3>3. ~Acknowledged(q)
        BY <1>2, <2>1, <3>1 DEF AcknowledgedStays
      <3> QED
        BY <1>17, <3>1, <3>2, <3>3 DEF Failed
    <2>2. ASSUME NEW x \in orders', NEW y \in SameKey(x) \cap orders'
          PROVE  Failed(x)' \/ Failed(y)' \/ KeyOf[x] \in disturbed'
      <3>1. /\ x \in Requests /\ y \in Requests /\ y # x /\ KeyOf[y] = KeyOf[x]
            /\ x \in SameKey(y)
        BY <1>4, <2>2 DEF SameKey
      <3>2. CASE x \in orders /\ y \in orders
        BY <1>2, <1>17, <2>2, <3>1, <3>2 DEF SecondOrderNeedsFailure
      <3>3. CASE x \notin orders
        BY <1>4, <2>1, <2>2, <3>1, <3>3
      <3>4. CASE y \notin orders
        BY <1>4, <2>1, <2>2, <3>1, <3>4
      <3> QED
        BY <3>2, <3>3, <3>4
    <2> QED
      BY <2>2 DEF SecondOrderNeedsFailure, SameKey
  <1>19. NeverLockedOut'
    BY <1>1, <1>2, <1>6 DEF NeverLockedOut, Tells
  <1> QED
    BY <1>2, <1>7, <1>8, <1>9, <1>10, <1>11, <1>12, <1>14, <1>16, <1>18, <1>19

-----------------------------------------------------------------------------
(* Every action of a request is such a step.                               *)

\* A request that has arrived or is running, and what goes with its next label.
Acting(r) == Arrive(r) \/ (Running(r) /\ disturbed' = disturbed)

\* A request that goes on, is answered, throws or tries again.
LEMMA GoingOn ==
  ASSUME IInv, NEW r \in Requests, NEW label \in Labels \ {"new"},
         Goto(r, label), Acting(r), tx[r] = SavedBefore(label)
  PROVE  Moves(r, label) /\ Tells(r, label, "none", body[r])
  BY DEF IInv, TypeOK, OrdersFit, Goto, Acting, Arrive, Running, Moves, Tells

LEMMA Answering ==
  ASSUME IInv, NEW r \in Requests, NEW kind, NEW order,
         Answer(r, kind, order), Acting(r)
  PROVE  /\ Moves(r, "done")
         /\ answer' = [answer EXCEPT ![r] = kind]
         /\ body' = [body EXCEPT ![r] = order]
  BY MaxAttemptsAssumption
  DEF IInv, TypeOK, Answer, Acting, Moves, SavedBefore, Labels

LEMMA Throwing ==
  ASSUME IInv, NEW r \in Requests, ThrowToUnlock(r), Acting(r)
  PROVE  Moves(r, "unlock") /\ Tells(r, "unlock", "none", body[r])
  BY MaxAttemptsAssumption
  DEF IInv, TypeOK, OrdersFit, ThrowToUnlock, Acting, Arrive, Running,
      Moves, Tells, SavedBefore, Labels, Processing

LEMMA Retrying ==
  ASSUME IInv, NEW r \in Requests, Retry(r), MayRetry(r), Running(r),
         disturbed' = disturbed
  PROVE  Moves(r, pc[r]) /\ Tells(r, pc[r], "none", body[r])
  <1>1. attempts' \in [Requests -> 0..(MaxAttempts - 1)]
    BY MaxAttemptsAssumption DEF IInv, TypeOK, Retry, MayRetry
  <1>2. tx' = [tx EXCEPT ![r] = SavedBefore(pc[r])]
    BY DEF IInv, TypeOK, TransactionsFit, Retry
  <1> QED
    BY <1>1, <1>2
    DEF IInv, TypeOK, OrdersFit, Retry, Running, Moves, Tells, Labels

\* A request with its key undisturbed is past its insert and finds its row.
LEMMA Waiting ==
  ASSUME IInv, NEW r \in Requests
  PROVE  /\ tx[r] = SavedBefore(pc[r])
         /\ pc[r] \in {"delete", "reinsert", "reread"} => KeyOf[r] \in disturbed
         /\ pc[r] \in NeedsRow => KeyOf[r] \in disturbed \/ Row(r) # NoRecord
         /\ pc[r] \in BeforeOrder => r \notin orders
         /\ pc[r] \in AfterOrder => r \in orders
         /\ Row(r) # NoRecord =>
              /\ Row(r) \in Record
              /\ Row(r).isProcessing <=> Row(r).responseBody = Null
              /\ Row(r).expired => KeyOf[r] \in disturbed
  BY KeyOfAssumption
  DEF IInv, TypeOK, TransactionsFit, StraightOn, OrdersFit, RowsAreGenuine,
      ExpiredIsDisturbed, Row

\* acquireLock answers from a row: with a conflict only where the key is disturbed.
LEMMA AnsweringFromRow ==
  ASSUME IInv, NEW r \in Requests, AnswerFrom(r, Row(r)), Acting(r), RowStays,
         pc[r] \in Acquiring,
         Row(r) = NoRecord \/ Row(r).isProcessing => KeyOf[r] \in disturbed
  PROVE  \E kind, order : Moves(r, "done") /\ Tells(r, "done", kind, order)
  <1>1. CASE Row(r) = NoRecord \/ Row(r).isProcessing
    <2>1. Tells(r, "done", "conflict", Null) /\ Moves(r, "done")
      BY <1>1, Answering DEF AnswerFrom, Tells, BeforeOrder, Acquiring
    <2> QED
      BY <2>1
  <1>2. CASE Row(r) # NoRecord /\ ~Row(r).isProcessing
    <2>1. Row(r).responseBody \in Requests \cup {Null}
      BY <1>2, Waiting DEF Record
    <2>2. Tells(r, "done", "replayed", Row(r).responseBody) /\ Moves(r, "done")
      BY <1>2, <2>1, Answering DEF AnswerFrom, Tells
    <2> QED
      BY <2>2
  <1> QED
    BY <1>1, <1>2

\* acquireLock: undisturbed, a request takes its own insert or replays a response.
LEMMA AcquireLockKeepsIInv ==
  ASSUME IInv, NEW r \in Requests, AcquireLock(r)
  PROVE  IInv'
  <1> USE Waiting
  <1>1. CASE Insert(r)
    <2>1. Moves(r, "read") /\ Tells(r, "read", "none", body[r])
      BY <1>1, GoingOn DEF Insert, Arrive, Acting, SavedBefore, Labels, Acquiring
    <2>2. RowStays \/ RowInserted(r)
      BY <1>1, StatementsHaveRowEffects DEF Insert
    <2>3. Row(r)' # NoRecord
      <3>1. CASE Row(r) = NoRecord
        BY <1>1, <3>1, RowEffects, NewRecordTyped
        DEF IInv, Insert, InsertOrIgnore, RowInserted
      <3>2. CASE Row(r) # NoRecord
        BY <1>1, <3>2 DEF Insert, InsertOrIgnore, Row
      <3> QED
        BY <3>1, <3>2
    <2>4. Commits(r, "read") /\ Touches(r, "read")
      BY <1>1, <2>2, <2>3
      DEF Insert, Arrive, Commits, Touches, BeforeOrder, AfterOrder, Acquiring, Processing
    <2> QED
      BY <2>1, <2>4, StepKeepsIInv DEF StepOf
  <1>2. CASE Read(r)
    <2>1. pc[r] = "read" /\ Acting(r) /\ RowStays
      BY <1>2 DEF Read, Acting, Running, RowStays
    <2>2. CASE LooksInserted(Row(r))
      <3>1. Moves(r, "saveOrder") /\ Tells(r, "saveOrder", "none", body[r])
        BY <1>2, <2>1, <2>2, GoingOn DEF Read, SavedBefore, Labels, Processing
      <3>2. Commits(r, "saveOrder") /\ Touches(r, "saveOrder")
        BY <1>2, <2>1, <2>2
        DEF Read, Commits, Touches, BeforeOrder, AfterOrder, Acquiring, NeedsRow,
            Processing, LooksInserted, RowStays, Row
      <3> QED
        BY <3>1, <3>2, StepKeepsIInv DEF StepOf
    <2>3. CASE Row(r) = NoRecord
      <3>1. Moves(r, "reinsert") /\ Tells(r, "reinsert", "none", body[r])
        BY <1>2, <2>1, <2>3, GoingOn
        DEF Read, LooksInserted, SavedBefore, Labels, Acquiring
      <3>2. Commits(r, "reinsert") /\ Touches(r, "reinsert")
        BY <1>2, <2>1, <2>3
        DEF Read, Commits, Touches, BeforeOrder, AfterOrder, Acquiring, NeedsRow, Processing
      <3> QED
        BY <3>1, <3>2, StepKeepsIInv DEF StepOf
    <2>4. CASE Row(r) # NoRecord /\ ~LooksInserted(Row(r)) /\ Row(r).expired
      <3>1. Moves(r, "delete") /\ Tells(r, "delete", "none", body[r])
        BY <1>2, <2>1, <2>4, GoingOn DEF Read, SavedBefore, Labels, Acquiring
      <3>2. Commits(r, "delete") /\ Touches(r, "delete")
        BY <1>2, <2>1, <2>4
        DEF Read, Commits, Touches, BeforeOrder, AfterOrder, Acquiring, NeedsRow, Processing
      <3> QED
        BY <3>1, <3>2, StepKeepsIInv DEF StepOf
    <2>5. CASE Row(r) # NoRecord /\ ~LooksInserted(Row(r)) /\ ~Row(r).expired
      <3>1. ~Row(r).isProcessing
        BY <2>5 DEF LooksInserted
      <3>2. PICK kind, order : Moves(r, "done") /\ Tells(r, "done", kind, order)
        BY <1>2, <2>1, <2>5, <3>1, AnsweringFromRow DEF Read, Acquiring
      <3>3. Commits(r, "done") /\ Touches(r, "done")
        BY <1>2, <2>1
        DEF Read, Commits, Touches, BeforeOrder, AfterOrder, Acquiring, NeedsRow, Processing
      <3> QED
        BY <3>2, <3>3, StepKeepsIInv DEF StepOf
    <2> QED
      BY <2>2, <2>3, <2>4, <2>5
  <1>3. CASE DeleteExpired(r)
    <2>1. Moves(r, "reinsert") /\ Tells(r, "reinsert", "none", body[r])
      BY <1>3, GoingOn
      DEF DeleteExpired, Acting, Running, SavedBefore, Labels, Acquiring
    <2>2. Commits(r, "reinsert") /\ Touches(r, "reinsert")
      BY <1>3, StatementsHaveRowEffects
      DEF DeleteExpired, Commits, Touches, BeforeOrder, AfterOrder, Acquiring,
          NeedsRow, Processing
    <2> QED
      BY <2>1, <2>2, StepKeepsIInv DEF StepOf
  <1>4. CASE Reinsert(r)
    <2> DEFINE label == IF Row(r) = NoRecord THEN "saveOrder" ELSE "reread"
    <2>1. Moves(r, label) /\ Tells(r, label, "none", body[r])
      BY <1>4, GoingOn
      DEF Reinsert, Acting, Running, SavedBefore, Labels, Acquiring, Processing
    <2>2. KeyOf[r] \in disturbed /\ KeyOf[r] \in disturbed'
      BY <1>4 DEF Reinsert
    <2>3. Commits(r, label) /\ Touches(r, label)
      BY <1>4, <2>2, StatementsHaveRowEffects
      DEF Reinsert, Commits, Touches, BeforeOrder, AfterOrder, Acquiring
    <2> QED
      BY <2>1, <2>3, StepKeepsIInv DEF StepOf
  <1>5. CASE Reread(r)
    <2>1. KeyOf[r] \in disturbed /\ Acting(r) /\ RowStays
      BY <1>5 DEF Reread, Acting, Running, RowStays
    <2>2. PICK kind, order : Moves(r, "done") /\ Tells(r, "done", kind, order)
      BY <1>5, <2>1, AnsweringFromRow DEF Reread, Acquiring
    <2>3. Commits(r, "done") /\ Touches(r, "done")
      BY <1>5, <2>1
      DEF Reread, Commits, Touches, BeforeOrder, AfterOrder, Acquiring, NeedsRow, Processing
    <2> QED
      BY <2>2, <2>3, StepKeepsIInv DEF StepOf
  <1>6. CASE AcquireThrows(r)
    <2>1. Acting(r)
      BY <1>6 DEF AcquireThrows, Acting, Running, Acquiring
    <2>2. Moves(r, "done") /\ Tells(r, "done", "error", Null)
      BY <1>6, <2>1, Answering DEF AcquireThrows, Tells
    <2>3. RowStays \/ RowInserted(r) \/ (RowDeleted(r) /\ pc[r] = "delete")
      BY <1>6, StatementsHaveRowEffects DEF AcquireThrows, RowStays
    <2>4. Commits(r, "done") /\ Touches(r, "done")
      BY <1>6, <2>3
      DEF AcquireThrows, Commits, Touches, BeforeOrder, AfterOrder, Acquiring,
          NeedsRow, Processing
    <2> QED
      BY <2>2, <2>4, StepKeepsIInv DEF StepOf
  <1> QED
    BY <1>1, <1>2, <1>3, <1>4, <1>5, <1>6 DEF AcquireLock

\* createOrder: the order and its event appear with the commit.
LEMMA CreateOrderKeepsIInv ==
  ASSUME IInv, NEW r \in Requests, CreateOrder(r)
  PROVE  IInv'
  <1> USE Waiting
  <1>1. ASSUME NEW what, NEW next, RowStays, disturbed' = disturbed,
               \/ pc[r] = "saveOrder" /\ what = "order" /\ next = "saveEvent"
               \/ pc[r] = "saveEvent" /\ what = "event" /\ next = "commit",
               Save(r, pc[r], what, next)
        PROVE  IInv'
    <2>1. tx[r] \cup {what} = SavedBefore(next)
      BY <1>1 DEF SavedBefore
    <2>2. Moves(r, next)
      BY <1>1, <2>1
      DEF IInv, TypeOK, Save, Moves, Acting, Running, Labels, Processing
    <2>3. Tells(r, next, "none", body[r])
      BY <1>1 DEF IInv, TypeOK, OrdersFit, Save, Tells
    <2>4. Commits(r, next) /\ Touches(r, next)
      BY <1>1
      DEF Save, Commits, Touches, BeforeOrder, AfterOrder, Acquiring, NeedsRow,
          Processing, RowStays, Row
    <2> QED
      BY <2>2, <2>3, <2>4, StepKeepsIInv DEF StepOf
  <1>2. CASE SaveOrder(r) \/ SaveEvent(r)
    BY <1>1, <1>2 DEF SaveOrder, SaveEvent, Save, RowStays
  <1>3. ASSUME pc[r] = "commit", ApplyTransaction(r)
        PROVE  orders' = orders \cup {r} /\ events' = events \cup {r}
    BY <1>3 DEF ApplyTransaction, SavedBefore
  <1>4. CASE CommitOrder(r)
    <2>1. Moves(r, "readBack")
      BY <1>4
      DEF IInv, TypeOK, CommitOrder, Moves, Running, SavedBefore, Labels, Processing
    <2>2. Tells(r, "readBack", "none", body[r])
      BY <1>4 DEF IInv, TypeOK, OrdersFit, CommitOrder, Tells
    <2>3. Commits(r, "readBack") /\ Touches(r, "readBack")
      BY <1>3, <1>4
      DEF CommitOrder, Commits, Touches, BeforeOrder, AfterOrder, Acquiring,
          NeedsRow, Processing, RowStays, Row
    <2> QED
      BY <2>1, <2>2, <2>3, StepKeepsIInv DEF StepOf
  <1>5. CASE ReadBack(r)
    <2>1. Moves(r, "complete") /\ Tells(r, "complete", "none", body[r])
      BY <1>5, GoingOn
      DEF ReadBack, Acting, Running, SavedBefore, Labels, Processing
    <2>2. Commits(r, "complete") /\ Touches(r, "complete")
      BY <1>5
      DEF ReadBack, Commits, Touches, BeforeOrder, AfterOrder, Acquiring,
          NeedsRow, Processing, RowStays, Row
    <2> QED
      BY <2>1, <2>2, StepKeepsIInv DEF StepOf
  <1>6. CASE CreateThrows(r) \/ CommitThrows(r) \/ ReadBackThrows(r)
    <2>1. /\ pc[r] \in Processing /\ RowStays /\ Acting(r)
          /\ ThrowToUnlock(r)
          /\ \/ orders' = orders /\ events' = events
             \/ pc[r] = "commit" /\ ApplyTransaction(r)
      BY <1>6
      DEF CreateThrows, CommitThrows, ReadBackThrows, Processing, RowStays,
          Acting, Running
    <2>2. Moves(r, "unlock") /\ Tells(r, "unlock", "none", body[r])
      BY <2>1, Throwing
    <2>3. Commits(r, "unlock") /\ Touches(r, "unlock")
      BY <1>3, <2>1
      DEF Commits, Touches, BeforeOrder, AfterOrder, Acquiring, NeedsRow,
          Processing, RowStays, Row
    <2> QED
      BY <2>2, <2>3, StepKeepsIInv DEF StepOf
  <1> QED
    BY <1>2, <1>4, <1>5, <1>6 DEF CreateOrder

\* complete and unlock, applied or not, and retried or not.
LEMMA FinishKeepsIInv ==
  ASSUME IInv, NEW r \in Requests, Finish(r)
  PROVE  IInv'
  <1> USE Waiting
  <1>1. ASSUME RowCompleted(r)
        PROVE  Row(r)' # NoRecord
    <2>1. Row(r) \in Record /\ Row(r)' = CompletedRow(Row(r), r)
      BY <1>1, RowEffects DEF IInv
    <2> QED
      BY <2>1, CompletedRowTyped
  <1>2. ASSUME NEW label \in {"complete", "unlock", "done"},
               orders' = orders, events' = events, disturbed' = disturbed,
               \/ RowStays
               \/ RowDeleted(r) /\ pc[r] = "unlock"
               \/ RowCompleted(r) /\ pc[r] = "complete",
               pc[r] \in {"complete", "unlock"},
               label = "complete" => pc[r] = "complete"
        PROVE  Commits(r, label) /\ Touches(r, label)
    BY <1>1, <1>2
    DEF Commits, Touches, BeforeOrder, AfterOrder, Acquiring, NeedsRow,
        Processing, RowStays, Row
  <1>3. CASE Complete(r)
    <2>1. /\ RowStays \/ RowCompleted(r)
          /\ Row(r) = NoRecord \/ RowCompleted(r)
      BY <1>3 DEF Complete, CompleteRow, RowCompleted, CompletedRow, RowStays
    <2>2. Moves(r, "done") /\ Tells(r, "done", "created", r)
      BY <1>3, <2>1, Answering DEF Complete, Acting, Running, Tells
    <2> QED
      BY <1>2, <1>3, <2>1, <2>2, StepKeepsIInv DEF Complete, StepOf
  <1>4. CASE CompleteThrows(r)
    <2>1. /\ RowStays \/ RowCompleted(r)
          /\ pc[r] = "complete" /\ Running(r) /\ Acting(r) /\ disturbed' = disturbed
          /\ orders' = orders /\ events' = events
      BY <1>4, StatementsHaveRowEffects DEF CompleteThrows, RowStays, Acting, Running
    <2>2. CASE MayRetry(r) /\ Retry(r)
      BY <1>2, <2>1, <2>2, Retrying, StepKeepsIInv DEF StepOf
    <2>3. CASE ThrowToUnlock(r)
      BY <1>2, <2>1, <2>3, Throwing, StepKeepsIInv DEF StepOf
    <2> QED
      BY <1>4, <2>2, <2>3 DEF CompleteThrows
  <1>5. CASE Unlock(r) \/ UnlockThrows(r)
    <2>1. /\ RowStays \/ RowDeleted(r)
          /\ pc[r] = "unlock" /\ Running(r) /\ Acting(r) /\ disturbed' = disturbed
          /\ orders' = orders /\ events' = events
      BY <1>5, StatementsHaveRowEffects
      DEF Unlock, UnlockThrows, RowStays, Acting, Running
    <2>2. CASE MayRetry(r) /\ Retry(r)
      BY <1>2, <2>1, <2>2, Retrying, StepKeepsIInv DEF StepOf
    <2>3. CASE Answer(r, "error", Null)
      <3>1. Moves(r, "done") /\ Tells(r, "done", "error", Null)
        BY <2>1, <2>3, Answering DEF Tells
      <3> QED
        BY <1>2, <2>1, <3>1, StepKeepsIInv DEF StepOf
    <2> QED
      BY <1>5, <2>2, <2>3 DEF Unlock, UnlockThrows
  <1> QED
    BY <1>3, <1>4, <1>5 DEF Finish

\* A crash leaves the record and what is committed.
LEMMA CrashKeepsIInv ==
  ASSUME IInv, NEW r \in Requests, Crash(r)
  PROVE  IInv'
  <1>1. Acting(r)
    BY DEF Crash, Acting
  <1>2. Moves(r, "done") /\ Tells(r, "done", "none", Null)
    BY <1>1, Answering DEF Crash, Tells
  <1>3. Commits(r, "done") /\ Touches(r, "done")
    BY DEF Crash, Commits, Touches, BeforeOrder, AfterOrder, Acquiring, NeedsRow,
           Processing, RowStays
  <1> QED
    BY <1>2, <1>3, StepKeepsIInv DEF StepOf

\* A step of a request moves no other one, and disturbs its key only when it
\* arrives while another one with the key is running.
LEMMA StepsOfOneRequest ==
  ASSUME TypeOK, NEW r \in Requests, RequestStep(r) \/ Crash(r)
  PROVE  /\ pc[r] # "done"
         /\ \A q \in Requests \ {r} :
              pc'[q] = pc[q] /\ answer'[q] = answer[q] /\ body'[q] = body[q]
         /\ disturbed \subseteq disturbed' /\ disturbed' \subseteq disturbed \cup {KeyOf[r]}
         /\ disturbed' # disturbed =>
              pc[r] = "new" /\ \E q \in SameKey(r) : Running(q)
  <1> DEFINE Frame == /\ pc[r] # "done"
                      /\ \A q \in Requests \ {r} : /\ pc'[q] = pc[q]
                                                    /\ answer'[q] = answer[q]
                                                    /\ body'[q] = body[q]
             Key == /\ disturbed \subseteq disturbed'
                    /\ disturbed' \subseteq disturbed \cup {KeyOf[r]}
                    /\ disturbed' # disturbed =>
                         pc[r] = "new" /\ \E q \in SameKey(r) : Running(q)
  <1>1. /\ \A kind, order : Answer(r, kind, order) /\ pc[r] # "done" => Frame
        /\ \A label : Goto(r, label) /\ pc[r] # "done" => Frame
        /\ ThrowToUnlock(r) /\ pc[r] # "done" => Frame
        /\ Retry(r) /\ pc[r] # "done" => Frame
        /\ AnswerFrom(r, Row(r)) /\ pc[r] # "done" => Frame
    BY DEF TypeOK, Answer, AnswerFrom, Goto, ThrowToUnlock, Retry
  <1>2. /\ Arrive(r) => Key
        /\ disturbed' = disturbed => Key
    BY DEF Arrive
  <1> SUFFICES Frame /\ Key
    OBVIOUS
  <1> HIDE DEF Frame, Key
  <1>3. CASE AcquireLock(r)
    BY <1>1, <1>2, <1>3
    DEF AcquireLock, Insert, Read, DeleteExpired, Reinsert, Reread, AcquireThrows,
        Arrive, Acquiring
  <1>4. CASE CreateOrder(r)
    <2>1. CASE SaveOrder(r) \/ SaveEvent(r) \/ CommitOrder(r)
      BY <1>2, <2>1 DEF SaveOrder, SaveEvent, Save, CommitOrder, TypeOK, Frame
    <2> QED
      BY <1>1, <1>2, <1>4, <2>1
      DEF CreateOrder, ReadBack, CreateThrows, CommitThrows, ReadBackThrows
  <1>5. CASE Finish(r) \/ Crash(r)
    BY <1>1, <1>2, <1>5
    DEF Finish, Complete, CompleteThrows, Unlock, UnlockThrows, Crash, Running
  <1> QED
    BY <1>3, <1>4, <1>5 DEF RequestStep

-----------------------------------------------------------------------------
(* Records get older and are cleaned up; no request moves.                 *)

\* What such a step may do: keys become disturbed, and only the records of
\* disturbed keys change, which stay genuine if they are not deleted.
Ages ==
  /\ UNCHANGED <<orders, events, request>>
  /\ disturbed \subseteq disturbed' /\ disturbed' \subseteq Keys
  /\ table' \in [Keys -> Record \cup {NoRecord}]
  /\ \A k \in Keys :
       \/ table'[k] = table[k]
       \/ k \in disturbed' /\ table'[k] = NoRecord
       \/ /\ k \in disturbed' /\ table[k] # NoRecord
          /\ table'[k].isProcessing = table[k].isProcessing
          /\ table'[k].responseBody = table[k].responseBody

\* Such a step keeps the invariant, so a record's expiry and the cleanup do.
LEMMA AgeingKeepsIInv ==
  ASSUME IInv, Ages
  PROVE  IInv'
  <1> USE DEF IInv, Ages, request
  <1>1. TypeOK'
    BY DEF TypeOK
  <1>2. \A r \in Requests : KeyOf[r] \in Keys
    BY KeyOfAssumption
  <1>3. OrderIffEvent' /\ TransactionsFit' /\ OrdersFit' /\ AnswersAreGenuine'
    BY DEF OrderIffEvent, TransactionsFit, OrdersFit, AnswersAreGenuine, Acknowledged
  <1>4. RowsAreGenuine'
    BY DEF RowsAreGenuine
  <1>5. RunningAlone' /\ SecondOrderNeedsFailure' /\ NeverLockedOut'
    BY DEF RunningAlone, Running, SecondOrderNeedsFailure, Failed, Acknowledged,
           NeverLockedOut, SameKey
  <1>6. ExpiredIsDisturbed'
    BY DEF ExpiredIsDisturbed
  <1>7. StraightOn'
    BY <1>2 DEF StraightOn, Row
  <1>8. AcknowledgedStays'
    BY <1>2 DEF AcknowledgedStays, Acknowledged, Row
  <1> QED
    BY <1>1, <1>3, <1>4, <1>5, <1>6, <1>7, <1>8

LEMMA ExpireKeepsIInv ==
  ASSUME IInv, NEW k \in Keys, Expire(k)
  PROVE  IInv'
  <1>1. table[k] \in Record /\ table[k] # NoRecord
    BY DEF IInv, TypeOK, Expire
  <1> DEFINE old == [table[k] EXCEPT !.expired = TRUE]
  <1>2. /\ old \in Record
        /\ old.isProcessing = table[k].isProcessing
        /\ old.responseBody = table[k].responseBody
    BY <1>1, ExpiredRowTyped
  <1>3. table' = [table EXCEPT ![k] = old]
    BY DEF Expire
  <1> HIDE DEF old
  <1>4. /\ table' \in [Keys -> Record \cup {NoRecord}]
        /\ table'[k] = old
        /\ \A x \in Keys \ {k} : table'[x] = table[x]
    BY <1>2, <1>3 DEF IInv, TypeOK
  <1>5. /\ UNCHANGED <<orders, events, request>>
        /\ disturbed \subseteq disturbed' /\ disturbed' \subseteq Keys
        /\ k \in disturbed'
    BY DEF IInv, TypeOK, Expire
  <1>6. Ages
    BY <1>1, <1>2, <1>4, <1>5 DEF Ages
  <1> QED
    BY <1>6, AgeingKeepsIInv

LEMMA CleanupExpiredKeepsIInv ==
  ASSUME IInv, CleanupExpired
  PROVE  IInv'
  <1>1. Ages
    BY DEF IInv, TypeOK, ExpiredIsDisturbed, CleanupExpired, Ages
  <1> QED
    BY <1>1, AgeingKeepsIInv

-----------------------------------------------------------------------------
(* The invariant is inductive.                                             *)

LEMMA InitIInv == Init => IInv
  BY MaxAttemptsAssumption
  DEF Init, IInv, TypeOK, OrderIffEvent, TransactionsFit, SavedBefore, OrdersFit,
      BeforeOrder, AfterOrder, Acquiring, RowsAreGenuine, AnswersAreGenuine,
      Acknowledged, RunningAlone, Running, ExpiredIsDisturbed, StraightOn,
      NeedsRow, Processing, AcknowledgedStays, SecondOrderNeedsFailure,
      NeverLockedOut

LEMMA NextKeepsIInv == IInv /\ [Next]_vars => IInv'
  <1> SUFFICES ASSUME IInv, [Next]_vars PROVE IInv'
    OBVIOUS
  <1>1. ASSUME NEW r \in Requests, RequestStep(r)
        PROVE  IInv'
    BY <1>1, AcquireLockKeepsIInv, CreateOrderKeepsIInv, FinishKeepsIInv
    DEF RequestStep
  <1>2. CASE UNCHANGED vars
    <2>1. Ages
      BY <1>2 DEF IInv, TypeOK, vars, request, Ages
    <2> QED
      BY <2>1, AgeingKeepsIInv
  <1> QED
    BY <1>1, <1>2, CrashKeepsIInv, ExpireKeepsIInv, CleanupExpiredKeepsIInv DEF Next

\* The inductive invariant holds throughout.
THEOREM InductiveInvariant == Spec => []IInv
  BY InitIInv, NextKeepsIInv, PTL DEF Spec

-----------------------------------------------------------------------------
(* Consequences.                                                           *)

LEMMA StableByIInv == IInv => AcknowledgedOrderIsStable
  <1> SUFFICES ASSUME IInv, NEW r \in Requests, NEW q \in SameKey(r),
                      Acknowledged(r), Acknowledged(q), KeyOf[r] \notin disturbed
               PROVE  body[r] = body[q]
    BY DEF AcknowledgedOrderIsStable
  <1>1. q \in Requests /\ KeyOf[q] = KeyOf[r]
    BY DEF SameKey
  <1> QED
    BY <1>1 DEF IInv, AcknowledgedStays, Completed, Row

\* Every variable keeps its type: the requests of the service, their answers
\* and the table of records.
THEOREM TypeCorrect == Spec => []TypeOK
  BY InductiveInvariant, PTL DEF IInv

\* createOrder leaves an order with its event or neither, at whatever statement
\* it fails and wherever its instance dies.
THEOREM OrdersHaveEvents == Spec => []OrderIffEvent
  BY InductiveInvariant, PTL DEF IInv

\* Whatever requests delete and insert the record of the key meanwhile, a client
\* is told only of an order that exists and was made for its key.
THEOREM ClientsLearnOfRealOrders == Spec => []AnswersAreGenuine
  BY InductiveInvariant, PTL DEF IInv

\* Clients that retry one after the other with a key are told of one order, as
\* long as its record lives.
THEOREM OneOrderIsAcknowledged == Spec => []AcknowledgedOrderIsStable
  BY StableByIInv, InductiveInvariant, PTL

\* Undisturbed retries with a key leave a second order only if one of the two
\* requests failed after its commit.
THEOREM SecondOrdersNeedAFailure == Spec => []SecondOrderNeedsFailure
  BY InductiveInvariant, PTL DEF IInv

\* 409 goes only to a client whose request ran together with another one of its
\* key, or whose record expired: no crash leaves the key locked.
THEOREM CrashesLockNobodyOut == Spec => []NeverLockedOut
  BY InductiveInvariant, PTL DEF IInv
=============================================================================
