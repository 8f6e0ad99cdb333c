------------------------- MODULE Confirmation_proofs -------------------------
(***************************************************************************)
(* Theorems about module Confirmation, for any messages and events and any *)
(* set of faults.                                                          *)
(***************************************************************************)
EXTENDS Confirmation, TLAPS

-----------------------------------------------------------------------------
(* The inductive invariant.                                                *)

\* The row and the mail of a delivery, by the statement its handler has
\* reached: the row comes first.
RowsFit ==
  \A d \in Deliveries :
    /\ pc[d] \in {"queued", "find", "create"} => status[d] = "none"
    /\ pc[d] \in {"queued", "find", "create", "send"} => d \notin sent
    /\ pc[d] \in {"send", "update", "updateFailed"} => status[d] # "none"
    /\ pc[d] \in {"update", "updateFailed"} => d \in sent
    /\ d \in sent => status[d] # "none"

\* A row that has left PENDING, for SENT or for FAILED, belongs to a mail that
\* went out: only bookkeeping can fail after the row is inserted.
SettledRowsWereSent ==
  \A d \in Deliveries : status[d] \in {"SENT", "FAILED"} => d \in sent

\* A handler marks its event only when the event has a row.
MarkersSawRow ==
  \A d \in Deliveries : pc[d] = "mark" => ExistingRow(d)

\* Two handlers of one event are running only if the event is overlapped.
RunningAlone ==
  \A d, x \in Deliveries :
    Running(d) /\ Running(x) /\ EventOf[d] = EventOf[x] =>
      d = x \/ EventOf[d] \in overlapped

\* A handler that is about to insert its row or to send is the first for its
\* event.
FirstRow ==
  \A d, x \in Deliveries :
    pc[d] \in {"create", "send"} /\ EventOf[x] = EventOf[d] /\ x # d =>
      status[x] = "none" \/ EventOf[d] \in overlapped

IInv == /\ TypeOK
        /\ RowsFit
        /\ SettledRowsWereSent
        /\ MarkersSawRow
        /\ ProcessedHasRow
        /\ RunningAlone
        /\ FirstRow
        /\ OneMailUnlessOverlapped

-----------------------------------------------------------------------------
(* Facts about the operators.                                              *)

\* When the handler of d moves on, and has just started or was running
\* already, RunningAlone still holds.
LEMMA MoveKeepsRunningAlone ==
  ASSUME TypeOK, RunningAlone, NEW d \in Deliveries, NEW label,
         pc' = [pc EXCEPT ![d] = label],
         \/ Start(d)
         \/ (Running(d) \/ label = "done") /\ overlapped' = overlapped
  PROVE  /\ RunningAlone'
         /\ overlapped \subseteq overlapped'
         /\ overlapped' \subseteq Events
  <1>1. overlapped \subseteq overlapped' /\ overlapped' \subseteq Events
    BY EventOfAssumption DEF Start, TypeOK
  <1>2. ASSUME NEW x \in Deliveries, NEW y \in Deliveries, x # y,
               Running(x)', Running(y)', EventOf[x] = EventOf[y]
        PROVE  EventOf[x] \in overlapped'
    <2>1. CASE (x = d \/ y = d) /\ Start(d)
      BY <1>2, <2>1 DEF Start, Running, SameEvent, TypeOK
    <2>2. CASE (x = d \/ y = d) /\ Running(d)
      BY <1>1, <1>2, <2>2 DEF RunningAlone, Running, TypeOK
    <2>3. CASE x # d /\ y # d
      BY <1>1, <1>2, <2>3 DEF RunningAlone, Running, TypeOK
    <2>4. CASE (x = d \/ y = d) /\ label = "done"
      BY <1>2, <2>4 DEF Running, TypeOK
    <2> QED
      BY <2>1, <2>2, <2>3, <2>4
  <1> QED
    BY <1>1, <1>2 DEF RunningAlone

\* Rows are never deleted.
LEMMA RowsStay ==
  ASSUME \A x \in Deliveries : status[x] # "none" => status'[x] # "none",
         NEW d \in Deliveries, ExistingRow(d)
  PROVE  ExistingRow(d)'
  BY DEF ExistingRow, SameEvent

-----------------------------------------------------------------------------
(* The steps that preserve the invariant.                                  *)

Labels == {"queued", "find", "create", "send", "update", "updateFailed",
           "mark", "done"}

\* A step of the handler of d to a statement it may run next, with what the
\* invariant asks of a handler there.  The row of d may change, and a mail
\* may be sent, as long as the row is there first.
MovesTo(d, label) ==
  /\ label \in Labels \ {"queued"}
  /\ pc' = [pc EXCEPT ![d] = label]
  /\ \/ Start(d)
     \/ (Running(d) \/ label = "done") /\ overlapped' = overlapped
  /\ status' \in [Deliveries -> {"none", "PENDING", "SENT", "FAILED"}]
  /\ \A x \in Deliveries \ {d} : status'[x] = status[x]
  /\ status[d] # "none" => status'[d] # "none"
  /\ status'[d] # status[d] /\ status[d] = "none" => pc[d] = "create"
  /\ status'[d] \in {"SENT", "FAILED"} => d \in sent
  /\ \/ sent' = sent
     \/ pc[d] = "send" /\ sent' = sent \cup {d}
  /\ label \in {"find", "create"} => status'[d] = "none"
  /\ label \in {"find", "create", "send"} => d \notin sent'
  /\ label \in {"send", "update", "updateFailed"} => status'[d] # "none"
  /\ label \in {"update", "updateFailed"} => d \in sent'
  /\ label \in {"create", "send"} =>
       \/ pc[d] \in {"create", "send"}
       \/ \A x \in SameEvent(d) : status[x] = "none"
  /\ label = "mark" => ExistingRow(d)
  /\ \/ processed' = processed
     \/ ExistingRow(d) /\ processed' = processed \cup {EventOf[d]}

LEMMA MovesToKeepsIInv ==
  ASSUME IInv, NEW d \in Deliveries, NEW label, MovesTo(d, label)
  PROVE  IInv'
  <1> USE DEF IInv
  <1>1. /\ label \in Labels \ {"queued"} /\ pc' = [pc EXCEPT ![d] = label]
        /\ \A x \in Deliveries : x # d => pc'[x] = pc[x] /\ status'[x] = status[x]
        /\ \A x \in Deliveries : status[x] # "none" => status'[x] # "none"
        /\ sent \subseteq sent' /\ sent' \subseteq sent \cup {d}
        /\ pc'[d] = label
    BY DEF MovesTo, TypeOK, Labels
  <1>2. /\ RunningAlone'
        /\ overlapped \subseteq overlapped' /\ overlapped' \subseteq Events
    BY MoveKeepsRunningAlone DEF MovesTo
  <1>3. TypeOK'
    <2>1. EventOf[d] \in Events
      BY EventOfAssumption
    <2>2. processed' \subseteq Events /\ sent' \subseteq Deliveries
      BY <1>1, <2>1 DEF MovesTo, TypeOK
    <2>3. pc' \in [Deliveries -> Labels]
      BY <1>1 DEF TypeOK, Labels
    <2> QED
      BY <1>2, <2>2, <2>3 DEF MovesTo, TypeOK, Labels
  <1>4. RowsFit'
    BY <1>1 DEF RowsFit, MovesTo, TypeOK
  <1>5. SettledRowsWereSent'
    BY <1>1 DEF SettledRowsWereSent, MovesTo
  <1>6. MarkersSawRow' /\ ProcessedHasRow'
    <2>1. \A x \in Deliveries : ExistingRow(x) => ExistingRow(x)'
      BY <1>1, RowsStay
    <2>2. \A x \in Deliveries : EventOf[x] = EventOf[d] /\ ExistingRow(d)
                                  => ExistingRow(x)
      BY DEF ExistingRow, SameEvent
    <2> QED
      BY <1>1, <2>1, <2>2 DEF MarkersSawRow, ProcessedHasRow, MovesTo
  <1>7. FirstRow'
    <2>1. ASSUME NEW y \in Deliveries, NEW x \in Deliveries, y # x,
                 pc'[y] \in {"create", "send"}, EventOf[x] = EventOf[y],
                 status'[x] # "none"
          PROVE  EventOf[y] \in overlapped'
      <3>1. CASE y = d
        BY <1>1, <1>2, <2>1, <3>1 DEF FirstRow, MovesTo, SameEvent
      <3>2. CASE x = d /\ status[x] # "none"
        BY <1>1, <1>2, <2>1, <3>2 DEF FirstRow
      <3>3. CASE x = d /\ pc[d] = "create"
        BY <1>1, <1>2, <2>1, <3>3 DEF RunningAlone, Running
      <3>4. CASE x # d /\ y # d
        BY <1>1, <1>2, <2>1, <3>4 DEF FirstRow
      <3> QED
        BY <2>1, <3>1, <3>2, <3>3, <3>4 DEF MovesTo
    <2> QED
      BY <2>1 DEF FirstRow
  <1>8. OneMailUnlessOverlapped'
    <2>1. ASSUME NEW x \in sent', NEW y \in sent', x # y, EventOf[x] = EventOf[y]
          PROVE  EventOf[x] \in overlapped'
      <3>1. x \in Deliveries /\ y \in Deliveries
        BY <1>3 DEF TypeOK
      <3>2. CASE x \in sent /\ y \in sent
        BY <1>2, <2>1, <3>1, <3>2 DEF OneMailUnlessOverlapped, SameEvent
      <3>3. CASE x \notin sent \/ y \notin sent
        <4>1. /\ pc[d] = "send"
              /\ \/ x = d /\ y \in sent
                 \/ y = d /\ x \in sent
          BY <2>1, <3>3 DEF MovesTo
        <4> QED
          BY <1>2, <2>1, <3>1, <4>1 DEF FirstRow, RowsFit
      <3> QED
        BY <3>2, <3>3
    <2> QED
      BY <1>3, <2>1 DEF OneMailUnlessOverlapped, SameEvent, TypeOK
  <1> QED
    BY <1>2, <1>3, <1>4, <1>5, <1>6, <1>7, <1>8

\* The end of a handler, however it comes about.
LEMMA EndKeepsIInv ==
  ASSUME IInv, NEW d \in Deliveries, pc' = [pc EXCEPT ![d] = "done"],
         UNCHANGED <<processed, status, sent>>,
         Start(d) \/ overlapped' = overlapped
  PROVE  IInv'
  <1>1. MovesTo(d, "done")
    BY DEF MovesTo, Labels, IInv, TypeOK, SettledRowsWereSent
  <1> QED
    BY <1>1, MovesToKeepsIInv

LEMMA CheckProcessedKeepsIInv ==
  ASSUME IInv, NEW d \in Deliveries, CheckProcessed(d)
  PROVE  IInv'
  <1>1. status[d] = "none" /\ d \notin sent
    BY DEF CheckProcessed, Start, IInv, RowsFit
  <1>2. MovesTo(d, "done") \/ MovesTo(d, "find")
    BY <1>1 DEF CheckProcessed, MovesTo, Goto, Labels, IInv, TypeOK
  <1> QED
    BY <1>2, MovesToKeepsIInv

\* findByEventId: a row of this event, or none at all.
LEMMA FindExistingKeepsIInv ==
  ASSUME IInv, NEW d \in Deliveries, FindExisting(d)
  PROVE  IInv'
  <1>1. status[d] = "none" /\ d \notin sent
    BY DEF FindExisting, IInv, RowsFit
  <1>2. CASE ExistingRow(d)
    <2>1. MovesTo(d, "mark")
      BY <1>1, <1>2 DEF FindExisting, MovesTo, Goto, Labels, IInv, TypeOK, Running
    <2> QED
      BY <2>1, MovesToKeepsIInv
  <1>3. CASE ~ExistingRow(d)
    <2>1. \A x \in SameEvent(d) : status[x] = "none"
      BY <1>3 DEF ExistingRow
    <2>2. MovesTo(d, "create")
      BY <1>1, <1>3, <2>1
      DEF FindExisting, MovesTo, Goto, Labels, IInv, TypeOK, Running
    <2> QED
      BY <2>2, MovesToKeepsIInv
  <1> QED
    BY <1>2, <1>3

\* The row is inserted; the mail goes; the row says so, or that it failed.
LEMMA SendKeepsIInv ==
  ASSUME IInv, NEW d \in Deliveries,
         \/ CreateRow(d) \/ SendMail(d) \/ UpdateSent(d)
         \/ UpdateSentThrows(d) \/ UpdateFailed(d)
  PROVE  IInv'
  <1>1. CASE CreateRow(d)
    <2>1. status[d] = "none" /\ d \notin sent
      BY <1>1 DEF CreateRow, IInv, RowsFit
    <2>2. MovesTo(d, "send")
      BY <1>1, <2>1 DEF CreateRow, SetStatus, MovesTo, Goto, Labels, IInv,
                        TypeOK, Running
    <2> QED
      BY <2>2, MovesToKeepsIInv
  <1>2. CASE SendMail(d)
    <2>1. status[d] # "none" /\ status[d] \notin {"SENT", "FAILED"}
      BY <1>2 DEF SendMail, IInv, RowsFit, SettledRowsWereSent
    <2>2. MovesTo(d, "update")
      BY <1>2, <2>1 DEF SendMail, MovesTo, Goto, Labels, IInv, TypeOK, Running
    <2> QED
      BY <2>2, MovesToKeepsIInv
  <1>3. ASSUME pc[d] \in {"update", "updateFailed"}
        PROVE  status[d] # "none" /\ d \in sent /\ SameEvent(d) # {} /\ d \in SameEvent(d)
    BY <1>3 DEF IInv, RowsFit, SameEvent
  <1>4. CASE UpdateSent(d)
    <2>1. ExistingRow(d)
      BY <1>3, <1>4 DEF UpdateSent, ExistingRow
    <2>2. MovesTo(d, "mark")
      BY <1>3, <1>4, <2>1 DEF UpdateSent, SetStatus, MovesTo, Goto, Labels, IInv,
                              TypeOK, Running
    <2> QED
      BY <2>2, MovesToKeepsIInv
  <1>5. CASE UpdateSentThrows(d)
    <2>1. MovesTo(d, "updateFailed")
      BY <1>3, <1>5 DEF UpdateSentThrows, SetStatus, MovesTo, Goto, Labels, IInv,
                        TypeOK, Running
    <2> QED
      BY <2>1, MovesToKeepsIInv
  <1>6. CASE UpdateFailed(d)
    <2>1. MovesTo(d, "done")
      BY <1>3, <1>6 DEF UpdateFailed, SetStatus, Catch, MovesTo, Goto, Labels,
                        IInv, TypeOK, Running
    <2> QED
      BY <2>1, MovesToKeepsIInv
  <1> QED
    BY <1>1, <1>2, <1>4, <1>5, <1>6

\* A statement may have been applied before it throws: the handler is over,
\* the row it saved is there.
LEMMA StatementThrowsKeepsIInv ==
  ASSUME IInv, NEW d \in Deliveries, StatementThrows(d)
  PROVE  IInv'
  <1>1. pc' = [pc EXCEPT ![d] = "done"] /\ sent' = sent
    BY DEF StatementThrows, Catch, Goto
  <1>2. Start(d) \/ overlapped' = overlapped
    BY DEF StatementThrows
  <1>3. CASE UNCHANGED <<processed, status>>
    BY <1>1, <1>2, <1>3, EndKeepsIInv
  <1>4. CASE pc[d] = "create" /\ SetStatus(d, "PENDING") /\ UNCHANGED processed
    <2>1. MovesTo(d, "done")
      BY <1>1, <1>2, <1>4 DEF SetStatus, MovesTo, Labels, IInv, TypeOK
    <2> QED
      BY <2>1, MovesToKeepsIInv
  <1>5. CASE pc[d] = "updateFailed" /\ SetStatus(d, "FAILED") /\ UNCHANGED processed
    <2>1. status[d] # "none" /\ d \in sent
      BY <1>5 DEF IInv, RowsFit
    <2>2. MovesTo(d, "done")
      BY <1>1, <1>2, <1>5, <2>1 DEF SetStatus, MovesTo, Labels, IInv, TypeOK
    <2> QED
      BY <2>2, MovesToKeepsIInv
  <1>6. CASE pc[d] = "mark" /\ Mark(d) /\ UNCHANGED status
    <2>1. ExistingRow(d)
      BY <1>6 DEF IInv, MarkersSawRow
    <2>2. MovesTo(d, "done")
      BY <1>1, <1>2, <1>6, <2>1 DEF Mark, MovesTo, Labels, IInv, TypeOK,
                                    SettledRowsWereSent
    <2> QED
      BY <2>2, MovesToKeepsIInv
  <1> QED
    BY <1>3, <1>4, <1>5, <1>6 DEF StatementThrows

LEMMA MarkKeepsIInv ==
  ASSUME IInv, NEW d \in Deliveries, MarkAsProcessed(d)
  PROVE  IInv'
  <1>1. ExistingRow(d)
    BY DEF MarkAsProcessed, IInv, MarkersSawRow
  <1>2. MovesTo(d, "done")
    BY <1>1 DEF MarkAsProcessed, Mark, MovesTo, Goto, Labels, IInv, TypeOK,
                SettledRowsWereSent
  <1> QED
    BY <1>2, MovesToKeepsIInv

\* A step of one handler, which is not over, moves no other one and sends no
\* mail but its own.
LEMMA StepsOfOneHandler ==
  ASSUME IInv, NEW d \in Deliveries,
         handlePaymentCompleted(d) \/ Crash(d) \/ Lose(d)
  PROVE  /\ pc[d] # "done"
         /\ \A x \in Deliveries \ {d} : pc'[x] = pc[x]
         /\ sent' \subseteq sent \cup {d}
  <1>1. \A label : Goto(d, label) => \A x \in Deliveries \ {d} : pc'[x] = pc[x]
    BY DEF IInv, TypeOK, Goto
  <1>2. CASE sendConfirmation(d)
    BY <1>1, <1>2
    DEF sendConfirmation, FindExisting, CreateRow, SendMail, UpdateSent,
        UpdateSentThrows, UpdateFailed, Catch
  <1>3. CASE ~sendConfirmation(d)
    BY <1>1, <1>3
    DEF handlePaymentCompleted, CheckProcessed, MarkAsProcessed, StatementThrows,
        Start, Running, Crash, Lose, Catch
  <1> QED
    BY <1>2, <1>3

-----------------------------------------------------------------------------
(* Theorems.                                                               *)

LEMMA InitIInv == Init => IInv
  BY DEF Init, IInv, TypeOK, RowsFit, SettledRowsWereSent, MarkersSawRow,
         ProcessedHasRow, RunningAlone, Running, FirstRow, OneMailUnlessOverlapped

LEMMA NextKeepsIInv == IInv /\ [Next]_vars => IInv'
  <1> SUFFICES ASSUME IInv, [Next]_vars PROVE IInv'
    OBVIOUS
  <1>1. ASSUME NEW d \in Deliveries, CheckProcessed(d) PROVE IInv'
    BY <1>1, CheckProcessedKeepsIInv
  <1>2. ASSUME NEW d \in Deliveries, sendConfirmation(d) PROVE IInv'
    BY <1>2, FindExistingKeepsIInv, SendKeepsIInv DEF sendConfirmation
  <1>3. ASSUME NEW d \in Deliveries, MarkAsProcessed(d) PROVE IInv'
    BY <1>3, MarkKeepsIInv
  <1>4. ASSUME NEW d \in Deliveries, StatementThrows(d) PROVE IInv'
    BY <1>4, StatementThrowsKeepsIInv
  <1>5. ASSUME NEW d \in Deliveries, Crash(d) \/ Lose(d) PROVE IInv'
    BY <1>5, EndKeepsIInv DEF Crash, Lose, Goto
  <1>6. CASE UNCHANGED vars
    BY <1>6 DEF vars, IInv, TypeOK, RowsFit, SettledRowsWereSent, MarkersSawRow,
                ProcessedHasRow, ExistingRow, RunningAlone, Running, FirstRow,
                OneMailUnlessOverlapped
  <1> QED
    BY <1>1, <1>2, <1>3, <1>4, <1>5, <1>6 DEF Next, handlePaymentCompleted

\* The inductive invariant holds throughout.
THEOREM InductiveInvariant == Spec => []IInv
  BY InitIInv, NextKeepsIInv, PTL DEF Spec

\* The variables have their types.
THEOREM TypeCorrect == Spec => []TypeOK
  <1>1. IInv => TypeOK
    BY DEF IInv
  <1> QED
    BY <1>1, InductiveInvariant, PTL

\* A row that says SENT belongs to a mail that went out.
THEOREM SentMailsWereSent == Spec => []SentRowsWereSent
  <1>1. IInv => SentRowsWereSent
    BY DEF IInv, SettledRowsWereSent, SentRowsWereSent
  <1> QED
    BY <1>1, InductiveInvariant, PTL

\* No redelivery is ignored for an event without a row.
THEOREM ProcessedEventsHaveRows == Spec => []ProcessedHasRow
  <1>1. IInv => ProcessedHasRow
    BY DEF IInv
  <1> QED
    BY <1>1, InductiveInvariant, PTL

\* Copies of an event that did not overlap lead to one mail at most.
THEOREM MailsAreUnique == Spec => []OneMailUnlessOverlapped
  <1>1. IInv => OneMailUnlessOverlapped
    BY DEF IInv
  <1> QED
    BY <1>1, InductiveInvariant, PTL
=============================================================================
