--------------------------- MODULE Gateway_proofs ---------------------------
(***************************************************************************)
(* Theorems about module Gateway, for any calls, keys, headers and bodies. *)
(* The order service behind it is an instance of Idempotency, so what      *)
(* Idempotency_proofs shows of a step holds of its steps here.             *)
(***************************************************************************)
EXTENDS Gateway, TLAPS

\* The instance OrderService once more, with its theorems.
Service ==
  INSTANCE Idempotency_proofs WITH Requests <- Forwarded,
                                   KeyOf <- [c \in Forwarded |-> HeaderOf[c]],
                                   Environment <- Environment \ {"connection", "exhausted"}

-----------------------------------------------------------------------------
(* The inductive invariant.                                                *)

\* A request reaches the order service after its call was forwarded; while its
\* connection lasts it is there, and later only if it was abandoned.
StagesFit ==
  \A c \in Forwarded :
    /\ stage[c] = "unsent" => c \notin onWire
    /\ stage[c] # "unsent" /\ c \in onWire /\ pc[c] # "done" =>
         stage[c] = "waiting" \/ HeaderOf[c] \in abandoned
    /\ c \notin onWire => pc[c] = "new"

\* The gateway forwards one call of a client at a time.
OneCallWaits ==
  \A c, d \in Forwarded :
    /\ HeaderOf[c] = HeaderOf[d]
    /\ stage[c] = "waiting" /\ stage[d] = "waiting"
    => c = d

\* So only a broken connection disturbs a key.
DisturbedByBreaks == disturbed \subseteq abandoned

\* What a client was told is what the order service answered, or what the
\* gateway says by itself.
RepliesFit ==
  \A c \in Calls :
    /\ reply[c] = "201" => /\ c \in Forwarded /\ pc[c] = "done"
                           /\ answer[c] \in {"created", "replayed"}
                           /\ replyBody[c] = body[c]
    /\ reply[c] = "409" => /\ c \in Forwarded /\ pc[c] = "done"
                           /\ answer[c] = "conflict"
    /\ reply[c] \in {"400", "422"} => c \notin Forwarded

IInv == /\ TypeOK
        /\ Service!IInv
        /\ StagesFit
        /\ OneCallWaits
        /\ DisturbedByBreaks
        /\ RepliesFit

-----------------------------------------------------------------------------
(* The order service here is the one of Idempotency_proofs.                *)

\* The gateway forwards only calls with a key, and its constants are fit for
\* Idempotency.
LEMMA ServiceAssumptions ==
  /\ Environment \ {"connection", "exhausted"} \subseteq {"crash", "database", "expiry"}
  /\ [c \in Forwarded |-> HeaderOf[c]] \in [Forwarded -> Keys]
  /\ NoOrder \notin Forwarded
  /\ MaxAttempts \in Nat \ {0}
  /\ NoRecord \notin Service!Record
  /\ Forwarded \subseteq Calls
  /\ \A c \in Forwarded : HeaderOf[c] \in Keys
  <1>1. Forwarded \subseteq Calls /\ NoOrder \notin Forwarded
    BY NullsAssumption DEF Forwarded
  <1>2. \A c \in Forwarded : HeaderOf[c] \in Keys
    BY HeaderAssumption DEF Forwarded, Refusal
  <1>3. OrderService!Record = Service!Record
    BY DEF OrderService!Record, Service!Record, OrderService!Null, Service!Null
  <1> QED
    BY <1>1, <1>2, <1>3, GatewayEnvironment, NullsAssumption, MaxAttemptsAssumption

\* The two instances take the same steps.
LEMMA SameAcquireLock ==
  ASSUME NEW c \in Forwarded
  PROVE  OrderService!AcquireLock(c) <=> Service!AcquireLock(c)
  BY DEF OrderService!AcquireLock, Service!AcquireLock, OrderService!Insert,
         Service!Insert, OrderService!Read, Service!Read,
         OrderService!DeleteExpired, Service!DeleteExpired,
         OrderService!Reinsert, Service!Reinsert, OrderService!Reread,
         Service!Reread, OrderService!AcquireThrows, Service!AcquireThrows,
         OrderService!Arrive, Service!Arrive, OrderService!SameKey,
         Service!SameKey, OrderService!Running, Service!Running,
         OrderService!InsertOrIgnore, Service!InsertOrIgnore,
         OrderService!DeleteRow, Service!DeleteRow, OrderService!Row,
         Service!Row, OrderService!SetRow, Service!SetRow,
         OrderService!NewRecord, Service!NewRecord,
         OrderService!LooksInserted, Service!LooksInserted, OrderService!Goto,
         Service!Goto, OrderService!Answer, Service!Answer,
         OrderService!AnswerFrom, Service!AnswerFrom, OrderService!Acquiring,
         Service!Acquiring, OrderService!Null, Service!Null

LEMMA SameCreateOrder ==
  ASSUME NEW c \in Forwarded
  PROVE  OrderService!CreateOrder(c) <=> Service!CreateOrder(c)
  BY DEF OrderService!CreateOrder, Service!CreateOrder,
         OrderService!SaveOrder, Service!SaveOrder, OrderService!SaveEvent,
         Service!SaveEvent, OrderService!Save, Service!Save,
         OrderService!CommitOrder, Service!CommitOrder, OrderService!ReadBack,
         Service!ReadBack, OrderService!CreateThrows, Service!CreateThrows,
         OrderService!CommitThrows, Service!CommitThrows,
         OrderService!ReadBackThrows, Service!ReadBackThrows,
         OrderService!ApplyTransaction, Service!ApplyTransaction,
         OrderService!ThrowToUnlock, Service!ThrowToUnlock, OrderService!Goto,
         Service!Goto

LEMMA SameFinish ==
  ASSUME NEW c \in Forwarded
  PROVE  OrderService!Finish(c) <=> Service!Finish(c)
  BY DEF OrderService!Finish, Service!Finish, OrderService!Complete,
         Service!Complete, OrderService!CompleteThrows,
         Service!CompleteThrows, OrderService!Unlock, Service!Unlock,
         OrderService!UnlockThrows, Service!UnlockThrows,
         OrderService!CompleteRow, Service!CompleteRow,
         OrderService!DeleteRow, Service!DeleteRow, OrderService!Row,
         Service!Row, OrderService!SetRow, Service!SetRow,
         OrderService!MayRetry, Service!MayRetry, OrderService!Retry,
         Service!Retry, OrderService!ThrowToUnlock, Service!ThrowToUnlock,
         OrderService!Answer, Service!Answer, OrderService!Null, Service!Null

LEMMA SameSteps ==
  ASSUME NEW c \in Forwarded
  PROVE  /\ OrderService!RequestStep(c) <=> Service!RequestStep(c)
         /\ OrderService!Crash(c) <=> Service!Crash(c)
  <1>1. OrderService!Crash(c) <=> Service!Crash(c)
    BY DEF OrderService!Crash, Service!Crash, OrderService!Running,
           Service!Running, OrderService!Answer, Service!Answer,
           OrderService!Null, Service!Null
  <1> QED
    BY <1>1, SameAcquireLock, SameCreateOrder, SameFinish
    DEF OrderService!RequestStep, Service!RequestStep

LEMMA SameStates ==
  /\ OrderService!Init <=> Service!Init
  /\ OrderService!TypeOK <=> Service!TypeOK
  /\ OrderService!TypeOK' <=> Service!TypeOK'
  <1>1. OrderService!Init <=> Service!Init
    BY DEF OrderService!Init, Service!Init, OrderService!Null, Service!Null
  <1>2. /\ OrderService!TypeOK <=> Service!TypeOK
        /\ OrderService!TypeOK' <=> Service!TypeOK'
    BY DEF OrderService!TypeOK, Service!TypeOK, OrderService!Record,
           Service!Record, OrderService!Null, Service!Null,
           OrderService!Acquiring, Service!Acquiring, OrderService!Processing,
           Service!Processing
  <1> QED
    BY <1>1, <1>2

\* So they keep the invariant of Idempotency and leave other requests alone.
LEMMA ServiceStep ==
  ASSUME Service!IInv, NEW c \in Forwarded,
         OrderService!RequestStep(c) \/ OrderService!Crash(c)
  PROVE  /\ Service!IInv'
         /\ pc[c] # "done"
         /\ \A d \in Forwarded \ {c} :
              pc'[d] = pc[d] /\ answer'[d] = answer[d] /\ body'[d] = body[d]
         /\ disturbed \subseteq disturbed'
         /\ disturbed' \subseteq disturbed \cup {HeaderOf[c]}
         /\ disturbed' # disturbed =>
              /\ pc[c] = "new"
              /\ \E d \in Forwarded \ {c} :
                   HeaderOf[d] = HeaderOf[c] /\ pc[d] \notin {"new", "done"}
  <1>1. Service!RequestStep(c) \/ Service!Crash(c)
    BY SameSteps
  <1>2. Service!TypeOK
    BY DEF Service!IInv
  <1>3. Service!IInv'
    BY <1>1, ServiceAssumptions, Service!NextKeepsIInv DEF Service!Next
  <1>4. /\ pc[c] # "done"
        /\ \A d \in Forwarded \ {c} :
             pc'[d] = pc[d] /\ answer'[d] = answer[d] /\ body'[d] = body[d]
        /\ disturbed \subseteq disturbed'
        /\ disturbed' \subseteq disturbed \cup {[d \in Forwarded |-> HeaderOf[d]][c]}
        /\ disturbed' # disturbed =>
             pc[c] = "new" /\ \E d \in Service!SameKey(c) : Service!Running(d)
    BY <1>1, <1>2, ServiceAssumptions, Service!StepsOfOneRequest
  <1> QED
    BY <1>3, <1>4 DEF Service!SameKey, Service!Running

\* A step of the gateway alone leaves the order service as it is.
LEMMA GatewayStep ==
  ASSUME Service!IInv, UNCHANGED orderService
  PROVE  Service!IInv'
  <1>1. UNCHANGED Service!vars
    BY DEF orderService, Service!vars
  <1> QED
    BY <1>1, ServiceAssumptions, Service!NextKeepsIInv

-----------------------------------------------------------------------------
(* The invariant is inductive.                                             *)

LEMMA InitIInv == Init => IInv
  <1> SUFFICES ASSUME Init PROVE IInv
    OBVIOUS
  <1>1. Service!Init
    BY SameStates DEF Init
  <1>2. Service!IInv
    BY <1>1, ServiceAssumptions, Service!InitIInv
  <1>3. TypeOK
    BY <1>2, SameStates DEF Init, TypeOK, Service!IInv
  <1>4. pc = [c \in Forwarded |-> "new"] /\ disturbed = {}
    BY <1>1 DEF Service!Init
  <1>5. StagesFit /\ OneCallWaits /\ DisturbedByBreaks /\ RepliesFit
    BY <1>4, ServiceAssumptions
    DEF Init, StagesFit, OneCallWaits, DisturbedByBreaks, RepliesFit
  <1> QED
    BY <1>2, <1>3, <1>5 DEF IInv

LEMMA RefuseKeepsIInv ==
  ASSUME IInv, NEW c \in Calls, Refuse(c)
  PROVE  IInv'
  <1> USE DEF IInv
  <1>1. Service!IInv'
    BY GatewayStep DEF Refuse
  <1>2. Refusal(c) \in {"400", "422"} /\ c \notin Forwarded
    BY DEF Refuse, Forwarded, Refusal
  <1>3. TypeOK'
    BY <1>1, <1>2, SameStates DEF Refuse, End, TypeOK, Service!IInv
  <1>4. StagesFit' /\ OneCallWaits' /\ DisturbedByBreaks'
    BY <1>2, ServiceAssumptions
    DEF Refuse, End, TypeOK, StagesFit, OneCallWaits, DisturbedByBreaks, orderService
  <1>5. RepliesFit'
    BY <1>2 DEF Refuse, End, TypeOK, RepliesFit, orderService
  <1> QED
    BY <1>1, <1>3, <1>4, <1>5

LEMMA ForwardKeepsIInv ==
  ASSUME IInv, NEW c \in Forwarded, Forward(c)
  PROVE  IInv'
  <1> USE DEF IInv
  <1>1. Service!IInv'
    BY GatewayStep DEF Forward
  <1>2. TypeOK'
    BY <1>1, SameStates, ServiceAssumptions DEF Forward, TypeOK, Service!IInv
  <1>3. StagesFit' /\ DisturbedByBreaks' /\ RepliesFit'
    BY ServiceAssumptions
    DEF Forward, TypeOK, StagesFit, DisturbedByBreaks, RepliesFit, orderService
  <1>4. OneCallWaits'
    BY ServiceAssumptions DEF Forward, Waiting, TypeOK, OneCallWaits
  <1> QED
    BY <1>1, <1>2, <1>3, <1>4

\* A request that arrives while another one of its key is running: one of the
\* two calls no longer waits, so its connection broke.
LEMMA ServeKeepsIInv ==
  ASSUME IInv, NEW c \in Forwarded, Serve(c) \/ ServiceDies(c)
  PROVE  IInv'
  <1> USE DEF IInv
  <1>1. /\ OrderService!RequestStep(c) \/ OrderService!Crash(c)
        /\ UNCHANGED <<stage, onWire, reply, replyBody, abandoned>>
        /\ hung' \subseteq hung
        /\ pc[c] = "new" => c \in onWire
    BY DEF Serve, ServiceDies, gateway, OrderService!Crash, OrderService!Running
  <1>2. /\ Service!IInv'
        /\ pc[c] # "done"
        /\ \A d \in Forwarded \ {c} :
             pc'[d] = pc[d] /\ answer'[d] = answer[d] /\ body'[d] = body[d]
        /\ disturbed' \subseteq disturbed \cup {HeaderOf[c]}
        /\ disturbed' # disturbed =>
             /\ pc[c] = "new"
             /\ \E d \in Forwarded \ {c} :
                  HeaderOf[d] = HeaderOf[c] /\ pc[d] \notin {"new", "done"}
    BY <1>1, ServiceStep
  <1>3. TypeOK'
    BY <1>1, <1>2, SameStates DEF TypeOK, Service!IInv
  <1>4. c \in onWire
    BY <1>1 DEF StagesFit
  <1>5. StagesFit' /\ OneCallWaits'
    BY <1>1, <1>2, <1>4 DEF StagesFit, OneCallWaits
  <1>6. DisturbedByBreaks'
    <2>1. SUFFICES ASSUME disturbed' # disturbed
                   PROVE  HeaderOf[c] \in abandoned
      BY <1>1, <1>2 DEF DisturbedByBreaks
    <2>2. PICK d \in Forwarded \ {c} :
                 HeaderOf[d] = HeaderOf[c] /\ pc[d] \notin {"new", "done"}
      BY <1>2, <2>1
    <2>3. /\ stage[c] = "waiting" \/ HeaderOf[c] \in abandoned
          /\ stage[d] = "waiting" \/ HeaderOf[d] \in abandoned
      BY <1>2, <1>4, <2>2 DEF StagesFit
    <2> QED
      BY <2>2, <2>3 DEF OneCallWaits
  <1>7. RepliesFit'
    BY <1>1, <1>2 DEF RepliesFit
  <1> QED
    BY <1>2, <1>3, <1>5, <1>6, <1>7

\* A request that begins to wait for a connection changes nothing else.
LEMMA HangKeepsIInv ==
  ASSUME IInv, NEW c \in Forwarded, Hang(c)
  PROVE  IInv'
  <1> USE DEF IInv
  <1>1. Service!IInv'
    BY GatewayStep DEF Hang
  <1>2. TypeOK'
    BY <1>1, SameStates DEF Hang, TypeOK, Service!IInv
  <1>3. StagesFit' /\ OneCallWaits' /\ DisturbedByBreaks' /\ RepliesFit'
    BY DEF Hang, StagesFit, OneCallWaits, DisturbedByBreaks, RepliesFit, orderService
  <1> QED
    BY <1>1, <1>2, <1>3

LEMMA ReturnKeepsIInv ==
  ASSUME IInv, NEW c \in Forwarded, Return(c)
  PROVE  IInv'
  <1> USE DEF IInv
  <1>1. Service!IInv'
    BY GatewayStep DEF Return
  <1>2. /\ answer[c] \in {"none", "created", "replayed", "conflict", "error"}
        /\ body[c] \in Forwarded \cup {NoOrder}
    BY DEF Service!IInv, Service!TypeOK, Service!Null
  <1>3. /\ StatusOf(c) \in {"201", "409", "500"}
        /\ StatusOf(c) = "201" => answer[c] \in {"created", "replayed"}
        /\ StatusOf(c) = "409" => answer[c] = "conflict"
    BY <1>2 DEF StatusOf, OrderServiceStatus
  <1>4. TypeOK'
    BY <1>1, <1>2, <1>3, SameStates DEF Return, End, TypeOK, Service!IInv
  <1>5. StagesFit' /\ OneCallWaits' /\ DisturbedByBreaks'
    BY ServiceAssumptions
    DEF Return, End, TypeOK, StagesFit, OneCallWaits, DisturbedByBreaks, orderService
  <1>6. RepliesFit'
    BY <1>3, ServiceAssumptions DEF Return, End, TypeOK, RepliesFit, orderService
  <1> QED
    BY <1>1, <1>4, <1>5, <1>6

LEMMA BreakKeepsIInv ==
  ASSUME IInv, NEW c \in Forwarded, Break(c)
  PROVE  IInv'
  <1> USE DEF IInv
  <1>1. Service!IInv'
    BY GatewayStep DEF Break
  <1>2. PICK status \in {"500", "none"} : End(c, status, NoOrder)
    BY DEF Break
  <1>3. /\ UNCHANGED orderService
        /\ \/ onWire' = onWire
           \/ pc[c] = "new" /\ c \notin hung /\ onWire' = onWire \ {c}
        /\ hung' = hung
        /\ abandoned \subseteq abandoned' /\ abandoned' \subseteq Keys
        /\ c \in onWire' /\ pc[c] # "done" => HeaderOf[c] \in abandoned'
    BY ServiceAssumptions DEF Break, TypeOK
  <1>4. TypeOK'
    BY <1>1, <1>2, <1>3, SameStates, ServiceAssumptions
    DEF End, TypeOK, Service!IInv
  <1>5. StagesFit' /\ OneCallWaits' /\ DisturbedByBreaks'
    BY <1>2, <1>3, ServiceAssumptions
    DEF End, TypeOK, StagesFit, OneCallWaits, DisturbedByBreaks, orderService
  <1>6. RepliesFit'
    BY <1>2, <1>3 DEF End, TypeOK, RepliesFit, orderService
  <1> QED
    BY <1>1, <1>4, <1>5, <1>6

LEMMA NextKeepsIInv == IInv /\ [Next]_vars => IInv'
  <1> SUFFICES ASSUME IInv, [Next]_vars PROVE IInv'
    OBVIOUS
  <1>1. CASE UNCHANGED vars
    <2>1. UNCHANGED orderService /\ UNCHANGED <<stage, onWire, hung, reply, replyBody, abandoned>>
      BY <1>1 DEF vars, gateway
    <2>2. Service!IInv'
      BY <2>1, GatewayStep DEF IInv
    <2> QED
      BY <2>1, <2>2, SameStates
      DEF IInv, TypeOK, StagesFit, OneCallWaits, DisturbedByBreaks, RepliesFit,
          orderService, Service!IInv
  <1> QED
    BY <1>1, RefuseKeepsIInv, ForwardKeepsIInv, ServeKeepsIInv, HangKeepsIInv,
       ReturnKeepsIInv, BreakKeepsIInv
    DEF Next

\* The inductive invariant holds throughout.
THEOREM InductiveInvariant == Spec => []IInv
  BY InitIInv, NextKeepsIInv, PTL DEF Spec

-----------------------------------------------------------------------------
(* Consequences.                                                           *)

\* Every variable of the gateway and of the order service behind it keeps its
\* type.
THEOREM TypeCorrect == Spec => []TypeOK
  BY InductiveInvariant, PTL DEF IInv

\* A 201 is about an order that exists, with its event, and was made for the key
\* of the call; a call that was refused or met a conflict made none.
THEOREM RepliesTellTheTruth == Spec => []RepliesAreGenuine
  <1>1. IInv => RepliesAreGenuine
    <2> SUFFICES ASSUME IInv, NEW c \in Calls
                 PROVE  /\ reply[c] = "201" =>
                             /\ replyBody[c] \in orders \cap events
                             /\ HeaderOf[replyBody[c]] = HeaderOf[c]
                        /\ reply[c] \in {"400", "409", "422"} => c \notin orders
      BY DEF RepliesAreGenuine
    <2>1. /\ orders = events /\ orders \subseteq Forwarded
          /\ Service!AnswersAreGenuine /\ Service!OrdersFit
      <3>1. /\ Service!OrderIffEvent /\ Service!TypeOK
            /\ Service!AnswersAreGenuine /\ Service!OrdersFit
        BY DEF IInv, Service!IInv
      <3> QED
        BY <3>1 DEF Service!OrderIffEvent, Service!TypeOK
    <2>2. ASSUME reply[c] = "201"
          PROVE  /\ replyBody[c] \in orders \cap events
                 /\ HeaderOf[replyBody[c]] = HeaderOf[c]
      <3>1. /\ c \in Forwarded /\ answer[c] \in {"created", "replayed"}
            /\ replyBody[c] = body[c]
        BY <2>2 DEF IInv, RepliesFit
      <3>2. /\ body[c] \in orders
            /\ [d \in Forwarded |-> HeaderOf[d]][body[c]] =
                 [d \in Forwarded |-> HeaderOf[d]][c]
        BY <2>1, <3>1 DEF Service!AnswersAreGenuine, Service!Acknowledged
      <3> QED
        BY <2>1, <3>1, <3>2
    <2>3. ASSUME reply[c] \in {"400", "409", "422"}
          PROVE  c \notin orders
      BY <2>1, <2>3 DEF IInv, RepliesFit, Service!OrdersFit
    <2> QED
      BY <2>2, <2>3
  <1> QED
    BY <1>1, InductiveInvariant, PTL

\* As long as no connection of a key breaks, the order service works on one of
\* its requests at a time, however its instances die.
THEOREM PatientClientsDoNotOverlap == Spec => []OverlapNeedsBreak
  <1>1. IInv => OverlapNeedsBreak
    <2> SUFFICES ASSUME IInv, NEW k \in Keys \ abandoned,
                        NEW c \in Busy(k), NEW d \in Busy(k), c # d
                 PROVE  FALSE
      BY DEF OverlapNeedsBreak
    <2>1. /\ c \in Forwarded /\ d \in Forwarded
          /\ HeaderOf[c] = k /\ HeaderOf[d] = k
          /\ Service!Running(c) /\ Service!Running(d) /\ d \in Service!SameKey(c)
      BY DEF Busy, Service!Running, Service!SameKey
    <2>2. [x \in Forwarded |-> HeaderOf[x]][c] \in disturbed
      BY <2>1 DEF IInv, Service!IInv, Service!RunningAlone
    <2> QED
      BY <2>1, <2>2 DEF IInv, DisturbedByBreaks
  <1> QED
    BY <1>1, InductiveInvariant, PTL

\* A client whose calls of a key come one after the other, with no connection
\* broken, never gets a 409 and is always told of the same order.
THEOREM PatientClientsKeepTheirOrder == Spec => []PatientClientKeepsItsOrder
  <1>1. IInv => PatientClientKeepsItsOrder
    <2> SUFFICES ASSUME IInv, NEW c \in Forwarded, NEW d \in Forwarded,
                        HeaderOf[c] = HeaderOf[d], HeaderOf[c] \notin abandoned
                 PROVE  /\ reply[c] # "409"
                        /\ reply[c] = "201" /\ reply[d] = "201" =>
                             replyBody[c] = replyBody[d]
      BY DEF PatientClientKeepsItsOrder
    <2>1. [x \in Forwarded |-> HeaderOf[x]][c] \notin disturbed
      BY DEF IInv, DisturbedByBreaks
    <2>2. reply[c] # "409"
      BY <2>1, ServiceAssumptions
      DEF IInv, RepliesFit, Service!IInv, Service!NeverLockedOut
    <2>3. ASSUME reply[c] = "201", reply[d] = "201", c # d
          PROVE  replyBody[c] = replyBody[d]
      <3>1. /\ Service!Acknowledged(c) /\ Service!Acknowledged(d)
            /\ replyBody[c] = body[c] /\ replyBody[d] = body[d]
        BY <2>3, ServiceAssumptions DEF IInv, RepliesFit, Service!Acknowledged
      <3>2. d \in Service!SameKey(c)
        BY <2>3 DEF Service!SameKey
      <3>3. Service!AcknowledgedOrderIsStable
        BY ServiceAssumptions, Service!StableByIInv DEF IInv
      <3> QED
        BY <2>1, <3>1, <3>2, <3>3 DEF Service!AcknowledgedOrderIsStable
    <2> QED
      BY <2>2, <2>3
  <1> QED
    BY <1>1, InductiveInvariant, PTL

\* The gateway drives the order service as Idempotency describes it: whatever is
\* shown of Idempotency holds of the order service behind the gateway.
THEOREM GatewayRunsTheService == Spec => OrderService!Spec
  <1>1. Init => OrderService!Init
    BY DEF Init
  <1>2. [Next]_vars => [OrderService!Next]_(OrderService!vars)
    <2>1. ASSUME NEW c \in Forwarded, Serve(c) \/ ServiceDies(c)
          PROVE  OrderService!Next
      BY <2>1 DEF Serve, ServiceDies, OrderService!Next
    <2>2. ASSUME NEW c \in Calls,
                 \/ Refuse(c)
                 \/ c \in Forwarded /\ (Forward(c) \/ Hang(c) \/ Return(c) \/ Break(c))
          PROVE  UNCHANGED OrderService!vars
      BY <2>2 DEF Refuse, Forward, Hang, Return, Break, orderService, OrderService!vars
    <2>3. ASSUME UNCHANGED vars
          PROVE  UNCHANGED OrderService!vars
      BY <2>3 DEF vars, orderService, OrderService!vars
    <2> QED
      BY <2>1, <2>2, <2>3, ServiceAssumptions DEF Next
  <1> QED
    BY <1>1, <1>2, PTL DEF Spec, OrderService!Spec
=============================================================================
