------------------------------ MODULE Gateway ------------------------------
(***************************************************************************)
(* POST /orders as clients see it: the API gateway in front of the order   *)
(* service.                                                                *)
(*                                                                         *)
(* The gateway keeps nothing.  It refuses calls without a valid key or     *)
(* with a bad body, forwards the others and waits for the response without *)
(* a timeout.  The order service is module Idempotency; the request that   *)
(* call c is forwarded as is named c there.  A retry is another call with  *)
(* the same key; here a client retries when its call has ended in one way  *)
(* or another (calls at the same time are in Idempotency).                 *)
(***************************************************************************)
EXTENDS Naturals

CONSTANTS Calls,              \* POST /orders calls of clients
          Keys,               \* idempotency keys
          Missing, Malformed, \* no header, and one that is not a UUID v4
          HeaderOf,           \* the Idempotency-Key header of each call
          ValidBodies,        \* calls whose body passes the ValidationPipe
          NoOrder, NoRecord, MaxAttempts,  \* see Idempotency
          Environment         \* what else may happen

\* "connection": the gateway's connection to the order service breaks, or the
\* gateway dies.  "exhausted": the order service's pool of database connections
\* runs dry for ever (Exhausted in ConnectionPool).  The others are those of
\* the order service.
ASSUME GatewayEnvironment ==
         Environment \subseteq {"crash", "database", "connection", "exhausted"}
ASSUME HeaderAssumption == HeaderOf \in [Calls -> Keys \cup {Missing, Malformed}]

VARIABLES table, orders, events, pc, tx, attempts, answer, body, disturbed,
                      \* the order service
          stage,      \* where the call is
          onWire,     \* requests that have reached the order service or will
          hung,       \* requests that wait for a database connection for ever
          reply,      \* the status the client got
          replyBody,  \* the order in the reply
          abandoned   \* history: keys with a request that went on after the
                      \* connection of its call was gone

orderService == <<table, orders, events, pc, tx, attempts, answer, body, disturbed>>
gateway == <<stage, onWire, hung, reply, replyBody, abandoned>>
vars == <<orderService, gateway>>

\* What both services check before they do anything.  In the gateway the
\* interceptor looks at the header before the pipe looks at the body.
Refusal(c) ==
  CASE HeaderOf[c] = Missing -> "400"
    [] HeaderOf[c] = Malformed -> "422"
    [] c \notin ValidBodies -> "400"
    [] OTHER -> "none"
Forwarded == {c \in Calls : Refusal(c) = "none"}

OrderService ==
  INSTANCE Idempotency WITH Requests <- Forwarded,
                            KeyOf <- [c \in Forwarded |-> HeaderOf[c]],
                            Environment <- Environment \ {"connection", "exhausted"}

\* What Idempotency assumes.
ASSUME NullsAssumption == NoOrder \notin Calls /\ NoRecord \notin OrderService!Record
ASSUME MaxAttemptsAssumption == MaxAttempts \in Nat \ {0}

TypeOK ==
  /\ OrderService!TypeOK
  /\ stage \in [Calls -> {"unsent", "waiting", "ended"}]
  /\ hung \subseteq onWire /\ onWire \subseteq Forwarded
  /\ reply \in [Calls -> {"none", "201", "400", "409", "422", "500"}]
  /\ replyBody \in [Calls -> Forwarded \cup {NoOrder}]
  /\ abandoned \subseteq Keys

Init ==
  /\ OrderService!Init
  /\ stage = [c \in Calls |-> "unsent"]
  /\ onWire = {} /\ hung = {}
  /\ reply = [c \in Calls |-> "none"]
  /\ replyBody = [c \in Calls |-> NoOrder]
  /\ abandoned = {}

-----------------------------------------------------------------------------
(* Actions.  The operators named ...Mutant change the one that follows     *)
(* them the way a slip in the code would; no action uses them.             *)

End(c, status, order) ==
  /\ stage' = [stage EXCEPT ![c] = "ended"]
  /\ reply' = [reply EXCEPT ![c] = status]
  /\ replyBody' = [replyBody EXCEPT ![c] = order]

\* A call that breaks the rules is answered at once.
Refuse(c) ==
  /\ stage[c] = "unsent" /\ c \notin Forwarded
  /\ End(c, Refusal(c), NoOrder)
  /\ UNCHANGED <<orderService, onWire, hung, abandoned>>

Waiting(k) == {c \in Forwarded : HeaderOf[c] = k /\ stage[c] = "waiting"}

\* The gateway posts the order, with the key, to the order service.
Forward(c) ==
  /\ stage[c] = "unsent" /\ c \in Forwarded
  /\ Waiting(HeaderOf[c]) = {}
  /\ stage' = [stage EXCEPT ![c] = "waiting"]
  /\ onWire' = onWire \cup {c}
  /\ UNCHANGED <<orderService, hung, reply, replyBody, abandoned>>

\* The mutant waits until the record of another request is released.
ServeMutant(c) ==
  /\ c \in onWire \ hung
  /\ \A d \in Forwarded \ {c} : table[HeaderOf[c]] # OrderService!NewRecord(d)
  /\ OrderService!RequestStep(c)
  /\ UNCHANGED gateway
Serve(c) ==
  /\ c \in onWire \ hung
  /\ OrderService!RequestStep(c)
  /\ UNCHANGED gateway

\* The statement that c runs next asks the pool for a connection, and none is
\* ever given back.  Only the statements between the first of the transaction
\* and its commit have one.
Hang(c) ==
  /\ "exhausted" \in Environment
  /\ c \in onWire /\ pc[c] \notin {"saveEvent", "commit", "done"}
  /\ hung' = hung \cup {c}
  /\ UNCHANGED <<orderService, stage, onWire, reply, replyBody, abandoned>>

\* The instance of the order service that serves c dies.
ServiceDies(c) ==
  /\ OrderService!Crash(c)
  /\ hung' = hung \ {c}
  /\ UNCHANGED <<stage, onWire, reply, replyBody, abandoned>>

\* The status with which the order service answers: what is not an HTTP
\* exception becomes a 500 in its filter.
OrderServiceStatus(c) ==
  CASE answer[c] \in {"created", "replayed"} -> "201"
    [] answer[c] = "conflict" -> "409"
    [] answer[c] = "error" -> "500"

\* The gateway passes the status on, and answers 500 where it gets none.
StatusOfMutant(c) == IF answer[c] = "error" THEN "500" ELSE "201"
StatusOf(c) == IF answer[c] = "none" THEN "500" ELSE OrderServiceStatus(c)

\* The response of the order service is passed on, its body and its status
\* alone: the header that marks a replay is not.
ReturnTimeoutMutant(c) ==
  /\ stage[c] = "waiting"
  /\ End(c, StatusOf(c), body[c])
  /\ UNCHANGED <<orderService, onWire, hung, abandoned>>
Return(c) ==
  /\ stage[c] = "waiting" /\ pc[c] = "done"
  /\ End(c, StatusOf(c), body[c])
  /\ UNCHANGED <<orderService, onWire, hung, abandoned>>

\* The gateway gets no response, or the client none from the gateway.  The
\* request may be lost on its way; if not, the order service goes on with it.
Break(c) ==
  /\ "connection" \in Environment
  /\ stage[c] = "waiting"
  /\ \E status \in {"500", "none"} : End(c, status, NoOrder)
  /\ \/ UNCHANGED onWire
     \/ pc[c] = "new" /\ c \notin hung /\ onWire' = onWire \ {c}
  /\ abandoned' = IF c \in onWire' /\ pc[c] # "done"
                  THEN abandoned \cup {HeaderOf[c]} ELSE abandoned
  /\ UNCHANGED <<orderService, hung>>

Next ==
  \/ \E c \in Calls : Refuse(c)
  \/ \E c \in Forwarded :
       \/ Forward(c) \/ Serve(c) \/ Hang(c) \/ ServiceDies(c)
       \/ Return(c) \/ Break(c)

Spec == Init /\ [][Next]_vars

\* The statements of a request that has arrived return or throw, unless it
\* hangs, and a response is passed on.  Clients need not call.
FairSpec ==
  /\ Spec
  /\ \A c \in Forwarded : WF_vars(Serve(c) \/ Return(c))

-----------------------------------------------------------------------------
(* Properties.                                                             *)

\* A 201 names an order that exists, with its event, and that was made for
\* the key of the call, maybe by an earlier call; a call that was refused or
\* met a conflict has made no order.
RepliesAreGenuine ==
  \A c \in Calls :
    /\ reply[c] = "201" =>
         /\ replyBody[c] \in orders \cap events
         /\ HeaderOf[replyBody[c]] = HeaderOf[c]
    /\ reply[c] \in {"400", "409", "422"} => c \notin orders

\* As long as no connection breaks, a client that waits for the end of a call
\* before it calls again makes the order service work on one request of its
\* key at a time, also when instances of the order service die.
Busy(k) == {c \in Forwarded : HeaderOf[c] = k /\ pc[c] \notin {"new", "done"}}
OverlapNeedsBreak ==
  \A k \in Keys \ abandoned : \A c, d \in Busy(k) : c = d

\* Such a client is never told of a conflict, and once it was told of an
\* order it is told of the same order by every later 201.
PatientClientKeepsItsOrder ==
  \A c, d \in Forwarded :
    HeaderOf[c] = HeaderOf[d] /\ HeaderOf[c] \notin abandoned =>
      /\ reply[c] # "409"
      /\ reply[c] = "201" /\ reply[d] = "201" => replyBody[c] = replyBody[d]

\* No call is left without an end, also when another request of its key has
\* died and left its record behind, unless its request waits for a database
\* connection for ever: neither the pool nor the gateway has a timeout.
EveryCallIsAnswered ==
  \A c \in Forwarded : stage[c] = "waiting" ~> stage[c] = "ended" \/ c \in hung
=============================================================================
