--------------------------- MODULE EventDelivery ---------------------------
(***************************************************************************)
(* What the transactional outbox promises about the events recorded in it, *)
(* without workers, claims or a database: once recorded, an event is owed  *)
(* to the broker until it is settled, which needs at least one hand-over,  *)
(* or dead, which needs MaxRetries failed attempts, or stranded, because   *)
(* whoever dealt with it is gone.  Every attempt hands the event over at   *)
(* most once, and once more for each connection that breaks before the     *)
(* broker has confirmed.  Nothing happens to an event that is settled,     *)
(* dead or stranded.  Module Outbox implements this module.                *)
(***************************************************************************)
EXTENDS Naturals

CONSTANTS Events,      \* the events a service may record
          MaxRetries,  \* failed attempts after which an event is given up
          MaxResends   \* connections that may break under one event

VARIABLES phase,       \* phase[e]: what the outbox still owes for e
          handed,      \* handed[e]: how often e was put in the broker
          failures,    \* failures[e]: how many attempts at e were booked failed
          resent       \* resent[e]: copies of e that broken connections cost

vars == <<phase, handed, failures, resent>>

Phases == {"none", "owed", "settled", "dead", "stranded"}

Init ==
  /\ phase = [e \in Events |-> "none"]
  /\ handed = [e \in Events |-> 0]
  /\ failures = [e \in Events |-> 0]
  /\ resent = [e \in Events |-> 0]

Record(e) ==
  /\ phase[e] = "none"
  /\ phase' = [phase EXCEPT ![e] = "owed"]
  /\ UNCHANGED <<handed, failures, resent>>

\* A copy of e reaches the broker; the present attempt has none there yet
\* but those that were resent.
Publish(e) ==
  /\ phase[e] = "owed"
  /\ handed[e] <= failures[e] + resent[e]
  /\ handed' = [handed EXCEPT ![e] = @ + 1]
  /\ UNCHANGED <<phase, failures>>

HandOver(e) == Publish(e) /\ UNCHANGED resent

\* The copy arrives and its connection breaks: another one will follow.
Resend(e) ==
  /\ resent[e] < MaxResends
  /\ Publish(e)
  /\ resent' = [resent EXCEPT ![e] = @ + 1]

Owed == {e \in Events : phase[e] = "owed"}
NextPhase(e) == IF failures[e] + 1 >= MaxRetries THEN "dead" ELSE "owed"

\* An attempt at e is booked as failed; other events may be left alone.
Fail(e, left) ==
  /\ e \in Owed /\ left \subseteq Owed \ {e}
  /\ failures' = [failures EXCEPT ![e] = @ + 1]
  /\ phase' = [x \in Events |-> IF x = e THEN NextPhase(e)
                                ELSE IF x \in left THEN "stranded" ELSE phase[x]]
  /\ UNCHANGED <<handed, resent>>

\* Nobody deals with these events any more.
Strand(left) ==
  /\ left \subseteq Owed
  /\ phase' = [x \in Events |-> IF x \in left THEN "stranded" ELSE phase[x]]
  /\ UNCHANGED <<handed, failures, resent>>

Settle(e) ==
  /\ phase[e] = "owed"
  /\ handed[e] > 0
  /\ phase' = [phase EXCEPT ![e] = "settled"]
  /\ UNCHANGED <<handed, failures, resent>>

Attempt(e) ==
  HandOver(e) \/ Settle(e) \/ \E left \in SUBSET Events : Fail(e, left)

Next ==
  \/ \E e \in Events : Record(e) \/ Attempt(e) \/ Resend(e)
  \/ \E left \in SUBSET Events : Strand(left)

Spec == Init /\ [][Next]_vars

\* No event is owed for ever: it is settled, given up, or stranded.
Concludes == \A e \in Events : phase[e] = "owed" ~> phase[e] # "owed"
=============================================================================
