--------------------------- MODULE MCConfirmation ---------------------------
(***************************************************************************)
(* Small instances of Confirmation for TLC: three copies of one event, and *)
(* one message with another event.                                         *)
(***************************************************************************)
EXTENDS Confirmation, TLC

CONSTANTS d1, d2, d3, other,   \* deliveries
          e1, e2               \* events

Copies == {d1, d2, d3}
AllDeliveries == {d1, d2, d3, other}
AllEvents == {e1, e2}
MCEventOf == [d \in AllDeliveries |-> IF d = other THEN e2 ELSE e1]
CopySymmetry == Permutations(Copies)
=============================================================================
