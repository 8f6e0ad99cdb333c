----------------------------- MODULE MCPayment -----------------------------
(***************************************************************************)
(* Small instances of Payment for TLC: three copies of the event of one    *)
(* order, and one message about another order.                             *)
(***************************************************************************)
EXTENDS Payment, TLC

CONSTANTS d1, d2, d3, other,   \* deliveries
          o1, o2               \* orders

Copies == {d1, d2, d3}
AllDeliveries == {d1, d2, d3, other}
AllOrders == {o1, o2}
MCOrderOf == [d \in AllDeliveries |-> IF d = other THEN o2 ELSE o1]
CopySymmetry == Permutations(Copies)
=============================================================================
