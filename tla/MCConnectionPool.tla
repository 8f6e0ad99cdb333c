-------------------------- MODULE MCConnectionPool --------------------------
(***************************************************************************)
(* Small instances of ConnectionPool for TLC: two copies of one message    *)
(* and another one, or three requests, on two connections.                 *)
(***************************************************************************)
EXTENDS ConnectionPool

CONSTANTS c1, c2,                 \* connections
          copy1, copy2, other,    \* handlers
          order1, order2,         \* orders
          b1, b2                  \* outbox rows

TwoConnections == {c1, c2}
ThreeHandlers == {copy1, copy2, other}
TwoOrders == {order1, order2}
TwoBookings == {b1, b2}
TwoCopies == [h \in ThreeHandlers |-> IF h = other THEN order2 ELSE order1]
=============================================================================
