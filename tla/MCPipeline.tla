----------------------------- MODULE MCPipeline -----------------------------
(***************************************************************************)
(* Small instances of Pipeline for TLC: one order, and one connection      *)
(* that breaks: there are two copies of the order's event, hence up to two *)
(* payments, or two copies of the event of its payment.                    *)
(***************************************************************************)
EXTENDS Pipeline

CONSTANT o1            \* an order

OneOrder == {o1}
=============================================================================
