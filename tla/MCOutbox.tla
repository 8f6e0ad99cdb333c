------------------------------ MODULE MCOutbox ------------------------------
(***************************************************************************)
(* Small instances of Outbox for TLC.                                      *)
(***************************************************************************)
EXTENDS Outbox

CONSTANTS w1, w2       \* the workers of two service instances

TwoWorkers == {w1, w2}
OneWorker == {w1}
=============================================================================
