--------------------------- MODULE MCIdempotency ---------------------------
(***************************************************************************)
(* Small instances of Idempotency for TLC: three requests share a key, one *)
(* has a key of its own.                                                   *)
(***************************************************************************)
EXTENDS Idempotency, TLC

CONSTANTS r1, r2, r3, other,   \* requests
          k1, k2               \* idempotency keys

TwoRetries == {r1, r2, r3}
AllRequests == {r1, r2, r3, other}
AllKeys == {k1, k2}
OneKey == [r \in TwoRetries |-> k1]
TwoKeys == [r \in AllRequests |-> IF r = other THEN k2 ELSE k1]
RequestSymmetry == Permutations(TwoRetries)
=============================================================================
