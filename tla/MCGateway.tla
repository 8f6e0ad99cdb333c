----------------------------- MODULE MCGateway -----------------------------
(***************************************************************************)
(* A small instance of Gateway for TLC: a call, a retry with its key, and  *)
(* three calls that are refused, one for each reason.                      *)
(***************************************************************************)
EXTENDS Gateway

CONSTANTS first, retry,           \* calls that are forwarded
          anonymous, bad, blank,  \* no key, a malformed one, a bad body
          k1                      \* the key

FiveCalls == {first, retry, anonymous, bad, blank}
OneKey == {k1}
Headers == [c \in FiveCalls |-> CASE c = anonymous -> Missing
                                  [] c = bad -> Malformed
                                  [] OTHER -> k1]
Bodies == FiveCalls \ {blank}
=============================================================================
