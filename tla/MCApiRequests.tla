--------------------------- MODULE MCApiRequests ---------------------------
(* Small instances of ApiRequests for TLC. *)
EXTENDS ApiRequests

CONSTANTS r1, r2, r3,    \* requests
          k1, k2,        \* API keys
          i1, i2         \* idempotency keys

Take(caller, key, n) == [op |-> "acquire", caller |-> caller, key |-> key, count |-> n, lease |-> r1]
Keep(caller, key) == [op |-> "renew", caller |-> caller, key |-> key, count |-> 0, lease |-> r1]
Back(caller, key) == [op |-> "release", caller |-> caller, key |-> key, count |-> 0, lease |-> r1]

\* A keyed acquire; its retry, a different request under its key, or a change
\* of its lease; and a third caller, a third retry or a rival for the lease.
AsksOfThree ==
    [r \in {r1, r2, r3} |->
       CASE r = r1 -> {Take(k1, i1, 1)}
         [] r = r2 -> {Take(k1, i1, 1), Take(k1, i1, 2), Keep(k1, NoKey), Keep(k2, NoKey), Back(k1, i1)}
         [] r = r3 -> {Take(k1, i1, 1), Take(k2, i2, 2), Take(k1, i2, 1), Back(k1, NoKey)}]

=============================================================================
