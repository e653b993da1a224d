--------------------------- MODULE MCRetryingClient ---------------------------
(* RetryingClient for TLC: a call that retries once beside one that does not. *)
EXTENDS RetryingClient

CONSTANTS c1, c2, first, second, only, b1, b2

MCAttempts == [c \in Calls |-> IF c = c1 THEN <<first, second>> ELSE <<only>>]

\* One body, or two, up to their names.
MCWants == {[c \in Calls |-> IF c = c1 THEN b1 ELSE b] : b \in Bodies}
=============================================================================
