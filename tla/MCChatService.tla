----------------------------- MODULE MCChatService -----------------------------
(* Instances of ChatService for TLC. *)
EXTENDS ChatService, TLC

CONSTANTS w1, w2, pA, pB, k1, k2

\* One target for every request, on alternate workers.
OneTarget == [k \in {k1} |-> pA]
SameTarget == [r \in Requests |-> <<k1>>]
\* k1 and k2 are models of two providers.
TwoProviders == (k1 :> pA) @@ (k2 :> pB)
WithFallback == [r \in Requests |-> <<k1, k2>>]

CONSTANT Remote   \* the requests of the second worker
TwoWorkers == [r \in Requests |-> IF r \in Remote THEN w2 ELSE w1]

Symmetry == Permutations(Requests \ Remote) \cup Permutations(Remote)
=============================================================================
