------------------------------ MODULE MCAdmission ------------------------------
(* What stands before a provider is called, for TLC, one part at a time: Gate   *)
(* with more requests than slots and clients at their budgets, RateLimiter with *)
(* more clients than buckets, HttpEdge, or the SemanticCache.                   *)
EXTENDS Gate, RateLimiter, HttpEdge, SemanticCache, TLC

VARIABLE part

MCCapacity == [k \in Ids |-> IF k = 1 THEN 1 ELSE 2]

\* Bucket 1 has three questions in a line, each like the next but the ends are not.
\* The odd ones share the middle one's text: one has other numbers, one was embedded by
\* another model, one is in bucket 2.
Q(b, d, v, m) == [bucket |-> b, dim |-> d, vec |-> v, marks |-> m]
Line == {Q(1, 1, v, 1) : v \in 1..3}
MCQuestions == Line \cup {Q(1, 1, 2, 2), Q(1, 2, 2, 1), Q(2, 1, 2, 1)}
MCResemblance == [p \in (1..3) \X (1..3) |->
  CASE p[1] = p[2] -> 4 [] p \in {<<1, 2>>, <<2, 1>>} -> 3 [] p \in {<<2, 3>>, <<3, 2>>} -> 2
    [] OTHER -> 0]

\* A part that does not run is left in one of its initial states.
GateRests == ~windowed /\ ~abandoned /\ \A r, s \in Requests : client[r] = client[s]
EdgeRests == ~compat
CacheRests == ~verifying /\ maxlen = 1 /\ question = [r \in Askers |-> Q(1, 1, 1, 1)]

AdmissionInit ==
  /\ GateInit /\ LimiterInit /\ EdgeInit /\ SemanticInit
  /\ \/ part = "gate" /\ EdgeRests /\ CacheRests
     \/ part = "limiter" /\ GateRests /\ EdgeRests /\ CacheRests
     \/ part = "edge" /\ GateRests /\ CacheRests
     \/ part = "semantic" /\ GateRests /\ EdgeRests

AdmissionNext ==
  /\ UNCHANGED part
  /\ \/ part = "gate" /\ GateNext /\ UNCHANGED <<limiterVars, edgeVars, semanticVars>>
     \/ part = "limiter" /\ LimiterNext /\ UNCHANGED <<gateVars, edgeVars, semanticVars>>
     \/ part = "edge" /\ EdgeNext /\ UNCHANGED <<gateVars, limiterVars, semanticVars>>
     \/ part = "semantic" /\ SemanticNext /\ UNCHANGED <<gateVars, limiterVars, edgeVars>>

AdmissionSpec ==
  AdmissionInit /\ [][AdmissionNext]_<<gateVars, limiterVars, edgeVars, semanticVars, part>>

\* Nothing distinguishes requests (which are the semantic cache's askers), or clients.
Symmetry == Permutations(Requests) \cup Permutations(Clients)
=============================================================================
