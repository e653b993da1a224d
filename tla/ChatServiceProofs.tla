--------------------------- MODULE ChatServiceProofs ---------------------------
(***************************************************************************)
(* Proofs about ChatService, for any requests, workers, chains and bounds; *)
(* and about Conversation: the answers of one provider, held by a client   *)
(* of any surface and sent to the next provider, tell it what the client   *)
(* holds, for any functions and bounds.                                    *)
(***************************************************************************)
EXTENDS ChatService, Conversation, FoldLemmas

\* What the bounds on the loop, on its retries and on its polls rest on: a check
\* has been passed wherever the counter behind it is about to be raised.
BeforeCall == {"lookup", "claim", "poll", "pollclaim", "reclaim", "call"}

Bounds ==
  \A r \in Requests :
    /\ idx[r] <= Len(Chain[r])
    /\ pc[r] = "shared" => ~IsLast(r)
    /\ pc[r] \in BeforeCall => tries[r] < MaxAttempts
    /\ pc[r] = "pollclaim" => polls[r] < MaxPolls

\* What OneHolder rests on: whoever believes to hold the claim of its target is
\* the owner of the entry, and is on its way to give it back; only requests that
\* use the cache get there.
Ownership ==
  \A r \in Requests :
    /\ holds[r] => claim[K(r)] = r /\ pc[r] \in Calling /\ r \in CacheUsers
    /\ pc[r] \in {"lookup", "claim", "poll", "pollclaim", "reclaim"} =>
         r \in CacheUsers
    /\ pc[r] \in {"unclaim", "release"} => holds[r]

\* What ClaimHasHolder rests on: an entry belongs to a request that believes to
\* hold it, which no request stops believing without deleting the entry, unless
\* its worker dies or its call breaks.
Holding ==
  /\ \A k \in Targets, r \in Requests : claim[k] = r =>
       \/ pc[r] = "dead"
       \/ pc[r] = "done" /\ err[r] = "broken"
       \/ pc[r] \in Calling /\ holds[r] /\ K(r) = k
  /\ \A r \in Requests :
       /\ holds[r] => pc[r] \in Calling /\ r \in CacheUsers
       /\ pc[r] \in {"lookup", "claim", "poll", "pollclaim", "reclaim"} => r \in CacheUsers
       /\ err[r] = "broken" => "broken" \in Errors

\* What NoTargetForgotten rests on: a request that is about to give a target up
\* has an error to show for it, and an error ends the request.
Remembered ==
  \A r \in Requests :
    /\ pc[r] \in {"unclaim", "blame", "park"} => err[r] # "none"
    /\ pc[r] \in BeforeCall /\ tries[r] > 0 => err[r] # "none"
    /\ err[r] = "broken" => pc[r] = "done"
    /\ result[r] = "error" =>
         /\ pc[r] = "done"
         /\ err[r] # "none" /\ (IsLast(r) \/ err[r] \in {"4xx", "broken"} \/ spent[r])

\* What CallsBounded rests on: a request has used at most the budgets of the
\* targets behind it and the attempts at this one.
Budget(i) == MaxAttempts * (i - 1)

CallsSoFar ==
  \A r \in Requests :
    /\ calls[r] <= Budget(idx[r]) + tries[r]
    /\ pc[r] \in {"new", "next", "shared"} => calls[r] <= Budget(idx[r])

-----------------------------------------------------------------------------

\* Updating one entry of a two-level table keeps its type.
LEMMA TableUpdate ==
  ASSUME NEW S, NEW f \in [Workers -> [Providers -> S]],
         NEW w \in Workers, NEW p, NEW v \in S
  PROVE  [f EXCEPT ![w][p] = v] \in [Workers -> [Providers -> S]]
<1>1. [f[w] EXCEPT ![p] = v] \in [Providers -> S]
  OBVIOUS
<1> QED
  BY <1>1

\* The targets of a request, up to the end of its chain, are targets.
LEMMA ChainTargets ==
  ASSUME NEW r \in Requests, NEW i \in Nat \ {0}, i <= Len(Chain[r])
  PROVE  Chain[r][i] \in Targets /\ Len(Chain[r]) \in Nat
<1>1. Chain[r] \in Seq(Targets)
  BY ChatAssumption
<1> QED
  BY <1>1

\* A step keeps every variable in its type, given the bounds.
LEMMA TypeStep == TypeOK /\ Bounds /\ [Next]_vars => TypeOK'
<1> SUFFICES ASSUME TypeOK, Bounds, [Next]_vars PROVE TypeOK'
  OBVIOUS
<1>0. /\ MaxAttempts \in Nat \ {0} /\ MaxPolls \in Nat
      /\ \A r \in Requests : pc[r] = "call" => tries[r] < MaxAttempts
      /\ \A r \in Requests : pc[r] = "pollclaim" => polls[r] < MaxPolls
  BY ChatAssumption DEF Bounds, BeforeCall
<1>b. Errors \subseteq {"4xx", "429", "5xx", "broken"}
  BY ChatAssumption
<1>c. \A r \in Requests : W(r) \in Workers /\ K(r) \in Targets /\ P(r) \in Providers
  BY ChatAssumption, ChainTargets DEF Bounds, TypeOK, FlowOK, W, K, P
<1> USE DEF TypeOK, At, Nobody
<1>1. ASSUME NEW r \in Requests, Arrive(r) PROVE TypeOK'
  BY <1>1 DEF Arrive, Goto, FlowOK, CacheOK, HealthOK, HistoryOK, Places,
    Calling, cache, health
<1>2. ASSUME NEW r \in Requests, OutOfBudget(r) PROVE TypeOK'
  BY <1>2 DEF OutOfBudget, Goto, Finish, FlowOK, CacheOK, HealthOK, HistoryOK,
    Places, Calling, cache, health
<1>3. ASSUME NEW r \in Requests, StartTarget(r) PROVE TypeOK'
  <2>1. pc' \in [Requests -> Places]
    BY <1>3 DEF StartTarget, Goto, Attempt, NextTarget, FlowOK, Places, Calling
  <2>2. idx' \in [Requests -> Nat \ {0}]
    BY <1>3 DEF StartTarget, Goto, Attempt, NextTarget, FlowOK
  <2>3. tries' \in [Requests -> 0 .. MaxAttempts]
    BY <1>0, <1>3 DEF StartTarget, Goto, Attempt, NextTarget, FlowOK
  <2>4. polls' \in [Requests -> 0 .. MaxPolls]
    BY <1>0, <1>3 DEF StartTarget, Goto, Attempt, NextTarget, FlowOK
  <2>5. FlowOK'
    BY <1>3, <2>1, <2>2, <2>3, <2>4 DEF StartTarget, Goto, Attempt, NextTarget,
      FlowOK
  <2> QED
    BY <1>3, <2>5 DEF StartTarget, CacheOK, HealthOK, HistoryOK, cache, health
<1>4. ASSUME NEW r \in Requests, SharedCheck(r) PROVE TypeOK'
  <2>1. pc' \in [Requests -> Places]
    BY <1>4 DEF SharedCheck, Goto, Attempt, NextTarget, FlowOK, Places, Calling
  <2>2. idx' \in [Requests -> Nat \ {0}]
    BY <1>4 DEF SharedCheck, Goto, Attempt, NextTarget, FlowOK
  <2>3. tries' \in [Requests -> 0 .. MaxAttempts]
    BY <1>0, <1>4 DEF SharedCheck, Goto, Attempt, NextTarget, FlowOK
  <2>4. polls' \in [Requests -> 0 .. MaxPolls]
    BY <1>0, <1>4 DEF SharedCheck, Goto, Attempt, NextTarget, FlowOK
  <2>5. FlowOK'
    BY <1>4, <2>1, <2>2, <2>3, <2>4 DEF SharedCheck, Goto, Attempt, NextTarget,
      FlowOK
  <2> QED
    BY <1>4, <2>5 DEF SharedCheck, CacheOK, HealthOK, HistoryOK, cache, health
<1>5. ASSUME NEW r \in Requests, Lookup(r) PROVE TypeOK'
  <2>1. pc' \in [Requests -> Places]
    BY <1>5 DEF Lookup, Goto, ReadCache, Finish, FlowOK, Places, Calling
  <2>2. result' \in [Requests -> {"none", "hit", "own", "error"}]
    BY <1>5 DEF Lookup, Goto, ReadCache, Finish, FlowOK
  <2>3. FlowOK'
    BY <1>5, <2>1, <2>2 DEF Lookup, Goto, ReadCache, Finish, FlowOK
  <2> QED
    BY <1>5, <2>3 DEF Lookup, CacheOK, HealthOK, HistoryOK, cache, health
<1>6. ASSUME NEW r \in Requests, Claim(r) PROVE TypeOK'
  BY <1>6 DEF Claim, Goto, TakeClaim, FlowOK, CacheOK, HealthOK, HistoryOK,
    Places, Calling, cache, health
<1>7. ASSUME NEW r \in Requests, Poll(r) PROVE TypeOK'
  <2>1. pc' \in [Requests -> Places]
    BY <1>7 DEF Poll, Goto, ReadCache, Finish, FlowOK, Places, Calling
  <2>2. result' \in [Requests -> {"none", "hit", "own", "error"}]
    BY <1>7 DEF Poll, Goto, ReadCache, Finish, FlowOK
  <2>3. FlowOK'
    BY <1>7, <2>1, <2>2 DEF Poll, Goto, ReadCache, Finish, FlowOK
  <2> QED
    BY <1>7, <2>3 DEF Poll, CacheOK, HealthOK, HistoryOK, cache, health
<1>8. ASSUME NEW r \in Requests, PollClaim(r) PROVE TypeOK'
  <2>1. pc' \in [Requests -> Places]
    BY <1>8 DEF PollClaim, Goto, FlowOK, Places, Calling
  <2>2. polls' \in [Requests -> 0 .. MaxPolls]
    BY <1>0, <1>8 DEF PollClaim, Goto, FlowOK
  <2>3. FlowOK'
    BY <1>8, <2>1, <2>2 DEF PollClaim, Goto, FlowOK
  <2> QED
    BY <1>8, <2>3 DEF PollClaim, CacheOK, HealthOK, HistoryOK, cache, health
<1>9. ASSUME NEW r \in Requests, PollsOver(r) PROVE TypeOK'
  <2>1. pc' \in [Requests -> Places]
    BY <1>9 DEF PollsOver, Goto, ReadCache, Finish, FlowOK, Places, Calling
  <2>2. result' \in [Requests -> {"none", "hit", "own", "error"}]
    BY <1>9 DEF PollsOver, Goto, ReadCache, Finish, FlowOK
  <2>3. FlowOK'
    BY <1>9, <2>1, <2>2 DEF PollsOver, Goto, ReadCache, Finish, FlowOK
  <2> QED
    BY <1>9, <2>3 DEF PollsOver, CacheOK, HealthOK, HistoryOK, cache, health
<1>10. ASSUME NEW r \in Requests, Reclaim(r) PROVE TypeOK'
  BY <1>10 DEF Reclaim, Goto, TakeClaim, FlowOK, CacheOK, HealthOK, HistoryOK,
    Places, Calling, cache, health
<1>11. ASSUME NEW r \in Requests, CallTooLate(r) PROVE TypeOK'
  BY <1>11 DEF CallTooLate, Goto, Failed, FlowOK, CacheOK, HealthOK, HistoryOK,
    Places, Calling, cache, health
<1>12. ASSUME NEW r \in Requests, Call(r) PROVE TypeOK'
  BY <1>0, <1>12 DEF Call, Goto, FlowOK, CacheOK, HealthOK, HistoryOK, Places,
    Calling, cache, health
<1>13. ASSUME NEW r \in Requests, UpstreamOk(r) PROVE TypeOK'
  BY <1>13 DEF UpstreamOk, Goto, Finish, FlowOK, CacheOK, HealthOK, HistoryOK,
    Places, Calling, cache, health
<1>14. ASSUME NEW r \in Requests, UpstreamFails(r) PROVE TypeOK'
  <2>1. pc' \in [Requests -> Places]
    BY <1>14 DEF UpstreamFails, Goto, Failed, FlowOK, Places, Calling
  <2>2. err' \in [Requests -> {"none", "4xx", "429", "5xx", "broken", "deadline"}]
    BY <1>b, <1>14 DEF UpstreamFails, Goto, Failed, FlowOK
  <2>3. FlowOK'
    BY <1>14, <2>1, <2>2 DEF UpstreamFails, Goto, Failed, FlowOK
  <2> QED
    BY <1>14, <2>3 DEF UpstreamFails, CacheOK, HealthOK, HistoryOK, cache,
      health
<1>15. ASSUME NEW r \in Requests, UpstreamBreaks(r) PROVE TypeOK'
  BY <1>15 DEF UpstreamBreaks, Goto, Finish, FlowOK, CacheOK, HealthOK,
    HistoryOK, Places, Calling, cache, health
<1>16. ASSUME NEW r \in Requests, UpstreamCut(r) PROVE TypeOK'
  BY <1>16 DEF UpstreamCut, Goto, Failed, FlowOK, CacheOK, HealthOK, HistoryOK,
    Places, Calling, cache, health
<1>17. ASSUME NEW r \in Requests, Unclaim(r) PROVE TypeOK'
  BY <1>17 DEF Unclaim, Goto, FlowOK, CacheOK, HealthOK, HistoryOK, Places,
    Calling, cache, health
<1>18. ASSUME NEW r \in Requests, Excuse(r) PROVE TypeOK'
  <2>1. pc' \in [Requests -> Places]
    BY <1>18 DEF Excuse, Goto, Decide, Finish, NextTarget, FlowOK, Places,
      Calling
  <2>2. idx' \in [Requests -> Nat \ {0}]
    BY <1>18 DEF Excuse, Goto, Decide, Finish, NextTarget, FlowOK
  <2>3. result' \in [Requests -> {"none", "hit", "own", "error"}]
    BY <1>18 DEF Excuse, Goto, Decide, Finish, NextTarget, FlowOK
  <2>4. FlowOK'
    BY <1>18, <2>1, <2>2, <2>3 DEF Excuse, Goto, Decide, Finish, NextTarget,
      FlowOK
  <2> QED
    BY <1>18, <2>4 DEF Excuse, CacheOK, HealthOK, HistoryOK, cache, health
<1>19. ASSUME NEW r \in Requests, BackOff(r) PROVE TypeOK'
  BY <1>19 DEF BackOff, Goto, Park, FlowOK, CacheOK, HealthOK, HistoryOK,
    Places, Calling, cache, health
<1>20. ASSUME NEW r \in Requests, CountFailure(r) PROVE TypeOK'
  <2>1. pc' \in [Requests -> Places]
    BY <1>20 DEF CountFailure, Goto, Decide, Park, Finish, NextTarget, FlowOK,
      Places, Calling
  <2>2. idx' \in [Requests -> Nat \ {0}]
    BY <1>20 DEF CountFailure, Goto, Decide, Park, Finish, NextTarget, FlowOK
  <2>3. result' \in [Requests -> {"none", "hit", "own", "error"}]
    BY <1>20 DEF CountFailure, Goto, Decide, Park, Finish, NextTarget, FlowOK
  <2>4. FlowOK'
    BY <1>20, <2>1, <2>2, <2>3 DEF CountFailure, Goto, Decide, Park, Finish,
      NextTarget, FlowOK
  <2>5. HealthOK'
    <3>1. count' \in [Workers -> [Providers -> Nat]]
      <4>1. count[W(r)][P(r)] + 1 \in Nat
        BY <1>c DEF HealthOK
      <4> QED
        BY <1>20, <4>1, <1>c, TableUpdate DEF CountFailure, HealthOK
    <3>2. parked' \in [Workers -> [Providers -> BOOLEAN]]
      <4>1. \/ parked' = parked
            \/ parked' = [parked EXCEPT ![W(r)][P(r)] = TRUE]
        BY <1>20 DEF CountFailure, Park
      <4>2. CASE parked' = parked
        BY <4>2 DEF HealthOK
      <4>3. CASE parked' = [parked EXCEPT ![W(r)][P(r)] = TRUE]
        BY <4>3 DEF HealthOK
      <4> QED
        BY <4>1, <4>2, <4>3
    <3> QED
      BY <1>20, <3>1, <3>2 DEF CountFailure, HealthOK
  <2>6. HistoryOK'
    BY <1>20 DEF CountFailure, HistoryOK
  <2> QED
    BY <1>20, <2>4, <2>5, <2>6 DEF CountFailure, CacheOK, HealthOK, HistoryOK,
      cache, health
<1>21. ASSUME NEW r \in Requests, SharePark(r) PROVE TypeOK'
  <2>1. pc' \in [Requests -> Places]
    BY <1>21 DEF SharePark, Goto, Decide, Finish, NextTarget, FlowOK, Places,
      Calling
  <2>2. idx' \in [Requests -> Nat \ {0}]
    BY <1>21 DEF SharePark, Goto, Decide, Finish, NextTarget, FlowOK
  <2>3. result' \in [Requests -> {"none", "hit", "own", "error"}]
    BY <1>21 DEF SharePark, Goto, Decide, Finish, NextTarget, FlowOK
  <2>4. FlowOK'
    BY <1>21, <2>1, <2>2, <2>3 DEF SharePark, Goto, Decide, Finish, NextTarget,
      FlowOK
  <2>5. HealthOK'
    <3>1. count' \in [Workers -> [Providers -> Nat]]
      BY <1>21, TableUpdate DEF SharePark, HealthOK
    <3> QED
      BY <1>21, <3>1 DEF SharePark, HealthOK
  <2> QED
    BY <1>21, <2>4, <2>5 DEF SharePark, CacheOK, HealthOK, HistoryOK, cache,
      health
<1>22. ASSUME NEW r \in Requests, Store(r) PROVE TypeOK'
  <2>1. pc' \in [Requests -> Places]
    BY <1>22 DEF Store, Goto, Finish, FlowOK, Places, Calling
  <2>2. result' \in [Requests -> {"none", "hit", "own", "error"}]
    BY <1>22 DEF Store, Goto, Finish, FlowOK
  <2>3. FlowOK'
    BY <1>22, <2>1, <2>2 DEF Store, Goto, Finish, FlowOK
  <2> QED
    BY <1>22, <2>3 DEF Store, CacheOK, HealthOK, HistoryOK, cache, health
<1>23. ASSUME NEW r \in Requests, Release(r) PROVE TypeOK'
  BY <1>23 DEF Release, Goto, Finish, FlowOK, CacheOK, HealthOK, HistoryOK,
    Places, Calling, cache, health
<1>24. ASSUME NEW r \in Requests, RunOut(r) PROVE TypeOK'
  BY <1>24 DEF RunOut, FlowOK, CacheOK, HealthOK, HistoryOK, Places, Calling,
    cache, health
<1>25. ASSUME NEW k \in Targets, ClaimLapses(k) PROVE TypeOK'
  BY <1>25 DEF ClaimLapses, FlowOK, CacheOK, HealthOK, HistoryOK, Places, flow,
    cache, health
<1>26. ASSUME NEW k \in Targets, EntryLapses(k) PROVE TypeOK'
  BY <1>26 DEF EntryLapses, FlowOK, CacheOK, HealthOK, HistoryOK, Places, flow,
    cache, health
<1>27. ASSUME NEW p \in Providers, MarkLapses(p) PROVE TypeOK'
  BY <1>27 DEF MarkLapses, FlowOK, CacheOK, HealthOK, HistoryOK, Places, flow,
    cache, health
<1>28. ASSUME NEW w \in Workers, NEW p \in Providers, CooldownLapses(w, p) PROVE TypeOK'
  BY <1>28 DEF CooldownLapses, FlowOK, CacheOK, HealthOK, HistoryOK, Places,
    flow, cache, health
<1>29. ASSUME NEW w \in Workers, Crash(w) PROVE TypeOK'
  BY <1>29 DEF Crash, FlowOK, CacheOK, HealthOK, HistoryOK, Places, flow,
    cache, health
<1>30. ASSUME UNCHANGED vars PROVE TypeOK'
  BY <1>30 DEF vars, FlowOK, CacheOK, HealthOK, HistoryOK, flow, cache, health
<1> QED
  BY <1>1, <1>2, <1>3, <1>4, <1>5, <1>6, <1>7, <1>8, <1>9, <1>10, <1>11, <1>12,
    <1>13, <1>14, <1>15, <1>16, <1>17, <1>18, <1>19, <1>20, <1>21, <1>22,
    <1>23, <1>24, <1>25, <1>26, <1>27, <1>28, <1>29, <1>30 DEF Next, Step
\* A step keeps the loop within the chain, the retries and polls within their
\* bounds.
LEMMA BoundsStep == TypeOK /\ Bounds /\ [Next]_vars => Bounds'
<1> SUFFICES ASSUME FlowOK, Bounds, [Next]_vars PROVE Bounds'
  BY DEF TypeOK
<1>0. /\ MaxAttempts \in Nat \ {0} /\ MaxPolls \in Nat
      /\ \A r \in Requests : Len(Chain[r]) \in Nat
  BY ChatAssumption
<1>1. ASSUME NEW r \in Requests, Arrive(r) PROVE Bounds'
  BY <1>0, <1>1 DEF Arrive, Goto, FlowOK, Bounds, BeforeCall, IsLast, At
<1>2. ASSUME NEW r \in Requests, OutOfBudget(r) PROVE Bounds'
  BY <1>0, <1>2 DEF OutOfBudget, Goto, Finish, FlowOK, Bounds, BeforeCall,
    IsLast, At
<1>3. ASSUME NEW r \in Requests, StartTarget(r) PROVE Bounds'
  <2>1. ASSUME NEW q \in Requests, q # r
        PROVE  /\ pc'[q] = pc[q] /\ idx'[q] = idx[q]
               /\ tries'[q] = tries[q] /\ polls'[q] = polls[q]
    BY <1>3, <2>1 DEF StartTarget, Goto, Attempt, NextTarget, FlowOK
  <2>2. /\ idx'[r] <= Len(Chain[r])
        /\ pc'[r] = "shared" => idx'[r] # Len(Chain[r])
    BY <1>0, <1>3 DEF StartTarget, Goto, Attempt, NextTarget, FlowOK, Bounds,
      IsLast
  <2>3. /\ pc'[r] \in BeforeCall => tries'[r] < MaxAttempts
        /\ pc'[r] # "pollclaim"
    BY <1>0, <1>3 DEF StartTarget, Goto, Attempt, NextTarget, FlowOK,
      BeforeCall
  <2> QED
    BY <2>1, <2>2, <2>3 DEF Bounds, IsLast
<1>4. ASSUME NEW r \in Requests, SharedCheck(r) PROVE Bounds'
  BY <1>0, <1>4 DEF SharedCheck, Goto, Attempt, NextTarget, FlowOK, Bounds,
    BeforeCall, IsLast, At
<1>5. ASSUME NEW r \in Requests, Lookup(r) PROVE Bounds'
  BY <1>0, <1>5 DEF Lookup, Goto, ReadCache, Finish, FlowOK, Bounds,
    BeforeCall, IsLast, At
<1>6. ASSUME NEW r \in Requests, Claim(r) PROVE Bounds'
  BY <1>0, <1>6 DEF Claim, Goto, TakeClaim, FlowOK, Bounds, BeforeCall, IsLast,
    At
<1>7. ASSUME NEW r \in Requests, Poll(r) PROVE Bounds'
  BY <1>0, <1>7 DEF Poll, Goto, ReadCache, Finish, FlowOK, Bounds, BeforeCall,
    IsLast, At
<1>8. ASSUME NEW r \in Requests, PollClaim(r) PROVE Bounds'
  BY <1>0, <1>8 DEF PollClaim, Goto, FlowOK, Bounds, BeforeCall, IsLast, At
<1>9. ASSUME NEW r \in Requests, PollsOver(r) PROVE Bounds'
  BY <1>0, <1>9 DEF PollsOver, Goto, ReadCache, Finish, FlowOK, Bounds,
    BeforeCall, IsLast, At
<1>10. ASSUME NEW r \in Requests, Reclaim(r) PROVE Bounds'
  BY <1>0, <1>10 DEF Reclaim, Goto, TakeClaim, FlowOK, Bounds, BeforeCall,
    IsLast, At
<1>11. ASSUME NEW r \in Requests, CallTooLate(r) PROVE Bounds'
  BY <1>0, <1>11 DEF CallTooLate, Goto, Failed, FlowOK, Bounds, BeforeCall,
    IsLast, At
<1>12. ASSUME NEW r \in Requests, Call(r) PROVE Bounds'
  BY <1>0, <1>12 DEF Call, Goto, FlowOK, Bounds, BeforeCall, IsLast, At
<1>13. ASSUME NEW r \in Requests, UpstreamOk(r) PROVE Bounds'
  BY <1>0, <1>13 DEF UpstreamOk, Goto, Finish, FlowOK, Bounds, BeforeCall,
    IsLast, At
<1>14. ASSUME NEW r \in Requests, UpstreamFails(r) PROVE Bounds'
  BY <1>0, <1>14 DEF UpstreamFails, Goto, Failed, FlowOK, Bounds, BeforeCall,
    IsLast, At
<1>15. ASSUME NEW r \in Requests, UpstreamBreaks(r) PROVE Bounds'
  BY <1>0, <1>15 DEF UpstreamBreaks, Goto, Finish, FlowOK, Bounds, BeforeCall,
    IsLast, At
<1>16. ASSUME NEW r \in Requests, UpstreamCut(r) PROVE Bounds'
  BY <1>0, <1>16 DEF UpstreamCut, Goto, Failed, FlowOK, Bounds, BeforeCall,
    IsLast, At
<1>17. ASSUME NEW r \in Requests, Unclaim(r) PROVE Bounds'
  BY <1>0, <1>17 DEF Unclaim, Goto, FlowOK, Bounds, BeforeCall, IsLast, At
<1>18. ASSUME NEW r \in Requests, Excuse(r) PROVE Bounds'
  BY <1>0, <1>18 DEF Excuse, Goto, Decide, Finish, NextTarget, FlowOK, Bounds,
    BeforeCall, IsLast, At
<1>19. ASSUME NEW r \in Requests, BackOff(r) PROVE Bounds'
  BY <1>0, <1>19 DEF BackOff, Goto, Park, FlowOK, Bounds, BeforeCall, IsLast,
    At
<1>20. ASSUME NEW r \in Requests, CountFailure(r) PROVE Bounds'
  BY <1>0, <1>20 DEF CountFailure, Goto, Decide, Park, Finish, NextTarget,
    FlowOK, Bounds, BeforeCall, IsLast, At
<1>21. ASSUME NEW r \in Requests, SharePark(r) PROVE Bounds'
  BY <1>0, <1>21 DEF SharePark, Goto, Decide, Finish, NextTarget, FlowOK,
    Bounds, BeforeCall, IsLast, At
<1>22. ASSUME NEW r \in Requests, Store(r) PROVE Bounds'
  BY <1>0, <1>22 DEF Store, Goto, Finish, FlowOK, Bounds, BeforeCall, IsLast,
    At
<1>23. ASSUME NEW r \in Requests, Release(r) PROVE Bounds'
  BY <1>0, <1>23 DEF Release, Goto, Finish, FlowOK, Bounds, BeforeCall, IsLast,
    At
<1>24. ASSUME NEW r \in Requests, RunOut(r) PROVE Bounds'
  BY <1>0, <1>24 DEF RunOut, FlowOK, Bounds, BeforeCall, IsLast, At
<1>25. ASSUME NEW k \in Targets, ClaimLapses(k) PROVE Bounds'
  BY <1>0, <1>25 DEF ClaimLapses, FlowOK, Bounds, BeforeCall, IsLast, flow
<1>26. ASSUME NEW k \in Targets, EntryLapses(k) PROVE Bounds'
  BY <1>0, <1>26 DEF EntryLapses, FlowOK, Bounds, BeforeCall, IsLast, flow
<1>27. ASSUME NEW p \in Providers, MarkLapses(p) PROVE Bounds'
  BY <1>0, <1>27 DEF MarkLapses, FlowOK, Bounds, BeforeCall, IsLast, flow
<1>28. ASSUME NEW w \in Workers, NEW p \in Providers, CooldownLapses(w, p) PROVE Bounds'
  BY <1>0, <1>28 DEF CooldownLapses, FlowOK, Bounds, BeforeCall, IsLast, flow
<1>29. ASSUME NEW w \in Workers, Crash(w) PROVE Bounds'
  BY <1>0, <1>29 DEF Crash, FlowOK, Bounds, BeforeCall, IsLast, flow
<1>30. ASSUME UNCHANGED vars PROVE Bounds'
  BY <1>30 DEF vars, flow, Bounds, BeforeCall, IsLast
<1> QED
  BY <1>1, <1>2, <1>3, <1>4, <1>5, <1>6, <1>7, <1>8, <1>9, <1>10, <1>11, <1>12,
    <1>13, <1>14, <1>15, <1>16, <1>17, <1>18, <1>19, <1>20, <1>21, <1>22,
    <1>23, <1>24, <1>25, <1>26, <1>27, <1>28, <1>29, <1>30 DEF Next, Step
\* The type of every variable, and the bounds, in every reachable state.
LEMMA TypeInvariant == Spec => [](TypeOK /\ Bounds)
<1>1. Init => TypeOK /\ Bounds
  <2>1. \A r \in Requests : Len(Chain[r]) \in Nat \ {0}
    BY ChatAssumption
  <2>2. MaxAttempts \in Nat \ {0} /\ MaxPolls \in Nat
    BY ChatAssumption
  <2>3. ASSUME Init PROVE FlowOK
    BY <2>2, <2>3 DEF Init, FlowOK, Places
  <2>4. ASSUME Init PROVE CacheOK /\ HealthOK /\ HistoryOK
    BY <2>4 DEF Init, CacheOK, HealthOK, HistoryOK
  <2>5. ASSUME Init PROVE Bounds
    BY <2>1, <2>2, <2>5 DEF Init, Bounds, BeforeCall, IsLast
  <2> QED
    BY <2>3, <2>4, <2>5 DEF TypeOK
<1> QED
  BY <1>1, TypeStep, BoundsStep, PTL DEF Spec

\* Every variable has its type.
THEOREM TypeCorrect == Spec => []TypeOK
BY TypeInvariant, PTL

\* Whatever cools down or fails, the loop over the targets ends at the last one:
\* the assertion behind it is never reached.
THEOREM LoopStaysInChain == Spec => []NeverFallsThrough
<1>1. Bounds => NeverFallsThrough
  BY DEF Bounds, NeverFallsThrough
<1> QED
  BY <1>1, TypeInvariant, PTL

-----------------------------------------------------------------------------

\* A step keeps claims with their owners while no claim lapses.
LEMMA OwnershipStep ==
  ASSUME ~Lapses
  PROVE  TypeOK /\ Bounds /\ Ownership /\ [Next]_vars => Ownership'
<1> SUFFICES ASSUME FlowOK, CacheOK, Bounds, Ownership, [Next]_vars
              PROVE  Ownership'
  BY DEF TypeOK
<1>0. \A r \in Requests : K(r) \in Targets /\ r # Nobody
  BY ChatAssumption, ChainTargets DEF Bounds, FlowOK, K, Nobody
<1>1. ASSUME NEW r \in Requests, Arrive(r) PROVE Ownership'
  BY <1>0, <1>1 DEF Arrive, Goto, FlowOK, CacheOK, Ownership, K, Calling, At,
    cache
<1>2. ASSUME NEW r \in Requests, OutOfBudget(r) PROVE Ownership'
  BY <1>0, <1>2 DEF OutOfBudget, Goto, Finish, FlowOK, CacheOK, Ownership, K,
    Calling, At, cache
<1>3. ASSUME NEW r \in Requests, StartTarget(r) PROVE Ownership'
  BY <1>0, <1>3 DEF StartTarget, Goto, Attempt, NextTarget, FlowOK, CacheOK,
    Ownership, K, Calling, At, cache
<1>4. ASSUME NEW r \in Requests, SharedCheck(r) PROVE Ownership'
  BY <1>0, <1>4 DEF SharedCheck, Goto, Attempt, NextTarget, FlowOK, CacheOK,
    Ownership, K, Calling, At, cache
<1>5. ASSUME NEW r \in Requests, Lookup(r) PROVE Ownership'
  BY <1>0, <1>5 DEF Lookup, Goto, ReadCache, Finish, FlowOK, CacheOK,
    Ownership, K, Calling, At, cache
<1>6. ASSUME NEW r \in Requests, Claim(r) PROVE Ownership'
  BY <1>0, <1>6 DEF Claim, Goto, TakeClaim, FlowOK, CacheOK, Ownership, K,
    Calling, At, cache
<1>7. ASSUME NEW r \in Requests, Poll(r) PROVE Ownership'
  BY <1>0, <1>7 DEF Poll, Goto, ReadCache, Finish, FlowOK, CacheOK, Ownership,
    K, Calling, At, cache
<1>8. ASSUME NEW r \in Requests, PollClaim(r) PROVE Ownership'
  BY <1>0, <1>8 DEF PollClaim, Goto, FlowOK, CacheOK, Ownership, K, Calling,
    At, cache
<1>9. ASSUME NEW r \in Requests, PollsOver(r) PROVE Ownership'
  BY <1>0, <1>9 DEF PollsOver, Goto, ReadCache, Finish, FlowOK, CacheOK,
    Ownership, K, Calling, At, cache
<1>10. ASSUME NEW r \in Requests, Reclaim(r) PROVE Ownership'
  BY <1>0, <1>10 DEF Reclaim, Goto, TakeClaim, FlowOK, CacheOK, Ownership, K,
    Calling, At, cache
<1>11. ASSUME NEW r \in Requests, CallTooLate(r) PROVE Ownership'
  BY <1>0, <1>11 DEF CallTooLate, Goto, Failed, FlowOK, CacheOK, Ownership, K,
    Calling, At, cache
<1>12. ASSUME NEW r \in Requests, Call(r) PROVE Ownership'
  BY <1>0, <1>12 DEF Call, Goto, FlowOK, CacheOK, Ownership, K, Calling, At,
    cache
<1>13. ASSUME NEW r \in Requests, UpstreamOk(r) PROVE Ownership'
  BY <1>0, <1>13 DEF UpstreamOk, Goto, Finish, FlowOK, CacheOK, Ownership, K,
    Calling, At, cache
<1>14. ASSUME NEW r \in Requests, UpstreamFails(r) PROVE Ownership'
  BY <1>0, <1>14 DEF UpstreamFails, Goto, Failed, FlowOK, CacheOK, Ownership,
    K, Calling, At, cache
<1>15. ASSUME NEW r \in Requests, UpstreamBreaks(r) PROVE Ownership'
  BY <1>0, <1>15 DEF UpstreamBreaks, Goto, Finish, FlowOK, CacheOK, Ownership,
    K, Calling, At, cache
<1>16. ASSUME NEW r \in Requests, UpstreamCut(r) PROVE Ownership'
  BY <1>0, <1>16 DEF UpstreamCut, Goto, Failed, FlowOK, CacheOK, Ownership, K,
    Calling, At, cache
<1>17. ASSUME NEW r \in Requests, Unclaim(r) PROVE Ownership'
  BY <1>0, <1>17 DEF Unclaim, Goto, FlowOK, CacheOK, Ownership, K, Calling, At,
    cache
<1>18. ASSUME NEW r \in Requests, Excuse(r) PROVE Ownership'
  BY <1>0, <1>18 DEF Excuse, Goto, Decide, Finish, NextTarget, FlowOK, CacheOK,
    Ownership, K, Calling, At, cache
<1>19. ASSUME NEW r \in Requests, BackOff(r) PROVE Ownership'
  BY <1>0, <1>19 DEF BackOff, Goto, Park, FlowOK, CacheOK, Ownership, K,
    Calling, At, cache
<1>20. ASSUME NEW r \in Requests, CountFailure(r) PROVE Ownership'
  BY <1>0, <1>20 DEF CountFailure, Goto, Decide, Park, Finish, NextTarget,
    FlowOK, CacheOK, Ownership, K, Calling, At, cache
<1>21. ASSUME NEW r \in Requests, SharePark(r) PROVE Ownership'
  BY <1>0, <1>21 DEF SharePark, Goto, Decide, Finish, NextTarget, FlowOK,
    CacheOK, Ownership, K, Calling, At, cache
<1>22. ASSUME NEW r \in Requests, Store(r) PROVE Ownership'
  BY <1>0, <1>22 DEF Store, Goto, Finish, FlowOK, CacheOK, Ownership, K,
    Calling, At, cache
<1>23. ASSUME NEW r \in Requests, Release(r) PROVE Ownership'
  BY <1>0, <1>23 DEF Release, Goto, Finish, FlowOK, CacheOK, Ownership, K,
    Calling, At, cache
<1>24. ASSUME NEW r \in Requests, RunOut(r) PROVE Ownership'
  BY <1>0, <1>24 DEF RunOut, FlowOK, CacheOK, Ownership, K, Calling, At, cache
<1>25. ASSUME NEW k \in Targets, ClaimLapses(k) PROVE Ownership'
  BY <1>0, <1>25 DEF ClaimLapses, FlowOK, CacheOK, Ownership, K, Calling, flow,
    cache
<1>26. ASSUME NEW k \in Targets, EntryLapses(k) PROVE Ownership'
  BY <1>0, <1>26 DEF EntryLapses, FlowOK, CacheOK, Ownership, K, Calling, flow,
    cache
<1>27. ASSUME NEW p \in Providers, MarkLapses(p) PROVE Ownership'
  BY <1>0, <1>27 DEF MarkLapses, FlowOK, CacheOK, Ownership, K, Calling, flow,
    cache
<1>28. ASSUME NEW w \in Workers, NEW p \in Providers, CooldownLapses(w, p) PROVE Ownership'
  BY <1>0, <1>28 DEF CooldownLapses, FlowOK, CacheOK, Ownership, K, Calling,
    flow, cache
<1>29. ASSUME NEW w \in Workers, Crash(w) PROVE Ownership'
  BY <1>0, <1>29 DEF Crash, FlowOK, CacheOK, Ownership, K, Calling, flow, cache
<1>30. ASSUME UNCHANGED vars PROVE Ownership'
  BY <1>30 DEF vars, flow, cache, Ownership, K
<1> QED
  BY <1>1, <1>2, <1>3, <1>4, <1>5, <1>6, <1>7, <1>8, <1>9, <1>10, <1>11, <1>12,
    <1>13, <1>14, <1>15, <1>16, <1>17, <1>18, <1>19, <1>20, <1>21, <1>22,
    <1>23, <1>24, <1>25, <1>26, <1>27, <1>28, <1>29, <1>30 DEF Next, Step

\* While no claim lapses, two requests never both believe they hold the claim of
\* a target: waiters that take over, workers that die, calls that fail.
THEOREM OneClaimant ==
  ASSUME ~Lapses PROVE Spec => []OneHolder
<1>1. Init => Ownership
  BY DEF Init, Ownership
<1>2. Ownership => OneHolder
  BY DEF Ownership, OneHolder
<1> QED
  BY <1>1, <1>2, OwnershipStep, TypeInvariant, PTL DEF Spec

-----------------------------------------------------------------------------

\* MaxAttempts calls per target left behind, as a sum.
LEMMA BudgetGrows ==
  ASSUME NEW i \in Nat \ {0}
  PROVE  Budget(i) \in Nat /\ Budget(i + 1) = Budget(i) + MaxAttempts
<1>1. MaxAttempts \in Nat
  BY ChatAssumption
<1> QED
  BY <1>1 DEF Budget

\* A step keeps the upstream calls of each request within its targets' budgets.
LEMMA CallsStep == TypeOK /\ Bounds /\ CallsSoFar /\ [Next]_vars => CallsSoFar'
<1> SUFFICES ASSUME FlowOK, HistoryOK, Bounds, CallsSoFar, [Next]_vars
              PROVE  CallsSoFar'
  BY DEF TypeOK
<1>0. MaxAttempts \in Nat \ {0}
  BY ChatAssumption
<1>1. \A i \in Nat \ {0} :
        Budget(i) \in Nat /\ Budget(i + 1) = Budget(i) + MaxAttempts
  BY BudgetGrows
<1>11. ASSUME NEW r \in Requests, Arrive(r) PROVE CallsSoFar'
  BY <1>0, <1>1, <1>11 DEF Arrive, Goto, FlowOK, HistoryOK, CallsSoFar, At,
    IsLast
<1>12. ASSUME NEW r \in Requests, OutOfBudget(r) PROVE CallsSoFar'
  BY <1>0, <1>1, <1>12 DEF OutOfBudget, Goto, Finish, FlowOK, HistoryOK,
    CallsSoFar, At, IsLast
<1>13. ASSUME NEW r \in Requests, StartTarget(r) PROVE CallsSoFar'
  <2>1. ASSUME NEW q \in Requests, q # r
        PROVE  /\ pc'[q] = pc[q] /\ idx'[q] = idx[q]
               /\ tries'[q] = tries[q] /\ calls'[q] = calls[q]
    BY <1>13, <2>1 DEF StartTarget, Goto, Attempt, NextTarget, FlowOK
  <2>2. /\ calls'[r] = calls[r] /\ calls[r] \in Nat
        /\ tries[r] \in 0 .. MaxAttempts /\ tries'[r] \in Nat
        /\ idx[r] \in Nat \ {0}
    BY <1>13, <1>0 DEF StartTarget, Goto, Attempt, NextTarget, FlowOK,
      HistoryOK
  <2>3. /\ calls[r] <= Budget(idx[r]) + tries[r]
        /\ pc[r] \in {"next", "shared"} => calls[r] <= Budget(idx[r])
    BY DEF CallsSoFar
  <2>4. \/ idx'[r] = idx[r] + 1
        \/ /\ idx'[r] = idx[r]
           /\ pc[r] \in {"next", "shared"}
    BY <1>13 DEF StartTarget, Goto, Attempt, NextTarget, FlowOK, At
  <2>5. /\ calls'[r] <= Budget(idx'[r]) + tries'[r]
        /\ pc'[r] \in {"new", "next", "shared"} => calls'[r] <= Budget(idx'[r])
    <3>1. /\ Budget(idx[r]) \in Nat
          /\ Budget(idx[r] + 1) = Budget(idx[r]) + MaxAttempts
      BY <1>1, <2>2
    <3> QED
      BY <1>0, <2>2, <2>3, <2>4, <3>1
  <2> QED
    BY <2>1, <2>5 DEF CallsSoFar
<1>14. ASSUME NEW r \in Requests, SharedCheck(r) PROVE CallsSoFar'
  <2>1. ASSUME NEW q \in Requests, q # r
        PROVE  /\ pc'[q] = pc[q] /\ idx'[q] = idx[q]
               /\ tries'[q] = tries[q] /\ calls'[q] = calls[q]
    BY <1>14, <2>1 DEF SharedCheck, Goto, Attempt, NextTarget, FlowOK
  <2>2. /\ calls'[r] = calls[r] /\ calls[r] \in Nat
        /\ tries[r] \in 0 .. MaxAttempts /\ tries'[r] \in Nat
        /\ idx[r] \in Nat \ {0}
    BY <1>14, <1>0 DEF SharedCheck, Goto, Attempt, NextTarget, FlowOK,
      HistoryOK
  <2>3. /\ calls[r] <= Budget(idx[r]) + tries[r]
        /\ pc[r] \in {"next", "shared"} => calls[r] <= Budget(idx[r])
    BY DEF CallsSoFar
  <2>4. \/ idx'[r] = idx[r] + 1
        \/ /\ idx'[r] = idx[r]
           /\ pc[r] \in {"next", "shared"}
    BY <1>14 DEF SharedCheck, Goto, Attempt, NextTarget, FlowOK, At
  <2>5. /\ calls'[r] <= Budget(idx'[r]) + tries'[r]
        /\ pc'[r] \in {"new", "next", "shared"} => calls'[r] <= Budget(idx'[r])
    <3>1. /\ Budget(idx[r]) \in Nat
          /\ Budget(idx[r] + 1) = Budget(idx[r]) + MaxAttempts
      BY <1>1, <2>2
    <3> QED
      BY <1>0, <2>2, <2>3, <2>4, <3>1
  <2> QED
    BY <2>1, <2>5 DEF CallsSoFar
<1>15. ASSUME NEW r \in Requests, Lookup(r) PROVE CallsSoFar'
  BY <1>0, <1>1, <1>15 DEF Lookup, Goto, ReadCache, Finish, FlowOK, HistoryOK,
    CallsSoFar, At, IsLast
<1>16. ASSUME NEW r \in Requests, Claim(r) PROVE CallsSoFar'
  BY <1>0, <1>1, <1>16 DEF Claim, Goto, TakeClaim, FlowOK, HistoryOK,
    CallsSoFar, At, IsLast
<1>17. ASSUME NEW r \in Requests, Poll(r) PROVE CallsSoFar'
  BY <1>0, <1>1, <1>17 DEF Poll, Goto, ReadCache, Finish, FlowOK, HistoryOK,
    CallsSoFar, At, IsLast
<1>18. ASSUME NEW r \in Requests, PollClaim(r) PROVE CallsSoFar'
  BY <1>0, <1>1, <1>18 DEF PollClaim, Goto, FlowOK, HistoryOK, CallsSoFar, At,
    IsLast
<1>19. ASSUME NEW r \in Requests, PollsOver(r) PROVE CallsSoFar'
  BY <1>0, <1>1, <1>19 DEF PollsOver, Goto, ReadCache, Finish, FlowOK,
    HistoryOK, CallsSoFar, At, IsLast
<1>20. ASSUME NEW r \in Requests, Reclaim(r) PROVE CallsSoFar'
  BY <1>0, <1>1, <1>20 DEF Reclaim, Goto, TakeClaim, FlowOK, HistoryOK,
    CallsSoFar, At, IsLast
<1>21. ASSUME NEW r \in Requests, CallTooLate(r) PROVE CallsSoFar'
  BY <1>0, <1>1, <1>21 DEF CallTooLate, Goto, Failed, FlowOK, HistoryOK,
    CallsSoFar, At, IsLast
<1>22. ASSUME NEW r \in Requests, Call(r) PROVE CallsSoFar'
  BY <1>0, <1>1, <1>22 DEF Call, Goto, FlowOK, HistoryOK, CallsSoFar, At,
    IsLast
<1>23. ASSUME NEW r \in Requests, UpstreamOk(r) PROVE CallsSoFar'
  BY <1>0, <1>1, <1>23 DEF UpstreamOk, Goto, Finish, FlowOK, HistoryOK,
    CallsSoFar, At, IsLast
<1>24. ASSUME NEW r \in Requests, UpstreamFails(r) PROVE CallsSoFar'
  BY <1>0, <1>1, <1>24 DEF UpstreamFails, Goto, Failed, FlowOK, HistoryOK,
    CallsSoFar, At, IsLast
<1>25. ASSUME NEW r \in Requests, UpstreamBreaks(r) PROVE CallsSoFar'
  BY <1>0, <1>1, <1>25 DEF UpstreamBreaks, Goto, Finish, FlowOK, HistoryOK,
    CallsSoFar, At, IsLast
<1>26. ASSUME NEW r \in Requests, UpstreamCut(r) PROVE CallsSoFar'
  BY <1>0, <1>1, <1>26 DEF UpstreamCut, Goto, Failed, FlowOK, HistoryOK,
    CallsSoFar, At, IsLast
<1>27. ASSUME NEW r \in Requests, Unclaim(r) PROVE CallsSoFar'
  BY <1>0, <1>1, <1>27 DEF Unclaim, Goto, FlowOK, HistoryOK, CallsSoFar, At,
    IsLast
<1>28. ASSUME NEW r \in Requests, Excuse(r) PROVE CallsSoFar'
  <2>1. ASSUME NEW q \in Requests, q # r
        PROVE  /\ pc'[q] = pc[q] /\ idx'[q] = idx[q]
               /\ tries'[q] = tries[q] /\ calls'[q] = calls[q]
    BY <1>28, <2>1 DEF Excuse, Goto, Decide, Finish, NextTarget, FlowOK
  <2>2. /\ calls'[r] = calls[r] /\ calls[r] \in Nat
        /\ tries[r] \in 0 .. MaxAttempts /\ tries'[r] \in Nat
        /\ idx[r] \in Nat \ {0}
    BY <1>28, <1>0 DEF Excuse, Goto, Decide, Finish, NextTarget, FlowOK,
      HistoryOK
  <2>3. /\ calls[r] <= Budget(idx[r]) + tries[r]
        /\ pc[r] \in {"next", "shared"} => calls[r] <= Budget(idx[r])
    BY DEF CallsSoFar
  <2>4. \/ idx'[r] = idx[r] + 1
        \/ /\ idx'[r] = idx[r]
           /\ pc'[r] \in {"done", "park"} /\ tries'[r] = tries[r]
    BY <1>28 DEF Excuse, Goto, Decide, Finish, NextTarget, FlowOK, At
  <2>5. /\ calls'[r] <= Budget(idx'[r]) + tries'[r]
        /\ pc'[r] \in {"new", "next", "shared"} => calls'[r] <= Budget(idx'[r])
    <3>1. /\ Budget(idx[r]) \in Nat
          /\ Budget(idx[r] + 1) = Budget(idx[r]) + MaxAttempts
      BY <1>1, <2>2
    <3> QED
      BY <1>0, <2>2, <2>3, <2>4, <3>1
  <2> QED
    BY <2>1, <2>5 DEF CallsSoFar
<1>29. ASSUME NEW r \in Requests, BackOff(r) PROVE CallsSoFar'
  BY <1>0, <1>1, <1>29 DEF BackOff, Goto, Park, FlowOK, HistoryOK, CallsSoFar,
    At, IsLast
<1>30. ASSUME NEW r \in Requests, CountFailure(r) PROVE CallsSoFar'
  <2>1. ASSUME NEW q \in Requests, q # r
        PROVE  /\ pc'[q] = pc[q] /\ idx'[q] = idx[q]
               /\ tries'[q] = tries[q] /\ calls'[q] = calls[q]
    BY <1>30, <2>1 DEF CountFailure, Goto, Decide, Park, Finish, NextTarget,
      FlowOK
  <2>2. /\ calls'[r] = calls[r] /\ calls[r] \in Nat
        /\ tries[r] \in 0 .. MaxAttempts /\ tries'[r] \in Nat
        /\ idx[r] \in Nat \ {0}
    BY <1>30, <1>0 DEF CountFailure, Goto, Decide, Park, Finish, NextTarget,
      FlowOK, HistoryOK
  <2>3. /\ calls[r] <= Budget(idx[r]) + tries[r]
        /\ pc[r] \in {"next", "shared"} => calls[r] <= Budget(idx[r])
    BY DEF CallsSoFar
  <2>4. \/ idx'[r] = idx[r] + 1
        \/ /\ idx'[r] = idx[r]
           /\ pc'[r] \in {"done", "park"} /\ tries'[r] = tries[r]
    BY <1>30 DEF CountFailure, Goto, Decide, Park, Finish, NextTarget, FlowOK,
      At
  <2>5. /\ calls'[r] <= Budget(idx'[r]) + tries'[r]
        /\ pc'[r] \in {"new", "next", "shared"} => calls'[r] <= Budget(idx'[r])
    <3>1. /\ Budget(idx[r]) \in Nat
          /\ Budget(idx[r] + 1) = Budget(idx[r]) + MaxAttempts
      BY <1>1, <2>2
    <3> QED
      BY <1>0, <2>2, <2>3, <2>4, <3>1
  <2> QED
    BY <2>1, <2>5 DEF CallsSoFar
<1>31. ASSUME NEW r \in Requests, SharePark(r) PROVE CallsSoFar'
  <2>1. ASSUME NEW q \in Requests, q # r
        PROVE  /\ pc'[q] = pc[q] /\ idx'[q] = idx[q]
               /\ tries'[q] = tries[q] /\ calls'[q] = calls[q]
    BY <1>31, <2>1 DEF SharePark, Goto, Decide, Finish, NextTarget, FlowOK
  <2>2. /\ calls'[r] = calls[r] /\ calls[r] \in Nat
        /\ tries[r] \in 0 .. MaxAttempts /\ tries'[r] \in Nat
        /\ idx[r] \in Nat \ {0}
    BY <1>31, <1>0 DEF SharePark, Goto, Decide, Finish, NextTarget, FlowOK,
      HistoryOK
  <2>3. /\ calls[r] <= Budget(idx[r]) + tries[r]
        /\ pc[r] \in {"next", "shared"} => calls[r] <= Budget(idx[r])
    BY DEF CallsSoFar
  <2>4. \/ idx'[r] = idx[r] + 1
        \/ /\ idx'[r] = idx[r]
           /\ pc'[r] \in {"done", "park"} /\ tries'[r] = tries[r]
    <3>1. CASE Transient(err[r]) /\ ~IsLast(r)
      BY <1>31, <3>1 DEF SharePark, Decide, NextTarget, FlowOK
    <3>2. CASE ~(Transient(err[r]) /\ ~IsLast(r))
      BY <1>31, <3>2 DEF SharePark, Decide, Finish, Goto, FlowOK
    <3> QED
      BY <3>1, <3>2
  <2>5. /\ calls'[r] <= Budget(idx'[r]) + tries'[r]
        /\ pc'[r] \in {"new", "next", "shared"} => calls'[r] <= Budget(idx'[r])
    <3>1. /\ Budget(idx[r]) \in Nat
          /\ Budget(idx[r] + 1) = Budget(idx[r]) + MaxAttempts
      BY <1>1, <2>2
    <3> QED
      BY <1>0, <2>2, <2>3, <2>4, <3>1
  <2> QED
    BY <2>1, <2>5 DEF CallsSoFar
<1>32. ASSUME NEW r \in Requests, Store(r) PROVE CallsSoFar'
  BY <1>0, <1>1, <1>32 DEF Store, Goto, Finish, FlowOK, HistoryOK, CallsSoFar,
    At, IsLast
<1>33. ASSUME NEW r \in Requests, Release(r) PROVE CallsSoFar'
  BY <1>0, <1>1, <1>33 DEF Release, Goto, Finish, FlowOK, HistoryOK,
    CallsSoFar, At, IsLast
<1>34. ASSUME NEW r \in Requests, RunOut(r) PROVE CallsSoFar'
  BY <1>0, <1>1, <1>34 DEF RunOut, FlowOK, HistoryOK, CallsSoFar, At, IsLast
<1>35. ASSUME NEW k \in Targets, ClaimLapses(k) PROVE CallsSoFar'
  BY <1>0, <1>1, <1>35 DEF ClaimLapses, FlowOK, HistoryOK, CallsSoFar, flow
<1>36. ASSUME NEW k \in Targets, EntryLapses(k) PROVE CallsSoFar'
  BY <1>0, <1>1, <1>36 DEF EntryLapses, FlowOK, HistoryOK, CallsSoFar, flow
<1>37. ASSUME NEW p \in Providers, MarkLapses(p) PROVE CallsSoFar'
  BY <1>0, <1>1, <1>37 DEF MarkLapses, FlowOK, HistoryOK, CallsSoFar, flow
<1>38. ASSUME NEW w \in Workers, NEW p \in Providers, CooldownLapses(w, p) PROVE CallsSoFar'
  BY <1>0, <1>1, <1>38 DEF CooldownLapses, FlowOK, HistoryOK, CallsSoFar, flow
<1>39. ASSUME NEW w \in Workers, Crash(w) PROVE CallsSoFar'
  BY <1>0, <1>1, <1>39 DEF Crash, FlowOK, HistoryOK, CallsSoFar, flow
<1>40. ASSUME UNCHANGED vars PROVE CallsSoFar'
  BY <1>40 DEF vars, flow, CallsSoFar
<1> QED
  BY <1>11, <1>12, <1>13, <1>14, <1>15, <1>16, <1>17, <1>18, <1>19, <1>20,
    <1>21, <1>22, <1>23, <1>24, <1>25, <1>26, <1>27, <1>28, <1>29, <1>30,
    <1>31, <1>32, <1>33, <1>34, <1>35, <1>36, <1>37, <1>38, <1>39, <1>40 DEF
    Next, Step

\* What a client waits for is bounded: at most MaxAttempts upstream calls for
\* each target of its chain, however the attempts end.
THEOREM CallsStayBounded == Spec => []CallsBounded
<1>1. Init => CallsSoFar
  BY BudgetGrows DEF Init, CallsSoFar
<1>2. TypeOK /\ Bounds /\ CallsSoFar => CallsBounded
  <2> SUFFICES ASSUME FlowOK, HistoryOK, Bounds, CallsSoFar, NEW r \in Requests
               PROVE  calls[r] <= MaxAttempts * Len(Chain[r])
    BY DEF TypeOK, CallsBounded
  <2>1. MaxAttempts \in Nat \ {0} /\ Len(Chain[r]) \in Nat
    BY ChatAssumption
  <2>2. idx[r] \in Nat \ {0} /\ idx[r] <= Len(Chain[r]) /\ calls[r] \in Nat
        /\ tries[r] \in 0 .. MaxAttempts
    BY DEF FlowOK, HistoryOK, Bounds
  <2>3. calls[r] <= Budget(idx[r]) + MaxAttempts
    <3>1. calls[r] <= Budget(idx[r]) + tries[r]
      BY DEF CallsSoFar
    <3>2. Budget(idx[r]) \in Nat
      BY <2>2, BudgetGrows
    <3> QED
      BY <2>1, <2>2, <3>1, <3>2
  <2>4. MaxAttempts * idx[r] <= MaxAttempts * Len(Chain[r])
    BY <2>1, <2>2
  <2> QED
    BY <2>1, <2>2, <2>3, <2>4 DEF Budget
<1> QED
  BY <1>1, <1>2, CallsStep, TypeInvariant, PTL DEF Spec

-----------------------------------------------------------------------------
(* What a claim and an error are followed by *)

\* A step keeps every entry with a request that will delete it.
LEMMA HoldingStep == TypeOK /\ Bounds /\ Holding /\ [Next]_vars => Holding'
<1> SUFFICES ASSUME FlowOK, CacheOK, Bounds, Holding, [Next]_vars
              PROVE  Holding'
  BY DEF TypeOK
<1>0. \A r \in Requests : K(r) \in Targets /\ r # Nobody
  BY ChatAssumption, ChainTargets DEF Bounds, FlowOK, K, Nobody
<1>1. ASSUME NEW r \in Requests, Arrive(r) PROVE Holding'
  BY <1>0, <1>1 DEF Arrive, Goto, FlowOK, CacheOK, Holding, K, Calling, At,
    cache
<1>2. ASSUME NEW r \in Requests, OutOfBudget(r) PROVE Holding'
  BY <1>0, <1>2 DEF OutOfBudget, Goto, Finish, FlowOK, CacheOK, Holding, K,
    Calling, At, cache
<1>3. ASSUME NEW r \in Requests, StartTarget(r) PROVE Holding'
  BY <1>0, <1>3 DEF StartTarget, Goto, Attempt, NextTarget, FlowOK, CacheOK,
    Holding, K, Calling, At, cache
<1>4. ASSUME NEW r \in Requests, SharedCheck(r) PROVE Holding'
  BY <1>0, <1>4 DEF SharedCheck, Goto, Attempt, NextTarget, FlowOK, CacheOK,
    Holding, K, Calling, At, cache
<1>5. ASSUME NEW r \in Requests, Lookup(r) PROVE Holding'
  BY <1>0, <1>5 DEF Lookup, Goto, ReadCache, Finish, FlowOK, CacheOK, Holding,
    K, Calling, At, cache
<1>6. ASSUME NEW r \in Requests, Claim(r) PROVE Holding'
  <2>1. /\ \A q \in Requests : q # r => pc'[q] = pc[q] /\ holds'[q] = holds[q]
        /\ UNCHANGED <<idx, err>>
    BY <1>6 DEF Claim, TakeClaim, Goto, FlowOK
  <2>2. pc[r] \in {"claim", "reclaim"} /\ \A k \in Targets : claim[k] # r
    BY <1>6 DEF Claim, At, Holding, Calling
  <2>3. /\ \A k \in Targets : claim'[k] = IF k = K(r) /\ claim[k] = Nobody THEN r ELSE claim[k]
        /\ holds'[r] = (claim[K(r)] = Nobody)
        /\ pc'[r] = IF claim[K(r)] = Nobody THEN "call" ELSE "poll"
    BY <1>6 DEF Claim, TakeClaim, Goto, FlowOK, CacheOK
  <2>4. K(r)' = K(r)
    BY <2>1 DEF K
  <2>5. \A k \in Targets, q \in Requests : claim'[k] = q =>
          \/ pc'[q] = "dead"
          \/ pc'[q] = "done" /\ err'[q] = "broken"
          \/ pc'[q] \in Calling /\ holds'[q] /\ K(q)' = k
    <3> SUFFICES ASSUME NEW k \in Targets, NEW q \in Requests, claim'[k] = q
                 PROVE  \/ pc'[q] = "dead"
                        \/ pc'[q] = "done" /\ err'[q] = "broken"
                        \/ pc'[q] \in Calling /\ holds'[q] /\ K(q)' = k
      OBVIOUS
    <3>1. CASE q = r
      BY <1>0, <2>2, <2>3, <2>4, <3>1 DEF Calling
    <3>2. CASE q # r
      <4>1. claim[k] = q /\ K(q)' = K(q)
        BY <1>0, <2>1, <2>3, <3>2 DEF K
      <4> QED
        BY <2>1, <3>2, <4>1 DEF Holding
    <3> QED
      BY <3>1, <3>2
  <2>6. \A q \in Requests :
          /\ holds'[q] => pc'[q] \in Calling /\ q \in CacheUsers
          /\ pc'[q] \in {"lookup", "claim", "poll", "pollclaim", "reclaim"} => q \in CacheUsers
          /\ err'[q] = "broken" => "broken" \in Errors
    BY <2>1, <2>2, <2>3 DEF Holding, Calling
  <2> QED
    BY <2>5, <2>6 DEF Holding
<1>7. ASSUME NEW r \in Requests, Poll(r) PROVE Holding'
  BY <1>0, <1>7 DEF Poll, Goto, ReadCache, Finish, FlowOK, CacheOK, Holding,
    K, Calling, At, cache
<1>8. ASSUME NEW r \in Requests, PollClaim(r) PROVE Holding'
  BY <1>0, <1>8 DEF PollClaim, Goto, FlowOK, CacheOK, Holding, K, Calling, At,
    cache
<1>9. ASSUME NEW r \in Requests, PollsOver(r) PROVE Holding'
  BY <1>0, <1>9 DEF PollsOver, Goto, ReadCache, Finish, FlowOK, CacheOK,
    Holding, K, Calling, At, cache
<1>10. ASSUME NEW r \in Requests, Reclaim(r) PROVE Holding'
  <2>1. /\ \A q \in Requests : q # r => pc'[q] = pc[q] /\ holds'[q] = holds[q]
        /\ UNCHANGED <<idx, err>>
    BY <1>10 DEF Reclaim, TakeClaim, Goto, FlowOK
  <2>2. pc[r] \in {"claim", "reclaim"} /\ \A k \in Targets : claim[k] # r
    BY <1>10 DEF Reclaim, At, Holding, Calling
  <2>3. /\ \A k \in Targets : claim'[k] = IF k = K(r) /\ claim[k] = Nobody THEN r ELSE claim[k]
        /\ holds'[r] = (claim[K(r)] = Nobody)
        /\ pc'[r] = "call"
    BY <1>10 DEF Reclaim, TakeClaim, Goto, FlowOK, CacheOK
  <2>4. K(r)' = K(r)
    BY <2>1 DEF K
  <2>5. \A k \in Targets, q \in Requests : claim'[k] = q =>
          \/ pc'[q] = "dead"
          \/ pc'[q] = "done" /\ err'[q] = "broken"
          \/ pc'[q] \in Calling /\ holds'[q] /\ K(q)' = k
    <3> SUFFICES ASSUME NEW k \in Targets, NEW q \in Requests, claim'[k] = q
                 PROVE  \/ pc'[q] = "dead"
                        \/ pc'[q] = "done" /\ err'[q] = "broken"
                        \/ pc'[q] \in Calling /\ holds'[q] /\ K(q)' = k
      OBVIOUS
    <3>1. CASE q = r
      BY <1>0, <2>2, <2>3, <2>4, <3>1 DEF Calling
    <3>2. CASE q # r
      <4>1. claim[k] = q /\ K(q)' = K(q)
        BY <1>0, <2>1, <2>3, <3>2 DEF K
      <4> QED
        BY <2>1, <3>2, <4>1 DEF Holding
    <3> QED
      BY <3>1, <3>2
  <2>6. \A q \in Requests :
          /\ holds'[q] => pc'[q] \in Calling /\ q \in CacheUsers
          /\ pc'[q] \in {"lookup", "claim", "poll", "pollclaim", "reclaim"} => q \in CacheUsers
          /\ err'[q] = "broken" => "broken" \in Errors
    BY <2>1, <2>2, <2>3 DEF Holding, Calling
  <2> QED
    BY <2>5, <2>6 DEF Holding
<1>11. ASSUME NEW r \in Requests, CallTooLate(r) PROVE Holding'
  BY <1>0, <1>11 DEF CallTooLate, Goto, Failed, FlowOK, CacheOK, Holding, K,
    Calling, At, cache
<1>12. ASSUME NEW r \in Requests, Call(r) PROVE Holding'
  BY <1>0, <1>12 DEF Call, Goto, FlowOK, CacheOK, Holding, K, Calling, At,
    cache
<1>13. ASSUME NEW r \in Requests, UpstreamOk(r) PROVE Holding'
  BY <1>0, <1>13 DEF UpstreamOk, Goto, Finish, FlowOK, CacheOK, Holding, K,
    Calling, At, cache
<1>14. ASSUME NEW r \in Requests, UpstreamFails(r) PROVE Holding'
  BY <1>0, <1>14 DEF UpstreamFails, Goto, Failed, FlowOK, CacheOK, Holding, K,
    Calling, At, cache
<1>15. ASSUME NEW r \in Requests, UpstreamBreaks(r) PROVE Holding'
  BY <1>0, <1>15 DEF UpstreamBreaks, Goto, Finish, FlowOK, CacheOK, Holding,
    K, Calling, At, cache
<1>16. ASSUME NEW r \in Requests, UpstreamCut(r) PROVE Holding'
  BY <1>0, <1>16 DEF UpstreamCut, Goto, Failed, FlowOK, CacheOK, Holding, K,
    Calling, At, cache
<1>17. ASSUME NEW r \in Requests, Unclaim(r) PROVE Holding'
  BY <1>0, <1>17 DEF Unclaim, Goto, FlowOK, CacheOK, Holding, K, Calling, At,
    cache
<1>18. ASSUME NEW r \in Requests, Excuse(r) PROVE Holding'
  BY <1>0, <1>18 DEF Excuse, Goto, Decide, Finish, NextTarget, FlowOK,
    CacheOK, Holding, K, Calling, At, cache
<1>19. ASSUME NEW r \in Requests, BackOff(r) PROVE Holding'
  BY <1>0, <1>19 DEF BackOff, Goto, Park, FlowOK, CacheOK, Holding, K,
    Calling, At, cache
<1>20. ASSUME NEW r \in Requests, CountFailure(r) PROVE Holding'
  BY <1>0, <1>20 DEF CountFailure, Goto, Decide, Park, Finish, NextTarget,
    FlowOK, CacheOK, Holding, K, Calling, At, cache
<1>21. ASSUME NEW r \in Requests, SharePark(r) PROVE Holding'
  BY <1>0, <1>21 DEF SharePark, Goto, Decide, Finish, NextTarget, FlowOK,
    CacheOK, Holding, K, Calling, At, cache
<1>22. ASSUME NEW r \in Requests, Store(r) PROVE Holding'
  BY <1>0, <1>22 DEF Store, Goto, Finish, FlowOK, CacheOK, Holding, K,
    Calling, At, cache
<1>23. ASSUME NEW r \in Requests, Release(r) PROVE Holding'
  BY <1>0, <1>23 DEF Release, Goto, Finish, FlowOK, CacheOK, Holding, K,
    Calling, At, cache
<1>24. ASSUME NEW r \in Requests, RunOut(r) PROVE Holding'
  BY <1>0, <1>24 DEF RunOut, FlowOK, CacheOK, Holding, K, Calling, At, cache
<1>25. ASSUME NEW k \in Targets, ClaimLapses(k) PROVE Holding'
  BY <1>0, <1>25 DEF ClaimLapses, flow, FlowOK, CacheOK, Holding, K, Calling,
    At, cache
<1>26. ASSUME NEW k \in Targets, EntryLapses(k) PROVE Holding'
  BY <1>0, <1>26 DEF EntryLapses, flow, FlowOK, CacheOK, Holding, K, Calling,
    At, cache
<1>27. ASSUME NEW p \in Providers, MarkLapses(p) PROVE Holding'
  BY <1>0, <1>27 DEF MarkLapses, flow, FlowOK, CacheOK, Holding, K, Calling,
    At, cache
<1>28. ASSUME NEW w \in Workers, NEW p \in Providers, CooldownLapses(w, p) PROVE Holding'
  BY <1>0, <1>28 DEF CooldownLapses, flow, FlowOK, CacheOK, Holding, K,
    Calling, At, cache
<1>29. ASSUME NEW w \in Workers, Crash(w) PROVE Holding'
  BY <1>0, <1>29, ZenonT(40) DEF Crash, flow, FlowOK, CacheOK, Holding, K, Calling, At,
    cache
<1>30. ASSUME UNCHANGED vars PROVE Holding'
  BY <1>30 DEF vars, flow, cache, FlowOK, CacheOK, Holding, K, Calling, At
<1> QED
  BY <1>1, <1>2, <1>3, <1>4, <1>5, <1>6, <1>7, <1>8, <1>9, <1>10, <1>11,
    <1>12, <1>13, <1>14, <1>15, <1>16, <1>17, <1>18, <1>19, <1>20, <1>21,
    <1>22, <1>23, <1>24, <1>25, <1>26, <1>27, <1>28, <1>29, <1>30 DEF Next,
    Step

\* The only request that leaves an entry of its own behind is one whose call
\* ended in an error the handler does not catch (_handle_chat).
THEOREM ClaimsAreGivenBack ==
  Spec => [](\A k \in Targets : claim[k] # Nobody =>
               \/ pc[claim[k]] = "dead"
               \/ pc[claim[k]] = "done" /\ err[claim[k]] = "broken"
               \/ pc[claim[k]] \in Calling /\ K(claim[k]) = k)
<1>1. Init => Holding
  BY ChatAssumption DEF Init, Holding, Nobody
<1>2. TypeOK /\ Holding => \A k \in Targets : claim[k] # Nobody =>
               \/ pc[claim[k]] = "dead"
               \/ pc[claim[k]] = "done" /\ err[claim[k]] = "broken"
               \/ pc[claim[k]] \in Calling /\ K(claim[k]) = k
  BY DEF TypeOK, CacheOK, Holding
<1> QED
  BY <1>1, <1>2, HoldingStep, TypeInvariant, PTL DEF Spec

\* A claim belongs to a request at work on its target or to one whose worker
\* died, TTLs or not, as long as every upstream failure is a ProviderError.
THEOREM ClaimsAreHeld ==
  ASSUME "broken" \notin Errors PROVE Spec => []ClaimHasHolder
<1>1. Init => Holding
  BY ChatAssumption DEF Init, Holding, Nobody
<1>2. TypeOK /\ Holding => ClaimHasHolder
  BY DEF TypeOK, CacheOK, Holding, ClaimHasHolder
<1> QED
  BY <1>1, <1>2, HoldingStep, TypeInvariant, PTL DEF Spec

\* A step keeps in mind what went wrong, until there is nothing left to try.
LEMMA RememberedStep == TypeOK /\ Bounds /\ Remembered /\ [Next]_vars => Remembered'
<1> SUFFICES ASSUME FlowOK, Bounds, Remembered, [Next]_vars
              PROVE  Remembered'
  BY DEF TypeOK
<1>0. /\ Errors \subseteq {"4xx", "429", "5xx", "broken"}
      /\ MaxAttempts \in Nat \ {0}
  BY ChatAssumption
<1>1. ASSUME NEW r \in Requests, Arrive(r) PROVE Remembered'
  BY <1>0, <1>1 DEF Arrive, Goto, FlowOK, Remembered, IsLast, BeforeCall,
    Transient, At
<1>2. ASSUME NEW r \in Requests, OutOfBudget(r) PROVE Remembered'
  BY <1>0, <1>2 DEF OutOfBudget, Goto, Finish, FlowOK, Remembered, IsLast,
    BeforeCall, Transient, At
<1>3. ASSUME NEW r \in Requests, StartTarget(r) PROVE Remembered'
  BY <1>0, <1>3 DEF StartTarget, Goto, Attempt, NextTarget, FlowOK,
    Remembered, IsLast, BeforeCall, Transient, At
<1>4. ASSUME NEW r \in Requests, SharedCheck(r) PROVE Remembered'
  BY <1>0, <1>4 DEF SharedCheck, Goto, Attempt, NextTarget, FlowOK,
    Remembered, IsLast, BeforeCall, Transient, At
<1>5. ASSUME NEW r \in Requests, Lookup(r) PROVE Remembered'
  BY <1>0, <1>5 DEF Lookup, Goto, ReadCache, Finish, FlowOK, Remembered,
    IsLast, BeforeCall, Transient, At
<1>6. ASSUME NEW r \in Requests, Claim(r) PROVE Remembered'
  BY <1>0, <1>6 DEF Claim, Goto, TakeClaim, FlowOK, Remembered, IsLast,
    BeforeCall, Transient, At
<1>7. ASSUME NEW r \in Requests, Poll(r) PROVE Remembered'
  BY <1>0, <1>7 DEF Poll, Goto, ReadCache, Finish, FlowOK, Remembered, IsLast,
    BeforeCall, Transient, At
<1>8. ASSUME NEW r \in Requests, PollClaim(r) PROVE Remembered'
  BY <1>0, <1>8 DEF PollClaim, Goto, FlowOK, Remembered, IsLast, BeforeCall,
    Transient, At
<1>9. ASSUME NEW r \in Requests, PollsOver(r) PROVE Remembered'
  BY <1>0, <1>9 DEF PollsOver, Goto, ReadCache, Finish, FlowOK, Remembered,
    IsLast, BeforeCall, Transient, At
<1>10. ASSUME NEW r \in Requests, Reclaim(r) PROVE Remembered'
  BY <1>0, <1>10 DEF Reclaim, Goto, TakeClaim, FlowOK, Remembered, IsLast,
    BeforeCall, Transient, At
<1>11. ASSUME NEW r \in Requests, CallTooLate(r) PROVE Remembered'
  BY <1>0, <1>11 DEF CallTooLate, Goto, Failed, FlowOK, Remembered, IsLast,
    BeforeCall, Transient, At
<1>12. ASSUME NEW r \in Requests, Call(r) PROVE Remembered'
  BY <1>0, <1>12 DEF Call, Goto, FlowOK, Remembered, IsLast, BeforeCall,
    Transient, At
<1>13. ASSUME NEW r \in Requests, UpstreamOk(r) PROVE Remembered'
  BY <1>0, <1>13 DEF UpstreamOk, Goto, Finish, FlowOK, Remembered, IsLast,
    BeforeCall, Transient, At
<1>14. ASSUME NEW r \in Requests, UpstreamFails(r) PROVE Remembered'
  BY <1>0, <1>14 DEF UpstreamFails, Goto, Failed, FlowOK, Remembered, IsLast,
    BeforeCall, Transient, At
<1>15. ASSUME NEW r \in Requests, UpstreamBreaks(r) PROVE Remembered'
  BY <1>0, <1>15 DEF UpstreamBreaks, Goto, Finish, FlowOK, Remembered, IsLast,
    BeforeCall, Transient, At
<1>16. ASSUME NEW r \in Requests, UpstreamCut(r) PROVE Remembered'
  BY <1>0, <1>16 DEF UpstreamCut, Goto, Failed, FlowOK, Remembered, IsLast,
    BeforeCall, Transient, At
<1>17. ASSUME NEW r \in Requests, Unclaim(r) PROVE Remembered'
  BY <1>0, <1>17 DEF Unclaim, Goto, FlowOK, Remembered, IsLast, BeforeCall,
    Transient, At
<1>18. ASSUME NEW r \in Requests, Excuse(r) PROVE Remembered'
  BY <1>0, <1>18 DEF Excuse, Goto, Decide, Finish, NextTarget, FlowOK,
    Remembered, IsLast, BeforeCall, Transient, At
<1>19. ASSUME NEW r \in Requests, BackOff(r) PROVE Remembered'
  BY <1>0, <1>19 DEF BackOff, Goto, Park, FlowOK, Remembered, IsLast,
    BeforeCall, Transient, At
<1>20. ASSUME NEW r \in Requests, CountFailure(r) PROVE Remembered'
  BY <1>0, <1>20 DEF CountFailure, Goto, Decide, Park, Finish, NextTarget,
    FlowOK, Remembered, IsLast, BeforeCall, Transient, At
<1>21. ASSUME NEW r \in Requests, SharePark(r) PROVE Remembered'
  BY <1>0, <1>21 DEF SharePark, Goto, Decide, Finish, NextTarget, FlowOK,
    Remembered, IsLast, BeforeCall, Transient, At
<1>22. ASSUME NEW r \in Requests, Store(r) PROVE Remembered'
  BY <1>0, <1>22 DEF Store, Goto, Finish, FlowOK, Remembered, IsLast,
    BeforeCall, Transient, At
<1>23. ASSUME NEW r \in Requests, Release(r) PROVE Remembered'
  BY <1>0, <1>23 DEF Release, Goto, Finish, FlowOK, Remembered, IsLast,
    BeforeCall, Transient, At
<1>24. ASSUME NEW r \in Requests, RunOut(r) PROVE Remembered'
  BY <1>0, <1>24 DEF RunOut, FlowOK, Remembered, IsLast, BeforeCall,
    Transient, At
<1>25. ASSUME NEW k \in Targets, ClaimLapses(k) PROVE Remembered'
  BY <1>0, <1>25 DEF ClaimLapses, flow, FlowOK, Remembered, IsLast,
    BeforeCall, Transient, At
<1>26. ASSUME NEW k \in Targets, EntryLapses(k) PROVE Remembered'
  BY <1>0, <1>26 DEF EntryLapses, flow, FlowOK, Remembered, IsLast,
    BeforeCall, Transient, At
<1>27. ASSUME NEW p \in Providers, MarkLapses(p) PROVE Remembered'
  BY <1>0, <1>27 DEF MarkLapses, flow, FlowOK, Remembered, IsLast, BeforeCall,
    Transient, At
<1>28. ASSUME NEW w \in Workers, NEW p \in Providers, CooldownLapses(w, p) PROVE Remembered'
  BY <1>0, <1>28 DEF CooldownLapses, flow, FlowOK, Remembered, IsLast,
    BeforeCall, Transient, At
<1>29. ASSUME NEW w \in Workers, Crash(w) PROVE Remembered'
  BY <1>0, <1>29 DEF Crash, flow, FlowOK, Remembered, IsLast, BeforeCall,
    Transient, At
<1>30. ASSUME UNCHANGED vars PROVE Remembered'
  BY <1>30 DEF vars, flow, cache, FlowOK, Remembered, IsLast, BeforeCall,
    Transient, At
<1> QED
  BY <1>1, <1>2, <1>3, <1>4, <1>5, <1>6, <1>7, <1>8, <1>9, <1>10, <1>11,
    <1>12, <1>13, <1>14, <1>15, <1>16, <1>17, <1>18, <1>19, <1>20, <1>21,
    <1>22, <1>23, <1>24, <1>25, <1>26, <1>27, <1>28, <1>29, <1>30 DEF Next,
    Step

\* A client is told of an error only when no target is left, when another target
\* would not cure it, or when the budget is gone: skipped, cooling and failed
\* targets included (the loop of _handle_chat).
THEOREM TargetsAreTried == Spec => []NoTargetForgotten
<1>1. Init => Remembered
  BY DEF Init, Remembered, BeforeCall
<1>2. Remembered => NoTargetForgotten
  BY DEF Remembered, NoTargetForgotten
<1> QED
  BY <1>1, <1>2, RememberedStep, TypeInvariant, PTL DEF Spec

-----------------------------------------------------------------------------
(* Conversation: blocks, and what is said of them *)

\* The values of a conversation: what is said, the kinds of blocks, the names of
\* functions, ids and blocks.
SaidItem == Nat \X Nat
AllKinds == {"thinking", "extra", "text", "call", "result"}
Names == Functions \cup {"none", "unknown", "upstream"}
CallId == [name : Names, turn : Nat, n : Nat]
ABlock == [kind : AllKinds, said : Seq(SaidItem), id : CallId, name : Names, answers : Seq(SaidItem), mark : BOOLEAN]

\* The ids of upstreams bear a turn, and those of adapters none.
LEMMA CallIds ==
  /\ NoId \in CallId /\ NoId.turn = 0
  /\ \A x \in SaidItem : UpstreamId(x) \in CallId /\ UpstreamId(x).turn = x[1] /\ UpstreamId(x).n = x[2]
  /\ \A f \in Names, i \in Nat : /\ AdapterId(f, i) \in CallId /\ AdapterId(f, i).turn = 0
                                 /\ AdapterId(f, i).name = f /\ AdapterId(f, i).n = i
BY DEF CallId, NoId, UpstreamId, AdapterId, Names, SaidItem

\* A block that is made has these fields.
LEMMA Blocked ==
  ASSUME NEW k \in AllKinds, NEW xs \in Seq(SaidItem)
  PROVE  /\ Block(k, xs) \in ABlock
         /\ Block(k, xs).kind = k /\ Block(k, xs).said = xs /\ Block(k, xs).mark = FALSE
         /\ Block(k, xs).id = NoId /\ Block(k, xs).answers = <<>> /\ Block(k, xs).name = "none"
<1>1. NoId \in CallId /\ <<>> \in Seq(SaidItem) /\ "none" \in Names
  BY CallIds DEF Names
<1> QED
  BY <1>1 DEF Block, ABlock

\* A block of which one field is changed keeps the others.
LEMMA Changed ==
  ASSUME NEW b \in ABlock
  PROVE  /\ \A x \in CallId : [b EXCEPT !.id = x] \in ABlock /\ [b EXCEPT !.id = x].id = x
                 /\ [b EXCEPT !.id = x].kind = b.kind /\ [b EXCEPT !.id = x].said = b.said
                 /\ [b EXCEPT !.id = x].name = b.name /\ [b EXCEPT !.id = x].answers = b.answers
                 /\ [b EXCEPT !.id = x].mark = b.mark
         /\ \A x \in Names : [b EXCEPT !.name = x] \in ABlock /\ [b EXCEPT !.name = x].id = b.id
                 /\ [b EXCEPT !.name = x].kind = b.kind /\ [b EXCEPT !.name = x].said = b.said
                 /\ [b EXCEPT !.name = x].name = x /\ [b EXCEPT !.name = x].answers = b.answers
                 /\ [b EXCEPT !.name = x].mark = b.mark
         /\ \A x \in BOOLEAN : [b EXCEPT !.mark = x] \in ABlock /\ [b EXCEPT !.mark = x].id = b.id
                 /\ [b EXCEPT !.mark = x].kind = b.kind /\ [b EXCEPT !.mark = x].said = b.said
                 /\ [b EXCEPT !.mark = x].name = b.name /\ [b EXCEPT !.mark = x].answers = b.answers
                 /\ [b EXCEPT !.mark = x].mark = x
BY DEF ABlock

\* The functions that Said and OfKind spread.
SaidOf == [b \in ABlock |-> b.said]
Pick(ks) == [b \in ABlock |-> IF b.kind \in ks THEN One(b) ELSE <<>>]

\* (They make sequences of blocks.)
LEMMA Spreaders == SaidOf \in [ABlock -> Seq(SaidItem)] /\ \A ks : Pick(ks) \in [ABlock -> Seq(ABlock)]
<1>1. SaidOf \in [ABlock -> Seq(SaidItem)]
  BY DEF SaidOf, ABlock
<1>2. \A b \in ABlock : One(b) \in Seq(ABlock)
  BY OneOf
<1> QED
  BY <1>1, <1>2 DEF Pick

\* What blocks say is spread from them.
LEMMA SaidIs == ASSUME NEW bs \in Seq(ABlock) PROVE Said(bs) = Spread(bs, SaidOf)
<1>1. \A i \in 1..Len(bs) : bs[i].said = SaidOf[bs[i]]
  BY DEF SaidOf
<1>2. [i \in 1..Len(bs) |-> bs[i].said] = [i \in 1..Len(bs) |-> SaidOf[bs[i]]]
  BY <1>1
<1> QED
  BY <1>2 DEF Said, Each, Spread

\* (So are the blocks of some kinds.)
LEMMA KindIs == ASSUME NEW bs \in Seq(ABlock), NEW ks PROVE OfKind(bs, ks) = Spread(bs, Pick(ks))
<1>1. \A i \in 1..Len(bs) : (IF bs[i].kind \in ks THEN <<bs[i]>> ELSE <<>>) = Pick(ks)[bs[i]]
  BY DEF Pick, One
<1>2. [i \in 1..Len(bs) |-> IF bs[i].kind \in ks THEN <<bs[i]>> ELSE <<>>]
      = [i \in 1..Len(bs) |-> Pick(ks)[bs[i]]]
  BY <1>1
<1> QED
  BY <1>2 DEF OfKind, Each, Spread, Optional

\* What is said of blocks, and the blocks of some kinds: of any, of none, of two
\* sequences joined, of one.
LEMMA KindType ==
  ASSUME NEW bs \in Seq(ABlock)
  PROVE  Said(bs) \in Seq(SaidItem) /\ \A ks : OfKind(bs, ks) \in Seq(ABlock)
<1>1. Said(bs) \in Seq(SaidItem)
  BY SaidIs, SpreadType, Spreaders
<1>2. ASSUME NEW ks PROVE OfKind(bs, ks) \in Seq(ABlock)
  BY KindIs, SpreadType, Spreaders
<1> QED
  BY <1>1, <1>2

\* (Of none.)
LEMMA KindNothing == Said(<<>>) = <<>> /\ \A ks : OfKind(<<>>, ks) = <<>>
<1>1. <<>> \in Seq(ABlock)
  OBVIOUS
<1> QED
  BY <1>1, SaidIs, KindIs, SpreadNothing

\* (Of two sequences joined.)
LEMMA KindJoin ==
  ASSUME NEW bs \in Seq(ABlock), NEW cs \in Seq(ABlock)
  PROVE  /\ Said(bs \o cs) = Said(bs) \o Said(cs)
         /\ \A ks : OfKind(bs \o cs, ks) = OfKind(bs, ks) \o OfKind(cs, ks)
<1>1. bs \o cs \in Seq(ABlock)
  OBVIOUS
<1>2. Said(bs \o cs) = Said(bs) \o Said(cs)
  <2>1. SaidOf \in [ABlock -> Seq(SaidItem)]
    BY Spreaders
  <2>2. Spread(bs \o cs, SaidOf) = Spread(bs, SaidOf) \o Spread(cs, SaidOf)
    BY <2>1, SpreadConcat, ZenonT(40)
  <2> QED
    BY <1>1, <2>2, SaidIs
<1>3. ASSUME NEW ks PROVE OfKind(bs \o cs, ks) = OfKind(bs, ks) \o OfKind(cs, ks)
  <2>1. Pick(ks) \in [ABlock -> Seq(ABlock)]
    BY Spreaders
  <2>2. Spread(bs \o cs, Pick(ks)) = Spread(bs, Pick(ks)) \o Spread(cs, Pick(ks))
    BY <2>1, SpreadConcat, ZenonT(40)
  <2> QED
    BY <1>1, <2>2, KindIs
<1> QED
  BY <1>2, <1>3

\* (Of one.)
LEMMA KindOne ==
  ASSUME NEW b \in ABlock
  PROVE  /\ Said(One(b)) = b.said
         /\ \A ks : OfKind(One(b), ks) = IF b.kind \in ks THEN One(b) ELSE <<>>
<1>1. One(b) \in Seq(ABlock)
  BY OneOf
<1>2. Said(One(b)) = b.said
  <2>1. SaidOf \in [ABlock -> Seq(SaidItem)]
    BY Spreaders
  <2>2. Spread(One(b), SaidOf) = SaidOf[b]
    BY <2>1, SpreadOne
  <2>3. SaidOf[b] = b.said
    BY DEF SaidOf
  <2> QED
    BY <1>1, <2>2, <2>3, SaidIs
<1>3. ASSUME NEW ks PROVE OfKind(One(b), ks) = IF b.kind \in ks THEN One(b) ELSE <<>>
  <2>1. Pick(ks) \in [ABlock -> Seq(ABlock)]
    BY Spreaders
  <2>2. Spread(One(b), Pick(ks)) = Pick(ks)[b]
    BY <2>1, SpreadOne
  <2>3. Pick(ks)[b] = IF b.kind \in ks THEN One(b) ELSE <<>>
    BY DEF Pick
  <2> QED
    BY <1>1, <2>2, <2>3, KindIs
<1> QED
  BY <1>2, <1>3

\* All are of some kinds.
AllOf(bs, ks) == \A i \in 1..Len(bs) : bs[i].kind \in ks

\* (None, one, and two sequences joined.)
LEMMA AllOfNothing == ASSUME NEW ks PROVE AllOf(<<>>, ks)
BY DEF AllOf

\* (One.)
LEMMA AllOfOne == ASSUME NEW b \in ABlock, NEW ks, b.kind \in ks PROVE AllOf(One(b), ks)
<1>1. Len(One(b)) = 1 /\ One(b)[1] = b
  BY OneOf
<1> QED
  BY <1>1 DEF AllOf

\* (Two sequences.)
LEMMA AllOfJoin ==
  ASSUME NEW bs \in Seq(ABlock), NEW cs \in Seq(ABlock), NEW ks, AllOf(bs, ks), AllOf(cs, ks)
  PROVE  AllOf(bs \o cs, ks)
<1>1. /\ Len(bs) \in Nat /\ Len(cs) \in Nat /\ Len(bs \o cs) = Len(bs) + Len(cs)
      /\ \A i \in 1..Len(bs) : (bs \o cs)[i] = bs[i]
      /\ \A i \in 1..Len(cs) : (bs \o cs)[Len(bs) + i] = cs[i]
  OBVIOUS
<1>2. ASSUME NEW i \in 1..(Len(bs) + Len(cs)) PROVE (bs \o cs)[i].kind \in ks
  <2>1. CASE i \in 1..Len(bs)
    BY <1>1, <2>1 DEF AllOf
  <2>2. CASE i - Len(bs) \in 1..Len(cs)
    <3>1. (bs \o cs)[Len(bs) + (i - Len(bs))] = cs[i - Len(bs)] /\ Len(bs) + (i - Len(bs)) = i
      BY <1>1, <2>2
    <3> QED
      BY <2>2, <3>1 DEF AllOf
  <2> QED
    BY <1>1, <2>1, <2>2
<1> QED
  BY <1>1, <1>2 DEF AllOf

\* Blocks that are all of these kinds are the blocks of these kinds,
LEMMA KindAll ==
  ASSUME NEW bs \in Seq(ABlock), NEW ks, AllOf(bs, ks)
  PROVE  OfKind(bs, ks) = bs
<1> DEFINE f == [b \in ABlock |-> One(b)]
           h == [b \in ABlock |-> b]
<1>1. \A i \in 1..Len(bs) : bs[i] \in ABlock
  OBVIOUS
<1>2. \A i \in 1..Len(bs) : Pick(ks)[bs[i]] = f[bs[i]]
  BY <1>1 DEF Pick, AllOf
<1>3. (\A b \in ABlock : f[b] = One(h[b])) /\ h \in [ABlock -> ABlock]
  OBVIOUS
<1>4. \A i \in 1..Len(bs) : h[bs[i]] = bs[i]
  BY <1>1
<1> HIDE DEF f, h
<1>5. Spread(bs, Pick(ks)) = Spread(bs, f)
  BY <1>2, SpreadSame
<1>6. Spread(bs, f) \in Seq(ABlock) /\ Len(Spread(bs, f)) = Len(bs)
      /\ \A i \in 1..Len(bs) : Spread(bs, f)[i] = h[bs[i]]
  <2>1. Singly(f, h, ABlock) /\ h \in [ABlock -> ABlock] /\ bs \in Seq(ABlock)
    BY <1>3 DEF Singly
  <2> QED
    BY <2>1, SpreadEach
<1>7. Spread(bs, f) = bs
  BY <1>4, <1>6, SeqEqual
<1> QED
  BY <1>5, <1>7, KindIs

\* and there are none of other kinds.
LEMMA KindNone ==
  ASSUME NEW bs \in Seq(ABlock), NEW ks, NEW ls, AllOf(bs, ls), ks \cap ls = {}
  PROVE  OfKind(bs, ks) = <<>>
<1> DEFINE T == {s \in Seq(ABlock) : AllOf(s, ls) => OfKind(s, ks) = <<>>}
<1>1. <<>> \in T
  <2>1. <<>> \in Seq(ABlock)
    OBVIOUS
  <2> QED
    BY <2>1, KindNothing
<1>2. ASSUME NEW s \in Seq(ABlock) \cap T, NEW b \in ABlock PROVE Append(s, b) \in T
  <2>1. s \in Seq(ABlock) /\ Append(s, b) \in Seq(ABlock) /\ Len(Append(s, b)) = Len(s) + 1 /\ Len(s) \in Nat
        /\ (\A i \in 1..Len(s) : Append(s, b)[i] = s[i]) /\ Append(s, b)[Len(s) + 1] = b
    OBVIOUS
  <2>2. ASSUME AllOf(Append(s, b), ls) PROVE OfKind(Append(s, b), ks) = <<>>
    <3>1. AllOf(s, ls) /\ b.kind \in ls
      <4>1. \A i \in 1..Len(s) : i \in 1..(Len(s) + 1)
        BY <2>1
      <4>2. Len(s) + 1 \in 1..(Len(s) + 1)
        BY <2>1
      <4> QED
        BY <2>1, <2>2, <4>1, <4>2 DEF AllOf
    <3>2. Append(s, b) = s \o One(b) /\ One(b) \in Seq(ABlock)
      BY <2>1, AppendIsConcat, OneOf DEF One
    <3>3. OfKind(s \o One(b), ks) = OfKind(s, ks) \o OfKind(One(b), ks)
      BY <2>1, <3>2, KindJoin, SMTT(40)
    <3>4. OfKind(s, ks) = <<>>
      BY <1>2, <3>1
    <3>5. OfKind(One(b), ks) = <<>>
      BY <3>1, KindOne
    <3>6. <<>> \o <<>> = <<>>
      OBVIOUS
    <3> QED
      BY <3>2, <3>3, <3>4, <3>5, <3>6
  <2> QED
    BY <2>1, <2>2
<1> HIDE DEF T
<1>3. \A s \in Seq(ABlock) : s \in T
  BY <1>1, <1>2, AllSequences
<1> QED
  BY <1>3 DEF T

\* The items that blocks say, and the blocks of some kinds, one by one.
LEMMA KindHas ==
  ASSUME NEW bs \in Seq(ABlock)
  PROVE  /\ \A x : x \in ToSet(Said(bs)) <=> \E i \in 1..Len(bs) : x \in ToSet(bs[i].said)
         /\ \A ks, b : b \in ToSet(OfKind(bs, ks)) <=> b \in ToSet(bs) /\ b.kind \in ks
<1>1. \A x : x \in ToSet(Said(bs)) <=> \E i \in 1..Len(bs) : x \in ToSet(bs[i].said)
  <2>1. \A x : x \in ToSet(Spread(bs, SaidOf)) <=> \E i \in 1..Len(bs) : x \in ToSet(SaidOf[bs[i]])
    BY SpreadHas, Spreaders
  <2>2. \A i \in 1..Len(bs) : SaidOf[bs[i]] = bs[i].said
    BY DEF SaidOf
  <2> QED
    BY <2>1, <2>2, SaidIs
<1>2. ASSUME NEW ks, NEW b PROVE b \in ToSet(OfKind(bs, ks)) <=> b \in ToSet(bs) /\ b.kind \in ks
  <2>1. \A x : x \in ToSet(Spread(bs, Pick(ks))) <=> \E i \in 1..Len(bs) : x \in ToSet(Pick(ks)[bs[i]])
    BY SpreadHas, Spreaders
  <2>2. \A i \in 1..Len(bs) : ToSet(Pick(ks)[bs[i]]) = IF bs[i].kind \in ks THEN {bs[i]} ELSE {}
    <3> TAKE i \in 1..Len(bs)
    <3>1. bs[i] \in ABlock
      OBVIOUS
    <3>2. ToSet(One(bs[i])) = {bs[i]}
      BY <3>1, OneOf
    <3>3. ToSet(<<>>) = {}
      BY DEF ToSet
    <3> QED
      BY <3>1, <3>2, <3>3 DEF Pick
  <2>3. b \in ToSet(bs) <=> \E i \in 1..Len(bs) : b = bs[i]
    <3>1. DOMAIN bs = 1..Len(bs)
      OBVIOUS
    <3> QED
      BY <3>1 DEF ToSet
  <2>4. OfKind(bs, ks) = Spread(bs, Pick(ks))
    BY KindIs
  <2>5. b \in ToSet(OfKind(bs, ks)) <=> \E i \in 1..Len(bs) : b \in IF bs[i].kind \in ks THEN {bs[i]} ELSE {}
    BY <2>1, <2>2, <2>4
  <2> QED
    BY <2>3, <2>5
<1> QED
  BY <1>1, <1>2

\* The kinds of an answer, and the messages of the pipeline.
AnswerKinds == {"thinking", "extra", "text", "call"}
AMessage == [role : {"user", "assistant", "tool"}, text : Seq(SaidItem), calls : Seq(ABlock),
        thinking : Seq(ABlock), extra : Seq(ABlock), ordered : Seq(ABlock), result : ABlock, mark : BOOLEAN]

\* A block of turn j of an answer: it bears no mark, and says what was said in that turn.
From(b, j) == b.mark = FALSE /\ \A x \in ToSet(b.said) : x[1] = j

\* A call of the answer t, which is turn j: its item and its name are those of a block, and
\* its id tells the block, or the name.
CallOf(c, t, j) ==
  \E i \in 1..Len(t.blocks) :
    /\ c.said = One(<<j, i>>) /\ c.name = t.blocks[i].name
    /\ c.id = UpstreamId(<<j, i>>) \/ \E n \in Nat : c.id = AdapterId(c.name, n)

\* Ids in the order of their numbers.
Rising(cs) == \A a, b \in 1..Len(cs) : a < b => cs[a].id.n < cs[b].id.n

\* The answer of an upstream, as turn j.
AnswerTurn(t, j) ==
  /\ t.role = "assistant" /\ t.by \in Upstreams
  /\ t.blocks \in Seq(ABlock) /\ AllOf(t.blocks, AnswerKinds)
  /\ \A i \in 1..Len(t.blocks) :
       /\ t.blocks[i].said = One(<<j, i>>) /\ t.blocks[i].mark = FALSE
       /\ t.blocks[i].kind = "call" => t.blocks[i].id = UpstreamId(<<j, i>>)

\* A message whose fields have blocks of their kinds.
Kept(m) ==
  /\ m \in AMessage
  /\ AllOf(m.calls, {"call"}) /\ AllOf(m.thinking, {"thinking"}) /\ AllOf(m.extra, {"extra"})

\* The kinds of blocks, told of their set.
LEMMA AllOfSet == ASSUME NEW bs \in Seq(ABlock), NEW ks PROVE AllOf(bs, ks) <=> \A b \in ToSet(bs) : b.kind \in ks
BY ToSetOf DEF AllOf

\* A message that is made has these fields.
LEMMA Messaged ==
  ASSUME NEW r \in {"user", "assistant", "tool"}, NEW text \in Seq(SaidItem)
  PROVE  /\ Message(r, text) \in AMessage
         /\ Message(r, text).role = r /\ Message(r, text).text = text
         /\ Message(r, text).calls = <<>> /\ Message(r, text).thinking = <<>>
         /\ Message(r, text).extra = <<>> /\ Message(r, text).ordered = <<>>
         /\ Message(r, text).mark = FALSE
<1>1. Block("result", <<>>) \in ABlock
  <2>1. "result" \in AllKinds /\ <<>> \in Seq(SaidItem)
    BY DEF AllKinds
  <2> QED
    BY <2>1, Blocked
<1>2. <<>> \in Seq(ABlock)
  OBVIOUS
<1> QED
  BY <1>1, <1>2 DEF Message, AMessage

\* A block that may be left out.
LEMMA OptionalIs == ASSUME NEW c \in BOOLEAN, NEW b \in ABlock
  PROVE Optional(c, b) = (IF c THEN One(b) ELSE <<>>) /\ Optional(c, b) \in Seq(ABlock)
<1>1. Optional(c, b) = (IF c THEN One(b) ELSE <<>>)
  BY DEF Optional, One
<1> QED
  BY <1>1, OneOf

\* The text of a message as a block, if there is one.
TextBlock(m) == Optional(m.text # <<>>, Block("text", m.text))

\* The text of a message as a block.
LEMMA TextBlocked ==
  ASSUME NEW m \in AMessage
  PROVE  /\ TextBlock(m) \in Seq(ABlock) /\ AllOf(TextBlock(m), {"text"}) /\ Said(TextBlock(m)) = m.text
         /\ One(Block("text", m.text)) \in Seq(ABlock) /\ AllOf(One(Block("text", m.text)), {"text"})
         /\ Said(One(Block("text", m.text))) = m.text
<1> DEFINE b == Block("text", m.text)
<1>1. m.text \in Seq(SaidItem) /\ "text" \in AllKinds
  BY DEF AMessage, AllKinds
<1>2. b \in ABlock /\ b.kind = "text" /\ b.said = m.text
  BY <1>1, Blocked
<1> HIDE DEF b
<1>3. One(b) \in Seq(ABlock) /\ AllOf(One(b), {"text"}) /\ Said(One(b)) = m.text
  BY <1>2, OneOf, AllOfOne, KindOne
<1>4. TextBlock(m) = IF m.text # <<>> THEN One(b) ELSE <<>>
  BY <1>2, OptionalIs DEF TextBlock, b
<1>5. <<>> \in Seq(ABlock) /\ AllOf(<<>>, {"text"}) /\ Said(<<>>) = <<>>
  BY AllOfNothing, KindNothing
<1> QED
  BY <1>3, <1>4, <1>5 DEF b

\* What is in the fields, of each kind.
LEMMA FieldsApart ==
  ASSUME NEW m, Kept(m)
  PROVE  /\ FieldBlocks(m) \in Seq(ABlock) /\ AllOf(FieldBlocks(m), AnswerKinds)
         /\ Said(OfKind(FieldBlocks(m), {"text"})) = m.text
         /\ CallsIn(FieldBlocks(m)) = m.calls
         /\ OfKind(FieldBlocks(m), {"thinking"}) = m.thinking
         /\ OfKind(FieldBlocks(m), {"extra"}) = m.extra
<1> DEFINE a == m.thinking
           b == m.extra
           c == TextBlock(m)
           d == m.calls
<1>1. /\ a \in Seq(ABlock) /\ b \in Seq(ABlock) /\ c \in Seq(ABlock) /\ d \in Seq(ABlock) /\ m \in AMessage
      /\ AllOf(a, {"thinking"}) /\ AllOf(b, {"extra"}) /\ AllOf(c, {"text"}) /\ AllOf(d, {"call"})
      /\ Said(c) = m.text
  BY TextBlocked DEF Kept, AMessage
<1> DEFINE ab == a \o b
           abc == ab \o c
           F == abc \o d
<1>2. FieldBlocks(m) = F
  BY DEF FieldBlocks, TextBlock
<1> HIDE DEF a, b, c, d
<1>3. ab \in Seq(ABlock) /\ abc \in Seq(ABlock) /\ F \in Seq(ABlock)
  BY <1>1
<1>4. AllOf(a, AnswerKinds) /\ AllOf(b, AnswerKinds) /\ AllOf(c, AnswerKinds) /\ AllOf(d, AnswerKinds)
  BY <1>1 DEF AllOf, AnswerKinds
<1>5. AllOf(ab, AnswerKinds) /\ \A ks : OfKind(ab, ks) = OfKind(a, ks) \o OfKind(b, ks)
  BY <1>1, <1>4, AllOfJoin, KindJoin
<1> HIDE DEF ab
<1>6. AllOf(abc, AnswerKinds) /\ \A ks : OfKind(abc, ks) = OfKind(ab, ks) \o OfKind(c, ks)
  BY <1>1, <1>3, <1>4, <1>5, AllOfJoin, KindJoin, ZenonT(40)
<1> HIDE DEF abc
<1>7. AllOf(F, AnswerKinds) /\ \A ks : OfKind(F, ks) = OfKind(abc, ks) \o OfKind(d, ks)
  BY <1>1, <1>3, <1>4, <1>6, AllOfJoin, KindJoin
<1> HIDE DEF F
<1> DEFINE T == {"thinking"}
           E == {"extra"}
           X == {"text"}
           C == {"call"}
<1>9. /\ T \cap E = {} /\ T \cap X = {} /\ T \cap C = {} /\ E \cap X = {} /\ E \cap C = {} /\ X \cap C = {}
      /\ E \cap T = {} /\ X \cap T = {} /\ C \cap T = {} /\ X \cap E = {} /\ C \cap E = {} /\ C \cap X = {}
  OBVIOUS
<1>10. AllOf(a, T) /\ AllOf(b, E) /\ AllOf(c, X) /\ AllOf(d, C)
  BY <1>1
<1> HIDE DEF T, E, X, C
<1>0. a \in Seq(ABlock) /\ b \in Seq(ABlock) /\ c \in Seq(ABlock) /\ d \in Seq(ABlock)
  BY <1>1
<1>11. OfKind(a, T) = a /\ OfKind(b, E) = b /\ OfKind(c, X) = c /\ OfKind(d, C) = d
  BY <1>1, <1>10, KindAll
<1>12. OfKind(a, E) = <<>> /\ OfKind(a, X) = <<>> /\ OfKind(a, C) = <<>>
  BY <1>1, <1>9, <1>10, KindNone
<1>13. OfKind(b, T) = <<>> /\ OfKind(b, X) = <<>> /\ OfKind(b, C) = <<>>
  BY <1>1, <1>9, <1>10, KindNone
<1>14. OfKind(c, T) = <<>> /\ OfKind(c, E) = <<>> /\ OfKind(c, C) = <<>>
  BY <1>1, <1>9, <1>10, KindNone
<1>15. OfKind(d, T) = <<>> /\ OfKind(d, E) = <<>> /\ OfKind(d, X) = <<>>
  BY <1>1, <1>9, <1>10, KindNone
<1>16. <<>> \o <<>> = <<>> /\ \A s \in Seq(ABlock) : <<>> \o s = s /\ s \o <<>> = s
  BY ConcatEmptySeq
<1>17. OfKind(ab, T) = a /\ OfKind(ab, E) = b /\ OfKind(ab, X) = <<>> /\ OfKind(ab, C) = <<>>
  BY <1>1, <1>5, <1>11, <1>12, <1>13, <1>16, ZenonT(40)
<1>18. OfKind(abc, T) = a /\ OfKind(abc, E) = b /\ OfKind(abc, X) = c /\ OfKind(abc, C) = <<>>
  <2>1. OfKind(abc, T) = a \o <<>> /\ OfKind(abc, E) = b \o <<>>
        /\ OfKind(abc, X) = <<>> \o c /\ OfKind(abc, C) = <<>> \o <<>>
    BY <1>6, <1>11, <1>14, <1>17
  <2> QED
    BY <1>0, <1>16, <2>1
<1>19. OfKind(F, T) = a /\ OfKind(F, E) = b /\ OfKind(F, X) = c /\ OfKind(F, C) = d
  <2>1. OfKind(F, T) = a \o <<>> /\ OfKind(F, E) = b \o <<>>
        /\ OfKind(F, X) = c \o <<>> /\ OfKind(F, C) = <<>> \o d
    BY <1>7, <1>11, <1>15, <1>18
  <2> QED
    BY <1>0, <1>16, <2>1
<1> QED
  BY <1>1, <1>2, <1>3, <1>7, <1>19 DEF a, b, d, T, E, X, C, CallsIn

-----------------------------------------------------------------------------
(* Conversation: the calls of an answer *)

\* Some of the blocks of g, in order.
PickedOf(n, c, g) == FlattenSeq([i \in 1..n |-> Optional(c[i], g[i])])

\* Of the blocks that are picked, each is one of those it was picked from, and if
\* their ids count places, the ids rise.
LEMMA Picked ==
  ASSUME NEW n \in Nat, NEW c \in [1..n -> BOOLEAN], NEW g \in [1..n -> ABlock], NEW d \in Nat
  PROVE  LET F == PickedOf(n, c, g)
         IN  /\ F \in Seq(ABlock)
             /\ \A a \in 1..Len(F) : \E i \in 1..n : c[i] /\ F[a] = g[i]
             /\ (\A i \in 1..n : c[i] => g[i].id.n + d = i) => Rising(F)
<1> DEFINE ss == [i \in 1..n |-> Optional(c[i], g[i])]
           F == FlattenSeq(ss)
           key == [b \in ABlock |-> b.id.n + d]
<1>1. \A i \in 1..n : ss[i] = (IF c[i] THEN One(g[i]) ELSE <<>>) /\ ss[i] \in Seq(ABlock)
  BY OptionalIs
<1>2. ss \in Seq(Seq(ABlock)) /\ Len(ss) = n
  <2>1. \A i \in 1..n : Optional(c[i], g[i]) \in Seq(ABlock)
    BY <1>1
  <2> QED
    BY <2>1
<1> HIDE DEF ss
<1>3. F \in Seq(ABlock)
  BY <1>2, FlattenType
<1>4. \A i \in 1..n : /\ Len(ss[i]) <= 1 
                      /\ \A r \in 1..Len(ss[i]) : c[i] /\ ss[i][r] = g[i]
  <2> TAKE i \in 1..n
  <2>1. Len(One(g[i])) = 1 /\ One(g[i])[1] = g[i] /\ Len(<<>>) = 0
    BY OneOf
  <2>2. CASE c[i]
    <3>1. ss[i] = One(g[i])
      BY <1>1, <2>2
    <3>2. Len(ss[i]) = 1 /\ ss[i][1] = g[i]
      BY <2>1, <3>1
    <3>3. \A r \in 1..Len(ss[i]) : r = 1
      BY <3>2
    <3> QED
      BY <2>2, <3>2, <3>3
  <2>3. CASE ~c[i]
    <3>1. Len(ss[i]) = 0
      BY <1>1, <2>1, <2>3
    <3> QED
      BY <3>1
  <2> QED
    BY <2>2, <2>3
<1>5. ASSUME NEW a \in 1..Len(F) PROVE \E i \in 1..n : c[i] /\ F[a] = g[i]
  <2>1. PICK j, r \in Nat : Placed(ss, F, a, j, r)
    BY <1>2, FlattenPlaces
  <2>2. j \in 1..n /\ r \in 1..Len(ss[j]) /\ F[a] = ss[j][r]
    BY <1>2, <2>1 DEF Placed
  <2> QED
    BY <1>4, <2>2
<1>6. ASSUME \A i \in 1..n : c[i] => g[i].id.n + d = i PROVE Rising(F)
  <2>1. key \in [ABlock -> Nat]
    BY DEF ABlock, CallId
  <2>2. \A j \in 1..Len(ss) : \A r \in 1..Len(ss[j]) : key[ss[j][r]] = j
    <3> TAKE j \in 1..Len(ss)
    <3> TAKE r \in 1..Len(ss[j])
    <3>1. j \in 1..n /\ c[j] /\ ss[j][r] = g[j] /\ g[j] \in ABlock
      BY <1>2, <1>4
    <3>2. key[g[j]] = g[j].id.n + d
      BY <3>1
    <3> QED
      BY <1>6, <3>1, <3>2
  <2> HIDE DEF key
  <2>3. \A a, b \in 1..Len(FlattenSeq(ss)) : a < b =>
           /\ key[FlattenSeq(ss)[a]] <= key[FlattenSeq(ss)[b]]
           /\ (\A j \in 1..Len(ss) : Len(ss[j]) <= 1)
                => key[FlattenSeq(ss)[a]] < key[FlattenSeq(ss)[b]]
    BY <1>2, <2>1, <2>2, FlattenRises
  <2>4. \A a, b \in 1..Len(F) : a < b => key[F[a]] < key[F[b]]
    BY <1>2, <1>4, <2>3
  <2>5. \A a \in 1..Len(F) : key[F[a]] = F[a].id.n + d /\ F[a].id.n \in Nat
    <3> HIDE DEF F
    <3>1. \A a \in 1..Len(F) : F[a] \in ABlock
      BY <1>3
    <3> QED
      BY <3>1 DEF key, ABlock, CallId
  <2> HIDE DEF F
  <2>6. ASSUME NEW a \in 1..Len(F), NEW b \in 1..Len(F), a < b PROVE F[a].id.n < F[b].id.n
    <3>1. F[a].id.n + d < F[b].id.n + d /\ F[a].id.n \in Nat /\ F[b].id.n \in Nat
      BY <2>4, <2>5, <2>6
    <3> QED
      BY <3>1, SMTT(40)
  <2> QED
    BY <2>6 DEF Rising
<1> QED
  BY <1>3, <1>5, <1>6 DEF ss, PickedOf

\* The calls of a message: blocks of their kind, that turn's and not marked, under ids that rise.
CallsFine(cs, t, j) ==
  /\ cs \in Seq(ABlock) /\ AllOf(cs, {"call"}) /\ Rising(cs)
  /\ \A a \in 1..Len(cs) : From(cs[a], j) /\ CallOf(cs[a], t, j)

\* The item of a block, and the id that an upstream makes of it.
LEMMA OneItem == ASSUME NEW i \in Nat, NEW j \in Nat
  PROVE <<j, i>> \in SaidItem /\ One(<<j, i>>) \in Seq(SaidItem) /\ ToSet(One(<<j, i>>)) = {<<j, i>>}
        /\ UpstreamId(<<j, i>>) \in CallId /\ UpstreamId(<<j, i>>).n = i
<1>1. <<j, i>> \in SaidItem /\ <<j, i>>[2] = i
  BY DEF SaidItem
<1> QED
  BY <1>1, OneOf, CallIds

\* The blocks of an answer say what was said in its turn.
LEMMA AnswerBlocks ==
  ASSUME NEW t, NEW j \in Nat, AnswerTurn(t, j)
  PROVE  \A i \in 1..Len(t.blocks) : t.blocks[i] \in ABlock /\ From(t.blocks[i], j) /\ i \in Nat
<1>1. t.blocks \in Seq(ABlock)
  BY DEF AnswerTurn
<1> TAKE i \in 1..Len(t.blocks)
<1>2. t.blocks[i] \in ABlock /\ i \in Nat
  BY <1>1
<1>3. t.blocks[i].said = One(<<j, i>>) /\ t.blocks[i].mark = FALSE /\ ToSet(One(<<j, i>>)) = {<<j, i>>}
  BY <1>2, OneItem DEF AnswerTurn
<1>4. <<j, i>>[1] = j
  OBVIOUS
<1> QED
  BY <1>2, <1>3, <1>4 DEF From

\* The calls of an answer are its blocks, under ids that rise: as they are,
LEMMA CallsInFine ==
  ASSUME NEW t, NEW j \in Nat, AnswerTurn(t, j)
  PROVE  CallsFine(CallsIn(t.blocks), t, j)
<1> DEFINE bs == t.blocks
           n == Len(bs)
           c == [i \in 1..n |-> bs[i].kind \in {"call"}]
           g == [i \in 1..n |-> bs[i]]
           F == PickedOf(n, c, g)
<1>1. bs \in Seq(ABlock) /\ n \in Nat /\ c \in [1..n -> BOOLEAN] /\ g \in [1..n -> ABlock]
  BY DEF AnswerTurn
<1>2. F = CallsIn(bs)
  <2>1. [i \in 1..n |-> Optional(c[i], g[i])] = [i \in 1..n |-> Optional(bs[i].kind \in {"call"}, bs[i])]
    OBVIOUS
  <2> QED
    BY <2>1 DEF CallsIn, OfKind, Each, PickedOf
<1>3. \A i \in 1..n : c[i] = (bs[i].kind = "call") /\ g[i] = bs[i]
  OBVIOUS
<1> HIDE DEF c, g
<1>4. /\ F \in Seq(ABlock)
      /\ \A a \in 1..Len(F) : \E i \in 1..n : c[i] /\ F[a] = g[i]
      /\ (\A i \in 1..n : c[i] => g[i].id.n + 0 = i) => Rising(F)
  <2> HIDE DEF n
  <2> QED
    BY <1>1, Picked
<1> HIDE DEF F
<1>5. \A i \in 1..n : c[i] => g[i].id.n + 0 = i
  <2> TAKE i \in 1..n
  <2>1. c[i] => g[i].id = UpstreamId(<<j, i>>)
    BY <1>3 DEF AnswerTurn
  <2>2. UpstreamId(<<j, i>>).n = i /\ i + 0 = i
    BY OneItem
  <2> QED
    BY <2>1, <2>2
<1>6. ASSUME NEW a \in 1..Len(F) PROVE F[a].kind = "call" /\ From(F[a], j) /\ CallOf(F[a], t, j)
  <2>0. PICK i \in 1..n : c[i] /\ F[a] = g[i]
    BY <1>4
  <2>1. bs[i].kind = "call" /\ F[a] = bs[i]
    BY <1>3, <2>0
  <2>2. bs[i].said = One(<<j, i>>) /\ bs[i].id = UpstreamId(<<j, i>>)
    BY <2>1 DEF AnswerTurn
  <2>3. CallOf(F[a], t, j)
    BY <2>1, <2>2 DEF CallOf
  <2> QED
    BY <2>1, <2>3, AnswerBlocks
<1> QED
  BY <1>2, <1>4, <1>5, <1>6 DEF CallsFine, AllOf

\* with Gemini's ids, and
LEMMA GeminiCallsFine ==
  ASSUME NEW t, NEW j \in Nat, AnswerTurn(t, j)
  PROVE  CallsFine(GeminiCalls(t.blocks), t, j)
<1> DEFINE bs == t.blocks
           n == Len(bs)
           c == [i \in 1..n |-> bs[i].kind = "call"]
           g == [i \in 1..n |-> [bs[i] EXCEPT !.id = AdapterId(bs[i].name, i - 1)]]
           F == PickedOf(n, c, g)
<1>1. bs \in Seq(ABlock) /\ n \in Nat /\ c \in [1..n -> BOOLEAN] /\ \A i \in 1..n : bs[i] \in ABlock
  BY DEF AnswerTurn
<1>2. F = GeminiCalls(bs)
  <2>1. [i \in 1..n |-> Optional(c[i], g[i])]
        = [i \in 1..n |-> Optional(bs[i].kind = "call", [bs[i] EXCEPT !.id = AdapterId(bs[i].name, i - 1)])]
    OBVIOUS
  <2> QED
    BY <2>1 DEF GeminiCalls, PickedOf
<1>3. ASSUME NEW i \in 1..n
      PROVE  /\ c[i] = (bs[i].kind = "call") /\ g[i] \in ABlock
             /\ g[i].kind = bs[i].kind /\ g[i].said = bs[i].said /\ g[i].name = bs[i].name
             /\ g[i].mark = bs[i].mark /\ g[i].id = AdapterId(bs[i].name, i - 1)
             /\ i - 1 \in Nat /\ g[i].id.n = i - 1
  <2>1. bs[i] \in ABlock /\ bs[i].name \in Names /\ i - 1 \in Nat
    BY <1>1 DEF ABlock
  <2>2. AdapterId(bs[i].name, i - 1) \in CallId /\ AdapterId(bs[i].name, i - 1).n = i - 1
    BY <2>1, CallIds
  <2>3. c[i] = (bs[i].kind = "call") /\ g[i] = [bs[i] EXCEPT !.id = AdapterId(bs[i].name, i - 1)]
    OBVIOUS
  <2> HIDE DEF c, g, bs
  <2> QED
    BY <2>1, <2>2, <2>3, Changed
<1>4. g \in [1..n -> ABlock]
  <2>1. \A i \in 1..n : g[i] \in ABlock
    BY <1>3
  <2> QED
    BY <2>1
<1> HIDE DEF c, g
<1>5. /\ F \in Seq(ABlock)
      /\ \A a \in 1..Len(F) : \E i \in 1..n : c[i] /\ F[a] = g[i]
      /\ (\A i \in 1..n : c[i] => g[i].id.n + 1 = i) => Rising(F)
  <2> HIDE DEF n
  <2> QED
    BY <1>1, <1>4, Picked
<1> HIDE DEF F
<1>6. \A i \in 1..n : c[i] => g[i].id.n + 1 = i
  BY <1>3
<1>7. ASSUME NEW a \in 1..Len(F) PROVE F[a].kind = "call" /\ From(F[a], j) /\ CallOf(F[a], t, j)
  <2>1. PICK i \in 1..n : c[i] /\ F[a] = g[i]
    BY <1>5
  <2>2. bs[i].said = One(<<j, i>>) /\ From(bs[i], j)
    BY <2>1, AnswerBlocks DEF AnswerTurn
  <2>3. F[a].said = bs[i].said /\ F[a].name = bs[i].name /\ F[a].mark = bs[i].mark /\ F[a].kind = "call"
        /\ F[a].id = AdapterId(F[a].name, i - 1) /\ i - 1 \in Nat
    <3>1. /\ c[i] = (bs[i].kind = "call")
          /\ g[i].kind = bs[i].kind /\ g[i].said = bs[i].said /\ g[i].name = bs[i].name
          /\ g[i].mark = bs[i].mark /\ g[i].id = AdapterId(bs[i].name, i - 1) /\ i - 1 \in Nat
      BY <1>3
    <3> HIDE DEF bs
    <3> QED
      BY <2>1, <3>1
  <2>4. CallOf(F[a], t, j)
    BY <2>2, <2>3 DEF CallOf
  <2> QED
    BY <2>2, <2>3, <2>4 DEF From
<1> QED
  BY <1>2, <1>5, <1>6, <1>7 DEF CallsFine, AllOf

\* with Ollama's.
LEMMA OllamaCallsFine ==
  ASSUME NEW t, NEW j \in Nat, AnswerTurn(t, j)
  PROVE  CallsFine(OllamaCalls(t.blocks), t, j)
<1> DEFINE cs == CallsIn(t.blocks)
           F == OllamaCalls(t.blocks)
<1>1. cs \in Seq(ABlock) /\ AllOf(cs, {"call"}) /\ \A a \in 1..Len(cs) : From(cs[a], j) /\ CallOf(cs[a], t, j)
  BY CallsInFine DEF CallsFine
<1>2. Len(cs) \in Nat /\ \A i \in 1..Len(cs) : cs[i] \in ABlock
  BY <1>1
<1>3. F = [i \in 1..Len(cs) |-> [cs[i] EXCEPT !.id = AdapterId(cs[i].name, i - 1)]]
  BY DEF OllamaCalls
<1> HIDE DEF cs, F
<1>4. ASSUME NEW i \in 1..Len(cs)
      PROVE  /\ F[i] \in ABlock
             /\ F[i].kind = cs[i].kind /\ F[i].said = cs[i].said /\ F[i].name = cs[i].name
             /\ F[i].mark = cs[i].mark /\ F[i].id = AdapterId(cs[i].name, i - 1)
             /\ i - 1 \in Nat /\ F[i].id.n = i - 1
  <2>1. cs[i] \in ABlock /\ cs[i].name \in Names /\ i - 1 \in Nat
    BY <1>2 DEF ABlock
  <2>2. AdapterId(cs[i].name, i - 1) \in CallId /\ AdapterId(cs[i].name, i - 1).n = i - 1
    BY <2>1, CallIds
  <2>3. F[i] = [cs[i] EXCEPT !.id = AdapterId(cs[i].name, i - 1)]
    BY <1>3
  <2> QED
    BY <2>1, <2>2, <2>3, Changed
<1>5. F \in Seq(ABlock) /\ Len(F) = Len(cs)
  <2>1. \A i \in 1..Len(cs) : [cs[i] EXCEPT !.id = AdapterId(cs[i].name, i - 1)] \in ABlock
    BY <1>3, <1>4
  <2> QED
    BY <1>2, <1>3, <2>1
<1>6. Rising(F)
  <2> SUFFICES ASSUME NEW a \in 1..Len(F), NEW b \in 1..Len(F), a < b PROVE F[a].id.n < F[b].id.n
    BY DEF Rising
  <2>1. F[a].id.n = a - 1 /\ F[b].id.n = b - 1
    BY <1>4, <1>5
  <2> QED
    BY <1>2, <1>5, <2>1
<1>7. ASSUME NEW a \in 1..Len(F) PROVE F[a].kind = "call" /\ From(F[a], j) /\ CallOf(F[a], t, j)
  <2>1. a \in 1..Len(cs) /\ cs[a].kind = "call" /\ From(cs[a], j) /\ CallOf(cs[a], t, j)
    BY <1>1, <1>5 DEF AllOf
  <2>2. F[a].said = cs[a].said /\ F[a].name = cs[a].name /\ F[a].mark = cs[a].mark /\ F[a].kind = cs[a].kind
        /\ F[a].id = AdapterId(F[a].name, a - 1) /\ a - 1 \in Nat
    BY <1>4, <2>1
  <2>3. CallOf(F[a], t, j)
    BY <2>1, <2>2 DEF CallOf
  <2> QED
    BY <2>1, <2>2, <2>3 DEF From
<1> QED
  BY <1>5, <1>6, <1>7 DEF CallsFine, AllOf, F

-----------------------------------------------------------------------------
(* Conversation: an answer, as the client holds it and as a message *)

\* Blocks of some kinds are of these kinds, and of those they were of.
LEMMA KindOnly ==
  ASSUME NEW bs \in Seq(ABlock), NEW ks
  PROVE  AllOf(OfKind(bs, ks), ks) /\ \A ls : AllOf(bs, ls) => AllOf(OfKind(bs, ks), ls)
<1>1. OfKind(bs, ks) \in Seq(ABlock)
  BY KindType
<1>2. \A b \in ToSet(OfKind(bs, ks)) : b \in ToSet(bs) /\ b.kind \in ks
  BY KindHas
<1> QED
  BY <1>1, <1>2, AllOfSet

\* What a message holds is of turn j.
FieldsFrom(m, j) ==
  /\ \A b \in ToSet(m.calls) : From(b, j)
  /\ \A b \in ToSet(m.thinking) : From(b, j)
  /\ \A b \in ToSet(m.extra) : From(b, j)
  /\ \A x \in ToSet(m.text) : x[1] = j

\* Every adapter keeps an answer: its text, its calls, and what else it has a field
\* for, or all its blocks in their order.
LEMMA ResultKept ==
  ASSUME NEW t, NEW j \in Nat, AnswerTurn(t, j)
  PROVE  LET m == Result(t.by, t.blocks)
             bs == t.blocks
         IN  /\ Kept(m) /\ m.role = "assistant" /\ m.mark = FALSE
             /\ m.text = Said(OfKind(bs, {"text"})) /\ CallsFine(m.calls, t, j)
             /\ FieldsFrom(m, j)
             /\ \/ m.ordered = <<>>
                \/ /\ m.ordered = bs /\ m.calls = CallsIn(bs)
                   /\ m.thinking = OfKind(bs, {"thinking"}) /\ m.extra = OfKind(bs, {"extra"})
<1> DEFINE bs == t.blocks
           m == Result(t.by, bs)
           text == Said(OfKind(bs, {"text"}))
           th == OfKind(bs, {"thinking"})
           ex == OfKind(bs, {"extra"})
<1>1. bs \in Seq(ABlock) /\ t.by \in {"anthropic", "openai", "gemini", "ollama"}
  BY DEF AnswerTurn, Upstreams
<1>2. /\ text \in Seq(SaidItem) /\ th \in Seq(ABlock) /\ ex \in Seq(ABlock) /\ <<>> \in Seq(ABlock)
      /\ AllOf(th, {"thinking"}) /\ AllOf(ex, {"extra"})
      /\ AllOf(<<>>, {"thinking"}) /\ AllOf(<<>>, {"extra"})
  BY <1>1, KindType, KindOnly, AllOfNothing
<1>3. \A b \in ToSet(bs) : From(b, j)
  BY <1>1, ToSetOf, AnswerBlocks
<1>4. (\A b \in ToSet(th) : From(b, j)) /\ (\A b \in ToSet(ex) : From(b, j)) /\ ToSet(<<>>) = {}
  <2>1. ToSet(<<>>) = {}
    BY DEF ToSet
  <2> QED
    BY <1>1, <1>3, <2>1, KindHas
<1>5. \A x \in ToSet(text) : x[1] = j
  <2>1. OfKind(bs, {"text"}) \in Seq(ABlock)
    BY <1>1, KindType
  <2> DEFINE ts == OfKind(bs, {"text"})
  <2>2. \A b \in ToSet(ts) : b \in ToSet(bs)
    BY <1>1, KindHas
  <2> HIDE DEF ts
  <2>3. ts \in Seq(ABlock)
    BY <2>1 DEF ts
  <2>4. \A x \in ToSet(Said(ts)) : \E i \in 1..Len(ts) : x \in ToSet(ts[i].said)
    BY <2>3, KindHas
  <2>5. \A i \in 1..Len(ts) : ts[i] \in ToSet(ts)
    BY <2>3, ToSetOf
  <2> QED
    BY <1>3, <2>2, <2>4, <2>5 DEF From, ts
<1>6. /\ Message("assistant", text) \in AMessage
      /\ Message("assistant", text).role = "assistant" /\ Message("assistant", text).text = text
      /\ Message("assistant", text).calls = <<>> /\ Message("assistant", text).thinking = <<>>
      /\ Message("assistant", text).extra = <<>> /\ Message("assistant", text).ordered = <<>>
      /\ Message("assistant", text).mark = FALSE
  BY <1>2, Messaged
<1> DEFINE Fit(cs, ths, exs, or) ==
             /\ m \in AMessage /\ m.role = "assistant" /\ m.mark = FALSE /\ m.text = text
             /\ m.calls = cs /\ m.thinking = ths /\ m.extra = exs /\ m.ordered = or
<1>7. Answered(bs) = Message("assistant", text)
  BY DEF Answered
<1> HIDE DEF bs, text, th, ex
<1>8. ASSUME NEW cs, CallsFine(cs, t, j)
      PROVE  \A ths \in {<<>>, th}, exs \in {<<>>, ex} :
               Fit(cs, ths, exs, <<>>) \/ (Fit(CallsIn(bs), th, ex, bs) /\ CallsFine(CallsIn(bs), t, j)) =>
                 /\ Kept(m) /\ m.role = "assistant" /\ m.mark = FALSE
                 /\ m.text = text /\ CallsFine(m.calls, t, j)
                 /\ FieldsFrom(m, j)
                 /\ \/ m.ordered = <<>>
                    \/ m.ordered = bs /\ m.calls = CallsIn(bs) /\ m.thinking = th /\ m.extra = ex
  <2> HIDE DEF m
  <2> TAKE ths \in {<<>>, th}, exs \in {<<>>, ex}
  <2>0. ASSUME NEW fs, CallsFine(fs, t, j)
        PROVE  AllOf(fs, {"call"}) /\ \A b \in ToSet(fs) : From(b, j)
    BY <2>0, ToSetOf DEF CallsFine
  <2>1. CASE Fit(cs, ths, exs, <<>>)
    BY <1>2, <1>4, <1>5, <1>8, <2>0, <2>1 DEF Kept, FieldsFrom
  <2>2. CASE Fit(CallsIn(bs), th, ex, bs) /\ CallsFine(CallsIn(bs), t, j)
    BY <1>2, <1>4, <1>5, <2>0, <2>2 DEF Kept, FieldsFrom
  <2> QED
    BY <2>1, <2>2
<1>9. CASE t.by = "anthropic"
  <2>1. m = [Message("assistant", text) EXCEPT !.calls = CallsIn(bs), !.thinking = th,
                       !.extra = ex, !.ordered = bs]
    BY <1>7, <1>9 DEF Result, AnthropicResult, th, ex
  <2>2. CallsFine(CallsIn(bs), t, j) /\ CallsIn(bs) \in Seq(ABlock)
    BY CallsInFine DEF bs, CallsFine
  <2> HIDE DEF m
  <2>3. Fit(CallsIn(bs), th, ex, bs)
    BY <1>1, <1>2, <1>6, <2>1, <2>2 DEF AMessage
  <2> QED
    BY <1>8, <2>2, <2>3 DEF m, bs, text, th, ex
<1>10. CASE t.by = "openai"
  <2>1. m = [Message("assistant", text) EXCEPT !.calls = CallsIn(bs)]
    BY <1>7, <1>10 DEF Result, OpenAIResult
  <2>2. CallsFine(CallsIn(bs), t, j) /\ CallsIn(bs) \in Seq(ABlock)
    BY CallsInFine DEF bs, CallsFine
  <2> HIDE DEF m
  <2>3. Fit(CallsIn(bs), <<>>, <<>>, <<>>)
    BY <1>1, <1>2, <1>6, <2>1, <2>2 DEF AMessage
  <2> QED
    BY <1>8, <2>2, <2>3 DEF m, bs, text, th, ex
<1>11. CASE t.by = "gemini"
  <2>1. m = [Message("assistant", text) EXCEPT !.calls = GeminiCalls(bs)]
    BY <1>7, <1>11 DEF Result, GeminiResult
  <2>2. CallsFine(GeminiCalls(bs), t, j) /\ GeminiCalls(bs) \in Seq(ABlock)
    BY GeminiCallsFine DEF bs, CallsFine
  <2> HIDE DEF m
  <2>3. Fit(GeminiCalls(bs), <<>>, <<>>, <<>>)
    BY <1>1, <1>2, <1>6, <2>1, <2>2 DEF AMessage
  <2> QED
    BY <1>8, <2>2, <2>3 DEF m, bs, text, th, ex
<1>12. CASE t.by = "ollama"
  <2>1. m = [Message("assistant", text) EXCEPT !.calls = OllamaCalls(bs), !.thinking = th]
    BY <1>7, <1>12 DEF Result, OllamaResult, th
  <2>2. CallsFine(OllamaCalls(bs), t, j) /\ OllamaCalls(bs) \in Seq(ABlock)
    BY OllamaCallsFine DEF bs, CallsFine
  <2> HIDE DEF m
  <2>3. Fit(OllamaCalls(bs), th, <<>>, <<>>)
    BY <1>1, <1>2, <1>6, <2>1, <2>2 DEF AMessage
  <2> QED
    BY <1>8, <2>2, <2>3 DEF m, bs, text, th, ex
<1> QED
  BY <1>1, <1>9, <1>10, <1>11, <1>12

\* A message of turn j and the blocks that the client holds of it.
HeldFine(M, H, t, j) ==
  /\ Kept(M) /\ M.role = "assistant" /\ M.mark = FALSE /\ CallsFine(M.calls, t, j)
  /\ H \in Seq(ABlock) /\ AllOf(H, AnswerKinds) /\ \A b \in ToSet(H) : From(b, j)
  /\ Said(OfKind(H, {"text"})) = M.text /\ CallsIn(H) = M.calls
  /\ OfKind(H, {"thinking"}) = M.thinking /\ OfKind(H, {"extra"}) = M.extra
  /\ M.ordered # <<>> => M.ordered = H
  /\ M.ordered = <<>> => Said(H) = Said(FieldBlocks(M))

\* The blocks of the fields say what was said in the turn.
LEMMA FieldBlocksFrom ==
  ASSUME NEW m, NEW j, Kept(m), FieldsFrom(m, j)
  PROVE  \A b \in ToSet(FieldBlocks(m)) : From(b, j)
<1> DEFINE b == Block("text", m.text)
           a == m.thinking \o m.extra
           c == a \o TextBlock(m)
<1>1. /\ m.thinking \in Seq(ABlock) /\ m.extra \in Seq(ABlock) /\ m.calls \in Seq(ABlock) /\ m.text \in Seq(SaidItem)
      /\ "text" \in AllKinds /\ TextBlock(m) \in Seq(ABlock)
  BY TextBlocked DEF Kept, AMessage, AllKinds
<1>2. b \in ABlock /\ b.said = m.text /\ b.mark = FALSE
  BY <1>1, Blocked, ZenonT(40)
<1>3. From(b, j)
  BY <1>2 DEF From, FieldsFrom
<1> HIDE DEF b
<1>4. TextBlock(m) = IF m.text # <<>> THEN One(b) ELSE <<>>
  BY <1>2, OptionalIs DEF TextBlock, b
<1>5. ToSet(One(b)) = {b} /\ ToSet(<<>>) = {}
  BY <1>2, OneOf, NoneIn
<1>6. \A x \in ToSet(TextBlock(m)) : From(x, j)
  BY <1>3, <1>4, <1>5
<1>7. a \in Seq(ABlock) /\ c \in Seq(ABlock)
  BY <1>1
<1>8. ToSet(a) = ToSet(m.thinking) \cup ToSet(m.extra)
  BY <1>1, HasMore
<1> HIDE DEF a
<1>9. ToSet(c) = ToSet(a) \cup ToSet(TextBlock(m))
  BY <1>1, <1>7, HasMore
<1> HIDE DEF c
<1>10. ToSet(c \o m.calls) = ToSet(c) \cup ToSet(m.calls)
  BY <1>1, <1>7, HasMore
<1>11. FieldBlocks(m) = c \o m.calls
  BY DEF FieldBlocks, TextBlock, a, c
<1> QED
  BY <1>6, <1>8, <1>9, <1>10, <1>11 DEF FieldsFrom

\* Blocks in order, and the fields without, are held alike.
LEMMA FieldsHeld ==
  ASSUME NEW t, NEW j \in Nat, NEW m, Kept(m), m.role = "assistant", m.mark = FALSE,
         CallsFine(m.calls, t, j), FieldsFrom(m, j), m.ordered = <<>>
  PROVE  /\ HeldFine(m, FieldBlocks(m), t, j)
         /\ FieldBlocks(m) = <<>> => HeldFine(m, One(Block("text", <<>>)), t, j)
<1>1. HeldFine(m, FieldBlocks(m), t, j)
  BY FieldBlocksFrom, FieldsApart DEF HeldFine
<1>2. ASSUME FieldBlocks(m) = <<>> PROVE HeldFine(m, One(Block("text", <<>>)), t, j)
  <2> DEFINE b == Block("text", <<>>)
  <2>1. "text" \in AllKinds /\ <<>> \in Seq(SaidItem)
    BY DEF AllKinds
  <2>2. b \in ABlock /\ b.said = <<>> /\ b.mark = FALSE /\ b.kind = "text"
    BY <2>1, Blocked
  <2> HIDE DEF b
  <2>3. /\ One(b) \in Seq(ABlock) /\ Said(One(b)) = <<>> /\ ToSet(One(b)) = {b}
        /\ \A ks : OfKind(One(b), ks) = IF b.kind \in ks THEN One(b) ELSE <<>>
    BY <2>2, OneOf, KindOne
  <2>4. AllOf(One(b), AnswerKinds)
    BY <2>2, AllOfOne DEF AnswerKinds
  <2>5. From(b, j)
    BY <2>2 DEF From, ToSet
  <2>6. m.text = <<>> /\ m.calls = <<>> /\ m.thinking = <<>> /\ m.extra = <<>>
    BY <1>2, FieldsApart, KindNothing DEF CallsIn
  <2>7. Said(OfKind(One(b), {"text"})) = <<>> /\ CallsIn(One(b)) = <<>>
        /\ OfKind(One(b), {"thinking"}) = <<>> /\ OfKind(One(b), {"extra"}) = <<>>
    BY <2>2, <2>3 DEF CallsIn
  <2> QED
    BY <1>2, <2>3, <2>4, <2>5, <2>6, <2>7, KindNothing DEF HeldFine, b
<1> QED
  BY <1>1, <1>2

\* What a client is answered over /v1/messages or /v1/chat.
LEMMA MessageHeld ==
  ASSUME NEW t, NEW j \in Nat, AnswerTurn(t, j)
  PROVE  LET m == Result(t.by, t.blocks)
         IN  HeldFine(m, ToMessage(m), t, j)
<1> DEFINE bs == t.blocks
           m == Result(t.by, bs)
<1>1. /\ Kept(m) /\ m.role = "assistant" /\ m.mark = FALSE
      /\ m.text = Said(OfKind(bs, {"text"})) /\ CallsFine(m.calls, t, j)
      /\ FieldsFrom(m, j)
      /\ \/ m.ordered = <<>>
         \/ /\ m.ordered = bs /\ m.calls = CallsIn(bs)
            /\ m.thinking = OfKind(bs, {"thinking"}) /\ m.extra = OfKind(bs, {"extra"})
  BY ResultKept
<1>2. bs \in Seq(ABlock) /\ AllOf(bs, AnswerKinds) /\ \A b \in ToSet(bs) : From(b, j)
  <2>1. bs \in Seq(ABlock) /\ AllOf(bs, AnswerKinds)
    BY DEF AnswerTurn
  <2> QED
    BY <2>1, ToSetOf, AnswerBlocks
<1> HIDE DEF m
<1>3. CASE m.ordered = <<>>
  <2>1. ToMessage(m) = IF FieldBlocks(m) # <<>> THEN FieldBlocks(m) ELSE One(Block("text", <<>>))
    BY <1>3 DEF ToMessage, One
  <2> QED
    BY <1>1, <1>3, <2>1, FieldsHeld DEF m
<1>4. CASE m.ordered # <<>>
  <2>1. ToMessage(m) = m.ordered
    BY <1>4 DEF ToMessage
  <2>2. HeldFine(m, ToMessage(m), t, j)
    BY <1>1, <1>2, <1>4, <2>1 DEF HeldFine
  <2> QED
    BY <2>2 DEF m
<1> QED
  BY <1>3, <1>4

\* Over /v1/chat/completions.
LEMMA CompletionHeld ==
  ASSUME NEW t, NEW j \in Nat, AnswerTurn(t, j)
  PROVE  LET m == ToChatCompletion(Result(t.by, t.blocks))
         IN  HeldFine(m, FieldBlocks(m), t, j)
<1> DEFINE r == Result(t.by, t.blocks)
           m == ToChatCompletion(r)
<1>1. Kept(r) /\ CallsFine(r.calls, t, j) /\ FieldsFrom(r, j)
  BY ResultKept
<1> HIDE DEF r
<1>2. r.text \in Seq(SaidItem) /\ r.calls \in Seq(ABlock) /\ AllOf(r.calls, {"call"})
  BY <1>1 DEF Kept, AMessage
<1>3. /\ Message("assistant", r.text) \in AMessage
      /\ Message("assistant", r.text).role = "assistant" /\ Message("assistant", r.text).text = r.text
      /\ Message("assistant", r.text).calls = <<>> /\ Message("assistant", r.text).thinking = <<>>
      /\ Message("assistant", r.text).extra = <<>> /\ Message("assistant", r.text).ordered = <<>>
      /\ Message("assistant", r.text).mark = FALSE
  BY <1>2, Messaged
<1>4. m = [Message("assistant", r.text) EXCEPT !.calls = r.calls]
  BY DEF ToChatCompletion
<1> HIDE DEF m
<1>5. /\ m \in AMessage /\ m.role = "assistant" /\ m.text = r.text /\ m.calls = r.calls
      /\ m.thinking = <<>> /\ m.extra = <<>> /\ m.ordered = <<>> /\ m.mark = FALSE
  BY <1>2, <1>3, <1>4 DEF AMessage
<1>6. Kept(m) /\ FieldsFrom(m, j)
  <2>1. ToSet(<<>>) = {} /\ AllOf(<<>>, {"thinking"}) /\ AllOf(<<>>, {"extra"})
    BY AllOfNothing DEF ToSet
  <2> QED
    BY <1>1, <1>2, <1>5, <2>1 DEF Kept, FieldsFrom
<1>7. HeldFine(m, FieldBlocks(m), t, j)
  BY <1>1, <1>5, <1>6, FieldsHeld
<1> QED
  BY <1>7 DEF m, r

\* The message that blocks of an answer are read back as over /v1/messages.
ReadBack(H) ==
  [Message("assistant", Said(OfKind(H, {"text"}))) EXCEPT
     !.calls = OfKind(H, {"call"}), !.thinking = OfKind(H, {"thinking"}),
     !.extra = OfKind(H, {"extra"}), !.ordered = H]

\* What is read back of an answer is what the client held.
LEMMA ReadBackHeld ==
  ASSUME NEW t, NEW j \in Nat, NEW M, NEW H, H # <<>>, HeldFine(M, H, t, j)
  PROVE  FlattenContent("assistant", H) = One(ReadBack(H)) /\ HeldFine(ReadBack(H), H, t, j)
<1> DEFINE text == Said(OfKind(H, {"text"}))
           N == ReadBack(H)
<1>1. /\ H \in Seq(ABlock) /\ AllOf(H, AnswerKinds) /\ text = M.text /\ CallsFine(M.calls, t, j)
      /\ OfKind(H, {"call"}) = M.calls /\ OfKind(H, {"thinking"}) = M.thinking
      /\ OfKind(H, {"extra"}) = M.extra /\ Kept(M)
  BY DEF HeldFine, CallsIn
<1>2. text \in Seq(SaidItem) /\ OfKind(H, {"call"}) \in Seq(ABlock) /\ OfKind(H, {"thinking"}) \in Seq(ABlock)
      /\ OfKind(H, {"extra"}) \in Seq(ABlock)
  BY <1>1, KindType
<1>3. /\ Message("assistant", text) \in AMessage
      /\ Message("assistant", text).role = "assistant" /\ Message("assistant", text).text = text
      /\ Message("assistant", text).mark = FALSE
  BY <1>2, Messaged
<1>4. OfKind(H, {"result"}) = <<>>
  <2> DEFINE ks == {"result"}
  <2>1. ks \cap AnswerKinds = {}
    BY DEF AnswerKinds
  <2> HIDE DEF ks
  <2>2. OfKind(H, ks) = <<>>
    BY <1>1, <2>1, KindNone
  <2> QED
    BY <2>2 DEF ks
<1>5. FlattenContent("assistant", H) = One(N)
  <2>1. Each(<<>>, LAMBDA b : <<ToolMessage(b)>>) = <<>>
    <3>1. [i \in 1..Len(<<>>) |-> <<ToolMessage(<<>>[i])>>] = <<>>
      OBVIOUS
    <3> QED
      BY <3>1, FlattenEmpty DEF Each
  <2>2. Ordered("assistant", H) = TRUE
    BY DEF Ordered
  <2>3. FlattenContent("assistant", H) = Each(<<>>, LAMBDA b : <<ToolMessage(b)>>) \o Optional(TRUE, N)
    BY <1>4, <2>2 DEF FlattenContent, ReadBack
  <2>4. Optional(TRUE, N) = One(N) /\ <<>> \o One(N) = One(N)
    <3>1. Optional(TRUE, N) = One(N)
      BY DEF Optional, One
    <3> HIDE DEF N
    <3> QED
      BY <3>1, OneAfter
  <2> QED
    BY <2>1, <2>3, <2>4
<1>6. /\ N \in AMessage /\ N.role = "assistant" /\ N.mark = FALSE /\ N.text = text
      /\ N.calls = OfKind(H, {"call"}) /\ N.thinking = OfKind(H, {"thinking"})
      /\ N.extra = OfKind(H, {"extra"}) /\ N.ordered = H
  BY <1>1, <1>2, <1>3 DEF ReadBack, AMessage
<1> HIDE DEF N
<1>7. HeldFine(N, H, t, j)
  BY <1>1, <1>6 DEF HeldFine, Kept, CallsIn
<1> QED
  BY <1>5, <1>7 DEF N

\* The message that turn t of an answer is.
MessageOf(t) ==
  CASE spoken = "anthropic" -> ReadBack(Held(t))
    [] spoken = "openai" -> ToChatCompletion(Result(t.by, t.blocks))
    [] OTHER -> Result(t.by, t.blocks)

\* The messages of turn t in the next request.
TurnMessages(t) ==
  CASE spoken = "anthropic" -> FlattenContent(t.role, Held(t))
    [] spoken # "anthropic" /\ t.role = "user" -> Plain(t.blocks)
    [] spoken = "openai" /\ t.role # "user" -> <<ToChatCompletion(Result(t.by, t.blocks))>>
    [] OTHER -> <<Result(t.by, t.blocks)>>

\* Whatever the client speaks, an answer comes back as one message, which is what the
\* client held.
LEMMA AnswerHeld ==
  ASSUME NEW t, NEW j \in Nat, AnswerTurn(t, j), spoken \in Dialects
  PROVE  /\ TurnMessages(t) = One(MessageOf(t)) /\ HeldFine(MessageOf(t), Held(t), t, j)
         /\ spoken = "anthropic" => MessageOf(t).ordered # <<>>
<1> DEFINE m == Result(t.by, t.blocks)
<1>1. t.role = "assistant"
  BY DEF AnswerTurn
<1>2. CASE spoken = "anthropic"
  <2>1. Held(t) = ToMessage(m) /\ TurnMessages(t) = FlattenContent("assistant", Held(t))
        /\ MessageOf(t) = ReadBack(Held(t))
    BY <1>1, <1>2 DEF Held, TurnMessages, MessageOf
  <2>2. HeldFine(m, Held(t), t, j)
    BY <2>1, MessageHeld
  <2>3. Held(t) # <<>>
    <3>1. One(Block("text", <<>>)) # <<>>
      BY OneOf
    <3> QED
      BY <2>1, <3>1 DEF ToMessage, One
  <2> HIDE DEF m
  <2>4. FlattenContent("assistant", Held(t)) = One(ReadBack(Held(t))) /\ HeldFine(ReadBack(Held(t)), Held(t), t, j)
    BY <2>2, <2>3, ReadBackHeld
  <2>5. ReadBack(Held(t)).ordered = Held(t)
    BY DEF ReadBack, Message
  <2> QED
    BY <2>1, <2>3, <2>4, <2>5
<1>3. CASE spoken = "openai"
  <2>1. Held(t) = FieldBlocks(ToChatCompletion(m)) /\ TurnMessages(t) = <<ToChatCompletion(m)>>
        /\ MessageOf(t) = ToChatCompletion(m)
    BY <1>1, <1>3 DEF Held, TurnMessages, MessageOf
  <2> QED
    BY <1>3, <2>1, CompletionHeld DEF One
<1>4. CASE spoken = "native"
  <2>1. Held(t) = ToMessage(m) /\ TurnMessages(t) = <<m>> /\ MessageOf(t) = m
    BY <1>1, <1>4 DEF Held, TurnMessages, MessageOf
  <2> QED
    BY <1>4, <2>1, MessageHeld DEF One
<1> QED
  BY <1>2, <1>3, <1>4 DEF Dialects

-----------------------------------------------------------------------------
(* Conversation: a question, as messages *)

\* The question of a client, as turn j, after an answer with these calls.
UserTurn(t, j, owed) ==
  /\ t.role = "user" /\ t.blocks \in Seq(ABlock) /\ owed \in Seq(ABlock) /\ Len(owed) <= Len(t.blocks)
  /\ \A i \in 1..Len(t.blocks) :
       /\ t.blocks[i].said = One(<<j, i>>)
       /\ t.blocks[i].kind = IF i <= Len(owed) THEN "result" ELSE "text"
       /\ i <= Len(owed) => t.blocks[i].id = owed[i].id /\ t.blocks[i].answers = owed[i].said

\* The results of a question, and its texts.
Results(t) == OfKind(t.blocks, {"result"})
Texts(t) == OfKind(t.blocks, {"text"})

\* A question is its results, one for each call, and its texts.
LEMMA QuestionSplit ==
  ASSUME NEW t, NEW j \in Nat, NEW owed, UserTurn(t, j, owed)
  PROVE  /\ Results(t) \in Seq(ABlock) /\ Texts(t) \in Seq(ABlock)
         /\ AllOf(Results(t), {"result"}) /\ AllOf(Texts(t), {"text"})
         /\ t.blocks = Results(t) \o Texts(t)
         /\ Len(Results(t)) = Len(owed) /\ \A i \in 1..Len(owed) : Results(t)[i] = t.blocks[i]
         /\ \A k \in {"thinking", "extra", "call"} : OfKind(t.blocks, {k}) = <<>>
<1> DEFINE bs == t.blocks
           c == Len(owed)
           n == Len(bs)
           R == [i \in 1..c |-> bs[i]]
           T == [i \in 1..(n - c) |-> bs[c + i]]
<1>1. bs \in Seq(ABlock) /\ n \in Nat /\ c \in Nat /\ c <= n /\ \A i \in 1..n : bs[i] \in ABlock
  BY DEF UserTurn
<1>0. \A i \in 1..n : (i <= c => bs[i].kind = "result") /\ (~(i <= c) => bs[i].kind = "text")
  BY DEF UserTurn
<1>2. \A i \in 1..c : i \in 1..n /\ i <= c
  BY <1>1
<1>3. \A i \in 1..(n - c) : c + i \in 1..n /\ ~(c + i <= c)
  BY <1>1
<1>4. R \in Seq(ABlock) /\ Len(R) = c /\ \A i \in 1..c : R[i] = bs[i]
  BY <1>1, <1>2
<1>5. T \in Seq(ABlock) /\ Len(T) = n - c /\ \A i \in 1..(n - c) : T[i] = bs[c + i]
  <2>1. n - c \in Nat /\ \A i \in 1..(n - c) : bs[c + i] \in ABlock
    BY <1>1, <1>3
  <2> QED
    BY <2>1
<1>6. AllOf(R, {"result"})
  <2>1. \A i \in 1..c : bs[i].kind = "result"
    BY <1>0, <1>2
  <2> QED
    BY <1>4, <2>1 DEF AllOf
<1>7. AllOf(T, {"text"})
  <2>1. \A i \in 1..(n - c) : bs[c + i].kind = "text"
    BY <1>0, <1>3
  <2> QED
    BY <1>5, <2>1 DEF AllOf
<1> HIDE DEF R, T, c, n, bs
<1>8. bs = R \o T
  <2>1. n = Len(bs) /\ Len(R \o T) = Len(R) + Len(T) /\ R \o T \in Seq(ABlock)
    <3>1. n = Len(bs)
      BY DEF n
    <3>2. R \in Seq(ABlock) /\ T \in Seq(ABlock)
      BY <1>4, <1>5
    <3>3. Len(R \o T) = Len(R) + Len(T) /\ R \o T \in Seq(ABlock)
      BY <3>2, Concats
    <3> QED
      BY <3>1, <3>3
  <2>2. Len(R \o T) = n
    BY <1>1, <1>4, <1>5, <2>1
  <2>3. ASSUME NEW i \in 1..n PROVE bs[i] = (R \o T)[i]
    <3>1. /\ \A a \in 1..Len(R) : (R \o T)[a] = R[a]
          /\ \A a \in 1..Len(T) : (R \o T)[Len(R) + a] = T[a]
      <4>1. R \in Seq(ABlock) /\ T \in Seq(ABlock)
        BY <1>4, <1>5
      <4> QED
        BY <4>1, Concats
    <3>2. CASE i <= c
      <4>1. i \in 1..c
        BY <1>1, <3>2
      <4> QED
        BY <1>4, <3>1, <4>1
    <3>3. CASE ~(i <= c)
      <4>1. i - c \in 1..(n - c) /\ c + (i - c) = i
        BY <1>1, <3>3
      <4>2. T[i - c] = bs[c + (i - c)]
        BY <1>5, <4>1
      <4> QED
        BY <1>4, <1>5, <3>1, <4>1, <4>2
    <3> QED
      BY <3>2, <3>3
  <2>4. Len(bs) = Len(R \o T) /\ \A i \in 1..Len(bs) : bs[i] = (R \o T)[i]
    BY <2>1, <2>2, <2>3
  <2> QED
    BY <1>1, <2>1, <2>4, SequenceSame
<1> DEFINE RK == {"result"}
           TK == {"text"}
<1>9. RK \cap TK = {} /\ TK \cap RK = {} /\ AllOf(R, RK) /\ AllOf(T, TK)
      /\ \A k \in {"thinking", "extra", "call"} : {k} \cap RK = {} /\ {k} \cap TK = {}
  BY <1>6, <1>7
<1> HIDE DEF RK, TK
<1>10. \A ks : OfKind(bs, ks) = OfKind(R, ks) \o OfKind(T, ks)
  BY <1>4, <1>5, <1>8, KindJoin
<1>11. OfKind(R, RK) = R /\ OfKind(T, TK) = T
  BY <1>4, <1>5, <1>9, KindAll
<1>12. OfKind(R, TK) = <<>> /\ OfKind(T, RK) = <<>>
  BY <1>4, <1>5, <1>9, KindNone
<1>13. <<>> \o <<>> = <<>> /\ \A s \in Seq(ABlock) : <<>> \o s = s /\ s \o <<>> = s
  BY ConcatEmptySeq
<1>14. OfKind(bs, RK) = R /\ OfKind(bs, TK) = T
  <2>1. OfKind(bs, RK) = R \o <<>> /\ OfKind(bs, TK) = <<>> \o T
    BY <1>10, <1>11, <1>12
  <2> QED
    BY <1>4, <1>5, <1>13, <2>1
<1>15. ASSUME NEW k \in {"thinking", "extra", "call"} PROVE OfKind(bs, {k}) = <<>>
  <2> DEFINE ks == {k}
  <2>1. ks \cap RK = {} /\ ks \cap TK = {}
    BY <1>9
  <2> HIDE DEF ks
  <2>2. OfKind(R, ks) = <<>>
    BY <1>4, <1>9, <2>1, KindNone
  <2>3. OfKind(T, ks) = <<>>
    BY <1>5, <1>9, <2>1, KindNone
  <2>4. OfKind(bs, ks) = <<>>
    BY <1>10, <1>13, <2>2, <2>3
  <2> QED
    BY <2>4 DEF ks
<1> QED
  BY <1>4, <1>5, <1>6, <1>7, <1>8, <1>14, <1>15 DEF Results, Texts, bs, RK, TK, c

\* The message of a result.
ToolOf == [b \in ABlock |-> One(ToolMessage(b))]

\* (It has the result, and no calls.)
LEMMA ToolTold ==
  ASSUME NEW b \in ABlock
  PROVE  /\ ToolMessage(b) \in AMessage /\ ToolMessage(b).role = "tool" /\ ToolMessage(b).result = b
         /\ ToolMessage(b).mark = b.mark /\ ToolMessage(b).calls = <<>>
<1> DEFINE m == Message("tool", <<>>)
<1>1. m \in AMessage /\ m.role = "tool" /\ m.calls = <<>>
  <2>1. <<>> \in Seq(SaidItem)
    OBVIOUS
  <2> QED
    BY <2>1, Messaged
<1> HIDE DEF m
<1>2. b.mark \in BOOLEAN
  BY DEF ABlock
<1>3. ToolMessage(b) = [m EXCEPT !.result = b, !.mark = b.mark]
  BY DEF ToolMessage, m
<1> QED
  BY <1>1, <1>2, <1>3 DEF AMessage

\* The messages of results are spread from them.
LEMMA ToolsAre ==
  /\ ToolOf \in [ABlock -> Seq(AMessage)]
  /\ \A b \in ABlock : ToolOf[b] = One(ToolMessage(b))
  /\ \A bs \in Seq(ABlock) : Each(bs, LAMBDA b : <<ToolMessage(b)>>) = Spread(bs, ToolOf)
<1>1. \A b \in ABlock : ToolOf[b] = One(ToolMessage(b))
  BY DEF ToolOf
<1>2. \A b \in ABlock : One(ToolMessage(b)) \in Seq(AMessage)
  BY ToolTold, OneOf
<1>3. ASSUME NEW bs \in Seq(ABlock) PROVE Each(bs, LAMBDA b : <<ToolMessage(b)>>) = Spread(bs, ToolOf)
  <2>1. \A i \in 1..Len(bs) : <<ToolMessage(bs[i])>> = ToolOf[bs[i]]
    BY <1>1 DEF One
  <2>2. [i \in 1..Len(bs) |-> <<ToolMessage(bs[i])>>] = [i \in 1..Len(bs) |-> ToolOf[bs[i]]]
    BY <2>1
  <2> QED
    BY <2>2 DEF Each, Spread
<1>4. ToolOf \in [ABlock -> Seq(AMessage)]
  BY <1>2 DEF ToolOf
<1> QED
  BY <1>1, <1>3, <1>4

\* The message that the texts of a question are, which may be left out when there are none.
Asked(t, c, m) ==
  /\ m \in AMessage /\ m.role = "user" /\ m.text = Said(Texts(t))
  /\ m.calls = <<>> /\ m.thinking = <<>> /\ m.extra = <<>>
  /\ m.ordered = <<>> \/ (m.ordered = t.blocks /\ Results(t) = <<>>)
  /\ ~c => m.text = <<>>
  /\ spoken # "anthropic" => m.ordered = <<>>
  /\ spoken = "anthropic" =>
       /\ m.mark = FALSE
       /\ Results(t) = <<>> => c /\ (m.ordered = t.blocks \/ \A b \in ToSet(t.blocks) : b.mark = FALSE)

\* A question over /v1/messages becomes a message for each result, and one for the
\* texts; and so does
LEMMA QuestionFlattened ==
  ASSUME NEW t, NEW j \in Nat, NEW owed, UserTurn(t, j, owed), spoken = "anthropic"
  PROVE  \E c \in BOOLEAN, m \in AMessage : Asked(t, c, m) /\ TurnMessages(t) = Spread(Results(t), ToolOf) \o (IF c THEN One(m) ELSE <<>>)
<1> DEFINE bs == t.blocks
           text == Said(OfKind(bs, {"text"}))
           ordered == IF Ordered("user", bs) THEN bs ELSE <<>>
           m == [Message("user", text) EXCEPT
                    !.calls = OfKind(bs, {"call"}),
                    !.thinking = OfKind(bs, {"thinking"}),
                    !.extra = OfKind(bs, {"extra"}),
                    !.ordered = ordered]
           c == OfKind(bs, {"result"}) = <<>> \/ text # <<>> \/ ordered # <<>>
<1>1. /\ bs \in Seq(ABlock) /\ t.role = "user" /\ <<>> \in Seq(ABlock)
      /\ OfKind(bs, {"call"}) = <<>> /\ OfKind(bs, {"thinking"}) = <<>> /\ OfKind(bs, {"extra"}) = <<>>
  <2>1. bs \in Seq(ABlock) /\ t.role = "user"
    BY DEF UserTurn
  <2>2. \A k \in {"thinking", "extra", "call"} : OfKind(bs, {k}) = <<>>
    BY QuestionSplit
  <2> QED
    BY <2>1, <2>2
<1>2. text \in Seq(SaidItem) /\ ordered \in Seq(ABlock) /\ Results(t) = OfKind(bs, {"result"}) /\ Texts(t) = OfKind(bs, {"text"})
  BY <1>1, KindType DEF Results, Texts
<1>3. TurnMessages(t) = Each(OfKind(bs, {"result"}), LAMBDA b : <<ToolMessage(b)>>) \o Optional(c, m)
  <2>1. TurnMessages(t) = FlattenContent("user", bs)
    BY <1>1 DEF TurnMessages, Held
  <2> QED
    BY <2>1 DEF FlattenContent
<1>4. Optional(c, m) = IF c THEN One(m) ELSE <<>>
  BY DEF Optional, One
<1>5. Each(OfKind(bs, {"result"}), LAMBDA b : <<ToolMessage(b)>>) = Spread(Results(t), ToolOf)
  BY <1>1, <1>2, KindType, ToolsAre
<1>6. ordered # <<>> => ordered = bs /\ Texts(t) = bs
  BY <1>2 DEF Ordered
<1>7. Texts(t) = bs => Results(t) = <<>>
  <2> DEFINE ks == {"result"}
             ls == {"text"}
  <2>1. ASSUME Texts(t) = bs PROVE AllOf(bs, ls)
    BY <2>1, QuestionSplit
  <2>2. ks \cap ls = {}
    OBVIOUS
  <2> HIDE DEF ks, ls
  <2>3. AllOf(bs, ls) => OfKind(bs, ks) = <<>>
    BY <1>1, <2>2, KindNone
  <2> QED
    BY <1>2, <2>1, <2>3 DEF ks
<1>8. Results(t) = <<>> => Texts(t) = bs
  <2>1. bs = Results(t) \o Texts(t) /\ Texts(t) \in Seq(ABlock)
    BY QuestionSplit
  <2> QED
    BY <2>1, ConcatEmptySeq
<1>9. Texts(t) = bs /\ ordered # bs => \A b \in ToSet(bs) : b.mark = FALSE
  <2>1. ASSUME Texts(t) = bs, ordered # bs PROVE ~ \E i \in DOMAIN bs : bs[i].mark
    BY <1>2, <2>1 DEF Ordered
  <2>2. \A b \in ToSet(bs) : b.mark \in BOOLEAN
    <3>1. \A i \in 1..Len(bs) : bs[i] \in ABlock
      BY <1>1
    <3>2. \A b \in ABlock : b.mark \in BOOLEAN
      BY DEF ABlock
    <3>3. \A b \in ToSet(bs) : b \in ABlock
      BY <1>1, <3>1, ToSetOf
    <3> QED
      BY <3>2, <3>3
  <2>3. DOMAIN bs = 1..Len(bs)
    BY <1>1
  <2> QED
    BY <1>1, <2>1, <2>2, <2>3, ToSetOf
<1>10. /\ Message("user", text) \in AMessage
       /\ Message("user", text).role = "user" /\ Message("user", text).text = text
       /\ Message("user", text).mark = FALSE
  BY <1>2, Messaged
<1>11. /\ m \in AMessage /\ m.role = "user" /\ m.text = text /\ m.mark = FALSE
       /\ m.calls = <<>> /\ m.thinking = <<>> /\ m.extra = <<>> /\ m.ordered = ordered
  <2> HIDE DEF text, ordered, bs
  <2> QED
    BY <1>1, <1>2, <1>10 DEF AMessage
<1>12. c = (Results(t) = <<>> \/ text # <<>> \/ ordered # <<>>) /\ text = Said(Texts(t)) /\ c \in BOOLEAN
  BY <1>2
<1> HIDE DEF m, ordered, text, c, bs
<1>13. Asked(t, c, m)
  <2>1. m.ordered = <<>> \/ (m.ordered = t.blocks /\ Results(t) = <<>>)
    <3>1. m.ordered = <<>> \/ (m.ordered = bs /\ Results(t) = <<>>)
      BY <1>6, <1>7, <1>11
    <3> QED
      BY <3>1 DEF bs
  <2>2. Results(t) = <<>> => c /\ (m.ordered = t.blocks \/ \A b \in ToSet(t.blocks) : b.mark = FALSE)
    BY <1>8, <1>9, <1>11, <1>12 DEF bs
  <2> QED
    BY <1>11, <1>12, <2>1, <2>2 DEF Asked
<1>14. TurnMessages(t) = Spread(Results(t), ToolOf) \o (IF c THEN One(m) ELSE <<>>)
  BY <1>3, <1>4, <1>5
<1> QED
  BY <1>11, <1>12, <1>13, <1>14

\* one over the other routes.
LEMMA QuestionPlain ==
  ASSUME NEW t, NEW j \in Nat, NEW owed, UserTurn(t, j, owed), spoken # "anthropic"
  PROVE  \E c \in BOOLEAN, m \in AMessage : Asked(t, c, m) /\ TurnMessages(t) = Spread(Results(t), ToolOf) \o (IF c THEN One(m) ELSE <<>>)
<1> DEFINE bs == t.blocks
           texts == OfKind(bs, {"text"})
           marked == \E i \in DOMAIN texts : texts[i].mark
           m == [Message("user", Said(texts)) EXCEPT !.mark = marked]
           c == texts # <<>>
<1>1. bs \in Seq(ABlock) /\ t.role = "user" /\ marked \in BOOLEAN /\ c \in BOOLEAN
  <2>1. marked \in BOOLEAN
    OBVIOUS
  <2>2. c \in BOOLEAN
    OBVIOUS
  <2> QED
    BY <2>1, <2>2 DEF UserTurn
<1>2. texts = Texts(t) /\ OfKind(bs, {"result"}) = Results(t) /\ Results(t) \in Seq(ABlock) /\ Said(texts) \in Seq(SaidItem)
  BY <1>1, KindType DEF Texts, Results
<1>3. TurnMessages(t) = Each(OfKind(bs, {"result"}), LAMBDA b : <<ToolMessage(b)>>) \o Optional(c, m)
  <2>1. TurnMessages(t) = Plain(bs)
    BY <1>1 DEF TurnMessages
  <2> QED
    BY <2>1 DEF Plain
<1>4. Optional(c, m) = IF c THEN One(m) ELSE <<>>
  BY DEF Optional, One
<1>5. Each(OfKind(bs, {"result"}), LAMBDA b : <<ToolMessage(b)>>) = Spread(Results(t), ToolOf)
  BY <1>2, ToolsAre
<1>6. /\ Message("user", Said(texts)) \in AMessage
      /\ Message("user", Said(texts)).role = "user" /\ Message("user", Said(texts)).text = Said(texts)
      /\ Message("user", Said(texts)).calls = <<>> /\ Message("user", Said(texts)).thinking = <<>>
      /\ Message("user", Said(texts)).extra = <<>> /\ Message("user", Said(texts)).ordered = <<>>
  BY <1>2, Messaged
<1>7. ~c => Said(texts) = <<>>
  BY KindNothing
<1> HIDE DEF texts, marked
<1>8. /\ m \in AMessage /\ m.role = "user" /\ m.text = Said(texts)
      /\ m.calls = <<>> /\ m.thinking = <<>> /\ m.extra = <<>> /\ m.ordered = <<>>
  BY <1>1, <1>6 DEF AMessage
<1> HIDE DEF m, c
<1>9. Asked(t, c, m)
  <2>1. m.text = Said(Texts(t))
    BY <1>2, <1>8
  <2>2. ~c => m.text = <<>>
    BY <1>7, <1>8 DEF c
  <2> QED
    BY <1>8, <2>1, <2>2 DEF Asked
<1> QED
  BY <1>1, <1>3, <1>4, <1>5, <1>8, <1>9

-----------------------------------------------------------------------------
(* Conversation: what an upstream is sent for an answer *)

\* The blocks that upstream p is sent for a message of the conversation ms.
SentAs(p, ms, m) ==
  CASE p = "anthropic" -> AnthropicMessage(m).blocks
    [] p = "openai" -> OpenAIMessage(m).blocks
    [] p = "gemini" -> GeminiContent(m).blocks
    [] p = "ollama" -> OllamaMessage(ms, m).blocks

\* What is sent tells what is held.
Tells(p, S, H) ==
  /\ S \in Seq(ABlock) /\ AllOf(S, Carried(p))
  /\ \A k \in Carried(p) : Said(OfKind(S, {k})) = Said(OfKind(H, {k}))
  /\ p = "anthropic" => Said(S) = Said(H)

\* Thinking, texts and calls that are joined can be told apart; and so can
LEMMA ThreeApart ==
  ASSUME NEW a \in Seq(ABlock), NEW b \in Seq(ABlock), NEW c \in Seq(ABlock),
         AllOf(a, {"thinking"}), AllOf(b, {"text"}), AllOf(c, {"call"})
  PROVE  LET F == a \o b \o c
         IN  /\ F \in Seq(ABlock) /\ AllOf(F, {"thinking", "text", "call"})
             /\ OfKind(F, {"thinking"}) = a /\ OfKind(F, {"text"}) = b /\ OfKind(F, {"call"}) = c
             /\ OfKind(F, {"result"}) = <<>> /\ OfKind(F, {"extra"}) = <<>>
<1> DEFINE ab == a \o b
           F == ab \o c
           All == {"thinking", "text", "call"}
           T == {"thinking"}
           X == {"text"}
           C == {"call"}
           R == {"result"}
           E == {"extra"}
<1>1. AllOf(a, All) /\ AllOf(b, All) /\ AllOf(c, All)
  BY DEF AllOf
<1>2. AllOf(a, T) /\ AllOf(b, X) /\ AllOf(c, C)
  OBVIOUS
<1>3. /\ T \cap X = {} /\ T \cap C = {} /\ X \cap C = {} /\ X \cap T = {} /\ C \cap T = {} /\ C \cap X = {}
      /\ R \cap All = {} /\ E \cap All = {}
  OBVIOUS
<1> HIDE DEF All, T, X, C, R, E
<1>4. ab \in Seq(ABlock) /\ AllOf(ab, All) /\ \A ks : OfKind(ab, ks) = OfKind(a, ks) \o OfKind(b, ks)
  <2>1. ab \in Seq(ABlock)
    OBVIOUS
  <2>2. AllOf(ab, All)
    BY <1>1, AllOfJoin
  <2>3. \A ks : OfKind(ab, ks) = OfKind(a, ks) \o OfKind(b, ks)
    BY KindJoin
  <2> QED
    BY <2>1, <2>2, <2>3
<1> HIDE DEF ab
<1>5. F \in Seq(ABlock) /\ AllOf(F, All) /\ \A ks : OfKind(F, ks) = OfKind(ab, ks) \o OfKind(c, ks)
  <2>1. F \in Seq(ABlock)
    BY <1>4
  <2>2. AllOf(F, All)
    BY <1>1, <1>4, AllOfJoin
  <2>3. \A ks : OfKind(F, ks) = OfKind(ab, ks) \o OfKind(c, ks)
    BY <1>4, KindJoin
  <2> QED
    BY <2>1, <2>2, <2>3
<1> HIDE DEF F
<1>6. OfKind(a, T) = a /\ OfKind(b, X) = b /\ OfKind(c, C) = c
  BY <1>2, KindAll
<1>7. OfKind(a, X) = <<>> /\ OfKind(a, C) = <<>>
  BY <1>2, <1>3, KindNone
<1>8. OfKind(b, T) = <<>> /\ OfKind(b, C) = <<>>
  BY <1>2, <1>3, KindNone
<1>9. OfKind(c, T) = <<>> /\ OfKind(c, X) = <<>>
  BY <1>2, <1>3, KindNone
<1>10. OfKind(F, R) = <<>> /\ OfKind(F, E) = <<>>
  BY <1>3, <1>5, KindNone
<1>11. <<>> \o <<>> = <<>> /\ \A s \in Seq(ABlock) : <<>> \o s = s /\ s \o <<>> = s
  BY ConcatEmptySeq
<1>12. OfKind(ab, T) = a /\ OfKind(ab, X) = b /\ OfKind(ab, C) = <<>>
  <2>1. OfKind(ab, T) = a \o <<>> /\ OfKind(ab, X) = <<>> \o b /\ OfKind(ab, C) = <<>> \o <<>>
    BY <1>4, <1>6, <1>7, <1>8
  <2> QED
    BY <1>11, <2>1
<1>13. OfKind(F, T) = a /\ OfKind(F, X) = b /\ OfKind(F, C) = c
  <2>1. OfKind(F, T) = a \o <<>> /\ OfKind(F, X) = b \o <<>> /\ OfKind(F, C) = <<>> \o c
    BY <1>5, <1>6, <1>9, <1>12
  <2> QED
    BY <1>11, <2>1
<1> QED
  BY <1>5, <1>10, <1>13 DEF F, ab, All, T, X, C, R, E

\* texts and calls.
LEMMA TwoApart ==
  ASSUME NEW b \in Seq(ABlock), NEW c \in Seq(ABlock), AllOf(b, {"text"}), AllOf(c, {"call"})
  PROVE  LET F == b \o c
         IN  /\ F \in Seq(ABlock) /\ AllOf(F, {"text", "call"})
             /\ OfKind(F, {"thinking"}) = <<>> /\ OfKind(F, {"text"}) = b /\ OfKind(F, {"call"}) = c
             /\ OfKind(F, {"result"}) = <<>> /\ OfKind(F, {"extra"}) = <<>>
<1> DEFINE a == <<>>
           F == a \o b \o c
           X == {"text", "call"}
<1>1. a \in Seq(ABlock) /\ AllOf(a, {"thinking"})
  BY AllOfNothing
<1>2. a \o b = b
  BY ConcatEmptySeq
<1>3. AllOf(b, X) /\ AllOf(c, X)
  BY DEF AllOf
<1> HIDE DEF a, X
<1>4. AllOf(b \o c, X)
  BY <1>3, AllOfJoin
<1>5. /\ F \in Seq(ABlock)
      /\ OfKind(F, {"thinking"}) = a /\ OfKind(F, {"text"}) = b /\ OfKind(F, {"call"}) = c
      /\ OfKind(F, {"result"}) = <<>> /\ OfKind(F, {"extra"}) = <<>>
  BY <1>1, ThreeApart
<1>6. F = b \o c
  BY <1>2
<1> HIDE DEF F
<1> QED
  BY <1>4, <1>5, <1>6 DEF a, X

\* A message that has only text is one block, even when the text is empty.
LEMMA TextTold ==
  ASSUME NEW m \in AMessage
  PROVE  LET S == <<Block("text", m.text)>>
         IN  /\ S \in Seq(ABlock) /\ AllOf(S, {"text"}) /\ Said(S) = m.text
             /\ Said(OfKind(S, {"text"})) = m.text
             /\ \A k \in {"thinking", "extra", "call", "result"} : OfKind(S, {k}) = <<>>
             /\ \A b \in ToSet(S) : b.mark = FALSE /\ b.said = m.text
<1> DEFINE S == One(Block("text", m.text))
           X == {"text"}
<1>1. S \in Seq(ABlock) /\ AllOf(S, X) /\ Said(S) = m.text
  BY TextBlocked
<1>2. \A k \in {"thinking", "extra", "call", "result"} : {k} \cap X = {}
  OBVIOUS
<1>0. \A b \in ToSet(S) : b.mark = FALSE /\ b.said = m.text
  <2>1. m.text \in Seq(SaidItem) /\ "text" \in AllKinds
    BY DEF AMessage, AllKinds
  <2>2. Block("text", m.text) \in ABlock /\ Block("text", m.text).mark = FALSE /\ Block("text", m.text).said = m.text
    BY <2>1, Blocked, ZenonT(40)
  <2> QED
    BY <2>2, OneOf
<1> HIDE DEF S, X
<1>3. OfKind(S, X) = S
  BY <1>1, KindAll
<1>4. ASSUME NEW k \in {"thinking", "extra", "call", "result"} PROVE OfKind(S, {k}) = <<>>
  BY <1>1, <1>2, KindNone
<1>5. S = <<Block("text", m.text)>>
  BY DEF S, One
<1> QED
  BY <1>0, <1>1, <1>3, <1>4, <1>5 DEF X

\* What is sent for an answer tells it; its calls are the message's.
TellsAnswer(p, S, M, H, j) ==
  /\ Tells(p, S, H)
  /\ p # "gemini" => CallsIn(S) = M.calls
  /\ p = "anthropic" => \A b \in ToSet(S) : b.mark = FALSE

\* Blocks that say the same, one by one, say the same.
LEMMA SaidAlike ==
  ASSUME NEW s, NEW u, Len(s) = Len(u), \A i \in 1..Len(s) : s[i].said = u[i].said
  PROVE  Said(s) = Said(u)
<1>1. [i \in 1..Len(s) |-> s[i].said] = [i \in 1..Len(u) |-> u[i].said]
  OBVIOUS
<1> QED
  BY <1>1 DEF Said, Each

\* An answer has no results.
LEMMA HeldKinds ==
  ASSUME NEW H \in Seq(ABlock), AllOf(H, AnswerKinds)
  PROVE  OfKind(H, {"result"}) = <<>>
<1> DEFINE ks == {"result"}
<1>1. ks \cap AnswerKinds = {}
  BY DEF AnswerKinds
<1> HIDE DEF ks
<1>2. OfKind(H, ks) = <<>>
  BY <1>1, KindNone
<1> QED
  BY <1>2 DEF ks

\* Blocks that are the message's, kind by kind, tell it.
LEMMA KindsTell ==
  ASSUME NEW t, NEW j, NEW M, NEW H, HeldFine(M, H, t, j), NEW p \in Upstreams,
         NEW S \in Seq(ABlock), AllOf(S, Carried(p)),
         Said(OfKind(S, {"text"})) = M.text, Said(OfKind(S, {"call"})) = Said(M.calls),
         OfKind(S, {"result"}) = <<>>,
         p \in {"anthropic", "ollama"} => OfKind(S, {"thinking"}) = M.thinking,
         p = "anthropic" => OfKind(S, {"extra"}) = M.extra /\ Said(S) = Said(H)
  PROVE  Tells(p, S, H)
<1>1. OfKind(H, {"result"}) = <<>>
  BY HeldKinds DEF HeldFine
<1>2. /\ Said(OfKind(H, {"text"})) = M.text /\ OfKind(H, {"call"}) = M.calls
      /\ OfKind(H, {"thinking"}) = M.thinking /\ OfKind(H, {"extra"}) = M.extra
  BY DEF HeldFine, CallsIn
<1>3. ASSUME NEW k \in Carried(p) PROVE Said(OfKind(S, {k})) = Said(OfKind(H, {k}))
  <2>1. /\ k \in {"thinking", "extra", "text", "call", "result"}
        /\ k = "thinking" => p \in {"anthropic", "ollama"}
        /\ k = "extra" => p = "anthropic"
    BY <1>3 DEF Carried, Upstreams
  <2> QED
    BY <1>1, <1>2, <2>1
<1> QED
  BY <1>3 DEF Tells

\* What OpenAI is sent for an answer tells it; so does what
LEMMA OpenAITold ==
  ASSUME NEW t, NEW j, NEW M, NEW H, HeldFine(M, H, t, j)
  PROVE  TellsAnswer("openai", OpenAIMessage(M).blocks, M, H, j)
<1> DEFINE S == TextBlock(M) \o M.calls
<1>1. M \in AMessage /\ M.role = "assistant" /\ M.calls \in Seq(ABlock) /\ AllOf(M.calls, {"call"})
  BY DEF HeldFine, Kept, AMessage
<1>2. TextBlock(M) \in Seq(ABlock) /\ AllOf(TextBlock(M), {"text"}) /\ Said(TextBlock(M)) = M.text
  BY <1>1, TextBlocked
<1>4. /\ S \in Seq(ABlock) /\ AllOf(S, {"text", "call"})
      /\ OfKind(S, {"text"}) = TextBlock(M) /\ OfKind(S, {"call"}) = M.calls
      /\ OfKind(S, {"result"}) = <<>>
  BY <1>1, <1>2, TwoApart
<1>5. OpenAIMessage(M).blocks = S
  BY <1>1 DEF OpenAIMessage, TextBlock
<1> HIDE DEF S
<1>6. AllOf(S, Carried("openai"))
  BY <1>4 DEF Carried, AllOf
<1>7. Tells("openai", S, H)
  <2> DEFINE p == "openai"
  <2>1. p \in Upstreams /\ ~(p \in {"anthropic", "ollama"}) /\ p # "anthropic" /\ AllOf(S, Carried(p))
    BY <1>6 DEF Upstreams
  <2>2. Said(OfKind(S, {"text"})) = M.text /\ Said(OfKind(S, {"call"})) = Said(M.calls)
    BY <1>2, <1>4
  <2> HIDE DEF p
  <2>3. Tells(p, S, H)
    BY <1>4, <2>1, <2>2, KindsTell
  <2> QED
    BY <2>3 DEF p
<1> QED
  BY <1>4, <1>5, <1>7 DEF TellsAnswer, CallsIn

\* Ollama is sent,
LEMMA OllamaTold ==
  ASSUME NEW t, NEW j, NEW M, NEW H, HeldFine(M, H, t, j), NEW ms
  PROVE  TellsAnswer("ollama", OllamaMessage(ms, M).blocks, M, H, j)
<1> DEFINE S == M.thinking \o TextBlock(M) \o M.calls
<1>1. M \in AMessage /\ M.role = "assistant" /\ M.calls \in Seq(ABlock) /\ AllOf(M.calls, {"call"})
      /\ M.thinking \in Seq(ABlock) /\ AllOf(M.thinking, {"thinking"})
  BY DEF HeldFine, Kept, AMessage
<1>2. TextBlock(M) \in Seq(ABlock) /\ AllOf(TextBlock(M), {"text"}) /\ Said(TextBlock(M)) = M.text
  BY <1>1, TextBlocked
<1>4. /\ S \in Seq(ABlock) /\ AllOf(S, {"thinking", "text", "call"})
      /\ OfKind(S, {"text"}) = TextBlock(M) /\ OfKind(S, {"call"}) = M.calls
      /\ OfKind(S, {"result"}) = <<>> /\ OfKind(S, {"thinking"}) = M.thinking
  BY <1>1, <1>2, ThreeApart
<1>5. OllamaMessage(ms, M).blocks = S
  BY <1>1 DEF OllamaMessage, TextBlock
<1> HIDE DEF S
<1>6. AllOf(S, Carried("ollama"))
  BY <1>4 DEF Carried, AllOf
<1>7. Tells("ollama", S, H)
  <2> DEFINE p == "ollama"
  <2>1. p \in Upstreams /\ p # "anthropic" /\ AllOf(S, Carried(p))
    BY <1>6 DEF Upstreams
  <2>2. Said(OfKind(S, {"text"})) = M.text /\ Said(OfKind(S, {"call"})) = Said(M.calls)
    BY <1>2, <1>4
  <2> HIDE DEF p
  <2>3. Tells(p, S, H)
    BY <1>4, <2>1, <2>2, KindsTell
  <2> QED
    BY <2>3 DEF p
<1> QED
  BY <1>4, <1>5, <1>7 DEF TellsAnswer, CallsIn

\* Calls without their ids.
LEMMA CallsBare ==
  ASSUME NEW cs \in Seq(ABlock), AllOf(cs, {"call"})
  PROVE  LET B == Each(cs, LAMBDA c : <<[c EXCEPT !.id = NoId]>>)
         IN  B \in Seq(ABlock) /\ AllOf(B, {"call"}) /\ Said(B) = Said(cs)
<1> DEFINE h == [c \in ABlock |-> [c EXCEPT !.id = NoId]]
           f == [c \in ABlock |-> One(h[c])]
           B == Spread(cs, f)
<1>1. \A c \in ABlock : /\ [c EXCEPT !.id = NoId] \in ABlock
                     /\ [c EXCEPT !.id = NoId].kind = c.kind /\ [c EXCEPT !.id = NoId].said = c.said
  BY Changed, CallIds
<1>2. h \in [ABlock -> ABlock] /\ \A c \in ABlock : h[c].kind = c.kind /\ h[c].said = c.said
  BY <1>1
<1>3. \A c \in ABlock : f[c] = One(h[c])
  OBVIOUS
<1>4. B = Each(cs, LAMBDA c : <<[c EXCEPT !.id = NoId]>>)
  <2>1. \A i \in 1..Len(cs) : <<[cs[i] EXCEPT !.id = NoId]>> = f[cs[i]]
    <3>1. \A c \in ABlock : f[c] = One([c EXCEPT !.id = NoId])
      OBVIOUS
    <3>2. \A i \in 1..Len(cs) : cs[i] \in ABlock
      OBVIOUS
    <3> HIDE DEF f
    <3> QED
      BY <3>1, <3>2 DEF One
  <2> HIDE DEF f
  <2>2. [i \in 1..Len(cs) |-> <<[cs[i] EXCEPT !.id = NoId]>>] = [i \in 1..Len(cs) |-> f[cs[i]]]
    BY <2>1
  <2> QED
    BY <2>2 DEF Each, Spread
<1> HIDE DEF h, f
<1>5. B \in Seq(ABlock) /\ Len(B) = Len(cs) /\ \A i \in 1..Len(cs) : B[i] = h[cs[i]]
  <2>1. h \in [ABlock -> ABlock] /\ cs \in Seq(ABlock) /\ Singly(f, h, ABlock)
    BY <1>2, <1>3 DEF Singly
  <2>2. /\ Spread(cs, f) \in Seq(ABlock) /\ Len(Spread(cs, f)) = Len(cs)
        /\ \A i \in 1..Len(cs) : Spread(cs, f)[i] = h[cs[i]]
    BY <2>1, SpreadEach
  <2> QED
    BY <2>2
<1> HIDE DEF B
<1>6. \A i \in 1..Len(cs) : cs[i] \in ABlock
  OBVIOUS
<1>7. AllOf(B, {"call"})
  BY <1>2, <1>5, <1>6 DEF AllOf
<1>8. Said(B) = Said(cs)
  <2>1. \A i \in 1..Len(cs) : B[i].said = cs[i].said
    BY <1>2, <1>5, <1>6
  <2> QED
    BY <1>5, <2>1, SaidAlike
<1> QED
  BY <1>4, <1>5, <1>7, <1>8

\* what Gemini is sent,
LEMMA GeminiTold ==
  ASSUME NEW t, NEW j, NEW M, NEW H, HeldFine(M, H, t, j)
  PROVE  TellsAnswer("gemini", GeminiContent(M).blocks, M, H, j)
<1> DEFINE p == "gemini"
           S == GeminiContent(M).blocks
           B == Each(M.calls, LAMBDA c : <<[c EXCEPT !.id = NoId]>>)
<1>1. M \in AMessage /\ M.role = "assistant" /\ M.calls \in Seq(ABlock) /\ AllOf(M.calls, {"call"})
  BY DEF HeldFine, Kept, AMessage
<1>2. TextBlock(M) \in Seq(ABlock) /\ AllOf(TextBlock(M), {"text"}) /\ Said(TextBlock(M)) = M.text
  BY <1>1, TextBlocked
<1>3. B \in Seq(ABlock) /\ AllOf(B, {"call"}) /\ Said(B) = Said(M.calls)
  BY <1>1, CallsBare
<1>4. S = IF M.calls # <<>> THEN TextBlock(M) \o B ELSE <<Block("text", M.text)>>
  BY <1>1 DEF GeminiContent, TextBlock
<1>5. p \in Upstreams /\ ~(p \in {"anthropic", "ollama"}) /\ p # "anthropic"
  BY DEF Upstreams
<1>6. ASSUME NEW F, AllOf(F, {"text", "call"}) PROVE AllOf(F, Carried(p))
  BY <1>6 DEF Carried, AllOf
<1> HIDE DEF S, B, p
<1>7. CASE M.calls # <<>>
  <2>1. S = TextBlock(M) \o B
    BY <1>4, <1>7
  <2>2. /\ S \in Seq(ABlock) /\ AllOf(S, {"text", "call"})
        /\ OfKind(S, {"text"}) = TextBlock(M) /\ OfKind(S, {"call"}) = B
        /\ OfKind(S, {"result"}) = <<>>
    BY <1>2, <1>3, <2>1, TwoApart
  <2>3. Said(OfKind(S, {"text"})) = M.text /\ Said(OfKind(S, {"call"})) = Said(M.calls)
    BY <1>2, <1>3, <2>2
  <2>4. AllOf(S, Carried(p))
    BY <1>6, <2>2
  <2>5. Tells(p, S, H)
    BY <1>5, <2>2, <2>3, <2>4, KindsTell
  <2> QED
    BY <1>5, <2>5 DEF TellsAnswer, S, p
<1>8. CASE M.calls = <<>>
  <2>1. S = <<Block("text", M.text)>>
    BY <1>4, <1>8
  <2>2. /\ S \in Seq(ABlock) /\ AllOf(S, {"text"}) /\ Said(OfKind(S, {"text"})) = M.text
        /\ \A k \in {"thinking", "extra", "call", "result"} : OfKind(S, {k}) = <<>>
    BY <1>1, <2>1, TextTold
  <2>3. OfKind(S, {"call"}) = M.calls /\ OfKind(S, {"result"}) = <<>> /\ AllOf(S, {"text", "call"})
    BY <1>8, <2>2 DEF AllOf
  <2>4. AllOf(S, Carried(p))
    BY <1>6, <2>3
  <2>5. Said(OfKind(S, {"call"})) = Said(M.calls)
    BY <2>3
  <2>6. Tells(p, S, H)
    BY <1>5, <2>2, <2>3, <2>4, <2>5, KindsTell
  <2> QED
    BY <1>5, <2>6 DEF TellsAnswer, S, p
<1> QED
  BY <1>7, <1>8

\* Blocks of a turn say what was said in it.
LEMMA SaidFrom ==
  ASSUME NEW bs \in Seq(ABlock), NEW j, \A b \in ToSet(bs) : From(b, j)
  PROVE  \A x \in ToSet(Said(bs)) : x[1] = j
<1>1. \A x \in ToSet(Said(bs)) : \E i \in 1..Len(bs) : x \in ToSet(bs[i].said)
  BY KindHas
<1>2. \A i \in 1..Len(bs) : bs[i] \in ToSet(bs)
  BY ToSetOf
<1> QED
  BY <1>1, <1>2 DEF From

\* The fields of a message say what the client holds of its turn.
LEMMA FieldsOfHeld ==
  ASSUME NEW t, NEW j, NEW M, NEW H, HeldFine(M, H, t, j)
  PROVE  FieldsFrom(M, j)
<1>1. /\ H \in Seq(ABlock) /\ \A b \in ToSet(H) : From(b, j)
      /\ Said(OfKind(H, {"text"})) = M.text /\ OfKind(H, {"call"}) = M.calls
      /\ OfKind(H, {"thinking"}) = M.thinking /\ OfKind(H, {"extra"}) = M.extra
  BY DEF HeldFine, CallsIn
<1>2. \A ks : OfKind(H, ks) \in Seq(ABlock) /\ \A b \in ToSet(OfKind(H, ks)) : From(b, j)
  BY <1>1, KindType, KindHas
<1> DEFINE ts == OfKind(H, {"text"})
<1>3. ts \in Seq(ABlock) /\ \A b \in ToSet(ts) : From(b, j)
  BY <1>2
<1> HIDE DEF ts
<1>4. \A x \in ToSet(Said(ts)) : x[1] = j
  BY <1>3, SaidFrom
<1> QED
  BY <1>1, <1>2, <1>4 DEF FieldsFrom, ts

\* The fields of an answer bear no marks.
LEMMA FieldsUnmarked ==
  ASSUME NEW t, NEW j, NEW M, NEW H, HeldFine(M, H, t, j), M.ordered = <<>>
  PROVE  \A b \in ToSet(FieldBlocks(M)) : b.mark = FALSE
<1>1. Kept(M) /\ H \in Seq(ABlock) /\ FieldsFrom(M, j)
  BY FieldsOfHeld DEF HeldFine
<1> QED
  BY <1>1, FieldBlocksFrom DEF From

\* and what Anthropic is sent, in the order of the answer.
LEMMA AnthropicTold ==
  ASSUME NEW t, NEW j, NEW M, NEW H, HeldFine(M, H, t, j)
  PROVE  TellsAnswer("anthropic", AnthropicMessage(M).blocks, M, H, j)
<1> DEFINE p == "anthropic"
           S == AnthropicMessage(M).blocks
<1>1. /\ M \in AMessage /\ Kept(M) /\ M.role = "assistant" /\ M.mark = FALSE
      /\ M.calls \in Seq(ABlock) /\ M.thinking \in Seq(ABlock) /\ M.extra \in Seq(ABlock)
  BY DEF HeldFine, Kept, AMessage
<1>2. S = IF M.ordered # <<>> THEN M.ordered
          ELSE IF M.calls \o M.thinking \o M.extra # <<>> THEN FieldBlocks(M)
          ELSE <<Block("text", M.text)>>
  BY <1>1 DEF AnthropicMessage, MarkLast
<1>3. p \in Upstreams /\ p = "anthropic" /\ Carried(p) = AnswerKinds \cup {"result"}
  BY DEF Upstreams, Carried, AnswerKinds
<1>4. ASSUME NEW F, AllOf(F, AnswerKinds) PROVE AllOf(F, Carried(p))
  BY <1>3, <1>4 DEF AllOf
<1> HIDE DEF p, S
<1>5. CASE M.ordered # <<>>
  <2>1. S = H
    BY <1>2, <1>5 DEF HeldFine
  <2>2. /\ S \in Seq(ABlock) /\ AllOf(S, AnswerKinds) /\ Said(OfKind(S, {"text"})) = M.text
        /\ CallsIn(S) = M.calls /\ OfKind(S, {"call"}) = M.calls
        /\ OfKind(S, {"thinking"}) = M.thinking /\ OfKind(S, {"extra"}) = M.extra
        /\ \A b \in ToSet(S) : From(b, j)
    BY <2>1 DEF HeldFine, CallsIn
  <2>3. OfKind(S, {"result"}) = <<>> /\ AllOf(S, Carried(p)) /\ Said(S) = Said(H) /\ Said(OfKind(S, {"call"})) = Said(M.calls)
    BY <1>4, <2>1, <2>2, HeldKinds
  <2>4. Tells(p, S, H)
    BY <1>3, <2>2, <2>3, KindsTell
  <2> QED
    BY <2>2, <2>4 DEF TellsAnswer, S, p, From
<1>6. CASE M.ordered = <<>> /\ M.calls \o M.thinking \o M.extra # <<>>
  <2>1. S = FieldBlocks(M)
    BY <1>2, <1>6
  <2>2. /\ S \in Seq(ABlock) /\ AllOf(S, AnswerKinds) /\ Said(OfKind(S, {"text"})) = M.text
        /\ CallsIn(S) = M.calls /\ OfKind(S, {"call"}) = M.calls
        /\ OfKind(S, {"thinking"}) = M.thinking /\ OfKind(S, {"extra"}) = M.extra
    BY <1>1, <2>1, FieldsApart DEF CallsIn
  <2>3. /\ OfKind(S, {"result"}) = <<>> /\ AllOf(S, Carried(p)) /\ Said(OfKind(S, {"call"})) = Said(M.calls)
    BY <1>4, <2>2, HeldKinds
  <2>4. Said(S) = Said(H)
    BY <1>6, <2>1 DEF HeldFine
  <2>5. Tells(p, S, H)
    BY <1>3, <2>2, <2>3, <2>4, KindsTell
  <2>6. \A b \in ToSet(S) : b.mark = FALSE
    <3>1. \A b \in ToSet(FieldBlocks(M)) : b.mark = FALSE
      BY <1>6, FieldsUnmarked
    <3> QED
      BY <2>1, <3>1
  <2> QED
    BY <2>2, <2>5, <2>6 DEF TellsAnswer, S, p
<1>7. CASE M.ordered = <<>> /\ M.calls \o M.thinking \o M.extra = <<>>
  <2>1. S = <<Block("text", M.text)>>
    BY <1>2, <1>7
  <2>2. M.calls = <<>> /\ M.thinking = <<>> /\ M.extra = <<>>
    BY <1>1, <1>7
  <2>3. /\ S \in Seq(ABlock) /\ AllOf(S, {"text"}) /\ Said(S) = M.text
        /\ Said(OfKind(S, {"text"})) = M.text
        /\ \A k \in {"thinking", "extra", "call", "result"} : OfKind(S, {k}) = <<>>
        /\ \A b \in ToSet(S) : b.mark = FALSE /\ b.said = M.text
    BY <1>1, <2>1, TextTold
  <2>4. /\ OfKind(S, {"call"}) = M.calls /\ OfKind(S, {"result"}) = <<>>
        /\ OfKind(S, {"thinking"}) = M.thinking /\ OfKind(S, {"extra"}) = M.extra
    BY <2>2, <2>3
  <2>5. AllOf(S, Carried(p))
    <3>1. AllOf(S, AnswerKinds)
      BY <2>3 DEF AllOf, AnswerKinds
    <3> QED
      BY <1>4, <3>1
  <2>6. Said(S) = Said(H)
    <3>1. Said(H) = Said(FieldBlocks(M))
      BY <1>7 DEF HeldFine
    <3>2. TextBlock(M) \in Seq(ABlock) /\ Said(TextBlock(M)) = M.text
      BY <1>1, TextBlocked
    <3>3. FieldBlocks(M) = <<>> \o <<>> \o TextBlock(M) \o <<>>
      BY <2>2 DEF FieldBlocks, TextBlock
    <3>4. <<>> \o <<>> = <<>> /\ <<>> \o TextBlock(M) = TextBlock(M) /\ TextBlock(M) \o <<>> = TextBlock(M)
      BY <3>2, ConcatEmptySeq
    <3> QED
      BY <2>3, <3>1, <3>2, <3>3, <3>4
  <2>7. Said(OfKind(S, {"call"})) = Said(M.calls)
    BY <2>4
  <2>8. Tells(p, S, H)
    BY <1>3, <2>3, <2>4, <2>5, <2>6, <2>7, KindsTell
  <2> QED
    BY <2>3, <2>4, <2>8 DEF TellsAnswer, S, p, CallsIn
<1> QED
  BY <1>5, <1>6, <1>7

-----------------------------------------------------------------------------
(* Conversation: what an upstream is sent for a question *)

\* The calls of a message.
CallsOf == [m \in AMessage |-> m.calls]

\* The calls of messages, message by message.
LEMMA AllCalls ==
  ASSUME NEW ms \in Seq(AMessage)
  PROVE  LET cs == Each(ms, LAMBDA m : m.calls)
         IN  /\ cs \in Seq(ABlock)
             /\ \A c : c \in ToSet(cs) <=> \E i \in 1..Len(ms) : c \in ToSet(ms[i].calls)
<1>1. CallsOf \in [AMessage -> Seq(ABlock)] /\ \A m \in AMessage : CallsOf[m] = m.calls
  BY DEF CallsOf, AMessage
<1>2. \A i \in 1..Len(ms) : ms[i] \in AMessage
  OBVIOUS
<1>3. Each(ms, LAMBDA m : m.calls) = Spread(ms, CallsOf)
  <2>1. [i \in 1..Len(ms) |-> ms[i].calls] = [i \in 1..Len(ms) |-> CallsOf[ms[i]]]
    BY <1>1, <1>2
  <2> QED
    BY <2>1 DEF Each, Spread
<1>4. Spread(ms, CallsOf) \in Seq(ABlock)
  BY <1>1, SpreadType
<1>5. \A c : c \in ToSet(Spread(ms, CallsOf)) <=> \E i \in 1..Len(ms) : c \in ToSet(CallsOf[ms[i]])
  BY <1>1, SpreadHas
<1>6. \A i \in 1..Len(ms) : CallsOf[ms[i]] = ms[i].calls
  BY <1>1, <1>2
<1> QED
  BY <1>3, <1>4, <1>5, <1>6

\* The name a result goes out under is that of a call with its id, if there is one.
LEMMA ToolNamed ==
  ASSUME NEW ms \in Seq(AMessage), NEW id
  PROVE  /\ ToolName(ms, id) \in Names
         /\ (\E i \in 1..Len(ms) : \E c \in ToSet(ms[i].calls) : c.id = id) =>
              \E i \in 1..Len(ms) : \E c \in ToSet(ms[i].calls) : c.id = id /\ ToolName(ms, id) = c.name
<1> DEFINE cs == Each(ms, LAMBDA m : m.calls)
           named == {i \in DOMAIN cs : cs[i].id = id}
           last == CHOOSE i \in named : \A j \in named : j <= i
<1>1. ToolName(ms, id) = IF named = {} THEN "unknown" ELSE cs[last].name
  BY DEF ToolName
<1>2. /\ cs \in Seq(ABlock)
      /\ \A c : c \in ToSet(cs) <=> \E i \in 1..Len(ms) : c \in ToSet(ms[i].calls)
  BY AllCalls
<1> HIDE DEF cs
<1>3. DOMAIN cs = 1..Len(cs) /\ Len(cs) \in Nat
  BY <1>2
<1>4. \A i \in 1..Len(cs) : cs[i] \in ABlock /\ cs[i] \in ToSet(cs)
  BY <1>2, ToSetOf
<1>5. \A b \in ABlock : b.name \in Names
  BY DEF ABlock
<1>6. "unknown" \in Names
  BY DEF Names
<1>7. ASSUME named # {} PROVE last \in named
  <2>1. named \in SUBSET (1..Len(cs))
    BY <1>3
  <2>2. \E i \in named : \A j \in named : j <= i
    BY <1>3, <1>7, <2>1, HasMost
  <2> HIDE DEF named
  <2> QED
    BY <2>2
<1>8. CASE named = {}
  <2>1. ~ \E c \in ToSet(cs) : c.id = id
    BY <1>2, <1>3, <1>8, ToSetOf
  <2> QED
    BY <1>1, <1>2, <1>6, <1>8, <2>1
<1>9. CASE named # {}
  <2>1. last \in 1..Len(cs) /\ cs[last].id = id
    BY <1>3, <1>7, <1>9
  <2>2. ToolName(ms, id) = cs[last].name
    BY <1>1, <1>9
  <2> HIDE DEF last, named
  <2> QED
    BY <1>2, <1>4, <1>5, <2>1, <2>2
<1> QED
  BY <1>8, <1>9

\* The block that an upstream is sent for a result, and what it keeps of it.
ResultAs(p, ms, b) == SentAs(p, ms, ToolMessage(b))[1]
ResultKeeps(p, ms, b, x) ==
  /\ x \in ABlock /\ x.kind = b.kind /\ x.said = b.said /\ x.answers = b.answers
  /\ p # "gemini" => x.id = b.id
  /\ p = "anthropic" => x.mark = b.mark
  /\ p = "ollama" => x.name = ToolName(ms, b.id)

\* A mark on the last of one block.
LEMMA MarkOnly == ASSUME NEW b \in ABlock, b.mark = FALSE, NEW c \in BOOLEAN
  PROVE \E x \in ABlock : /\ MarkLast(<<b>>, c) = One(x) /\ x.mark = c
                      /\ x.kind = b.kind /\ x.said = b.said /\ x.answers = b.answers /\ x.id = b.id
<1>1. CASE c = FALSE
  BY <1>1 DEF MarkLast, One
<1>2. CASE c = TRUE
  <2> DEFINE x == [b EXCEPT !.mark = TRUE]
  <2>1. /\ x \in ABlock /\ x.mark = TRUE /\ x.kind = b.kind /\ x.said = b.said /\ x.answers = b.answers /\ x.id = b.id
    BY Changed
  <2>2. [<<b>> EXCEPT ![1] = x] = <<x>>
    <3> HIDE DEF x
    <3> QED
      OBVIOUS
  <2>3. MarkLast(<<b>>, c) = [<<b>> EXCEPT ![1] = x]
    BY <1>2 DEF MarkLast
  <2> HIDE DEF x
  <2> QED
    BY <1>2, <2>1, <2>2, <2>3 DEF One
<1> QED
  BY <1>1, <1>2

\* Every upstream is sent one block for a result, which keeps what it says and what it
\* answers; the id too, but Gemini; and Ollama, under the name of a function.
LEMMA ResultSent ==
  ASSUME NEW p \in Upstreams, NEW ms \in Seq(AMessage), NEW b \in ABlock
  PROVE  SentAs(p, ms, ToolMessage(b)) = One(ResultAs(p, ms, b)) /\ ResultKeeps(p, ms, b, ResultAs(p, ms, b))
<1> DEFINE m == ToolMessage(b)
           S == SentAs(p, ms, m)
<1>1. m \in AMessage /\ m.role = "tool" /\ m.result = b /\ m.mark = b.mark /\ b.mark \in BOOLEAN
  <2>1. b.mark \in BOOLEAN
    BY DEF ABlock
  <2> QED
    BY <2>1, ToolTold
<1> HIDE DEF m, S
<1>2. ASSUME NEW x, S = One(x), ResultKeeps(p, ms, b, x)
      PROVE  S = One(ResultAs(p, ms, b)) /\ ResultKeeps(p, ms, b, ResultAs(p, ms, b))
  <2>1. One(x)[1] = x
    BY OneOf
  <2>2. ResultAs(p, ms, b) = S[1]
    BY DEF ResultAs, S, m
  <2> QED
    BY <1>2, <2>1, <2>2
<1>3. CASE p = "anthropic"
  <2> DEFINE y == [b EXCEPT !.mark = FALSE]
  <2>1. y \in ABlock /\ y.mark = FALSE /\ y.kind = b.kind /\ y.said = b.said /\ y.answers = b.answers /\ y.id = b.id
    BY Changed
  <2>2. S = MarkLast(<<y>>, b.mark)
    BY <1>1, <1>3 DEF S, SentAs, AnthropicMessage
  <2> HIDE DEF y
  <2>3. PICK x \in ABlock : /\ MarkLast(<<y>>, b.mark) = One(x) /\ x.mark = b.mark
                        /\ x.kind = y.kind /\ x.said = y.said /\ x.answers = y.answers /\ x.id = y.id
    BY <1>1, <2>1, MarkOnly
  <2>4. ResultKeeps(p, ms, b, x) /\ S = One(x)
    BY <1>3, <2>1, <2>2, <2>3 DEF ResultKeeps
  <2> QED
    BY <1>2, <2>4 DEF S, m
<1>4. CASE p = "openai"
  <2>1. S = One(b)
    BY <1>1, <1>4 DEF S, SentAs, OpenAIMessage, One
  <2>2. ResultKeeps(p, ms, b, b)
    BY <1>4 DEF ResultKeeps
  <2> QED
    BY <1>2, <2>1, <2>2 DEF S, m
<1>5. CASE p = "gemini"
  <2> DEFINE y == [b EXCEPT !.id = NoId]
  <2>1. y \in ABlock /\ y.kind = b.kind /\ y.said = b.said /\ y.answers = b.answers
    BY Changed, CallIds
  <2>2. S = One(y)
    BY <1>1, <1>5 DEF S, SentAs, GeminiContent, One
  <2> HIDE DEF y
  <2>3. ResultKeeps(p, ms, b, y)
    BY <1>5, <2>1 DEF ResultKeeps
  <2> QED
    BY <1>2, <2>2, <2>3 DEF S, m
<1>6. CASE p = "ollama"
  <2> DEFINE y == [b EXCEPT !.name = ToolName(ms, b.id)]
  <2>1. ToolName(ms, b.id) \in Names
    BY ToolNamed
  <2>2. /\ y \in ABlock /\ y.kind = b.kind /\ y.said = b.said /\ y.answers = b.answers /\ y.id = b.id
        /\ y.name = ToolName(ms, b.id)
    BY <2>1, Changed
  <2>3. S = One(y)
    BY <1>1, <1>6 DEF S, SentAs, OllamaMessage, One
  <2> HIDE DEF y
  <2>4. ResultKeeps(p, ms, b, y)
    BY <1>6, <2>2 DEF ResultKeeps
  <2> QED
    BY <1>2, <2>3, <2>4 DEF S, m
<1> QED
  BY <1>3, <1>4, <1>5, <1>6 DEF Upstreams

\* No block bears a mark.
NoMark(bs) == \A b \in ToSet(bs) : b.mark = FALSE

\* What is sent for the texts of a question; to Anthropic, marked as they are in it.
LEMMA AskedSent ==
  ASSUME NEW t, NEW j \in Nat, NEW owed, UserTurn(t, j, owed), spoken \in Dialects,
         NEW c \in BOOLEAN, NEW m, Asked(t, c, m), NEW p \in Upstreams, NEW ms
  PROVE  LET S == SentAs(p, ms, m)
         IN  /\ S \in Seq(ABlock) /\ AllOf(S, {"text"}) /\ Said(S) = Said(Texts(t))
             /\ p = "anthropic" /\ spoken = "anthropic" =>
                  /\ Results(t) = <<>> => S = t.blocks \/ (NoMark(S) /\ NoMark(t.blocks))
                  /\ Results(t) # <<>> => NoMark(S)
<1> DEFINE S == SentAs(p, ms, m)
           b == Block("text", m.text)
           Fit(F) == F \in Seq(ABlock) /\ AllOf(F, {"text"}) /\ Said(F) = Said(Texts(t))
<1>1. /\ m \in AMessage /\ m.role = "user" /\ m.text = Said(Texts(t)) /\ m.mark \in BOOLEAN
      /\ m.calls = <<>> /\ m.thinking = <<>> /\ m.extra = <<>>
  BY DEF Asked, AMessage
<1>2. b \in ABlock /\ b.mark = FALSE /\ b.kind = "text" /\ b.said = m.text
  <2>1. m.text \in Seq(SaidItem) /\ "text" \in AllKinds
    BY <1>1 DEF AMessage, AllKinds
  <2> QED
    BY <2>1, Blocked, ZenonT(40)
<1>3. Fit(TextBlock(m)) /\ Fit(<<b>>)
  BY <1>1, TextBlocked DEF One
<1> HIDE DEF S
<1>4. CASE p = "openai"
  <2>1. S = TextBlock(m) \o <<>>
    BY <1>1, <1>4 DEF S, SentAs, OpenAIMessage, TextBlock
  <2>2. TextBlock(m) \o <<>> = TextBlock(m)
    BY <1>3, ConcatEmptySeq
  <2>3. S = TextBlock(m)
    BY <2>1, <2>2
  <2> HIDE DEF Fit
  <2>4. Fit(S)
    BY <1>3, <2>3
  <2> QED
    BY <1>4, <2>4 DEF Fit, S
<1>5. CASE p = "gemini"
  <2>1. S = <<b>>
    BY <1>1, <1>5 DEF S, SentAs, GeminiContent
  <2> HIDE DEF b
  <2>2. Fit(S)
    BY <1>3, <2>1
  <2> QED
    BY <1>5, <2>2 DEF S
<1>6. CASE p = "ollama"
  <2>1. S = <<>> \o TextBlock(m) \o <<>>
    BY <1>1, <1>6 DEF S, SentAs, OllamaMessage, TextBlock
  <2>2. TextBlock(m) \o <<>> = TextBlock(m) /\ <<>> \o TextBlock(m) = TextBlock(m)
    BY <1>3, ConcatEmptySeq
  <2>3. S = TextBlock(m)
    BY <2>1, <2>2
  <2> HIDE DEF Fit
  <2>4. Fit(S)
    BY <1>3, <2>3
  <2> QED
    BY <1>6, <2>4 DEF Fit, S
<1>7. CASE p = "anthropic" /\ m.ordered = <<>>
  <2>1. S = MarkLast(<<b>>, m.mark)
    BY <1>1, <1>7 DEF S, SentAs, AnthropicMessage
  <2> HIDE DEF b
  <2>2. PICK x \in ABlock : MarkLast(<<b>>, m.mark) = One(x) /\ x.mark = m.mark /\ x.kind = b.kind /\ x.said = b.said
    BY <1>1, <1>2, MarkOnly
  <2>3. S = One(x) /\ x.kind \in {"text"} /\ x.said = Said(Texts(t))
    BY <1>1, <1>2, <2>1, <2>2
  <2>4. S \in Seq(ABlock) /\ AllOf(S, {"text"}) /\ Said(S) = Said(Texts(t)) /\ ToSet(S) = {x}
    BY <2>3, OneOf, AllOfOne, KindOne
  <2>5. ASSUME spoken = "anthropic" PROVE NoMark(S) /\ (Results(t) = <<>> => NoMark(t.blocks))
    <3>1. m.mark = FALSE /\ (Results(t) = <<>> => (m.ordered = t.blocks \/ \A a \in ToSet(t.blocks) : a.mark = FALSE))
      BY <2>5 DEF Asked
    <3>2. ToSet(<<>>) = {}
      BY NoneIn
    <3>3. Results(t) = <<>> => NoMark(t.blocks)
      BY <1>7, <3>1, <3>2 DEF NoMark
    <3> QED
      BY <2>2, <2>4, <3>1, <3>3 DEF NoMark
  <2> QED
    BY <2>4, <2>5 DEF S
<1>8. CASE p = "anthropic" /\ m.ordered # <<>>
  <2>1. spoken = "anthropic" /\ m.mark = FALSE /\ m.ordered = t.blocks /\ Results(t) = <<>>
    BY <1>8 DEF Asked
  <2>2. S = t.blocks
    BY <1>1, <1>8, <2>1 DEF S, SentAs, AnthropicMessage, MarkLast
  <2>3. t.blocks = Results(t) \o Texts(t) /\ Texts(t) \in Seq(ABlock) /\ AllOf(Texts(t), {"text"})
    BY QuestionSplit
  <2>4. t.blocks = Texts(t)
    BY <2>1, <2>3, ConcatEmptySeq
  <2>5. S \in Seq(ABlock) /\ AllOf(S, {"text"}) /\ Said(S) = Said(Texts(t))
    BY <2>2, <2>3, <2>4
  <2> QED
    BY <2>1, <2>2, <2>5 DEF S
<1> QED
  BY <1>4, <1>5, <1>6, <1>7, <1>8 DEF Upstreams

\* The messages that have blocks as p is sent them, and their blocks.
Sendable(p, ms) == {m \in AMessage : SentAs(p, ms, m) \in Seq(ABlock)}
SentOf(p, ms) == [m \in Sendable(p, ms) |-> SentAs(p, ms, m)]

\* (They are blocks of messages.)
LEMMA SentIs ==
  ASSUME NEW p, NEW ms
  PROVE  /\ SentOf(p, ms) \in [Sendable(p, ms) -> Seq(ABlock)]
         /\ \A m \in AMessage : SentAs(p, ms, m) \in Seq(ABlock) =>
              m \in Sendable(p, ms) /\ SentOf(p, ms)[m] = SentAs(p, ms, m)
BY DEF SentOf, Sendable

\* The results of a question go out first, each as one block.
LEMMA ResultsSent ==
  ASSUME NEW p \in Upstreams, NEW ms \in Seq(AMessage), NEW R \in Seq(ABlock)
  PROVE  LET A == Spread(R, ToolOf)
             Q == Spread(A, SentOf(p, ms))
         IN  /\ A \in Seq(Sendable(p, ms)) /\ Len(A) = Len(R)
             /\ Q \in Seq(ABlock) /\ Len(Q) = Len(R)
             /\ \A i \in 1..Len(R) : A[i] = ToolMessage(R[i]) /\ ResultKeeps(p, ms, R[i], Q[i])
<1> DEFINE X == Sendable(p, ms)
           F == SentOf(p, ms)
           tool == [b \in ABlock |-> ToolMessage(b)]
           h == [b \in ABlock |-> ResultAs(p, ms, b)]
           g == [b \in ABlock |-> Spread(ToolOf[b], F)]
           A == Spread(R, ToolOf)
           Q == Spread(A, F)
<1>1. F \in [X -> Seq(ABlock)]
  BY SentIs
<1>2. \A b \in ABlock : /\ SentAs(p, ms, ToolMessage(b)) = One(ResultAs(p, ms, b))
                    /\ ResultKeeps(p, ms, b, ResultAs(p, ms, b))
                    /\ ResultAs(p, ms, b) \in ABlock
  BY ResultSent DEF ResultKeeps
<1>3. \A b \in ABlock : ToolMessage(b) \in X /\ F[ToolMessage(b)] = One(ResultAs(p, ms, b))
  <2> TAKE b \in ABlock
  <2>1. ToolMessage(b) \in AMessage /\ One(ResultAs(p, ms, b)) \in Seq(ABlock)
    BY <1>2, ToolTold, OneOf
  <2> QED
    BY <1>2, <2>1, SentIs
<1>4. tool \in [ABlock -> X] /\ h \in [ABlock -> ABlock]
  BY <1>2, <1>3
<1>5. \A b \in ABlock : ToolOf[b] = One(ToolMessage(b)) /\ One(ToolMessage(b)) \in Seq(X)
  BY <1>3, ToolsAre, OneOf
<1>6. ToolOf \in [ABlock -> Seq(X)]
  BY <1>5 DEF ToolOf
<1>7. \A b \in ABlock : tool[b] = ToolMessage(b) /\ h[b] = ResultAs(p, ms, b)
  OBVIOUS
<1> HIDE DEF X, F, tool, h
<1>8. \A b \in ABlock : Spread(ToolOf[b], F) = One(h[b])
  <2> TAKE b \in ABlock
  <2>1. ToolMessage(b) \in X
    BY <1>3
  <2>2. Spread(One(ToolMessage(b)), F) = F[ToolMessage(b)]
    BY <1>1, <2>1, SpreadOne
  <2> QED
    BY <1>3, <1>5, <1>7, <2>2
<1>9. \A b \in ABlock : g[b] = One(h[b])
  BY <1>8
<1>10. A \in Seq(X) /\ Len(A) = Len(R) /\ \A i \in 1..Len(R) : A[i] = tool[R[i]]
  <2>1. \A b \in ABlock : ToolOf[b] = One(tool[b])
    BY <1>5, <1>7
  <2>2. tool \in [ABlock -> X]
    BY <1>4
  <2> DEFINE f == ToolOf
  <2>4. Singly(f, tool, ABlock)
    BY <2>1 DEF Singly
  <2> HIDE DEF f, g, A, Q
  <2>5. /\ Spread(R, f) \in Seq(X) /\ Len(Spread(R, f)) = Len(R)
        /\ \A i \in 1..Len(R) : Spread(R, f)[i] = tool[R[i]]
    BY <2>4, <2>2, SpreadEach
  <2>3. /\ Spread(R, ToolOf) \in Seq(X) /\ Len(Spread(R, ToolOf)) = Len(R)
        /\ \A i \in 1..Len(R) : Spread(R, ToolOf)[i] = tool[R[i]]
    BY <2>5 DEF f
  <2> QED
    BY <2>3 DEF A
<1>11. Q = Spread(R, g)
  <2>1. \A b \in ABlock : g[b] = Spread(ToolOf[b], F)
    OBVIOUS
  <2> DEFINE f == ToolOf
  <2>2. f \in [ABlock -> Seq(X)] /\ EachIs(g, f, F, ABlock)
    BY <1>6, <2>1 DEF EachIs
  <2> HIDE DEF f, g
  <2>3. Spread(Spread(R, f), F) = Spread(R, g)
    <3>1. Makes(f, ABlock, X) /\ Makes(F, X, ABlock)
      BY <1>1, <2>2 DEF Makes
    <3> QED
      BY <2>2, <3>1, SpreadTwice
  <2> QED
    BY <2>3 DEF f
<1> HIDE DEF g
<1>12. Spread(R, g) \in Seq(ABlock) /\ Len(Spread(R, g)) = Len(R) /\ \A i \in 1..Len(R) : Spread(R, g)[i] = h[R[i]]
  <2>1. Singly(g, h, ABlock)
    BY <1>9 DEF Singly
  <2> QED
    BY <1>4, <2>1, SpreadEach
<1> HIDE DEF A, Q
<1>13. Q \in Seq(ABlock) /\ Len(Q) = Len(R) /\ \A i \in 1..Len(R) : Q[i] = h[R[i]]
  BY <1>11, <1>12
<1>14. \A i \in 1..Len(R) : R[i] \in ABlock
  OBVIOUS
<1>15. \A i \in 1..Len(R) : A[i] = ToolMessage(R[i]) /\ ResultKeeps(p, ms, R[i], Q[i])
  BY <1>2, <1>7, <1>10, <1>13, <1>14
<1> QED
  BY <1>10, <1>13, <1>15 DEF A, Q, X, F

\* Results and texts, apart.
LEMMA PartsApart ==
  ASSUME NEW a \in Seq(ABlock), NEW b \in Seq(ABlock), AllOf(a, {"result"}), AllOf(b, {"text"})
  PROVE  LET F == a \o b
         IN  /\ F \in Seq(ABlock) /\ AllOf(F, {"result", "text"})
             /\ OfKind(F, {"result"}) = a /\ OfKind(F, {"text"}) = b
             /\ \A k \in {"thinking", "extra", "call"} : OfKind(F, {k}) = <<>>
<1> DEFINE F == a \o b
           All == {"result", "text"}
           X == {"text"}
           R == {"result"}
<1>1. AllOf(a, All) /\ AllOf(b, All) /\ AllOf(a, R) /\ AllOf(b, X)
  BY DEF AllOf
<1>2. R \cap X = {} /\ X \cap R = {} /\ \A k \in {"thinking", "extra", "call"} : {k} \cap All = {}
  OBVIOUS
<1> HIDE DEF All, X, R
<1>3. F \in Seq(ABlock) /\ AllOf(F, All) /\ \A ks : OfKind(F, ks) = OfKind(a, ks) \o OfKind(b, ks)
  BY <1>1, AllOfJoin, KindJoin
<1> HIDE DEF F
<1>4. OfKind(a, R) = a /\ OfKind(b, X) = b
  BY <1>1, KindAll
<1>5. OfKind(a, X) = <<>> /\ OfKind(b, R) = <<>>
  BY <1>1, <1>2, KindNone
<1>6. \A k \in {"thinking", "extra", "call"} : OfKind(F, {k}) = <<>>
  BY <1>2, <1>3, KindNone
<1>7. OfKind(F, R) = a /\ OfKind(F, X) = b
  <2>1. OfKind(F, R) = a \o <<>> /\ OfKind(F, X) = <<>> \o b
    BY <1>3, <1>4, <1>5
  <2> QED
    BY <2>1, ConcatEmptySeq
<1> QED
  BY <1>3, <1>6, <1>7 DEF F, All, X, R

\* What is marked, by the last item it says.
MarkedIn(bs) == {Last(b.said) : b \in {c \in ToSet(bs) : c.mark}}

\* What is sent for a question: a block for each of its results, and some for its texts.
QuestionSent(p, ms, t, S) ==
  \E Q, V \in Seq(ABlock) :
    /\ S = Q \o V
    /\ Len(Q) = Len(Results(t)) /\ \A i \in 1..Len(Q) : ResultKeeps(p, ms, Results(t)[i], Q[i])
    /\ AllOf(V, {"text"}) /\ Said(V) = Said(Texts(t))
    /\ p = "anthropic" /\ spoken = "anthropic" =>
         /\ Results(t) = <<>> => V = t.blocks \/ (NoMark(V) /\ NoMark(t.blocks))
         /\ Results(t) # <<>> => NoMark(V)

\* A question is sent: its results one by one, then its texts.
LEMMA QuestionIsSent ==
  ASSUME NEW t, NEW j \in Nat, NEW owed, UserTurn(t, j, owed), spoken \in Dialects,
         NEW p \in Upstreams, NEW ms \in Seq(AMessage)
  PROVE  /\ TurnMessages(t) \in Seq(Sendable(p, ms)) /\ TurnMessages(t) \in Seq(AMessage)
         /\ QuestionSent(p, ms, t, Spread(TurnMessages(t), SentOf(p, ms)))
         /\ Len(owed) <= Len(TurnMessages(t))
         /\ \A i \in 1..Len(owed) : TurnMessages(t)[i] = ToolMessage(Results(t)[i])
         /\ \A i \in 1..Len(TurnMessages(t)) : TurnMessages(t)[i].calls = <<>>
<1> DEFINE X == Sendable(p, ms)
           F == SentOf(p, ms)
           R == Results(t)
           A == Spread(R, ToolOf)
           Q == Spread(A, F)
<1>1. PICK c \in BOOLEAN, m \in AMessage : Asked(t, c, m) /\ TurnMessages(t) = A \o (IF c THEN One(m) ELSE <<>>)
  <2>1. CASE spoken = "anthropic"
    BY <2>1, QuestionFlattened
  <2>2. CASE spoken # "anthropic"
    BY <2>2, QuestionPlain
  <2> QED
    BY <2>1, <2>2
<1> DEFINE B == IF c THEN One(m) ELSE <<>>
           V1 == SentAs(p, ms, m)
           V == IF c THEN V1 ELSE <<>>
<1>2. R \in Seq(ABlock) /\ Texts(t) \in Seq(ABlock) /\ Len(R) = Len(owed)
  BY QuestionSplit
<1>3. /\ A \in Seq(X) /\ Len(A) = Len(R) /\ Q \in Seq(ABlock) /\ Len(Q) = Len(R)
      /\ \A i \in 1..Len(R) : A[i] = ToolMessage(R[i]) /\ ResultKeeps(p, ms, R[i], Q[i])
  BY <1>2, ResultsSent
<1>4. /\ V1 \in Seq(ABlock) /\ AllOf(V1, {"text"}) /\ Said(V1) = Said(Texts(t))
      /\ p = "anthropic" /\ spoken = "anthropic" =>
           /\ Results(t) = <<>> => V1 = t.blocks \/ (NoMark(V1) /\ NoMark(t.blocks))
           /\ Results(t) # <<>> => NoMark(V1)
  BY <1>1, AskedSent
<1>5. m \in X /\ F[m] = V1 /\ F \in [X -> Seq(ABlock)]
  BY <1>4, SentIs
<1> HIDE DEF X, F, A, Q, V1, R
<1>6. B \in Seq(X) /\ Spread(B, F) = V
  <2>1. One(m) \in Seq(X) /\ Spread(One(m), F) = F[m]
    BY <1>5, OneOf, SpreadOne
  <2>2. Spread(<<>>, F) = <<>> /\ <<>> \in Seq(X)
    BY SpreadNothing
  <2> QED
    BY <1>5, <2>1, <2>2
<1>7. /\ V \in Seq(ABlock) /\ AllOf(V, {"text"}) /\ Said(V) = Said(Texts(t))
      /\ p = "anthropic" /\ spoken = "anthropic" =>
           /\ Results(t) = <<>> => V = t.blocks \/ (NoMark(V) /\ NoMark(t.blocks))
           /\ Results(t) # <<>> => NoMark(V)
  <2>1. CASE c
    BY <1>4, <2>1
  <2>2. CASE ~c
    <3>1. V = <<>> /\ Said(Texts(t)) = <<>>
      BY <1>1, <2>2 DEF Asked
    <3>2. <<>> \in Seq(ABlock) /\ AllOf(<<>>, {"text"}) /\ Said(<<>>) = <<>> /\ NoMark(<<>>)
      BY AllOfNothing, KindNothing, NoneIn DEF NoMark
    <3>3. spoken = "anthropic" => Results(t) # <<>>
      BY <1>1, <2>2 DEF Asked
    <3> QED
      BY <3>1, <3>2, <3>3
  <2> QED
    BY <2>1, <2>2
<1>8. Spread(A \o B, F) = Q \o V
  <2> HIDE DEF B, V
  <2>1. Spread(A \o B, F) = Spread(A, F) \o Spread(B, F)
    BY <1>3, <1>5, <1>6, SpreadConcat, ZenonT(40)
  <2> QED
    BY <1>6, <2>1 DEF Q
<1>9. QuestionSent(p, ms, t, Spread(TurnMessages(t), F))
  <2> HIDE DEF V
  <2>1. Spread(TurnMessages(t), F) = Q \o V
    BY <1>1, <1>8 DEF B
  <2>2. Len(Q) = Len(Results(t)) /\ \A i \in 1..Len(Q) : ResultKeeps(p, ms, Results(t)[i], Q[i])
    BY <1>3 DEF R
  <2> QED
    BY <1>3, <1>7, <2>1, <2>2 DEF QuestionSent
<1>10. TurnMessages(t) = A \o B
  BY <1>1
<1> HIDE DEF B, V
<1>11. /\ A \o B \in Seq(X) /\ Len(A \o B) = Len(A) + Len(B)
       /\ \A i \in 1..Len(A) : (A \o B)[i] = A[i]
       /\ \A i \in 1..Len(B) : (A \o B)[Len(A) + i] = B[i]
  <2>1. A \in Seq(X) /\ B \in Seq(X)
    BY <1>3, <1>6
  <2> QED
    BY <2>1, Concats
<1>12. X \subseteq AMessage
  BY DEF X, Sendable
<1>13. Seq(X) \subseteq Seq(AMessage)
  BY <1>12
<1>14. Len(A) \in Nat /\ Len(B) \in Nat
  BY <1>3, <1>6
<1>15. Len(owed) <= Len(A \o B) /\ \A i \in 1..Len(owed) : (A \o B)[i] = ToolMessage(R[i])
  BY <1>2, <1>3, <1>11, <1>14
<1>16. ASSUME NEW i \in 1..Len(A \o B) PROVE (A \o B)[i].calls = <<>>
  <2>1. CASE i \in 1..Len(A)
    <3>1. (A \o B)[i] = ToolMessage(R[i]) /\ R[i] \in ABlock
      BY <1>2, <1>3, <1>11, <2>1
    <3> QED
      BY <3>1, ToolTold
  <2>2. CASE i - Len(A) \in 1..Len(B)
    <3>1. Len(A) + (i - Len(A)) = i
      BY <1>14, <2>2
    <3>2. (A \o B)[Len(A) + (i - Len(A))] = B[i - Len(A)]
      BY <1>11, <2>2
    <3>3. (A \o B)[i] = B[i - Len(A)]
      BY <3>1, <3>2
    <3>4. Len(One(m)) = 1 /\ One(m)[1] = m /\ Len(<<>>) = 0
      BY OneOf
    <3>5. c
      <4>1. ASSUME ~c PROVE FALSE
        <5>1. B = <<>>
          BY <4>1 DEF B
        <5>2. Len(B) = 0
          BY <3>4, <5>1
        <5> QED
          BY <2>2, <5>2
      <4> QED
        BY <4>1
    <3>6. B = One(m)
      BY <3>5 DEF B
    <3>7. Len(B) = 1 /\ B[1] = m
      BY <3>4, <3>6
    <3>8. i - Len(A) = 1
      BY <2>2, <3>7
    <3>9. (A \o B)[i] = m
      BY <3>3, <3>7, <3>8
    <3> QED
      BY <1>1, <3>9 DEF Asked
  <2>3. i \in Nat
    OBVIOUS
  <2> QED
    BY <1>11, <1>14, <2>1, <2>2, <2>3
<1> QED
  BY <1>9, <1>10, <1>11, <1>13, <1>15, <1>16 DEF F, R, X

\* Blocks that are marked alike and say the same.
LEMMA MarkedAlike ==
  ASSUME NEW a \in Seq(ABlock), NEW b \in Seq(ABlock), Len(a) = Len(b),
         \A i \in 1..Len(a) : a[i].mark = b[i].mark /\ a[i].said = b[i].said
  PROVE  MarkedIn(a) = MarkedIn(b)
<1>1. ASSUME NEW u \in Seq(ABlock), NEW v \in Seq(ABlock), Len(u) = Len(v),
             \A i \in 1..Len(u) : u[i].mark = v[i].mark /\ u[i].said = v[i].said,
             NEW x \in MarkedIn(u)
      PROVE  x \in MarkedIn(v)
  <2>1. PICK c \in ToSet(u) : c.mark /\ x = Last(c.said)
    BY <1>1 DEF MarkedIn
  <2>2. PICK i \in 1..Len(u) : c = u[i]
    BY ToSetOf
  <2>3. v[i] \in ToSet(v)
    BY <1>1, ToSetOf
  <2>4. v[i].mark /\ x = Last(v[i].said)
    BY <1>1, <2>1, <2>2
  <2> QED
    BY <2>3, <2>4 DEF MarkedIn
<1>2. MarkedIn(a) \subseteq MarkedIn(b)
  BY <1>1
<1>3. MarkedIn(b) \subseteq MarkedIn(a)
  <2>1. Len(b) = Len(a) /\ \A i \in 1..Len(b) : b[i].mark = a[i].mark /\ b[i].said = a[i].said
    OBVIOUS
  <2> QED
    BY <1>1, <2>1
<1> QED
  BY <1>2, <1>3

\* What is sent for a question tells it, has no calls, and keeps the results and the
\* marks.
LEMMA QuestionTells ==
  ASSUME NEW t, NEW j \in Nat, NEW owed, UserTurn(t, j, owed), spoken \in Dialects,
         NEW p \in Upstreams, NEW ms, NEW S, QuestionSent(p, ms, t, S)
  PROVE  /\ Tells(p, S, t.blocks)
         /\ CallsIn(S) = <<>>
         /\ \A b \in ToSet(OfKind(S, {"result"})) :
              \E i \in 1..Len(Results(t)) : ResultKeeps(p, ms, Results(t)[i], b)
         /\ p = "anthropic" /\ spoken = "anthropic" =>
              MarkedIn(S) = MarkedIn(IF Results(t) = <<>> THEN t.blocks ELSE Results(t))
<1> DEFINE R == Results(t)
           T == Texts(t)
           bs == t.blocks
<1>1. PICK Q, V \in Seq(ABlock) :
        /\ S = Q \o V
        /\ Len(Q) = Len(R) /\ \A i \in 1..Len(Q) : ResultKeeps(p, ms, R[i], Q[i])
        /\ AllOf(V, {"text"}) /\ Said(V) = Said(T)
        /\ p = "anthropic" /\ spoken = "anthropic" =>
             /\ R = <<>> => V = bs \/ (NoMark(V) /\ NoMark(bs))
             /\ R # <<>> => NoMark(V)
  BY DEF QuestionSent
<1>2. /\ R \in Seq(ABlock) /\ T \in Seq(ABlock) /\ AllOf(R, {"result"}) /\ AllOf(T, {"text"}) /\ bs = R \o T
  BY QuestionSplit
<1> HIDE DEF R, T, bs
<1>3. \A i \in 1..Len(Q) : R[i] \in ABlock /\ Q[i].kind = R[i].kind /\ Q[i].said = R[i].said /\ R[i].kind = "result"
  BY <1>1, <1>2 DEF ResultKeeps, AllOf
<1>4. AllOf(Q, {"result"}) /\ Said(Q) = Said(R)
  <2>1. AllOf(Q, {"result"})
    BY <1>3 DEF AllOf
  <2>2. Said(Q) = Said(R)
    BY <1>1, <1>3, SaidAlike
  <2> QED
    BY <2>1, <2>2
<1>5. /\ S \in Seq(ABlock) /\ AllOf(S, {"result", "text"})
      /\ OfKind(S, {"result"}) = Q /\ OfKind(S, {"text"}) = V
      /\ \A k \in {"thinking", "extra", "call"} : OfKind(S, {k}) = <<>>
  BY <1>1, <1>4, PartsApart
<1>6. /\ OfKind(bs, {"result"}) = R /\ OfKind(bs, {"text"}) = T
      /\ \A k \in {"thinking", "extra", "call"} : OfKind(bs, {k}) = <<>>
  BY <1>2, PartsApart
<1>7. Said(S) = Said(Q) \o Said(V) /\ Said(bs) = Said(R) \o Said(T)
  BY <1>1, <1>2, KindJoin
<1>8. Tells(p, S, bs)
  <2>1. Carried(p) \subseteq {"thinking", "extra", "text", "call", "result"} /\ {"result", "text"} \subseteq Carried(p)
    BY DEF Carried, Upstreams
  <2>2. AllOf(S, Carried(p))
    BY <1>5, <2>1 DEF AllOf
  <2>3. \A k \in {"thinking", "extra", "text", "call", "result"} : Said(OfKind(S, {k})) = Said(OfKind(bs, {k}))
    BY <1>1, <1>4, <1>5, <1>6
  <2>4. Said(S) = Said(bs)
    BY <1>1, <1>4, <1>7
  <2> QED
    BY <1>5, <2>1, <2>2, <2>3, <2>4 DEF Tells
<1>9. \A b \in ToSet(Q) : \E i \in 1..Len(R) : ResultKeeps(p, ms, R[i], b)
  BY <1>1, ToSetOf
<1>10. ASSUME p = "anthropic", spoken = "anthropic" PROVE MarkedIn(S) = MarkedIn(IF R = <<>> THEN bs ELSE R)
  <2>1. ToSet(S) = ToSet(Q) \cup ToSet(V)
    BY <1>1, HasMore
  <2>2. CASE R = <<>>
    <3>1. ToSet(Q) = {}
      <4>1. Len(Q) = 0
        BY <1>1, <2>2
      <4> QED
        BY <4>1, NothingLong
    <3>2. V = bs \/ (NoMark(V) /\ NoMark(bs))
      BY <1>1, <1>10, <2>2
    <3> QED
      BY <2>1, <2>2, <3>1, <3>2 DEF MarkedIn, NoMark
  <2>3. CASE R # <<>>
    <3>1. NoMark(V)
      BY <1>1, <1>10, <2>3
    <3>2. \A i \in 1..Len(Q) : Q[i].mark = R[i].mark /\ Q[i].said = R[i].said
      BY <1>1, <1>10 DEF ResultKeeps
    <3>5. MarkedIn(Q) = MarkedIn(R)
      <4>1. Q \in Seq(ABlock) /\ R \in Seq(ABlock) /\ Len(Q) = Len(R)
        BY <1>1, <1>2
      <4> QED
        BY <3>2, <4>1, MarkedAlike
    <3>6. MarkedIn(S) = MarkedIn(Q)
      BY <2>1, <3>1 DEF MarkedIn, NoMark
    <3> QED
      BY <2>3, <3>5, <3>6
  <2> QED
    BY <2>2, <2>3
<1> QED
  BY <1>5, <1>8, <1>9, <1>10 DEF R, bs, CallsIn

-----------------------------------------------------------------------------
(* Conversation: turn by turn *)

\* What tells blocks of turn j says what was said in that turn.
SaidIn(bs, j) == \A x \in ToSet(Said(bs)) : x[1] = j

\* (If they are of turn j.)
LEMMA SaidInTurn ==
  ASSUME NEW p, NEW S, NEW H \in Seq(ABlock), NEW j, Tells(p, S, H), SaidIn(H, j)
  PROVE  SaidIn(S, j)
<1> SUFFICES ASSUME NEW x \in ToSet(Said(S)) PROVE x[1] = j
  BY DEF SaidIn
<1>1. S \in Seq(ABlock) /\ AllOf(S, Carried(p)) /\ \A k \in Carried(p) : Said(OfKind(S, {k})) = Said(OfKind(H, {k}))
  BY DEF Tells
<1>2. PICK i \in 1..Len(S) : x \in ToSet(S[i].said)
  BY <1>1, KindHas
<1> DEFINE k == S[i].kind
           ks == {k}
<1>3. k \in Carried(p) /\ S[i] \in ToSet(S) /\ S[i].kind \in ks
  BY <1>1, ToSetOf DEF AllOf
<1>4. Said(OfKind(S, ks)) = Said(OfKind(H, ks))
  BY <1>1, <1>3
<1> HIDE DEF ks
<1>5. OfKind(S, ks) \in Seq(ABlock) /\ OfKind(H, ks) \in Seq(ABlock) /\ S[i] \in ToSet(OfKind(S, ks))
  BY <1>1, <1>3, KindType, KindHas
<1>6. \A bs \in Seq(ABlock) : \A b \in ToSet(bs) : \A y \in ToSet(b.said) : y \in ToSet(Said(bs))
  BY KindHas, ToSetOf
<1>7. x \in ToSet(Said(OfKind(H, ks)))
  BY <1>2, <1>4, <1>5, <1>6
<1>8. PICK b \in ToSet(OfKind(H, ks)) : x \in ToSet(b.said)
  <2> DEFINE bs == OfKind(H, ks)
  <2>1. bs \in Seq(ABlock) /\ x \in ToSet(Said(bs))
    BY <1>5, <1>7
  <2> HIDE DEF bs
  <2>2. \E b \in ToSet(bs) : x \in ToSet(b.said)
    BY <2>1, KindHas, ToSetOf
  <2> QED
    BY <2>2 DEF bs
<1>9. b \in ToSet(H)
  BY KindHas
<1> QED
  BY <1>6, <1>8, <1>9 DEF SaidIn

\* Told turn by turn, a conversation is told in order.
LEMMA TurnsTold ==
  ASSUME NEW n \in Nat, NEW p \in Upstreams, NEW S \in [1..n -> Seq(ABlock)], NEW H \in [1..n -> Seq(ABlock)],
         \A j \in 1..n : Tells(p, S[j], H[j]) /\ SaidIn(H[j], j)
  PROVE  ToldInOrder(p, FlattenSeq(S), FlattenSeq(H))
<1> DEFINE s == FlattenSeq(S)
           h == FlattenSeq(H)
           said == [j \in 1..n |-> Said(S[j])]
           saidH == [j \in 1..n |-> Said(H[j])]
           key == [x \in SaidItem |-> x[1]]
<1>1. s \in Seq(ABlock) /\ h \in Seq(ABlock)
  BY FlattenIsSpread
<1>2. Makes(SaidOf, ABlock, SaidItem) /\ \A ks : Makes(Pick(ks), ABlock, ABlock)
  BY Spreaders DEF Makes
<1>3. \A j \in 1..n : S[j] \in Seq(ABlock) /\ H[j] \in Seq(ABlock)
  OBVIOUS
<1>4. /\ said \in [1..n -> Seq(SaidItem)] /\ \A j \in 1..n : said[j] = Spread(S[j], SaidOf)
      /\ saidH \in [1..n -> Seq(SaidItem)] /\ \A j \in 1..n : saidH[j] = Spread(H[j], SaidOf)
  <2>1. \A j \in 1..n : /\ Said(S[j]) \in Seq(SaidItem) /\ Said(S[j]) = Spread(S[j], SaidOf)
                        /\ Said(H[j]) \in Seq(SaidItem) /\ Said(H[j]) = Spread(H[j], SaidOf)
    BY <1>3, KindType, SaidIs
  <2> QED
    BY <2>1
<1>5. \A j \in 1..n : said[j] = Said(S[j]) /\ saidH[j] = Said(H[j])
  OBVIOUS
<1> HIDE DEF said, saidH, key
<1>12. /\ Makes(S, 1..n, ABlock) /\ Makes(H, 1..n, ABlock) /\ Makes(said, 1..n, SaidItem) /\ Makes(saidH, 1..n, SaidItem)
       /\ EachIs(said, S, SaidOf, 1..n) /\ EachIs(saidH, H, SaidOf, 1..n)
  BY <1>4 DEF Makes, EachIs
<1>6. Said(s) = FlattenSeq(said)
  <2>1. Spread(FlattenSeq(S), SaidOf) = FlattenSeq(said)
    BY <1>2, <1>12, FlattenSpread
  <2> QED
    BY <1>1, <2>1, SaidIs
<1>7. Said(h) = FlattenSeq(saidH)
  <2>1. Spread(FlattenSeq(H), SaidOf) = FlattenSeq(saidH)
    BY <1>2, <1>12, FlattenSpread
  <2> QED
    BY <1>1, <2>1, SaidIs
<1>8. p = "anthropic" => Said(s) = Said(h)
  <2>1. p = "anthropic" => \A j \in 1..n : said[j] = saidH[j]
    BY <1>5 DEF Tells
  <2>2. p = "anthropic" => said = saidH
    BY <1>4, <2>1
  <2> QED
    BY <1>6, <1>7, <2>2
<1>9. ASSUME NEW k \in Carried(p) PROVE Said(OfKind(s, {k})) = Said(OfKind(h, {k}))
  <2> DEFINE ks == {k}
             a == [j \in 1..n |-> OfKind(S[j], ks)]
             b == [j \in 1..n |-> OfKind(H[j], ks)]
             sa == [j \in 1..n |-> Said(a[j])]
  <2>1. \A j \in 1..n : /\ OfKind(S[j], ks) \in Seq(ABlock) /\ OfKind(S[j], ks) = Spread(S[j], Pick(ks))
                        /\ OfKind(H[j], ks) \in Seq(ABlock) /\ OfKind(H[j], ks) = Spread(H[j], Pick(ks))
    BY <1>3, KindType, KindIs
  <2>2. /\ a \in [1..n -> Seq(ABlock)] /\ b \in [1..n -> Seq(ABlock)]
        /\ \A j \in 1..n : /\ a[j] = Spread(S[j], Pick(ks)) /\ b[j] = Spread(H[j], Pick(ks))
                           /\ a[j] = OfKind(S[j], ks) /\ b[j] = OfKind(H[j], ks)
    BY <2>1
  <2>3. \A j \in 1..n : Said(OfKind(S[j], ks)) = Said(OfKind(H[j], ks))
    BY DEF Tells
  <2>4. \A j \in 1..n : Said(a[j]) = Said(b[j]) /\ Said(a[j]) \in Seq(SaidItem)
                        /\ Said(a[j]) = Spread(a[j], SaidOf) /\ Said(b[j]) = Spread(b[j], SaidOf)
    <3> HIDE DEF a, b
    <3>1. \A j \in 1..n : a[j] \in Seq(ABlock) /\ b[j] \in Seq(ABlock)
      BY <2>2
    <3> QED
      BY <2>2, <2>3, <3>1, KindType, SaidIs
  <2> HIDE DEF a, b, ks
  <2>5. sa \in [1..n -> Seq(SaidItem)] /\ \A j \in 1..n : sa[j] = Spread(a[j], SaidOf) /\ sa[j] = Spread(b[j], SaidOf)
    BY <2>4
  <2> HIDE DEF sa
  <2>11. /\ Makes(a, 1..n, ABlock) /\ Makes(b, 1..n, ABlock) /\ Makes(sa, 1..n, SaidItem)
         /\ EachIs(sa, a, SaidOf, 1..n) /\ EachIs(sa, b, SaidOf, 1..n)
         /\ EachIs(a, S, Pick(ks), 1..n) /\ EachIs(b, H, Pick(ks), 1..n)
    BY <2>2, <2>5 DEF Makes, EachIs
  <2>6. OfKind(s, ks) = FlattenSeq(a) /\ OfKind(h, ks) = FlattenSeq(b)
    <3>1. OfKind(s, ks) = Spread(s, Pick(ks)) /\ OfKind(h, ks) = Spread(h, Pick(ks))
      BY <1>1, KindIs
    <3>2. Makes(Pick(ks), ABlock, ABlock)
      BY <1>2
    <3>3. Spread(FlattenSeq(S), Pick(ks)) = FlattenSeq(a)
      BY <1>12, <2>11, <3>2, FlattenSpread
    <3>4. Spread(FlattenSeq(H), Pick(ks)) = FlattenSeq(b)
      BY <1>12, <2>11, <3>2, FlattenSpread
    <3> QED
      BY <3>1, <3>3, <3>4
  <2>7. FlattenSeq(a) \in Seq(ABlock) /\ FlattenSeq(b) \in Seq(ABlock)
    BY <2>2, FlattenIsSpread
  <2>8. Spread(FlattenSeq(a), SaidOf) = FlattenSeq(sa)
    BY <1>2, <2>11, FlattenSpread
  <2>9. Spread(FlattenSeq(b), SaidOf) = FlattenSeq(sa)
    BY <1>2, <2>11, FlattenSpread
  <2>10. Said(FlattenSeq(a)) = Said(FlattenSeq(b))
    BY <2>7, <2>8, <2>9, SaidIs
  <2> QED
    BY <2>6, <2>10 DEF ks
<1>10. ASSUME NEW i \in 1..(Len(Said(s)) - 1) PROVE Said(s)[i][1] <= Said(s)[i + 1][1]
  <2>1. said \in Seq(Seq(SaidItem)) /\ Len(said) = n /\ FlattenSeq(said) \in Seq(SaidItem)
    BY <1>4, FlattenIsSpread
  <2>2. key \in [SaidItem -> Nat] /\ \A x \in SaidItem : key[x] = x[1]
    BY DEF key, SaidItem
  <2>3. \A j \in 1..Len(said) : \A r \in 1..Len(said[j]) : key[said[j][r]] = j
    <3> TAKE j \in 1..Len(said)
    <3>1. j \in 1..n /\ said[j] \in Seq(SaidItem)
      BY <1>4, <2>1
    <3>2. \A x \in ToSet(said[j]) : x[1] = j
      <4>1. /\ Tells(p, S[j], H[j]) /\ H[j] \in Seq(ABlock) /\ said[j] = Said(S[j]) /\ SaidIn(H[j], j)
        BY <1>3, <1>5, <3>1
      <4>2. SaidIn(S[j], j)
        BY <4>1, SaidInTurn
      <4> QED
        BY <4>1, <4>2 DEF SaidIn
    <3>3. \A r \in 1..Len(said[j]) : said[j][r] \in ToSet(said[j]) /\ said[j][r] \in SaidItem
      BY <3>1, ToSetOf
    <3> QED
      BY <2>2, <3>2, <3>3
  <2>4. \A a, b \in 1..Len(FlattenSeq(said)) : a < b =>
           key[FlattenSeq(said)[a]] <= key[FlattenSeq(said)[b]]
    BY <2>1, <2>2, <2>3, FlattenRises
  <2>5. Len(FlattenSeq(said)) \in Nat
    BY <2>1
  <2>6. i \in 1..(Len(FlattenSeq(said)) - 1)
    BY <1>6
  <2>7. i \in 1..Len(FlattenSeq(said)) /\ i + 1 \in 1..Len(FlattenSeq(said)) /\ i < i + 1
    BY <2>5, <2>6
  <2>8. key[FlattenSeq(said)[i]] <= key[FlattenSeq(said)[i + 1]]
    BY <2>4, <2>7
  <2>9. FlattenSeq(said)[i] \in SaidItem /\ FlattenSeq(said)[i + 1] \in SaidItem
    BY <2>1, <2>7
  <2>10. FlattenSeq(said)[i][1] <= FlattenSeq(said)[i + 1][1]
    BY <2>2, <2>8, <2>9
  <2> QED
    BY <1>6, <2>10
<1> QED
  BY <1>8, <1>9, <1>10 DEF ToldInOrder

\* An answer is one message in the request, and what is sent for it tells it.
LEMMA AnswerIsSent ==
  ASSUME NEW t, NEW j \in Nat, AnswerTurn(t, j), spoken \in Dialects, NEW p \in Upstreams, NEW ms
  PROVE  LET S == Spread(TurnMessages(t), SentOf(p, ms))
             M == MessageOf(t)
         IN  /\ TurnMessages(t) = One(M) /\ HeldFine(M, Held(t), t, j)
             /\ TurnMessages(t) \in Seq(Sendable(p, ms)) /\ TurnMessages(t) \in Seq(AMessage)
             /\ S = SentAs(p, ms, M) /\ TellsAnswer(p, S, M, Held(t), j)
<1> DEFINE M == MessageOf(t)
           H == Held(t)
           F == SentOf(p, ms)
           X == Sendable(p, ms)
           S == SentAs(p, ms, M)
<1>1. TurnMessages(t) = One(M) /\ HeldFine(M, H, t, j)
  BY AnswerHeld
<1>2. TellsAnswer(p, S, M, H, j)
  <2> HIDE DEF M, H
  <2>1. CASE p = "anthropic"
    BY <1>1, <2>1, AnthropicTold DEF SentAs
  <2>2. CASE p = "openai"
    BY <1>1, <2>2, OpenAITold DEF SentAs
  <2>3. CASE p = "gemini"
    BY <1>1, <2>3, GeminiTold DEF SentAs
  <2>4. CASE p = "ollama"
    BY <1>1, <2>4, OllamaTold DEF SentAs
  <2> QED
    BY <2>1, <2>2, <2>3, <2>4 DEF Upstreams
<1>3. M \in AMessage /\ S \in Seq(ABlock)
  BY <1>1, <1>2 DEF HeldFine, Kept, TellsAnswer, Tells
<1> HIDE DEF M
<1>4. M \in X /\ F[M] = S /\ F \in [X -> Seq(ABlock)]
  BY <1>3, SentIs
<1> HIDE DEF F, X, S
<1>5. One(M) \in Seq(X) /\ One(M) \in Seq(AMessage)
  BY <1>3, <1>4, OneOf
<1>6. Spread(One(M), F) = S
  BY <1>4, SpreadOne
<1> QED
  BY <1>1, <1>2, <1>5, <1>6 DEF M, H, F, X, S

\* What the client holds of an answer was said in its turn;
LEMMA HeldOnTurn ==
  ASSUME NEW t, NEW j \in Nat, NEW M, HeldFine(M, Held(t), t, j)
  PROVE  SaidIn(Held(t), j) /\ Held(t) \in Seq(ABlock)
BY SaidFrom DEF HeldFine, SaidIn

\* and what it holds of a question.
LEMMA AskedOnTurn ==
  ASSUME NEW t, NEW j \in Nat, NEW owed, UserTurn(t, j, owed)
  PROVE  Held(t) = t.blocks /\ SaidIn(Held(t), j) /\ Held(t) \in Seq(ABlock)
<1> DEFINE bs == t.blocks
<1>1. Held(t) = bs /\ bs \in Seq(ABlock)
  BY DEF Held, UserTurn
<1>2. \A i \in 1..Len(bs) : bs[i].said = One(<<j, i>>)
  BY DEF UserTurn
<1> HIDE DEF bs
<1>3. ASSUME NEW x \in ToSet(Said(bs)) PROVE x[1] = j
  <2>1. PICK i \in 1..Len(bs) : x \in ToSet(bs[i].said)
    BY <1>1, KindHas
  <2>2. ToSet(One(<<j, i>>)) = {<<j, i>>}
    BY OneOf
  <2>3. x = <<j, i>>
    BY <1>2, <2>1, <2>2
  <2> QED
    BY <2>3
<1> QED
  BY <1>1, <1>3 DEF SaidIn, bs

\* The calls of the answer before question j, and the turns.
CallsBefore(ts, j) == IF j = 1 THEN <<>> ELSE CallsIn(Held(ts[j - 1]))
Turns == [role : {"user", "assistant"}, by : Upstreams \cup {"client"}, blocks : Seq(ABlock)]

\* Questions and answers in turn, each question after the calls of the last answer.
Conversing ==
  /\ spoken \in Dialects /\ turns \in Seq(Turns)
  /\ \A j \in 1..Len(turns) :
       IF j % 2 = 1 THEN UserTurn(turns[j], j, CallsBefore(turns, j)) ELSE AnswerTurn(turns[j], j)

\* The messages of each turn, their blocks, and what the client holds.
Given == [j \in 1..Len(turns) |-> TurnMessages(turns[j])]
SentEach(p, ms) == [j \in 1..Len(turns) |-> Spread(TurnMessages(turns[j]), SentOf(p, ms))]
HeldEach == [j \in 1..Len(turns) |-> Held(turns[j])]

\* Every turn has messages, and what is sent for them tells what the client holds of it.
LEMMA TurnByTurn ==
  ASSUME Conversing, NEW p \in Upstreams, NEW ms \in Seq(AMessage)
  PROVE  \A j \in 1..Len(turns) :
           /\ TurnMessages(turns[j]) \in Seq(AMessage) /\ TurnMessages(turns[j]) \in Seq(Sendable(p, ms))
           /\ Held(turns[j]) \in Seq(ABlock) /\ SaidIn(Held(turns[j]), j)
           /\ Tells(p, Spread(TurnMessages(turns[j]), SentOf(p, ms)), Held(turns[j]))
<1> TAKE j \in 1..Len(turns)
<1>0. j \in Nat /\ spoken \in Dialects
  BY DEF Conversing
<1> DEFINE t == turns[j]
<1>1. CASE j % 2 = 1
  <2>1. UserTurn(t, j, CallsBefore(turns, j))
    BY <1>1 DEF Conversing
  <2>2. Held(t) = t.blocks /\ SaidIn(Held(t), j) /\ Held(t) \in Seq(ABlock)
    BY <1>0, <2>1, AskedOnTurn
  <2> HIDE DEF t
  <2>3. /\ TurnMessages(t) \in Seq(Sendable(p, ms)) /\ TurnMessages(t) \in Seq(AMessage)
        /\ QuestionSent(p, ms, t, Spread(TurnMessages(t), SentOf(p, ms)))
    BY <1>0, <2>1, QuestionIsSent
  <2>4. Tells(p, Spread(TurnMessages(t), SentOf(p, ms)), t.blocks)
    BY <1>0, <2>1, <2>3, QuestionTells
  <2> QED
    BY <2>2, <2>3, <2>4 DEF t
<1>2. CASE j % 2 # 1
  <2>1. AnswerTurn(t, j)
    BY <1>2 DEF Conversing
  <2> HIDE DEF t
  <2>2. /\ TurnMessages(t) \in Seq(Sendable(p, ms)) /\ TurnMessages(t) \in Seq(AMessage)
        /\ TellsAnswer(p, Spread(TurnMessages(t), SentOf(p, ms)), MessageOf(t), Held(t), j)
        /\ HeldFine(MessageOf(t), Held(t), t, j)
    BY <1>0, <2>1, AnswerIsSent
  <2>3. SaidIn(Held(t), j) /\ Held(t) \in Seq(ABlock)
    BY <1>0, <2>2, HeldOnTurn
  <2> QED
    BY <2>2, <2>3 DEF t, TellsAnswer
<1> QED
  BY <1>1, <1>2

\* What the client holds, the messages of the request, and the blocks of the payload,
\* are joined from those of the turns.
LEMMA HistoryIs == Conversing => History = FlattenSeq(HeldEach)
BY DEF History, Each, HeldEach, Conversing

\* (The messages.)
LEMMA RequestIs ==
  ASSUME Conversing
  PROVE  /\ Len(turns) \in Nat /\ Given \in [1..Len(turns) -> Seq(AMessage)]
         /\ ToChatRequest(turns) = FlattenSeq(Given) /\ ToChatRequest(turns) \in Seq(AMessage)
<1>1. Len(turns) \in Nat
  BY DEF Conversing
<1>2. <<>> \in Seq(AMessage) /\ "openai" \in Upstreams
  BY DEF Upstreams
<1>3. \A j \in 1..Len(turns) : TurnMessages(turns[j]) \in Seq(AMessage)
  BY <1>2, TurnByTurn
<1>4. Given \in [1..Len(turns) -> Seq(AMessage)]
  BY <1>3 DEF Given
<1>5. ToChatRequest(turns) = FlattenSeq(Given)
  BY DEF ToChatRequest, Each, Given, TurnMessages
<1>6. FlattenSeq(Given) \in Seq(AMessage)
  BY <1>1, <1>4, FlattenIsSpread
<1> QED
  BY <1>1, <1>4, <1>5, <1>6

\* A message of the payload, and its blocks.
LEMMA PayloadIs ==
  ASSUME Conversing, NEW p \in Upstreams
  PROVE  LET ms == ToChatRequest(turns)
         IN  /\ Len(Payload(p, turns)) = Len(ms) /\ DOMAIN Payload(p, turns) = 1..Len(ms)
             /\ \A i \in 1..Len(ms) : Payload(p, turns)[i].blocks = SentAs(p, ms, ms[i])
<1> DEFINE ms == ToChatRequest(turns)
           one(i) == CASE p = "anthropic" -> AnthropicMessage(ms[i])
                       [] p = "openai" -> OpenAIMessage(ms[i])
                       [] p = "gemini" -> GeminiContent(ms[i])
                       [] p = "ollama" -> OllamaMessage(ms, ms[i])
<1>1. ms \in Seq(AMessage)
  BY RequestIs
<1>2. Payload(p, turns) = [i \in DOMAIN ms |-> one(i)]
  BY DEF Payload
<1>3. \A i \in 1..Len(ms) : one(i).blocks = SentAs(p, ms, ms[i])
  BY DEF SentAs, Upstreams
<1> HIDE DEF ms, one
<1>4. DOMAIN ms = 1..Len(ms) /\ Len(ms) \in Nat
  BY <1>1
<1>5. Payload(p, turns) = [i \in 1..Len(ms) |-> one(i)]
  BY <1>2, <1>4
<1> QED
  BY <1>3, <1>4, <1>5 DEF ms

\* (The blocks.)
LEMMA BlocksAre ==
  ASSUME Conversing, NEW p \in Upstreams
  PROVE  LET ms == ToChatRequest(turns)
         IN  /\ SentEach(p, ms) \in [1..Len(turns) -> Seq(ABlock)]
             /\ Blocks(Payload(p, turns)) = FlattenSeq(SentEach(p, ms))
<1> DEFINE ms == ToChatRequest(turns)
           n == Len(turns)
           X == Sendable(p, ms)
           F == SentOf(p, ms)
           parts == SentEach(p, ms)
           payload == Payload(p, turns)
<1>1. /\ n \in Nat /\ ms = FlattenSeq(Given) /\ ms \in Seq(AMessage)
  BY RequestIs
<1>2. Makes(F, X, ABlock) /\ F \in [X -> Seq(ABlock)] /\ \A m \in X : F[m] = SentAs(p, ms, m)
  BY SentIs DEF Makes, Sendable, SentOf
<1>3. Len(payload) = Len(ms) /\ \A i \in 1..Len(ms) : payload[i].blocks = SentAs(p, ms, ms[i])
  BY PayloadIs
<1>4. \A j \in 1..n : TurnMessages(turns[j]) \in Seq(X)
  BY <1>1, TurnByTurn
<1>5. Given = [j \in 1..n |-> TurnMessages(turns[j])] /\ parts = [j \in 1..n |-> Spread(TurnMessages(turns[j]), F)]
  BY DEF Given, SentEach
<1> HIDE DEF ms, n, X, F, parts, payload
<1>6. \A j \in 1..n : Spread(TurnMessages(turns[j]), F) \in Seq(ABlock)
  BY <1>2, <1>4, SpreadType
<1>7. Given \in [1..n -> Seq(X)] /\ parts \in [1..n -> Seq(ABlock)] /\ \A j \in 1..n : parts[j] = Spread(Given[j], F)
  BY <1>4, <1>5, <1>6
<1>8. Makes(Given, 1..n, X) /\ Makes(parts, 1..n, ABlock) /\ EachIs(parts, Given, F, 1..n)
  BY <1>7 DEF Makes, EachIs
<1>9. Spread(FlattenSeq(Given), F) = FlattenSeq(parts)
  BY <1>1, <1>2, <1>8, FlattenSpread
<1>10. ms \in Seq(X)
  BY <1>1, <1>7, FlattenIsSpread
<1>11. \A i \in 1..Len(ms) : payload[i].blocks = F[ms[i]]
  <2>1. \A i \in 1..Len(ms) : ms[i] \in X
    BY <1>10
  <2> QED
    BY <1>2, <1>3, <2>1
<1>12. Blocks(payload) = Spread(ms, F)
  <2>1. [i \in 1..Len(payload) |-> payload[i].blocks] = [i \in 1..Len(ms) |-> F[ms[i]]]
    BY <1>3, <1>11
  <2> QED
    BY <2>1 DEF Blocks, Each, Spread
<1> QED
  BY <1>1, <1>7, <1>9, <1>12 DEF ms, parts, payload, n

\* What each turn says goes out once and in order.
LEMMA AllInOrder ==
  ASSUME Conversing, NEW p \in Upstreams
  PROVE  ToldInOrder(p, Blocks(Payload(p, turns)), History)
<1> DEFINE ms == ToChatRequest(turns)
           n == Len(turns)
           parts == SentEach(p, ms)
           H == HeldEach
<1>1. n \in Nat /\ ms \in Seq(AMessage)
  BY RequestIs
<1>2. parts \in [1..n -> Seq(ABlock)] /\ Blocks(Payload(p, turns)) = FlattenSeq(parts)
  BY BlocksAre
<1>3. History = FlattenSeq(H)
  BY HistoryIs
<1>4. \A j \in 1..n : /\ parts[j] = Spread(TurnMessages(turns[j]), SentOf(p, ms)) /\ H[j] = Held(turns[j])
  BY DEF SentEach, HeldEach
<1>5. \A j \in 1..n : /\ Held(turns[j]) \in Seq(ABlock) /\ SaidIn(Held(turns[j]), j)
                      /\ Tells(p, Spread(TurnMessages(turns[j]), SentOf(p, ms)), Held(turns[j]))
  BY <1>1, TurnByTurn
<1>6. H \in [1..n -> Seq(ABlock)]
  BY <1>5 DEF HeldEach
<1> HIDE DEF ms, n, parts, H
<1>7. \A j \in 1..n : Tells(p, parts[j], H[j]) /\ SaidIn(H[j], j)
  BY <1>4, <1>5
<1>8. ToldInOrder(p, FlattenSeq(parts), FlattenSeq(H))
  BY <1>1, <1>2, <1>6, <1>7, TurnsTold
<1> QED
  BY <1>2, <1>3, <1>8

-----------------------------------------------------------------------------
(* Conversation: the results come after their calls *)

\* The ids of the blocks of a kind.
IdsOf(bs, k) == {b.id : b \in {c \in ToSet(bs) : c.kind = k}}

\* No two calls whose ids rise have one id.
LEMMA IdsApart ==
  ASSUME NEW bs \in Seq(ABlock), Rising(CallsIn(bs))
  PROVE  Cardinality(IdsOf(bs, "call")) = Len(CallsIn(bs))
<1> DEFINE cs == CallsIn(bs)
           n == Len(cs)
           T == IdsOf(bs, "call")
           f == [a \in 1..n |-> cs[a].id]
<1>1. cs \in Seq(ABlock) /\ n \in Nat
  BY KindType DEF CallsIn
<1>2. \A b : b \in ToSet(cs) <=> b \in ToSet(bs) /\ b.kind = "call"
  BY KindHas DEF CallsIn
<1>3. \A x : x \in T <=> \E b \in ToSet(cs) : x = b.id
  BY <1>2 DEF IdsOf
<1>4. \A a, b \in 1..n : a < b => cs[a].id.n < cs[b].id.n
  BY DEF Rising
<1> HIDE DEF cs, T
<1>5. \A b : b \in ToSet(cs) <=> \E a \in 1..n : b = cs[a]
  BY <1>1, ToSetOf
<1>6. f \in [1..n -> T]
  BY <1>3, <1>5
<1>7. \A x \in T : \E a \in 1..n : f[a] = x
  BY <1>3, <1>5
<1>8. ASSUME NEW a \in 1..n, NEW b \in 1..n, f[a] = f[b] PROVE a = b
  <2>1. cs[a].id = cs[b].id /\ cs[a].id.n \in Nat
    <3>1. cs[a] \in ABlock
      BY <1>1
    <3> QED
      BY <1>8, <3>1 DEF ABlock, CallId
  <2>2. a \in Nat /\ b \in Nat
    BY <1>1
  <2>3. CASE a < b
    BY <1>4, <2>1, <2>3
  <2>4. CASE b < a
    BY <1>4, <2>1, <2>4
  <2> QED
    BY <2>2, <2>3, <2>4
<1> HIDE DEF f
<1>9. f \in Bijection(1..n, T)
  <2>1. f \in Injection(1..n, T)
    BY <1>6, <1>8 DEF Injection, IsInjective
  <2>2. f \in Surjection(1..n, T)
    BY <1>6, <1>7 DEF Surjection
  <2> QED
    BY <2>1, <2>2 DEF Bijection
<1>10. ExistsBijection(1..n, T)
  BY <1>9 DEF ExistsBijection
<1> HIDE DEF n
<1>11. Cardinality(T) = n
  BY <1>1, <1>10, FS_CountingElements
<1> QED
  BY <1>11 DEF T, n, cs

\* A message of a question has no calls.
LEMMA NoCallsAsked ==
  ASSUME NEW t, NEW j \in Nat, NEW owed, UserTurn(t, j, owed), spoken \in Dialects,
         NEW p \in Upstreams, NEW ms \in Seq(AMessage), NEW r \in 1..Len(TurnMessages(t))
  PROVE  CallsIn(SentAs(p, ms, TurnMessages(t)[r])) = <<>>
<1> DEFINE G == TurnMessages(t)
           X == Sendable(p, ms)
           F == SentOf(p, ms)
           S == Spread(G, F)
<1>1. G \in Seq(X) /\ QuestionSent(p, ms, t, S)
  BY QuestionIsSent
<1>2. CallsIn(S) = <<>> /\ S \in Seq(ABlock)
  <2> HIDE DEF S
  <2>1. CallsIn(S) = <<>> /\ Tells(p, S, t.blocks)
    BY <1>1, QuestionTells
  <2> QED
    BY <2>1 DEF Tells
<1>3. F \in [X -> Seq(ABlock)] /\ \A m \in X : F[m] = SentAs(p, ms, m)
  BY SentIs DEF SentOf, Sendable
<1> DEFINE A == SentAs(p, ms, G[r])
<1>4. G[r] \in X /\ A = F[G[r]] /\ A \in Seq(ABlock) /\ r \in 1..Len(G)
  BY <1>1, <1>3
<1> HIDE DEF G, X, F, A
<1>5. \A y : y \in ToSet(S) <=> \E i \in 1..Len(G) : y \in ToSet(F[G[i]])
  BY <1>1, <1>3, SpreadHas
<1> HIDE DEF S
<1>6. \A b \in ToSet(A) : b \in ToSet(S)
  BY <1>4, <1>5
<1>7. \A b \in ToSet(CallsIn(A)) : b \in ToSet(CallsIn(S))
  BY <1>2, <1>4, <1>6, KindHas DEF CallsIn
<1>8. ToSet(CallsIn(A)) = {} /\ CallsIn(A) \in Seq(ABlock)
  BY <1>2, <1>4, <1>7, NoneIn, KindType DEF CallsIn
<1>9. CallsIn(A) = <<>>
  <2>1. Len(CallsIn(A)) = 0
    <3>1. ~(1 \in 1..Len(CallsIn(A)))
      BY <1>8, ToSetOf
    <3> QED
      BY <1>8, <3>1
  <2> QED
    BY <1>8, <2>1
<1> QED
  BY <1>9 DEF A, G

\* The turn after an answer is a question.
LEMMA Parity ==
  ASSUME NEW n \in Nat, n % 2 = 1, NEW j \in 1..n, j % 2 # 1
  PROVE  j < n /\ j + 1 \in 1..n /\ (j + 1) % 2 = 1 /\ j + 1 # 1
<1>1. j # n
  OBVIOUS
<1>2. j < n /\ j + 1 \in 1..n /\ j + 1 # 1
  BY <1>1
<1>3. (j + 1) % 2 = 1
  OBVIOUS
<1> QED
  BY <1>2, <1>3

\* The calls of an answer, and the results that come right after it.
LEMMA AnswerAnswered ==
  ASSUME Conversing, ~Asking, NEW p \in {"anthropic", "openai"},
         NEW i \in 1..Len(ToChatRequest(turns)),
         CallsIn(SentAs(p, ToChatRequest(turns), ToChatRequest(turns)[i])) # <<>>
  PROVE  LET ms == ToChatRequest(turns)
             S(a) == SentAs(p, ms, ms[a])
             cs == CallsIn(S(i))
         IN  /\ S(i) \in Seq(ABlock) /\ Rising(cs)
             /\ \A a \in 1..Len(cs) : i + a \in 1..Len(ms) /\ IdsOf(S(i + a), "result") = {cs[a].id}
<1> DEFINE ms == ToChatRequest(turns)
           n == Len(turns)
           G == Given
           S(a) == SentAs(p, ms, ms[a])
<1>1. /\ n \in Nat /\ ms = FlattenSeq(G) /\ ms \in Seq(AMessage) /\ G \in [1..n -> Seq(AMessage)]
      /\ spoken \in Dialects /\ p \in Upstreams /\ p # "gemini"
  BY RequestIs DEF Conversing, Upstreams
<1>2. G \in Seq(Seq(AMessage)) /\ Len(G) = n
  BY <1>1, FlattenIsSpread
<1>3. \A j \in 1..n : /\ G[j] = TurnMessages(turns[j])
                      /\ IF j % 2 = 1 THEN UserTurn(turns[j], j, CallsBefore(turns, j)) ELSE AnswerTurn(turns[j], j)
  BY DEF Given, Conversing
<1>4. n % 2 = 1
  BY <1>1 DEF Asking
<1>0. CallsIn(S(i)) # <<>> /\ i \in 1..Len(ms)
  OBVIOUS
<1> HIDE DEF ms, n, G
<1>5. PICK j, r \in Nat : Placed(G, ms, i, j, r)
  BY <1>0, <1>1, <1>2, FlattenPlaces
<1>6. j \in 1..n /\ r \in 1..Len(G[j]) /\ ms[i] = G[j][r]
  BY <1>2, <1>5 DEF Placed
<1>7. j % 2 # 1
  <2> SUFFICES ASSUME j % 2 = 1 PROVE FALSE
    OBVIOUS
  <2>1. UserTurn(turns[j], j, CallsBefore(turns, j)) /\ r \in 1..Len(TurnMessages(turns[j]))
    BY <1>3, <1>6
  <2>2. CallsIn(SentAs(p, ms, TurnMessages(turns[j])[r])) = <<>>
    BY <1>1, <2>1, NoCallsAsked
  <2> QED
    BY <1>0, <1>3, <1>6, <2>2
<1> DEFINE t == turns[j]
           M == MessageOf(t)
           cs == CallsIn(S(i))
<1>8. AnswerTurn(t, j)
  BY <1>3, <1>6, <1>7
<1>9. /\ G[j] = One(M) /\ HeldFine(M, Held(t), t, j)
      /\ TellsAnswer(p, SentAs(p, ms, M), M, Held(t), j)
  <2> HIDE DEF t
  <2>1. /\ TurnMessages(t) = One(MessageOf(t)) /\ HeldFine(MessageOf(t), Held(t), t, j)
        /\ Spread(TurnMessages(t), SentOf(p, ms)) = SentAs(p, ms, MessageOf(t))
        /\ TellsAnswer(p, Spread(TurnMessages(t), SentOf(p, ms)), MessageOf(t), Held(t), j)
    BY <1>1, <1>8, AnswerIsSent
  <2>2. G[j] = TurnMessages(t)
    BY <1>3, <1>6 DEF t
  <2> QED
    BY <2>1, <2>2
<1>10. Len(G[j]) = 1 /\ G[j][1] = M
  <2>1. Len(One(M)) = 1 /\ One(M)[1] = M
    BY OneOf
  <2> QED
    BY <1>9, <2>1
<1>11. r = 1 /\ ms[i] = M
  BY <1>6, <1>10
<1>12. /\ S(i) \in Seq(ABlock) /\ cs = M.calls /\ CallsIn(Held(t)) = cs /\ Rising(cs) /\ cs \in Seq(ABlock)
  BY <1>1, <1>9, <1>11 DEF TellsAnswer, Tells, HeldFine, CallsFine
<1>13. j < n /\ j + 1 \in 1..n /\ (j + 1) % 2 = 1 /\ j + 1 # 1
  <2> HIDE DEF t
  <2>1. n \in Nat /\ n % 2 = 1 /\ j \in 1..n /\ j % 2 # 1
    BY <1>1, <1>4, <1>6, <1>7
  <2> QED
    BY <2>1, Parity
<1>14. /\ i - r + Len(G[j]) + Len(G[j + 1]) <= Len(ms)
       /\ \A a \in 1..Len(G[j + 1]) : ms[i - r + Len(G[j]) + a] = G[j + 1][a]
  BY <1>2, <1>5, <1>13 DEF Placed
<1>15. i - 1 + 1 + Len(G[j + 1]) <= Len(ms) /\ \A a \in 1..Len(G[j + 1]) : ms[i - 1 + 1 + a] = G[j + 1][a]
  BY <1>10, <1>11, <1>14
<1> DEFINE u == turns[j + 1]
<1>16. UserTurn(u, j + 1, cs)
  <2>1. CallsBefore(turns, j + 1) = CallsIn(Held(t))
    BY <1>13 DEF CallsBefore
  <2> QED
    BY <1>3, <1>12, <1>13, <2>1
<1>17. G[j + 1] = TurnMessages(u) /\ j + 1 \in Nat
  BY <1>3, <1>13
<1> HIDE DEF u, cs, t, M
<1>18. /\ Len(cs) <= Len(TurnMessages(u))
       /\ \A a \in 1..Len(cs) : TurnMessages(u)[a] = ToolMessage(Results(u)[a])
  BY <1>1, <1>16, <1>17, QuestionIsSent
<1>19. /\ Results(u) \in Seq(ABlock) /\ Len(Results(u)) = Len(cs) /\ AllOf(Results(u), {"result"})
       /\ \A a \in 1..Len(cs) : Results(u)[a] = u.blocks[a]
  BY <1>16, <1>17, QuestionSplit
<1>20. ASSUME NEW a \in 1..Len(cs)
       PROVE  i + a \in 1..Len(ms) /\ IdsOf(S(i + a), "result") = {cs[a].id}
  <2>1. Len(cs) \in Nat /\ Len(G[j + 1]) \in Nat /\ Len(ms) \in Nat /\ i \in Nat
    BY <1>0, <1>1, <1>12, <1>13
  <2>2. a \in 1..Len(G[j + 1])
    BY <1>17, <1>18, <2>1
  <2>3. i + a \in 1..Len(ms) /\ i - 1 + 1 + a = i + a
    BY <1>15, <2>1, <2>2
  <2>4. ms[i + a] = ToolMessage(Results(u)[a])
    BY <1>15, <1>17, <1>18, <2>2, <2>3
  <2> DEFINE b == Results(u)[a]
             x == ResultAs(p, ms, b)
  <2>5. b \in ABlock /\ b.kind = "result"
    BY <1>19 DEF AllOf
  <2>6. b.id = cs[a].id
    <3>1. Len(cs) <= Len(u.blocks) /\ u.blocks \in Seq(ABlock)
      BY <1>16 DEF UserTurn
    <3>2. a \in 1..Len(u.blocks) /\ a <= Len(cs)
      BY <2>1, <3>1
    <3>3. u.blocks[a].id = cs[a].id
      BY <1>16, <3>2 DEF UserTurn
    <3> QED
      BY <1>19, <3>3
  <2> HIDE DEF b
  <2>7. SentAs(p, ms, ToolMessage(b)) = One(x) /\ ResultKeeps(p, ms, b, x)
    BY <1>1, <2>5, ResultSent
  <2> HIDE DEF x
  <2>8. S(i + a) = One(x) /\ x.kind = "result" /\ x.id = cs[a].id
    BY <1>1, <2>4, <2>5, <2>6, <2>7 DEF ResultKeeps, b
  <2>9. ToSet(One(x)) = {x}
    BY OneOf
  <2> QED
    BY <2>3, <2>8, <2>9 DEF IdsOf
<1> QED
  BY <1>12, <1>20 DEF ms, cs

\* The calls of the payload are answered next.
LEMMA ResultsComeNext ==
  ASSUME Conversing, ~Asking, NEW p \in {"anthropic", "openai"}
  PROVE  CallsAnswered(Payload(p, turns))
<1> DEFINE ms == ToChatRequest(turns)
           payload == Payload(p, turns)
           IdsIn(a, k) == {b.id : b \in {c \in ToSet(payload[a].blocks) : c.kind = k}}
<1>1. p \in Upstreams
  BY DEF Upstreams
<1>2. DOMAIN payload = 1..Len(ms) /\ \A i \in 1..Len(ms) : payload[i].blocks = SentAs(p, ms, ms[i])
  BY <1>1, PayloadIs
<1>3. ASSUME NEW i \in 1..Len(ms), CallsIn(SentAs(p, ms, ms[i])) # <<>>
      PROVE  LET cs == CallsIn(SentAs(p, ms, ms[i]))
             IN  /\ Cardinality(IdsOf(SentAs(p, ms, ms[i]), "call")) = Len(cs)
                 /\ \A a \in 1..Len(cs) : i + a \in 1..Len(ms) /\ IdsOf(SentAs(p, ms, ms[i + a]), "result") = {cs[a].id}
  BY <1>3, AnswerAnswered, IdsApart
<1> HIDE DEF payload, ms
<1>4. \A i \in 1..Len(ms) : \A k : IdsIn(i, k) = IdsOf(SentAs(p, ms, ms[i]), k)
  BY <1>2 DEF IdsOf
<1>5. \A i \in 1..Len(ms) : OfKind(payload[i].blocks, {"call"}) = CallsIn(SentAs(p, ms, ms[i]))
  BY <1>2 DEF CallsIn
<1> HIDE DEF IdsIn
<1>6. ASSUME NEW i \in DOMAIN payload, OfKind(payload[i].blocks, {"call"}) # <<>>
      PROVE  /\ Cardinality(IdsIn(i, "call")) = Len(OfKind(payload[i].blocks, {"call"}))
             /\ \A a \in 1..Len(OfKind(payload[i].blocks, {"call"})) :
                  i + a \in DOMAIN payload /\ IdsIn(i + a, "result") = {OfKind(payload[i].blocks, {"call"})[a].id}
  <2> DEFINE cs == CallsIn(SentAs(p, ms, ms[i]))
  <2>1. i \in 1..Len(ms) /\ OfKind(payload[i].blocks, {"call"}) = cs
    BY <1>2, <1>5
  <2>2. cs # <<>>
    BY <1>6, <2>1
  <2>3. /\ Cardinality(IdsOf(SentAs(p, ms, ms[i]), "call")) = Len(cs)
        /\ \A a \in 1..Len(cs) : i + a \in 1..Len(ms) /\ IdsOf(SentAs(p, ms, ms[i + a]), "result") = {cs[a].id}
    BY <1>3, <2>1, <2>2
  <2> HIDE DEF cs
  <2>4. Cardinality(IdsIn(i, "call")) = Len(cs)
    BY <1>4, <2>1, <2>3
  <2>5. \A a \in 1..Len(cs) : i + a \in DOMAIN payload /\ IdsIn(i + a, "result") = {cs[a].id}
    BY <1>2, <1>4, <2>3
  <2> QED
    BY <2>1, <2>4, <2>5
<1>7. \A i \in DOMAIN payload :
        OfKind(payload[i].blocks, {"call"}) # <<>> =>
          /\ Cardinality(IdsIn(i, "call")) = Len(OfKind(payload[i].blocks, {"call"}))
          /\ \A a \in 1..Len(OfKind(payload[i].blocks, {"call"})) :
               i + a \in DOMAIN payload /\ IdsIn(i + a, "result") = {OfKind(payload[i].blocks, {"call"})[a].id}
  BY <1>6
<1> QED
  BY <1>7 DEF CallsAnswered, payload, IdsIn

-----------------------------------------------------------------------------
(* Conversation: a result bears its function's name *)

\* A call of an answer, as the pipeline has it.
AnswerCall(c) ==
  \E j \in 1..Len(turns) : AnswerTurn(turns[j], j) /\ c \in ToSet(MessageOf(turns[j]).calls)

\* The calls that the client holds of an answer are those of its message.
LEMMA AnswersCalls ==
  ASSUME Conversing, NEW j \in 1..Len(turns), AnswerTurn(turns[j], j)
  PROVE  LET M == MessageOf(turns[j])
         IN  /\ TurnMessages(turns[j]) = One(M) /\ CallsFine(M.calls, turns[j], j)
             /\ CallsIn(Held(turns[j])) = M.calls /\ Held(turns[j]) \in Seq(ABlock)
<1> DEFINE t == turns[j]
<1>1. AnswerTurn(t, j) /\ j \in Nat /\ spoken \in Dialects
  BY DEF Conversing
<1> HIDE DEF t
<1>2. TurnMessages(t) = One(MessageOf(t)) /\ HeldFine(MessageOf(t), Held(t), t, j)
  BY <1>1, AnswerHeld
<1> QED
  BY <1>2 DEF t, HeldFine

\* What the client holds as a call is a call of an answer.
LEMMA CallHeld ==
  ASSUME Conversing, NEW c \in ToSet(OfKind(History, {"call"}))
  PROVE  AnswerCall(c)
<1> DEFINE n == Len(turns)
           H == HeldEach
<1>1. n \in Nat /\ History = FlattenSeq(H) /\ spoken \in Dialects
  BY HistoryIs DEF Conversing
<1>2. \A j \in 1..n : Held(turns[j]) \in Seq(ABlock)
  <2>1. "openai" \in Upstreams /\ <<>> \in Seq(AMessage)
    BY DEF Upstreams
  <2> QED
    BY <2>1, TurnByTurn
<1>3. H \in [1..n -> Seq(ABlock)] /\ \A j \in 1..n : H[j] = Held(turns[j])
  BY <1>2 DEF HeldEach
<1> HIDE DEF H, n
<1>4. FlattenSeq(H) \in Seq(ABlock) /\ \A x : x \in ToSet(FlattenSeq(H)) <=> \E j \in 1..n : x \in ToSet(H[j])
  BY <1>1, <1>3, FlattenIsSpread, FlattenHas
<1>5. c \in ToSet(FlattenSeq(H)) /\ c.kind = "call"
  BY <1>1, <1>4, KindHas
<1>6. PICK j \in 1..n : c \in ToSet(Held(turns[j]))
  BY <1>3, <1>4, <1>5
<1>7. c \in ToSet(CallsIn(Held(turns[j])))
  BY <1>2, <1>5, <1>6, KindHas DEF CallsIn
<1>8. j % 2 # 1
  <2> SUFFICES ASSUME j % 2 = 1 PROVE FALSE
    OBVIOUS
  <2> DEFINE t == turns[j]
  <2>1. UserTurn(t, j, CallsBefore(turns, j)) /\ j \in Nat /\ c \in ToSet(CallsIn(Held(t)))
    BY <1>6, <1>7 DEF Conversing, n
  <2> HIDE DEF t
  <2>2. Held(t) = t.blocks /\ OfKind(t.blocks, {"call"}) = <<>>
    BY <2>1, AskedOnTurn, QuestionSplit
  <2> QED
    BY <2>1, <2>2, NoneIn DEF CallsIn
<1>9. AnswerTurn(turns[j], j) /\ j \in 1..Len(turns)
  BY <1>6, <1>8 DEF Conversing, n
<1> QED
  BY <1>7, <1>9, AnswersCalls DEF AnswerCall

\* The calls in the messages of a request are those of the answers.
LEMMA CallsInRequest ==
  ASSUME Conversing, NEW c
  PROVE  LET ms == ToChatRequest(turns)
         IN  (\E i \in 1..Len(ms) : c \in ToSet(ms[i].calls)) <=> AnswerCall(c)
<1> DEFINE ms == ToChatRequest(turns)
           n == Len(turns)
           G == Given
<1>1. /\ n \in Nat /\ ms = FlattenSeq(G) /\ ms \in Seq(AMessage) /\ G \in [1..n -> Seq(AMessage)]
      /\ spoken \in Dialects
  BY RequestIs DEF Conversing
<1>2. \A j \in 1..n : G[j] = TurnMessages(turns[j])
  BY DEF Given
<1> HIDE DEF ms, n, G
<1>3. \A m : m \in ToSet(ms) <=> \E j \in 1..n : m \in ToSet(G[j])
  BY <1>1, FlattenHas
<1>4. \A m : m \in ToSet(ms) <=> \E i \in 1..Len(ms) : m = ms[i]
  BY <1>1, ToSetOf
<1>5. \A j \in 1..n : \A m : m \in ToSet(TurnMessages(turns[j])) <=> \E r \in 1..Len(TurnMessages(turns[j])) : m = TurnMessages(turns[j])[r]
  BY <1>1, <1>2, ToSetOf
<1>6. ASSUME NEW i \in 1..Len(ms), c \in ToSet(ms[i].calls) PROVE AnswerCall(c)
  <2>1. PICK j \in 1..n : ms[i] \in ToSet(TurnMessages(turns[j]))
    BY <1>2, <1>3, <1>4
  <2>2. PICK r \in 1..Len(TurnMessages(turns[j])) : ms[i] = TurnMessages(turns[j])[r]
    BY <1>5, <2>1
  <2>3. j % 2 # 1
    <3> SUFFICES ASSUME j % 2 = 1 PROVE FALSE
      OBVIOUS
    <3> DEFINE t == turns[j]
               p == "openai"
    <3>1. /\ UserTurn(t, j, CallsBefore(turns, j)) /\ j \in Nat /\ r \in 1..Len(TurnMessages(t))
          /\ c \in ToSet(TurnMessages(t)[r].calls) /\ p \in Upstreams
      BY <1>6, <2>2 DEF Conversing, n, Upstreams
    <3> HIDE DEF t, p
    <3>2. \A a \in 1..Len(TurnMessages(t)) : TurnMessages(t)[a].calls = <<>>
      BY <1>1, <3>1, QuestionIsSent
    <3> QED
      BY <3>1, <3>2, NoneIn
  <2>4. AnswerTurn(turns[j], j) /\ j \in 1..Len(turns)
    BY <2>3 DEF Conversing, n
  <2>5. TurnMessages(turns[j]) = One(MessageOf(turns[j]))
    BY <2>4, AnswersCalls
  <2>6. ms[i] = MessageOf(turns[j])
    BY <2>1, <2>5, OneOf
  <2> QED
    BY <1>6, <2>4, <2>6 DEF AnswerCall
<1>7. ASSUME AnswerCall(c) PROVE \E i \in 1..Len(ms) : c \in ToSet(ms[i].calls)
  <2>1. PICK j \in 1..Len(turns) : AnswerTurn(turns[j], j) /\ c \in ToSet(MessageOf(turns[j]).calls)
    BY <1>7 DEF AnswerCall
  <2>2. TurnMessages(turns[j]) = One(MessageOf(turns[j]))
    BY <2>1, AnswersCalls
  <2>3. MessageOf(turns[j]) \in ToSet(G[j]) /\ j \in 1..n
    BY <1>2, <2>2, OneOf DEF n
  <2>4. MessageOf(turns[j]) \in ToSet(ms)
    BY <1>3, <2>3
  <2> QED
    BY <1>4, <2>1, <2>4
<1> QED
  BY <1>6, <1>7 DEF ms

\* Calls with one item, and calls with one id, are of one function.
LEMMA OneName ==
  ASSUME Conversing, NEW c, NEW d, AnswerCall(c), AnswerCall(d), c.said = d.said \/ c.id = d.id
  PROVE  c.name = d.name
<1>1. PICK j \in 1..Len(turns) : AnswerTurn(turns[j], j) /\ c \in ToSet(MessageOf(turns[j]).calls)
  BY DEF AnswerCall
<1>2. PICK k \in 1..Len(turns) : AnswerTurn(turns[k], k) /\ d \in ToSet(MessageOf(turns[k]).calls)
  BY DEF AnswerCall
<1>3. CallOf(c, turns[j], j)
  <2> DEFINE cs == MessageOf(turns[j]).calls
  <2>1. CallsFine(cs, turns[j], j)
    BY <1>1, AnswersCalls
  <2> HIDE DEF cs
  <2>2. cs \in Seq(ABlock) /\ \A a \in 1..Len(cs) : CallOf(cs[a], turns[j], j)
    BY <2>1 DEF CallsFine
  <2>3. \E a \in 1..Len(cs) : c = cs[a]
    BY <1>1, <2>2, ToSetOf DEF cs
  <2> QED
    BY <2>2, <2>3
<1>4. CallOf(d, turns[k], k)
  <2> DEFINE cs == MessageOf(turns[k]).calls
  <2>1. CallsFine(cs, turns[k], k)
    BY <1>2, AnswersCalls
  <2> HIDE DEF cs
  <2>2. cs \in Seq(ABlock) /\ \A a \in 1..Len(cs) : CallOf(cs[a], turns[k], k)
    BY <2>1 DEF CallsFine
  <2>3. \E a \in 1..Len(cs) : d = cs[a]
    BY <1>2, <2>2, ToSetOf DEF cs
  <2> QED
    BY <2>2, <2>3
<1>5. PICK a \in 1..Len(turns[j].blocks) :
        /\ c.said = One(<<j, a>>) /\ c.name = turns[j].blocks[a].name
        /\ c.id = UpstreamId(<<j, a>>) \/ \E n \in Nat : c.id = AdapterId(c.name, n)
  BY <1>3 DEF CallOf
<1>6. PICK e \in 1..Len(turns[k].blocks) :
        /\ d.said = One(<<k, e>>) /\ d.name = turns[k].blocks[e].name
        /\ d.id = UpstreamId(<<k, e>>) \/ \E n \in Nat : d.id = AdapterId(d.name, n)
  BY <1>4 DEF CallOf
<1>7. j # 0 /\ k # 0
  OBVIOUS
<1>8. CASE c.said = d.said
  <2>1. One(<<j, a>>) = One(<<k, e>>)
    BY <1>5, <1>6, <1>8
  <2>2. j = k /\ a = e
    BY <2>1 DEF One
  <2> QED
    BY <1>5, <1>6, <2>2
<1>9. CASE c.id = d.id
  <2>1. \A x, y : UpstreamId(<<x, y>>).turn = x /\ UpstreamId(<<x, y>>).n = y
    BY DEF UpstreamId
  <2>2. \A f, n : AdapterId(f, n).turn = 0 /\ AdapterId(f, n).name = f
    BY DEF AdapterId
  <2>3. CASE c.id = UpstreamId(<<j, a>>)
    <3>1. d.id = UpstreamId(<<k, e>>)
      BY <1>6, <1>7, <1>9, <2>1, <2>2, <2>3
    <3>2. UpstreamId(<<j, a>>) = UpstreamId(<<k, e>>)
      BY <1>9, <2>3, <3>1
    <3>3. j = k /\ a = e
      BY <3>2 DEF UpstreamId
    <3> QED
      BY <1>5, <1>6, <3>3
  <2>4. CASE \E n \in Nat : c.id = AdapterId(c.name, n)
    <3>1. \E n \in Nat : d.id = AdapterId(d.name, n)
      BY <1>6, <1>7, <1>9, <2>1, <2>2, <2>4
    <3> QED
      BY <1>9, <2>2, <2>4, <3>1, ZenonT(40)
  <2> QED
    BY <1>5, <2>3, <2>4
<1> QED
  BY <1>8, <1>9

\* Ollama is sent no results in an answer.
LEMMA OllamaAnswer ==
  ASSUME NEW t, NEW j, NEW M, NEW H, HeldFine(M, H, t, j), NEW ms
  PROVE  OfKind(OllamaMessage(ms, M).blocks, {"result"}) = <<>>
<1> DEFINE S == M.thinking \o TextBlock(M) \o M.calls
<1>1. M \in AMessage /\ M.role = "assistant" /\ M.calls \in Seq(ABlock) /\ AllOf(M.calls, {"call"})
      /\ M.thinking \in Seq(ABlock) /\ AllOf(M.thinking, {"thinking"})
  BY DEF HeldFine, Kept, AMessage
<1>2. TextBlock(M) \in Seq(ABlock) /\ AllOf(TextBlock(M), {"text"})
  BY <1>1, TextBlocked
<1>3. OfKind(S, {"result"}) = <<>>
  BY <1>1, <1>2, ThreeApart
<1>4. OllamaMessage(ms, M).blocks = S
  BY <1>1 DEF OllamaMessage, TextBlock
<1> QED
  BY <1>3, <1>4

\* A result that Ollama is sent is of a call of the answer before.
LEMMA ResultOf ==
  ASSUME Conversing, NEW b \in ToSet(OfKind(Blocks(Payload("ollama", turns)), {"result"}))
  PROVE  \E c : AnswerCall(c) /\ b.answers = c.said /\ b.name = ToolName(ToChatRequest(turns), c.id)
<1> DEFINE p == "ollama"
           ms == ToChatRequest(turns)
           n == Len(turns)
           parts == SentEach(p, ms)
<1>1. /\ n \in Nat /\ ms \in Seq(AMessage) /\ p \in Upstreams /\ spoken \in Dialects
  BY RequestIs DEF Upstreams, Conversing
<1>2. /\ parts \in [1..n -> Seq(ABlock)] /\ Blocks(Payload(p, turns)) = FlattenSeq(parts)
      /\ \A j \in 1..n : parts[j] = Spread(TurnMessages(turns[j]), SentOf(p, ms))
  BY <1>1, BlocksAre DEF SentEach
<1>3. b \in ToSet(OfKind(Blocks(Payload(p, turns)), {"result"}))
  OBVIOUS
<1>q. p = "ollama"
  OBVIOUS
<1> HIDE DEF p, ms, n, parts
<1>4. FlattenSeq(parts) \in Seq(ABlock) /\ \A x : x \in ToSet(FlattenSeq(parts)) <=> \E j \in 1..n : x \in ToSet(parts[j])
  BY <1>1, <1>2, FlattenIsSpread, FlattenHas
<1>5. b \in ToSet(FlattenSeq(parts)) /\ b.kind = "result"
  BY <1>2, <1>3, <1>4, KindHas
<1>6. PICK j \in 1..n : b \in ToSet(parts[j])
  BY <1>4, <1>5
<1>7. b \in ToSet(OfKind(parts[j], {"result"})) /\ parts[j] \in Seq(ABlock)
  <2>1. parts[j] \in Seq(ABlock)
    BY <1>2, <1>6
  <2> QED
    BY <1>5, <1>6, <2>1, KindHas
<1>8. j % 2 = 1
  <2> SUFFICES ASSUME j % 2 # 1 PROVE FALSE
    OBVIOUS
  <2> DEFINE t == turns[j]
  <2>1. AnswerTurn(t, j) /\ j \in Nat /\ b \in ToSet(OfKind(Spread(TurnMessages(t), SentOf(p, ms)), {"result"}))
    BY <1>2, <1>6, <1>7 DEF Conversing, n
  <2> HIDE DEF t
  <2>2. /\ Spread(TurnMessages(t), SentOf(p, ms)) = SentAs(p, ms, MessageOf(t))
        /\ HeldFine(MessageOf(t), Held(t), t, j)
    BY <1>1, <2>1, AnswerIsSent
  <2>3. SentAs(p, ms, MessageOf(t)) = OllamaMessage(ms, MessageOf(t)).blocks
    BY <1>q DEF SentAs
  <2>4. OfKind(OllamaMessage(ms, MessageOf(t)).blocks, {"result"}) = <<>>
    BY <2>2, OllamaAnswer
  <2> QED
    BY <2>1, <2>2, <2>3, <2>4, NoneIn
<1> DEFINE t == turns[j]
           cs == CallsBefore(turns, j)
           S == Spread(TurnMessages(t), SentOf(p, ms))
<1>9. UserTurn(t, j, cs) /\ j \in Nat /\ parts[j] = S
  BY <1>2, <1>6, <1>8 DEF Conversing, n
<1> HIDE DEF t, cs
<1>10. QuestionSent(p, ms, t, S)
  BY <1>1, <1>9, QuestionIsSent
<1> HIDE DEF S
<1>11. \A x \in ToSet(OfKind(S, {"result"})) :
              \E i \in 1..Len(Results(t)) : ResultKeeps(p, ms, Results(t)[i], x)
  BY <1>1, <1>9, <1>10, QuestionTells
<1>12. PICK i \in 1..Len(Results(t)) : ResultKeeps(p, ms, Results(t)[i], b)
  BY <1>7, <1>9, <1>11
<1>13. /\ i \in 1..Len(cs) /\ Results(t)[i] = t.blocks[i]
  BY <1>9, <1>12, QuestionSplit
<1>14. t.blocks[i].id = cs[i].id /\ t.blocks[i].answers = cs[i].said
  <2>1. cs \in Seq(ABlock) /\ t.blocks \in Seq(ABlock) /\ Len(cs) <= Len(t.blocks)
    BY <1>9 DEF UserTurn
  <2>2. i \in 1..Len(t.blocks) /\ i <= Len(cs)
    BY <1>13, <2>1
  <2> QED
    BY <1>9, <2>2 DEF UserTurn
<1>15. b.answers = cs[i].said /\ b.name = ToolName(ms, cs[i].id)
  BY <1>12, <1>13, <1>14, <1>q DEF ResultKeeps
<1>16. j # 1 /\ cs = CallsIn(Held(turns[j - 1]))
  <2>1. j # 1
    <3> SUFFICES ASSUME j = 1 PROVE FALSE
      OBVIOUS
    <3>1. cs = <<>>
      BY DEF cs, CallsBefore
    <3> QED
      BY <1>13, <3>1
  <2> QED
    BY <2>1 DEF cs, CallsBefore
<1>17. j - 1 \in 1..Len(turns) /\ (j - 1) % 2 # 1
  <2>1. j - 1 \in 1..n
    BY <1>1, <1>6, <1>16
  <2>2. (j - 1) % 2 # 1
    BY <1>6, <1>8, <1>1
  <2> QED
    BY <2>1, <2>2 DEF n
<1>18. AnswerTurn(turns[j - 1], j - 1)
  BY <1>17 DEF Conversing
<1>19. CallsIn(Held(turns[j - 1])) = MessageOf(turns[j - 1]).calls
  BY <1>17, <1>18, AnswersCalls
<1>20. cs[i] \in ToSet(cs)
  BY <1>9, <1>13, ToSetOf DEF UserTurn
<1>21. AnswerCall(cs[i])
  BY <1>16, <1>17, <1>18, <1>19, <1>20 DEF AnswerCall
<1> QED
  BY <1>15, <1>21 DEF ms

\* Over Ollama, a result goes out under the name of the function it is of.
LEMMA Named ==
  ASSUME Conversing
  PROVE  ResultsNameTheirFunction(Blocks(Payload("ollama", turns)), History)
<1> SUFFICES ASSUME NEW b \in ToSet(OfKind(Blocks(Payload("ollama", turns)), {"result"})),
                    NEW c \in ToSet(OfKind(History, {"call"})), c.said = b.answers
             PROVE  b.name = c.name
  BY DEF ResultsNameTheirFunction
<1> DEFINE ms == ToChatRequest(turns)
<1>1. PICK d : AnswerCall(d) /\ b.answers = d.said /\ b.name = ToolName(ms, d.id)
  BY ResultOf
<1>2. AnswerCall(c) /\ ms \in Seq(AMessage)
  BY CallHeld, RequestIs
<1>3. c.name = d.name
  BY <1>1, <1>2, OneName
<1>4. \A x : (\E i \in 1..Len(ms) : x \in ToSet(ms[i].calls)) <=> AnswerCall(x)
  BY CallsInRequest
<1> HIDE DEF ms
<1>5. \E i \in 1..Len(ms) : \E x \in ToSet(ms[i].calls) : x.id = d.id
  BY <1>1, <1>4
<1>6. \E i \in 1..Len(ms) : \E x \in ToSet(ms[i].calls) : x.id = d.id /\ ToolName(ms, d.id) = x.name
  BY <1>2, <1>5, ToolNamed
<1>7. PICK x : AnswerCall(x) /\ x.id = d.id /\ ToolName(ms, d.id) = x.name
  BY <1>4, <1>6
<1>8. x.name = d.name
  BY <1>1, <1>7, OneName
<1> QED
  BY <1>1, <1>3, <1>7, <1>8

-----------------------------------------------------------------------------
(* Conversation: the cache breakpoints *)

\* The blocks of a turn whose marks must go out.
MarkableBlocks(t) == IF Results(t) = <<>> THEN t.blocks ELSE Results(t)

\* Of each turn, the marks go out as they are set.
LEMMA TurnMarks ==
  ASSUME Conversing, spoken = "anthropic", NEW ms \in Seq(AMessage), NEW j \in 1..Len(turns)
  PROVE  /\ MarkableBlocks(turns[j]) \in Seq(ABlock)
         /\ MarkedIn(Spread(TurnMessages(turns[j]), SentOf("anthropic", ms))) = MarkedIn(MarkableBlocks(turns[j]))
<1> DEFINE t == turns[j]
           p == "anthropic"
           S == Spread(TurnMessages(t), SentOf(p, ms))
<1>1. p \in Upstreams /\ j \in Nat /\ spoken \in Dialects /\ p = "anthropic"
  BY DEF Upstreams, Dialects
<1>2. IF j % 2 = 1 THEN UserTurn(t, j, CallsBefore(turns, j)) ELSE AnswerTurn(t, j)
  BY DEF Conversing
<1> HIDE DEF t, p
<1>3. CASE UserTurn(t, j, CallsBefore(turns, j))
  <2> DEFINE cs == CallsBefore(turns, j)
  <2>1. UserTurn(t, j, cs)
    BY <1>3
  <2> HIDE DEF cs, S
  <2>2. QuestionSent(p, ms, t, S)
    BY <1>1, <2>1, QuestionIsSent DEF S
  <2>3. MarkedIn(S) = MarkedIn(MarkableBlocks(t))
    BY <1>1, <2>1, <2>2, QuestionTells DEF MarkableBlocks
  <2>4. MarkableBlocks(t) \in Seq(ABlock)
    <3>1. Results(t) \in Seq(ABlock)
      BY <1>1, <2>1, QuestionSplit
    <3> QED
      BY <2>1, <3>1 DEF MarkableBlocks, UserTurn
  <2> QED
    BY <2>3, <2>4 DEF S, t, p
<1>4. CASE AnswerTurn(t, j)
  <2>1. TellsAnswer(p, S, MessageOf(t), Held(t), j)
    BY <1>1, <1>4, AnswerIsSent
  <2> HIDE DEF S
  <2>2. NoMark(S)
    BY <1>1, <2>1 DEF TellsAnswer, NoMark
  <2>3. t.blocks \in Seq(ABlock) /\ AllOf(t.blocks, AnswerKinds)
    BY <1>4 DEF AnswerTurn
  <2>4. MarkableBlocks(t) = t.blocks
    <3>1. OfKind(t.blocks, {"result"}) = <<>>
      BY <2>3, HeldKinds
    <3> QED
      BY <3>1 DEF MarkableBlocks, Results
  <2>5. NoMark(t.blocks)
    <3>1. \A b \in ToSet(t.blocks) : \E i \in 1..Len(t.blocks) : b = t.blocks[i]
      BY <2>3, ToSetOf
    <3> QED
      BY <1>4, <3>1, ZenonT(40) DEF AnswerTurn, NoMark
  <2>6. MarkedIn(S) = {} /\ MarkedIn(t.blocks) = {}
    BY <2>2, <2>5 DEF MarkedIn, NoMark
  <2> QED
    BY <2>3, <2>4, <2>6 DEF S, t, p
<1> QED
  BY <1>2, <1>3, <1>4

\* The marks of what is joined are those of its parts.
LEMMA MarksOfParts ==
  ASSUME NEW n \in Nat, NEW parts \in [1..n -> Seq(ABlock)], NEW L \in [1..n -> Seq(ABlock)],
         \A j \in 1..n : MarkedIn(parts[j]) = MarkedIn(L[j])
  PROVE  MarkedIn(FlattenSeq(parts)) = MarkedIn(FlattenSeq(L))
<1>1. \A x : x \in ToSet(FlattenSeq(parts)) <=> \E j \in 1..n : x \in ToSet(parts[j])
  BY FlattenHas
<1>2. \A x : x \in ToSet(FlattenSeq(L)) <=> \E j \in 1..n : x \in ToSet(L[j])
  BY FlattenHas
<1>3. \A x, bs : x \in MarkedIn(bs) <=> \E b \in ToSet(bs) : b.mark /\ x = Last(b.said)
  BY DEF MarkedIn
<1>4. \A x : x \in MarkedIn(FlattenSeq(parts)) <=> \E j \in 1..n : x \in MarkedIn(parts[j])
  BY <1>1, <1>3
<1>5. \A x : x \in MarkedIn(FlattenSeq(L)) <=> \E j \in 1..n : x \in MarkedIn(L[j])
  BY <1>2, <1>3
<1> QED
  BY <1>4, <1>5

\* Over Anthropic, and from /v1/messages, every mark goes out as it is set.
LEMMA MarksAsSet ==
  ASSUME Conversing
  PROVE  MarksStay(Blocks(Payload("anthropic", turns)))
<1> SUFFICES ASSUME spoken = "anthropic"
             PROVE  MarkedIn(Blocks(Payload("anthropic", turns))) = MarkedIn(Each(turns, MarkableBlocks))
  BY DEF MarksStay, MarkedIn, MarkableBlocks, Results, Each
<1> DEFINE p == "anthropic"
           ms == ToChatRequest(turns)
           n == Len(turns)
           parts == SentEach(p, ms)
           L == [j \in 1..n |-> MarkableBlocks(turns[j])]
<1>1. p \in Upstreams /\ n \in Nat /\ ms \in Seq(AMessage)
  BY RequestIs DEF Upstreams
<1>2. /\ parts \in [1..n -> Seq(ABlock)] /\ Blocks(Payload(p, turns)) = FlattenSeq(parts)
      /\ \A j \in 1..n : parts[j] = Spread(TurnMessages(turns[j]), SentOf(p, ms))
  BY <1>1, BlocksAre DEF SentEach
<1>3. \A j \in 1..n : /\ MarkableBlocks(turns[j]) \in Seq(ABlock)
                      /\ MarkedIn(Spread(TurnMessages(turns[j]), SentOf(p, ms))) = MarkedIn(MarkableBlocks(turns[j]))
  BY <1>1, TurnMarks
<1>4. L \in [1..n -> Seq(ABlock)] /\ \A j \in 1..n : L[j] = MarkableBlocks(turns[j])
  BY <1>3
<1>5. Each(turns, MarkableBlocks) = FlattenSeq(L)
  BY DEF Each
<1> HIDE DEF ms, n, parts, L
<1>6. \A j \in 1..n : MarkedIn(parts[j]) = MarkedIn(L[j])
  BY <1>2, <1>3, <1>4
<1>7. MarkedIn(FlattenSeq(parts)) = MarkedIn(FlattenSeq(L))
  BY <1>1, <1>2, <1>4, <1>6, MarksOfParts
<1> QED
  BY <1>2, <1>5, <1>7

-----------------------------------------------------------------------------
(* Conversation: every step of a conversation *)

\* The answers of an upstream, piece by piece.
LEMMA AnswersAre ==
  ASSUME NEW p \in Upstreams, NEW s \in Answers[p]
  PROVE  \E m \in Nat : s \in [1..m -> [kind : AnswerKinds, name : Names]]
<1> DEFINE Piece(k) == [kind : {k}, name : IF k = "call" THEN Functions ELSE {"none"}]
           kinds == CASE p = "anthropic" -> {"thinking", "extra", "text", "call"}
                      [] p = "openai" -> {"text", "call"}
                      [] OTHER -> {"thinking", "text", "call"}
           Pieces == UNION {Piece(k) : k \in kinds}
<1>1. s \in UNION {[1..m -> Pieces] : m \in 0..MaxBlocks}
  BY DEF Answers
<1>2. kinds \subseteq AnswerKinds
  BY DEF AnswerKinds
<1>3. Functions \subseteq Names /\ "none" \in Names
  BY DEF Names
<1>4. \A k \in AnswerKinds : Piece(k) \subseteq [kind : AnswerKinds, name : Names]
  BY <1>3
<1> HIDE DEF kinds, Piece
<1>5. Pieces \subseteq [kind : AnswerKinds, name : Names]
  BY <1>2, <1>4
<1> HIDE DEF Pieces
<1>6. PICK m \in 0..MaxBlocks : s \in [1..m -> Pieces]
  BY <1>1
<1>7. m \in Nat /\ s \in [1..m -> [kind : AnswerKinds, name : Names]]
  BY <1>5, <1>6
<1> QED
  BY <1>7

\* A block of an answer.
AnswerPiece(k, f, j, i) ==
  [Block(k, <<<<j, i>>>>) EXCEPT !.name = f, !.id = IF k = "call" THEN UpstreamId(<<j, i>>) ELSE NoId]

\* What a block of an answer must be.
PieceOf(b, k, j, i) ==
  /\ b \in ABlock /\ b.kind = k /\ b.said = One(<<j, i>>) /\ b.mark = FALSE
  /\ k = "call" => b.id = UpstreamId(<<j, i>>)

\* (It is.)
LEMMA AnsweredBlock ==
  ASSUME NEW k \in AnswerKinds, NEW f \in Names, NEW j \in Nat, NEW i \in Nat
  PROVE  PieceOf(AnswerPiece(k, f, j, i), k, j, i)
<1> DEFINE xs == <<<<j, i>>>>
           x == IF k = "call" THEN UpstreamId(<<j, i>>) ELSE NoId
           b == Block(k, xs)
<1>1. xs = One(<<j, i>>) /\ xs \in Seq(SaidItem) /\ k \in AllKinds
  BY OneItem DEF One, AnswerKinds, AllKinds
<1>2. x \in CallId /\ (k = "call" => x = UpstreamId(<<j, i>>))
  BY OneItem, CallIds
<1> HIDE DEF xs, x
<1>3. b \in ABlock /\ b.kind = k /\ b.said = xs /\ b.mark = FALSE
  BY <1>1, Blocked
<1> HIDE DEF b
<1>4. /\ [b EXCEPT !.name = f, !.id = x] \in ABlock
      /\ [b EXCEPT !.name = f, !.id = x].kind = k /\ [b EXCEPT !.name = f, !.id = x].said = xs
      /\ [b EXCEPT !.name = f, !.id = x].mark = FALSE /\ [b EXCEPT !.name = f, !.id = x].id = x
  BY <1>2, <1>3 DEF ABlock
<1> QED
  BY <1>1, <1>2, <1>4 DEF b, xs, x, AnswerPiece, PieceOf

\* A block of a question, after the calls cs.
QuestionPiece(cs, j, i, c) ==
  [(IF i > Len(cs) THEN Block("text", <<<<j, i>>>>)
    ELSE [Block("result", <<<<j, i>>>>) EXCEPT !.id = cs[i].id, !.answers = cs[i].said]) EXCEPT !.mark = c]

\* It is a result for each call, then texts.
LEMMA AskedBlock ==
  ASSUME NEW cs \in Seq(ABlock), NEW j \in Nat, NEW i \in Nat \ {0}, NEW c \in BOOLEAN
  PROVE  LET b == QuestionPiece(cs, j, i, c)
         IN  /\ b \in ABlock /\ b.said = One(<<j, i>>)
             /\ b.kind = IF i <= Len(cs) THEN "result" ELSE "text"
             /\ i <= Len(cs) => b.id = cs[i].id /\ b.answers = cs[i].said
<1> DEFINE xs == <<<<j, i>>>>
           B == Block("text", xs)
           R == Block("result", xs)
<1>1. xs = One(<<j, i>>) /\ xs \in Seq(SaidItem)
  BY OneItem DEF One
<1> HIDE DEF xs
<1>2. B \in ABlock /\ B.kind = "text" /\ B.said = xs /\ R \in ABlock /\ R.kind = "result" /\ R.said = xs
  <2>1. "text" \in AllKinds /\ "result" \in AllKinds
    BY DEF AllKinds
  <2> QED
    BY <1>1, <2>1, Blocked
<1> HIDE DEF B, R
<1>3. [B EXCEPT !.mark = c] \in ABlock /\ [B EXCEPT !.mark = c].said = xs /\ [B EXCEPT !.mark = c].kind = "text"
  BY <1>2, Changed
<1>4. ASSUME i <= Len(cs)
      PROVE  LET Q == [R EXCEPT !.id = cs[i].id, !.answers = cs[i].said]
             IN  /\ [Q EXCEPT !.mark = c] \in ABlock /\ [Q EXCEPT !.mark = c].said = xs
                 /\ [Q EXCEPT !.mark = c].kind = "result" /\ [Q EXCEPT !.mark = c].id = cs[i].id
                 /\ [Q EXCEPT !.mark = c].answers = cs[i].said
  <2> DEFINE x == cs[i].id
             y == cs[i].said
             Q == [R EXCEPT !.id = x, !.answers = y]
  <2>1. cs[i] \in ABlock
    BY <1>4
  <2>2. x \in CallId /\ y \in Seq(SaidItem)
    BY <2>1 DEF ABlock
  <2> HIDE DEF x, y
  <2>3. Q \in ABlock /\ Q.said = xs /\ Q.kind = "result" /\ Q.id = x /\ Q.answers = y
    BY <1>2, <2>2 DEF ABlock
  <2> HIDE DEF Q
  <2>4. /\ [Q EXCEPT !.mark = c] \in ABlock /\ [Q EXCEPT !.mark = c].said = xs
        /\ [Q EXCEPT !.mark = c].kind = "result" /\ [Q EXCEPT !.mark = c].id = x
        /\ [Q EXCEPT !.mark = c].answers = y
    BY <2>3, Changed
  <2> QED
    BY <2>4 DEF Q, x, y
<1>5. Len(cs) \in Nat
  OBVIOUS
<1>6. CASE i > Len(cs)
  <2>1. QuestionPiece(cs, j, i, c) = [B EXCEPT !.mark = c]
    BY <1>6 DEF QuestionPiece, B, xs
  <2>2. ~(i <= Len(cs))
    BY <1>5, <1>6
  <2> QED
    BY <1>1, <1>3, <2>1, <2>2
<1>7. CASE ~(i > Len(cs))
  <2>1. i <= Len(cs)
    BY <1>5, <1>7
  <2>2. QuestionPiece(cs, j, i, c) = [[R EXCEPT !.id = cs[i].id, !.answers = cs[i].said] EXCEPT !.mark = c]
    BY <1>7 DEF QuestionPiece, R, xs
  <2> QED
    BY <1>1, <1>4, <2>1, <2>2
<1> QED
  BY <1>6, <1>7

\* One more turn.
LEMMA OneMoreTurn ==
  ASSUME Conversing, spoken' = spoken, NEW t \in Turns, turns' = Append(turns, t),
         IF Asking THEN UserTurn(t, Turn, IF turns = <<>> THEN <<>> ELSE CallsIn(Held(Last(turns))))
         ELSE AnswerTurn(t, Turn)
  PROVE  Conversing'
<1> DEFINE n == Len(turns)
<1>1. /\ n \in Nat /\ turns' \in Seq(Turns) /\ Len(turns') = n + 1
      /\ \A j \in 1..n : turns'[j] = turns[j]
      /\ turns'[n + 1] = t
  BY DEF Conversing
<1>2. spoken' \in Dialects
  BY DEF Conversing
<1>3. \A j \in 1..n : IF j % 2 = 1 THEN UserTurn(turns[j], j, CallsBefore(turns, j)) ELSE AnswerTurn(turns[j], j)
  BY DEF Conversing
<1>4. ASSUME NEW j \in 1..(n + 1), j # 1 PROVE Held(turns[j - 1])' = Held(turns[j - 1])
  <2>1. j - 1 \in 1..n
    BY <1>1, <1>4
  <2>2. turns'[j - 1] = turns[j - 1]
    BY <1>1, <2>1
  <2> QED
    BY <2>2 DEF Held
<1>5. ASSUME NEW j \in 1..(n + 1) PROVE CallsBefore(turns, j)' = CallsBefore(turns, j)
  <2>1. CASE j = 1
    BY <2>1 DEF CallsBefore
  <2>2. CASE j # 1
    BY <1>4, <2>2 DEF CallsBefore
  <2> QED
    BY <2>1, <2>2
<1>6. CallsBefore(turns, n + 1) = IF turns = <<>> THEN <<>> ELSE CallsIn(Held(Last(turns)))
  <2>1. n + 1 = 1 <=> turns = <<>>
    BY <1>1 DEF Conversing
  <2>2. (n + 1) - 1 = n
    BY <1>1
  <2> QED
    BY <2>1, <2>2 DEF CallsBefore, Last
<1>7. Turn = n + 1 /\ (Asking <=> (n + 1) % 2 = 1)
  <2>1. n % 2 = 0 <=> (n + 1) % 2 = 1
    BY <1>1
  <2> QED
    BY <2>1 DEF Turn, Asking
<1>8. ASSUME NEW j \in 1..(n + 1)
      PROVE  IF j % 2 = 1 THEN UserTurn(turns'[j], j, CallsBefore(turns, j)') ELSE AnswerTurn(turns'[j], j)
  <2>1. CASE j \in 1..n
    BY <1>1, <1>3, <1>5, <2>1
  <2>2. CASE j = n + 1
    BY <1>1, <1>5, <1>6, <1>7, <2>2
  <2> QED
    BY <1>1, <2>1, <2>2
<1> QED
  BY <1>1, <1>2, <1>8 DEF Conversing

\* An answer is a turn, after a question.
LEMMA AnswerGoesOn ==
  ASSUME Conversing, NEW p \in Upstreams, Answer(p)
  PROVE  Conversing'
<1>1. PICK s \in Answers[p] :
        turns' = Append(turns,
         [role |-> "assistant", by |-> p,
          blocks |-> [i \in DOMAIN s |->
            [Block(s[i].kind, <<<<Turn, i>>>>) EXCEPT
               !.name = s[i].name,
               !.id = IF s[i].kind = "call" THEN UpstreamId(<<Turn, i>>) ELSE NoId]]])
  BY DEF Answer
<1>2. PICK m \in Nat : s \in [1..m -> [kind : AnswerKinds, name : Names]]
  BY AnswersAre
<1> DEFINE j == Turn
           B(i) == AnswerPiece(s[i].kind, s[i].name, j, i)
           bs == [i \in 1..m |-> B(i)]
           t == [role |-> "assistant", by |-> p, blocks |-> bs]
<1>3. j \in Nat /\ ~Asking /\ spoken' = spoken
  <2>1. Len(turns) \in Nat
    BY DEF Conversing
  <2>2. ~Asking /\ spoken' = spoken
    BY DEF Answer
  <2> QED
    BY <2>1, <2>2 DEF Turn
<1>4. turns' = Append(turns, t)
  <2>1. DOMAIN s = 1..m
    BY <1>2
  <2> QED
    BY <1>1, <2>1 DEF AnswerPiece
<1> HIDE DEF j
<1>5. ASSUME NEW i \in 1..m
      PROVE  /\ B(i) \in ABlock /\ B(i).kind \in AnswerKinds /\ B(i).said = One(<<j, i>>) /\ B(i).mark = FALSE
             /\ B(i).kind = "call" => B(i).id = UpstreamId(<<j, i>>)
  <2> DEFINE k == s[i].kind
             f == s[i].name
  <2>1. k \in AnswerKinds /\ f \in Names /\ i \in Nat
    BY <1>2
  <2> HIDE DEF k, f
  <2> DEFINE b == AnswerPiece(k, f, j, i)
  <2>4. j \in Nat
    BY <1>3
  <2>2. PieceOf(AnswerPiece(k, f, j, i), k, j, i)
    BY <2>1, <2>4, AnsweredBlock
  <2>3. B(i) = b
    BY DEF k, f
  <2> HIDE DEF b, B
  <2> QED
    BY <2>1, <2>2, <2>3 DEF PieceOf, b
<1> HIDE DEF B
<1>6. bs \in Seq(ABlock) /\ Len(bs) = m /\ \A i \in 1..m : bs[i] = B(i)
  <2>1. \A i \in 1..m : B(i) \in ABlock
    BY <1>5
  <2>2. bs \in [1..m -> ABlock]
    BY <2>1
  <2> QED
    BY <1>2, <2>2
<1> HIDE DEF bs
<1>7. t.role = "assistant" /\ t.by = p /\ t.blocks = bs
  OBVIOUS
<1>8. t \in Turns
  BY <1>6 DEF Turns
<1> HIDE DEF t
<1>9. AnswerTurn(t, j)
  BY <1>5, <1>6, <1>7 DEF AnswerTurn, AllOf
<1> QED
  BY <1>3, <1>4, <1>8, <1>9, OneMoreTurn DEF j

\* And a question is one, after the calls of an answer.
LEMMA AskGoesOn ==
  ASSUME Conversing, Ask
  PROVE  Conversing'
<1> DEFINE cs == IF turns = <<>> THEN <<>> ELSE OfKind(Held(Last(turns)), {"call"})
           j == Turn
           Made(i) == IF i > Len(cs) THEN Block("text", <<<<j, i>>>>)
                   ELSE [Block("result", <<<<j, i>>>>) EXCEPT !.id = cs[i].id, !.answers = cs[i].said]
<1>1. PICK n \in Len(cs)..(Len(cs) + MaxBlocks) : \E marked :
        turns' = Append(turns,
          [role |-> "user", by |-> "client",
           blocks |-> [i \in 1..n |-> [Made(i) EXCEPT !.mark = i \in marked]]])
  BY DEF Ask
<1>2. PICK marked :
        turns' = Append(turns,
          [role |-> "user", by |-> "client",
           blocks |-> [i \in 1..n |-> [Made(i) EXCEPT !.mark = i \in marked]]])
  BY <1>1
<1>3. j \in Nat /\ Asking /\ spoken' = spoken
  <2>1. Len(turns) \in Nat
    BY DEF Conversing
  <2>2. Asking /\ spoken' = spoken
    BY DEF Ask
  <2> QED
    BY <2>1, <2>2 DEF Turn
<1>4. cs \in Seq(ABlock)
  <2>1. CASE turns = <<>>
    BY <2>1
  <2>2. CASE turns # <<>>
    <3> DEFINE m == Len(turns)
    <3>1. m \in 1..Len(turns) /\ Last(turns) = turns[m] /\ m % 2 # 1
      BY <1>3, <2>2 DEF Asking, Conversing, Last
    <3>2. AnswerTurn(turns[m], m)
      BY <3>1 DEF Conversing
    <3>3. Held(turns[m]) \in Seq(ABlock)
      BY <3>1, <3>2, AnswersCalls
    <3>4. OfKind(Held(turns[m]), {"call"}) \in Seq(ABlock)
      BY <3>3, KindType
    <3> QED
      BY <2>2, <3>1, <3>4
  <2> QED
    BY <2>1, <2>2
<1> DEFINE B(i) == QuestionPiece(cs, j, i, i \in marked)
           bs == [i \in 1..n |-> B(i)]
           t == [role |-> "user", by |-> "client", blocks |-> bs]
<1>5. cs = IF turns = <<>> THEN <<>> ELSE CallsIn(Held(Last(turns)))
  BY DEF CallsIn
<1>6. turns' = Append(turns, t)
  BY <1>2 DEF QuestionPiece
<1>13. n \in Len(cs)..(Len(cs) + MaxBlocks)
  BY <1>1
<1> HIDE DEF cs, j
<1>7. n \in Nat /\ Len(cs) <= n /\ Len(cs) \in Nat
  <2>1. Len(cs) \in Nat /\ MaxBlocks \in Nat /\ n \in Len(cs)..(Len(cs) + MaxBlocks)
    BY <1>4, <1>13, ConversationAssumption
  <2> QED
    BY <2>1
<1>8. ASSUME NEW i \in 1..n
      PROVE  /\ B(i) \in ABlock /\ B(i).said = One(<<j, i>>)
             /\ B(i).kind = IF i <= Len(cs) THEN "result" ELSE "text"
             /\ i <= Len(cs) => B(i).id = cs[i].id /\ B(i).answers = cs[i].said
  <2> DEFINE c == i \in marked
  <2>1. c \in BOOLEAN /\ i \in Nat \ {0}
    BY <1>7
  <2> HIDE DEF c
  <2> DEFINE b == QuestionPiece(cs, j, i, c)
  <2>2. /\ b \in ABlock /\ b.said = One(<<j, i>>)
        /\ b.kind = IF i <= Len(cs) THEN "result" ELSE "text"
        /\ i <= Len(cs) => b.id = cs[i].id /\ b.answers = cs[i].said
    BY <1>3, <1>4, <2>1, AskedBlock
  <2>3. B(i) = b
    BY DEF c
  <2> HIDE DEF b, B
  <2> QED
    BY <2>2, <2>3
<1> HIDE DEF B
<1>9. bs \in Seq(ABlock) /\ Len(bs) = n /\ \A i \in 1..n : bs[i] = B(i)
  <2>1. \A i \in 1..n : B(i) \in ABlock
    BY <1>8
  <2>2. bs \in [1..n -> ABlock]
    BY <2>1
  <2> QED
    BY <1>7, <2>2
<1> HIDE DEF bs
<1>10. t.role = "user" /\ t.blocks = bs
  OBVIOUS
<1>11. t \in Turns
  BY <1>9 DEF Turns
<1> HIDE DEF t
<1>12. UserTurn(t, j, cs)
  BY <1>4, <1>7, <1>8, <1>9, <1>10 DEF UserTurn
<1> QED
  BY <1>3, <1>5, <1>6, <1>11, <1>12, OneMoreTurn DEF j

\* Conversing always holds.
LEMMA ConversationInvariant == ConversationSpec => []Conversing
<1>1. ConversationInit => Conversing
  BY DEF ConversationInit, Conversing
<1>2. Conversing /\ [ConversationNext]_conversationVars => Conversing'
  <2> SUFFICES ASSUME Conversing, [ConversationNext]_conversationVars PROVE Conversing'
    OBVIOUS
  <2>1. CASE Ask
    BY <2>1, AskGoesOn
  <2>2. ASSUME NEW p \in Upstreams, Answer(p) PROVE Conversing'
    BY <2>2, AnswerGoesOn
  <2>3. CASE UNCHANGED conversationVars
    BY <2>3 DEF conversationVars, Conversing, CallsBefore, Held
  <2> QED
    BY <2>1, <2>2, <2>3 DEF ConversationNext
<1> QED
  BY <1>1, <1>2, PTL DEF ConversationSpec

\* Whichever upstream is asked next, its payload tells the conversation that the client
\* holds: in order, with results after their calls, under their ids or names, and with
\* the marks where they were set.  For any functions and any bounds.
THEOREM ConversationIsTold == ConversationSpec => []TellsTheConversation
<1>1. Conversing => TellsTheConversation
  <2> SUFFICES ASSUME Conversing, turns # <<>>, ~Asking PROVE TellsTheConversation
    BY DEF TellsTheConversation
  <2>1. /\ "anthropic" \in Upstreams /\ "openai" \in Upstreams
        /\ "gemini" \in Upstreams /\ "ollama" \in Upstreams
    BY DEF Upstreams
  <2>2. \A p \in Upstreams : ToldInOrder(p, Blocks(Payload(p, turns)), History)
    BY AllInOrder
  <2>3. CallsAnswered(Payload("anthropic", turns)) /\ CallsAnswered(Payload("openai", turns))
    BY ResultsComeNext
  <2>4. ResultsNameTheirFunction(Blocks(Payload("ollama", turns)), History)
    BY Named
  <2>5. MarksStay(Blocks(Payload("anthropic", turns)))
    BY MarksAsSet
  <2> QED
    BY <2>1, <2>2, <2>3, <2>4, <2>5 DEF TellsTheConversation
<1> QED
  BY <1>1, ConversationInvariant, PTL
===============================================================================
