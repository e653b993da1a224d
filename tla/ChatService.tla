------------------------------ MODULE ChatService ------------------------------
(***************************************************************************)
(* One non-streaming chat request inside the gateway (_handle_chat of      *)
(* service.py): the chain of targets, the content cache with its           *)
(* single-flight claim, in-place retries (retry.py), the request deadline, *)
(* provider cooldown (cooldown.py) and the consecutive-failure breaker     *)
(* (circuit_breaker.py).                                                   *)
(*                                                                         *)
(* Requests run on workers.  A worker's cooldowns and failure counts are   *)
(* its own; the cache, the claims and the shared cooldown marks are in the *)
(* backend the workers share, and every access to it is an await, as is    *)
(* every upstream call and backoff.  One action is what runs between two   *)
(* of them.                                                                *)
(***************************************************************************)
EXTENDS Naturals, Sequences, FiniteSets

CONSTANTS
  Requests, Workers, Providers,
  Targets,      \* cache keys: a prompt for a model of a provider
  ProviderOf,   \* the provider of each target
  Chain,        \* each request's targets: the primary, then its fallbacks
  WorkerOf,     \* the worker each request runs on
  CacheUsers,   \* requests that use the content cache
  Errors,       \* errors an upstream call may end with ("broken": no ProviderError)
  MaxAttempts,  \* retry_max_attempts: upstream calls per target
  MaxPolls,     \* polls that fit in _CACHE_FILL_BUDGET_SECONDS
  Threshold,    \* circuit_breaker_threshold
  Cooldowns,    \* provider_cooldown_enabled
  Deadlines,    \* TRUE: a request's deadline may run out
  Lapses,       \* TRUE: TTLs and cooldowns may run out
  Crashes       \* TRUE: a worker may die

ASSUME ChatAssumption ==
  /\ ProviderOf \in [Targets -> Providers]
  /\ Chain \in [Requests -> Seq(Targets) \ {<<>>}]
  /\ WorkerOf \in [Requests -> Workers]
  /\ CacheUsers \subseteq Requests
  /\ Errors \subseteq {"4xx", "429", "5xx", "broken"}
  /\ MaxAttempts \in Nat \ {0} /\ MaxPolls \in Nat /\ Threshold \in Nat \ {0}
  /\ {Cooldowns, Deadlines, Lapses, Crashes} \subseteq BOOLEAN
  /\ "nobody" \notin Requests

VARIABLES
  pc,           \* where each request is
  idx,          \* the position in its chain
  tries,        \* upstream calls made for this target
  polls,        \* polls made for this target
  holds,        \* holds_inflight
  spent,        \* its deadline has passed
  err,          \* last_error
  result,       \* what the client got: a hit, its own response, or err
  stored,       \* the request whose response the cache has, per target
  claim,        \* the request whose :inflight entry is there, per target
  parked,       \* Cooldown._until, per worker
  shared,       \* cooldown marks in the shared backend
  count,        \* ConsecutiveFailureTracker._counts, per worker
  calls         \* upstream calls of each request (history)

flow == <<pc, idx, tries, polls, holds, spent, err, result>>
cache == <<stored, claim>>
health == <<parked, shared, count>>
vars == <<flow, cache, health, calls>>

Nobody == "nobody"
K(r) == Chain[r][idx[r]]
P(r) == ProviderOf[K(r)]
W(r) == WorkerOf[r]
IsLast(r) == idx[r] = Len(Chain[r])
\* Variant: a rate limit is taken for a client error.
TransientServerOnly(e) == e \in {"5xx", "deadline"}

Transient(e) == e # "4xx"

Init ==
  /\ pc = [r \in Requests |-> "new"]
  /\ idx = [r \in Requests |-> 1]
  /\ tries = [r \in Requests |-> 0]
  /\ polls = [r \in Requests |-> 0]
  /\ holds = [r \in Requests |-> FALSE]
  /\ spent = [r \in Requests |-> FALSE]
  /\ err = [r \in Requests |-> "none"]
  /\ result = [r \in Requests |-> "none"]
  /\ stored = [k \in Targets |-> Nobody]
  /\ claim = [k \in Targets |-> Nobody]
  /\ parked = [w \in Workers |-> [p \in Providers |-> FALSE]]
  /\ shared = [p \in Providers |-> FALSE]
  /\ count = [w \in Workers |-> [p \in Providers |-> 0]]
  /\ calls = [r \in Requests |-> 0]

At(r, l) == pc[r] = l
Goto(r, l) == pc' = [pc EXCEPT ![r] = l]
Finish(r, what) == Goto(r, "done") /\ result' = [result EXCEPT ![r] = what]
NextTarget(r) == Goto(r, "next") /\ idx' = [idx EXCEPT ![r] = @ + 1]

-----------------------------------------------------------------------------
(* The loop over the chain *)

Arrive(r) ==
  /\ At(r, "new")
  /\ Goto(r, "next")
  /\ UNCHANGED <<idx, tries, polls, holds, spent, err, result, cache, health, calls>>

\* The target is tried.
Attempt(r) ==
  /\ Goto(r, IF r \in CacheUsers THEN "lookup" ELSE "call")
  /\ tries' = [tries EXCEPT ![r] = 0]
  /\ polls' = [polls EXCEPT ![r] = 0]

\* A spent budget ends the chain, with the last upstream error if there is one.
OutOfBudget(r) ==
  /\ At(r, "next")
  /\ spent[r]
  /\ err' = [err EXCEPT ![r] = IF @ = "none" THEN "deadline" ELSE @]
  /\ Finish(r, "error")
  /\ UNCHANGED <<idx, tries, polls, holds, spent, cache, health, calls>>

\* Variant: the last target is skipped like the others.
StartTargetSkipsLast(r) ==
  /\ At(r, "next")
  /\ ~spent[r]
  /\ \/ Cooldowns /\ parked[W(r)][P(r)] /\ NextTarget(r) /\ UNCHANGED <<tries, polls>>
     \/ Cooldowns /\ ~parked[W(r)][P(r)] /\ Goto(r, "shared") /\ UNCHANGED <<idx, tries, polls>>
     \/ ~Cooldowns /\ Attempt(r) /\ UNCHANGED idx
  /\ UNCHANGED <<holds, spent, err, result, cache, health, calls>>

\* A target that cools down is skipped, unless it is the last one; the worker's
\* own dict is asked first, the shared marks only if it knows nothing.
StartTarget(r) ==
  /\ At(r, "next")
  /\ ~spent[r]
  /\ \/ /\ Cooldowns /\ ~IsLast(r)
        /\ parked[W(r)][P(r)]
        /\ NextTarget(r)
        /\ UNCHANGED <<tries, polls>>
     \/ /\ Cooldowns /\ ~IsLast(r)
        /\ ~parked[W(r)][P(r)]
        /\ Goto(r, "shared")
        /\ UNCHANGED <<idx, tries, polls>>
     \/ /\ Cooldowns => IsLast(r)
        /\ Attempt(r)
        /\ UNCHANGED idx
  /\ UNCHANGED <<holds, spent, err, result, cache, health, calls>>

SharedCheck(r) ==
  /\ At(r, "shared")
  /\ \/ shared[P(r)] /\ NextTarget(r) /\ UNCHANGED <<tries, polls>>
     \/ ~shared[P(r)] /\ Attempt(r) /\ UNCHANGED idx
  /\ UNCHANGED <<holds, spent, err, result, cache, health, calls>>

-----------------------------------------------------------------------------
(* The content cache and the single-flight claim *)

\* A read of the cache: a hit ends the request, a miss goes on to l.
ReadCache(r, l) ==
  \/ stored[K(r)] # Nobody /\ Finish(r, "hit")
  \/ stored[K(r)] = Nobody /\ Goto(r, l) /\ UNCHANGED result

Lookup(r) ==
  /\ At(r, "lookup")
  /\ ReadCache(r, "claim")
  /\ UNCHANGED <<idx, tries, polls, holds, spent, err, cache, health, calls>>

\* cache.add(inflight_key), atomic.
TakeClaim(r) ==
  /\ claim' = [claim EXCEPT ![K(r)] = IF @ = Nobody THEN r ELSE @]
  /\ holds' = [holds EXCEPT ![r] = claim[K(r)] = Nobody]

Claim(r) ==
  /\ At(r, "claim")
  /\ TakeClaim(r)
  /\ Goto(r, IF claim[K(r)] = Nobody THEN "call" ELSE "poll")
  /\ UNCHANGED <<idx, tries, polls, spent, err, result, stored, health, calls>>

\* _await_cache_fill: one turn of the loop reads the value, then the claim.
Poll(r) ==
  /\ At(r, "poll")
  /\ polls[r] < MaxPolls
  /\ ~spent[r]
  /\ ReadCache(r, "pollclaim")
  /\ UNCHANGED <<idx, tries, polls, holds, spent, err, cache, health, calls>>

\* Variant: the waiter polls for as long as the claim is there.
PollClaimForever(r) ==
  /\ At(r, "pollclaim")
  /\ \/ claim[K(r)] = Nobody /\ Goto(r, "reclaim")
     \/ claim[K(r)] # Nobody /\ Goto(r, "poll")
  /\ UNCHANGED <<idx, tries, polls, holds, spent, err, result, cache, health, calls>>

PollClaim(r) ==
  /\ At(r, "pollclaim")
  /\ \/ claim[K(r)] = Nobody /\ Goto(r, "reclaim") /\ UNCHANGED polls
     \/ /\ claim[K(r)] # Nobody
        /\ Goto(r, "poll")
        /\ polls' = [polls EXCEPT ![r] = @ + 1]
  /\ UNCHANGED <<idx, tries, holds, spent, err, result, cache, health, calls>>

\* The polling budget is gone, after MaxPolls turns at the latest, and with the
\* request's own: a last look at the value.
PollsOver(r) ==
  /\ At(r, "poll")
  /\ polls[r] = MaxPolls \/ spent[r]
  /\ ReadCache(r, "reclaim")
  /\ UNCHANGED <<idx, tries, polls, holds, spent, err, cache, health, calls>>

\* Variant: a waiter that lost the second claim too believes it has it.
ReclaimBlindly(r) ==
  /\ At(r, "reclaim")
  /\ claim' = [claim EXCEPT ![K(r)] = IF @ = Nobody THEN r ELSE @]
  /\ holds' = [holds EXCEPT ![r] = TRUE]
  /\ Goto(r, "call")
  /\ UNCHANGED <<idx, tries, polls, spent, err, result, stored, health, calls>>

\* Nothing came: the waiter tries to take the claim over, and calls either way.
Reclaim(r) ==
  /\ At(r, "reclaim")
  /\ TakeClaim(r)
  /\ Goto(r, "call")
  /\ UNCHANGED <<idx, tries, polls, spent, err, result, stored, health, calls>>

-----------------------------------------------------------------------------
(* call_with_retry *)

Failed(r) == Goto(r, IF holds[r] THEN "unclaim" ELSE "blame")

\* The budget is checked before each attempt; the error of an earlier attempt
\* at this target is raised in preference to DeadlineExceeded.
CallTooLate(r) ==
  /\ At(r, "call")
  /\ spent[r]
  /\ err' = [err EXCEPT ![r] = IF tries[r] > 0 THEN @ ELSE "deadline"]
  /\ Failed(r)
  /\ UNCHANGED <<idx, tries, polls, holds, spent, result, cache, health, calls>>

Call(r) ==
  /\ At(r, "call")
  /\ ~spent[r]
  /\ tries' = [tries EXCEPT ![r] = @ + 1]
  /\ calls' = [calls EXCEPT ![r] = @ + 1]
  /\ Goto(r, "upstream")
  /\ UNCHANGED <<idx, polls, holds, spent, err, result, cache, health>>

\* The failure count is cleared as soon as the response is there.
UpstreamOk(r) ==
  /\ At(r, "upstream")
  /\ count' = [count EXCEPT ![W(r)][P(r)] = 0]
  /\ IF r \in CacheUsers THEN Goto(r, "store") /\ UNCHANGED result
                         ELSE Finish(r, "own")
  /\ UNCHANGED <<idx, tries, polls, holds, spent, err, cache, parked, shared, calls>>

\* Variant: the failure path forgets the claim.
UpstreamFailsKeepsClaim(r) ==
  /\ At(r, "upstream")
  /\ \E e \in Errors \ {"broken"} :
       /\ err' = [err EXCEPT ![r] = e]
       /\ \/ Transient(e) /\ tries[r] < MaxAttempts /\ Goto(r, "call")
          \/ /\ ~Transient(e) \/ tries[r] >= MaxAttempts
             /\ Goto(r, "blame")
  /\ UNCHANGED <<idx, tries, polls, holds, spent, result, cache, health, calls>>

\* A transient error is retried while attempts are left, unless the pause would
\* outlast the budget or is a Retry-After longer than max_delay.
UpstreamFails(r) ==
  /\ At(r, "upstream")
  /\ \E e \in Errors \ {"broken"} :
       /\ err' = [err EXCEPT ![r] = e]
       /\ \/ Transient(e) /\ tries[r] < MaxAttempts /\ Goto(r, "call")
          \/ /\ \/ ~Transient(e) \/ tries[r] >= MaxAttempts
                \/ e = "429" \/ Deadlines
             /\ Failed(r)
  /\ UNCHANGED <<idx, tries, polls, holds, spent, result, cache, health, calls>>

\* The call raises something that is no ProviderError (resp.json() of a 200 that
\* is not JSON): neither the retry loop nor the handler catches it.
UpstreamBreaks(r) ==
  /\ At(r, "upstream")
  /\ "broken" \in Errors
  /\ err' = [err EXCEPT ![r] = "broken"]
  /\ holds' = [holds EXCEPT ![r] = FALSE]
  /\ Finish(r, "error")
  /\ UNCHANGED <<idx, tries, polls, spent, cache, health, calls>>

\* wait_for cuts the call off: DeadlineExceeded, whatever failed before it.
UpstreamCut(r) ==
  /\ At(r, "upstream")
  /\ spent[r]
  /\ err' = [err EXCEPT ![r] = "deadline"]
  /\ Failed(r)
  /\ UNCHANGED <<idx, tries, polls, holds, spent, result, cache, health, calls>>

-----------------------------------------------------------------------------
(* After the call *)

\* cache.delete(inflight_key), whoever's entry it is by now.
Unclaim(r) ==
  /\ At(r, "unclaim")
  /\ claim' = [claim EXCEPT ![K(r)] = Nobody]
  /\ holds' = [holds EXCEPT ![r] = FALSE]
  /\ Goto(r, "blame")
  /\ UNCHANGED <<idx, tries, polls, spent, err, result, stored, health, calls>>

\* An error that is transient falls through to the next target.
Decide(r) ==
  IF Transient(err[r]) /\ ~IsLast(r)
  THEN NextTarget(r) /\ UNCHANGED result
  ELSE Finish(r, "error") /\ UNCHANGED idx

Park(r) ==
  /\ parked' = [parked EXCEPT ![W(r)][P(r)] = TRUE]
  /\ Goto(r, "park")
  /\ UNCHANGED <<idx, result>>

\* A client error, or cooldowns are off: nobody is blamed.
Excuse(r) ==
  /\ At(r, "blame")
  /\ ~Cooldowns \/ err[r] = "4xx"
  /\ Decide(r)
  /\ UNCHANGED <<tries, polls, holds, spent, err, cache, health, calls>>

\* A 429 parks the provider at once.
BackOff(r) ==
  /\ At(r, "blame")
  /\ Cooldowns /\ err[r] = "429"
  /\ Park(r)
  /\ UNCHANGED <<tries, polls, holds, spent, err, cache, shared, count, calls>>

\* Any other failure, the gateway's own 504 included, is counted.
CountFailure(r) ==
  /\ At(r, "blame")
  /\ Cooldowns /\ err[r] \in {"5xx", "deadline"}
  /\ count' = [count EXCEPT ![W(r)][P(r)] = @ + 1]
  /\ \/ count[W(r)][P(r)] + 1 < Threshold /\ Decide(r) /\ UNCHANGED parked
     \/ count[W(r)][P(r)] + 1 >= Threshold /\ Park(r)
  /\ UNCHANGED <<tries, polls, holds, spent, err, cache, shared, calls>>

\* The shared mark is an await after the local one; a trip's reset comes after.
SharePark(r) ==
  /\ At(r, "park")
  /\ shared' = [shared EXCEPT ![P(r)] = TRUE]
  /\ count' = IF err[r] = "429" THEN count ELSE [count EXCEPT ![W(r)][P(r)] = 0]
  /\ Decide(r)
  /\ UNCHANGED <<tries, polls, holds, spent, err, cache, parked, calls>>

Store(r) ==
  /\ At(r, "store")
  /\ stored' = [stored EXCEPT ![K(r)] = r]
  /\ IF holds[r] THEN Goto(r, "release") /\ UNCHANGED result
                 ELSE Finish(r, "own")
  /\ UNCHANGED <<idx, tries, polls, holds, spent, err, claim, health, calls>>

Release(r) ==
  /\ At(r, "release")
  /\ claim' = [claim EXCEPT ![K(r)] = Nobody]
  /\ holds' = [holds EXCEPT ![r] = FALSE]
  /\ Finish(r, "own")
  /\ UNCHANGED <<idx, tries, polls, spent, err, stored, health, calls>>

-----------------------------------------------------------------------------
(* Time and crashes *)

RunOut(r) ==
  /\ Deadlines
  /\ pc[r] \notin {"new", "done", "dead"}
  /\ ~spent[r]
  /\ spent' = [spent EXCEPT ![r] = TRUE]
  /\ UNCHANGED <<pc, idx, tries, polls, holds, err, result, cache, health, calls>>

ClaimLapses(k) ==
  /\ Lapses
  /\ claim[k] # Nobody
  /\ claim' = [claim EXCEPT ![k] = Nobody]
  /\ UNCHANGED <<flow, stored, health, calls>>

EntryLapses(k) ==
  /\ Lapses
  /\ stored[k] # Nobody
  /\ stored' = [stored EXCEPT ![k] = Nobody]
  /\ UNCHANGED <<flow, claim, health, calls>>

CooldownLapses(w, p) ==
  /\ Lapses
  /\ parked[w][p]
  /\ parked' = [parked EXCEPT ![w][p] = FALSE]
  /\ UNCHANGED <<flow, cache, shared, count, calls>>

MarkLapses(p) ==
  /\ Lapses
  /\ shared[p]
  /\ shared' = [shared EXCEPT ![p] = FALSE]
  /\ UNCHANGED <<flow, cache, parked, count, calls>>

\* A worker dies with its requests and its memory, and is restarted.
Crash(w) ==
  /\ Crashes
  /\ LET lost == {r \in Requests : W(r) = w /\ pc[r] \notin {"new", "done", "dead"}}
     IN /\ lost # {}
        /\ pc' = [r \in Requests |-> IF r \in lost THEN "dead" ELSE pc[r]]
        /\ holds' = [r \in Requests |-> r \notin lost /\ holds[r]]
  /\ parked' = [parked EXCEPT ![w] = [p \in Providers |-> FALSE]]
  /\ count' = [count EXCEPT ![w] = [p \in Providers |-> 0]]
  /\ UNCHANGED <<idx, tries, polls, spent, err, result, cache, shared, calls>>

Step(r) ==
  \/ OutOfBudget(r) \/ StartTarget(r) \/ SharedCheck(r)
  \/ Lookup(r) \/ Claim(r) \/ Poll(r) \/ PollClaim(r) \/ PollsOver(r) \/ Reclaim(r)
  \/ CallTooLate(r) \/ Call(r) \/ UpstreamOk(r) \/ UpstreamFails(r)
  \/ UpstreamBreaks(r) \/ UpstreamCut(r)
  \/ Unclaim(r) \/ Excuse(r) \/ BackOff(r) \/ CountFailure(r) \/ SharePark(r)
  \/ Store(r) \/ Release(r)

Next ==
  \/ \E r \in Requests : Arrive(r) \/ Step(r) \/ RunOut(r)
  \/ \E k \in Targets : ClaimLapses(k) \/ EntryLapses(k)
  \/ \E p \in Providers : MarkLapses(p)
  \/ \E w \in Workers : Crash(w) \/ \E p \in Providers : CooldownLapses(w, p)

Spec == Init /\ [][Next]_vars

\* A request at work gets on with it: an upstream call ends, by its own timeout
\* at the latest.  No deadline, TTL or cooldown need ever run out.
FairSpec == Spec /\ \A r \in Requests : WF_vars(Step(r))

-----------------------------------------------------------------------------
(* Correctness *)

Calling == {"call", "upstream", "unclaim", "store", "release"}
Places == {"new", "next", "shared", "lookup", "claim", "poll", "pollclaim", "reclaim",
           "blame", "park", "done", "dead"} \cup Calling

FlowOK ==
  /\ pc \in [Requests -> Places]
  /\ idx \in [Requests -> Nat \ {0}]
  /\ tries \in [Requests -> 0 .. MaxAttempts]
  /\ polls \in [Requests -> 0 .. MaxPolls]
  /\ holds \in [Requests -> BOOLEAN]
  /\ spent \in [Requests -> BOOLEAN]
  /\ err \in [Requests -> {"none", "4xx", "429", "5xx", "broken", "deadline"}]
  /\ result \in [Requests -> {"none", "hit", "own", "error"}]

CacheOK ==
  /\ stored \in [Targets -> Requests \cup {Nobody}]
  /\ claim \in [Targets -> Requests \cup {Nobody}]

HealthOK ==
  /\ parked \in [Workers -> [Providers -> BOOLEAN]]
  /\ shared \in [Providers -> BOOLEAN]
  /\ count \in [Workers -> [Providers -> Nat]]

HistoryOK == calls \in [Requests -> Nat]

\* Every variable has its type.
TypeOK == FlowOK /\ CacheOK /\ HealthOK /\ HistoryOK

\* However many targets cool down, the loop never runs off the end of the chain
\* ("assert last_error is not None" after the loop, and it is never reached).
NeverFallsThrough == \A r \in Requests : idx[r] <= Len(Chain[r])

\* Two requests never both believe they hold the claim of a target, though
\* waiters take it over and workers die holding it.  (While no claim lapses.)
OneHolder ==
  \A q, r \in Requests : holds[q] /\ holds[r] /\ K(q) = K(r) => q = r

\* A claim belongs to a request that is computing for that target, or to one
\* whose worker died: no path of the handler leaves one behind, which would make
\* every later miss wait out its polling budget ("instead of letting it poll
\* until timeout").
ClaimHasHolder ==
  \A k \in Targets : claim[k] # Nobody =>
    \/ pc[claim[k]] = "dead"
    \/ pc[claim[k]] \in Calling /\ K(claim[k]) = k

\* Whatever a client waits for is bounded: upstream calls by attempts x targets.
CallsBounded == \A r \in Requests : calls[r] <= MaxAttempts * Len(Chain[r])

\* An error reaches the client only when no target is left, when it is one that
\* another target would not cure, or when the budget is gone.
NoTargetForgotten ==
  \A r \in Requests : result[r] = "error" =>
    err[r] # "none" /\ (IsLast(r) \/ err[r] \in {"4xx", "broken"} \/ spent[r])

\* Every request is answered, unless its worker dies: waiters do not depend on
\* the request they wait for.  (A request arrives once, so at some point all
\* those that ever arrive are over.)
EveryRequestAnswered == <>[](\A r \in Requests : pc[r] \in {"new", "done", "dead"})

==============================================================================
