------------------------------ MODULE Embeddings ------------------------------
(***************************************************************************)
(* Embeddings and moderations (handle_embeddings, handle_moderation of     *)
(* service.py) over the cache backends.  The requests are for the same     *)
(* inputs, so they share one entry for the vectors and one for the claim   *)
(* of whoever is computing them.  The vectors may be there from before a   *)
(* deploy that made the provider honour "dimensions": they are then of     *)
(* another length than these requests ask for.                             *)
(***************************************************************************)
EXTENDS CacheBackend

CONSTANTS
  ValueTTL,     \* cache_ttl_seconds
  ClaimTTL,     \* _inflight_ttl
  MaxPolls,     \* polls that fit in _CACHE_FILL_BUDGET_SECONDS
  Deadlines     \* TRUE: a request may run out of its own time

ASSUME EmbeddingsAssumption ==
  /\ Keys = {"vectors", "claim"}
  /\ ValueTTL \in Nat \ {0} /\ ClaimTTL \in Nat \ {0} /\ MaxPolls \in Nat
  /\ Deadlines \in BOOLEAN
  /\ {Missing, "gone"} \cap Callers = {}

VARIABLES
  pc,           \* where each request is
  holds,        \* holds_inflight
  polls,        \* polls made
  result,       \* what the client got: vectors, an error, or nothing ("cut")
  lapsed        \* a claim has run out (history)

\* Of the length these requests ask for, or of another.
Vectors == {"new", "old"}
\* Whose a claim is.  (The code stores "1".)
Holders == Callers \cup {"gone"}

flow == <<pc, holds, polls, result>>
vars == <<backendVars, flow, lapsed>>

\* What may be in Redis when the workers start: vectors, and the claim of a request
\* whose worker has died.
Before ==
  {d \in UNION {[K -> [val : {"old", "gone"}, exp : {ValueTTL, ClaimTTL}]] : K \in SUBSET Keys} :
     /\ "vectors" \in DOMAIN d => d["vectors"] = [val |-> "old", exp |-> ValueTTL]
     /\ "claim" \in DOMAIN d => d["claim"] = [val |-> "gone", exp |-> ClaimTTL]}

Init ==
  /\ BackendInit
  /\ redis \in IF backend = "redis" THEN Before ELSE {EmptyDict}
  /\ pc = [r \in Callers |-> "new"]
  /\ holds = [r \in Callers |-> FALSE]
  /\ polls = [r \in Callers |-> 0]
  /\ result = [r \in Callers |-> "none"]
  /\ lapsed = FALSE

At(r, l) == pc[r] = l
Goto(r, l) == pc' = [pc EXCEPT ![r] = l]
Finish(r, what) == Goto(r, "done") /\ result' = [result EXCEPT ![r] = what]

-----------------------------------------------------------------------------

\* resolve_provider, ensure_allowed, _check_embedding_dimensions and the check for
\* inputs come before anything is touched.
Begin(r) ==
  /\ At(r, "new")
  /\ \/ Finish(r, "error")
     \/ Goto(r, "lookup") /\ UNCHANGED result
     \/ Goto(r, "call") /\ UNCHANGED result
  /\ UNCHANGED <<backendVars, holds, polls, lapsed>>

\* A moderation, or a request with "cache": false: the provider is all there is.
CallUncached(r) ==
  /\ At(r, "call")
  /\ Finish(r, "new") \/ Finish(r, "error")
  /\ UNCHANGED <<backendVars, holds, polls, lapsed>>

\* A hit counts only if its vectors have the length asked for.
Lookup(r) ==
  /\ At(r, "lookup")
  /\ \E v \in Vectors \cup {Missing} :
       /\ Get(r, "vectors", v)
       /\ \/ v = "new" /\ Finish(r, v)
          \/ v # "new" /\ Goto(r, "claim") /\ UNCHANGED result
  /\ UNCHANGED <<holds, polls, lapsed>>

Claim(r) ==
  /\ At(r, "claim")
  /\ \E added \in BOOLEAN :
       /\ Add(r, "claim", r, ClaimTTL, added)
       /\ holds' = [holds EXCEPT ![r] = added]
       /\ Goto(r, IF added THEN "upstream" ELSE "poll")
  /\ UNCHANGED <<polls, result, lapsed>>

\* What a waiter finds it is served, whatever its length.
Served(r, v, l) ==
  \/ v # Missing /\ Finish(r, v)
  \/ v = Missing /\ Goto(r, l) /\ UNCHANGED result

\* _await_cache_fill: a turn reads the vectors, then the claim.
Poll(r) ==
  /\ At(r, "poll") /\ polls[r] < MaxPolls
  /\ \E v \in Vectors \cup {Missing} : Get(r, "vectors", v) /\ Served(r, v, "pollclaim")
  /\ UNCHANGED <<holds, polls, lapsed>>

\* Variant: the waiter polls for as long as the claim is there.
PollClaimForever(r) ==
  /\ At(r, "pollclaim")
  /\ \E v \in Holders \cup {Missing} :
       Get(r, "claim", v) /\ Goto(r, IF v = Missing THEN "reclaim" ELSE "poll")
  /\ UNCHANGED <<holds, polls, result, lapsed>>

PollClaim(r) ==
  /\ At(r, "pollclaim")
  /\ \E v \in Holders \cup {Missing} :
       Get(r, "claim", v) /\ Goto(r, IF v = Missing THEN "reclaim" ELSE "poll")
  /\ polls' = [polls EXCEPT ![r] = @ + 1]
  /\ UNCHANGED <<holds, result, lapsed>>

\* The time for polling is up: a last look.
PollsOver(r) ==
  /\ At(r, "poll")
  /\ polls[r] = MaxPolls \/ Deadlines
  /\ \E v \in Vectors \cup {Missing} : Get(r, "vectors", v) /\ Served(r, v, "reclaim")
  /\ UNCHANGED <<holds, polls, lapsed>>

\* Variant: a waiter that lost the second claim too believes it has it.
ReclaimBlindly(r) ==
  /\ At(r, "reclaim")
  /\ \E added \in BOOLEAN : Add(r, "claim", r, ClaimTTL, added)
  /\ holds' = [holds EXCEPT ![r] = TRUE]
  /\ Goto(r, "upstream")
  /\ UNCHANGED <<polls, result, lapsed>>

Reclaim(r) ==
  /\ At(r, "reclaim")
  /\ \E added \in BOOLEAN :
       Add(r, "claim", r, ClaimTTL, added) /\ holds' = [holds EXCEPT ![r] = added]
  /\ Goto(r, "upstream")
  /\ UNCHANGED <<polls, result, lapsed>>

\* call_with_retry: the provider is called, maybe several times, and answers.
CallOk(r) ==
  /\ At(r, "upstream")
  /\ Goto(r, "store")
  /\ UNCHANGED <<backendVars, holds, polls, result, lapsed>>

\* Variant: only an Exception frees the claim, and a cancellation is none.
CallRaisesCaught(r) ==
  /\ At(r, "upstream")
  /\ \/ holds[r] /\ Goto(r, "unclaim") /\ result' = [result EXCEPT ![r] = "error"]
     \/ Finish(r, "error")
  /\ UNCHANGED <<backendVars, holds, polls, lapsed>>

\* "except BaseException": a failure of any kind, or a cancellation.
CallRaises(r) ==
  /\ At(r, "upstream")
  /\ IF holds[r] THEN Goto(r, "unclaim") /\ result' = [result EXCEPT ![r] = "error"]
     ELSE Finish(r, "error")
  /\ UNCHANGED <<backendVars, holds, polls, lapsed>>

Store(r) ==
  /\ At(r, "store")
  /\ Set(r, "vectors", "new", ValueTTL)
  /\ IF holds[r] THEN Goto(r, "unclaim") /\ result' = [result EXCEPT ![r] = "new"]
     ELSE Finish(r, "new")
  /\ UNCHANGED <<holds, polls, lapsed>>

Unclaim(r) ==
  /\ At(r, "unclaim")
  /\ Delete(r, "claim")
  /\ holds' = [holds EXCEPT ![r] = FALSE]
  /\ Goto(r, "done")
  /\ UNCHANGED <<polls, result, lapsed>>

-----------------------------------------------------------------------------

Access == {"lookup", "claim", "poll", "pollclaim", "reclaim", "store", "unclaim"}

\* An access is sent on its way; nothing more than this if the backend is Redis.
SendAccess(r) ==
  /\ pc[r] \in Access
  /\ Send(r)
  /\ UNCHANGED <<flow, lapsed>>

\* The task is cancelled at an access to Redis, which may have been carried out.
\* Nothing stands between it and the caller there.
CancelAccess(r) ==
  /\ pc[r] \in Access /\ sent[r]
  /\ sent' = [sent EXCEPT ![r] = FALSE]
  /\ redis' \in
       CASE pc[r] \in {"claim", "reclaim"} /\ ~Live(redis, "claim") ->
              {redis, With(redis, "claim", Entry(r, ClaimTTL))}
         [] pc[r] = "store" -> {redis, With(redis, "vectors", Entry("new", ValueTTL))}
         [] pc[r] = "unclaim" -> {redis, Without(redis, {"claim"})}
         [] OTHER -> {redis}
  /\ Finish(r, "cut")
  /\ UNCHANGED <<backend, workerOf, flaky, now, local, fallen, holds, polls, lapsed>>

\* The claim of a request at work may run out, in the cache that its worker uses.
Pass ==
  /\ Tick
  /\ lapsed' = (lapsed \/ \E r \in Callers :
                  /\ holds[r] /\ pc[r] # "done"
                  /\ LET d == IF fallen[W(r)] THEN local[W(r)] ELSE redis
                     IN ~ ("claim" \in DOMAIN d /\ d["claim"].exp > now'))
  /\ UNCHANGED flow

Step(r) ==
  \/ Lookup(r) \/ Claim(r) \/ Poll(r) \/ PollClaim(r) \/ PollsOver(r) \/ Reclaim(r)
  \/ CallUncached(r) \/ CallOk(r) \/ CallRaises(r) \/ Store(r) \/ Unclaim(r)
  \/ SendAccess(r)

Next ==
  \/ \E r \in Callers : Begin(r) \/ Step(r) \/ CancelAccess(r)
  \/ Pass

Spec == Init /\ [][Next]_vars

\* A coroutine that can go on does; Redis answers or raises, and so does the provider.
FairSpec == Spec /\ \A r \in Callers : WF_vars(Step(r))

-----------------------------------------------------------------------------
(* Correctness *)

\* What a backend holds, seen from outside: the live entries.
Visible(d) == [k \in {j \in DOMAIN d : Live(d, j)} |-> d[k]]

Shown(w) == Visible(IF fallen[w] THEN local[w] ELSE redis)

Promise(w) ==
  INSTANCE TtlMap WITH map <- Shown(w), Values <- Holders \cup Vectors, TTLs <- {ValueTTL, ClaimTTL}

\* Whichever backend a worker uses, every step changes what it sees of the cache as
\* TtlMap would: expired entries that a MemoryCache still keeps, its eviction at the
\* cap and Redis' replies out of order are not to be seen.  Only the step to the
\* fallback, or from one fallback to the next, is none of the map's.
ImplementsTtlMap ==
  [][\A w \in Workers :
       \/ Promise(w)!Next \/ UNCHANGED <<Shown(w), now>>
       \/ \E r \in Callers : W(r) = w /\ sent[r] /\ flaky /\ fallen'[w]]_backendVars

\* Of the requests that meet in one backend one at a time believes that the vectors
\* are its to compute.  (As long as no access raises and no claim runs out.)
OneFlight ==
  ~flaky /\ ~lapsed =>
    \A q, r \in Callers :
      /\ holds[q] /\ pc[q] # "done" /\ holds[r] /\ pc[r] # "done"
      /\ backend = "redis" \/ W(q) = W(r)
      => q = r

\* However the provider call ends, a request that is over has left no claim behind,
\* for the next ones to wait for; unless it was cut off at an access to the cache.
NoClaimLeft ==
  ~flaky => \A w \in Workers :
    Live(local[w], "claim") \/ Live(redis, "claim") =>
      LET r == IF backend = "redis" THEN redis["claim"].val ELSE local[w]["claim"].val
      IN r = "gone" \/ pc[r] # "done" \/ result[r] = "cut"

\* Every request is answered, though claims be left and no clock run.
EveryEmbeddingAnswered ==
  \A r \in Callers : pc[r] # "new" ~> pc[r] = "done"

\* "a hit must not return a wrong-length vector until the TTL expires"
\* (_handle_embeddings).
FreshDimensions == \A r \in Callers : result[r] # "old"
=============================================================================
