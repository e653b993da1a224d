---------------------------------- MODULE Gate ----------------------------------
(***************************************************************************)
(* The way of a /v1 request into a worker and out again (main.py): the     *)
(* slot of ConcurrencyLimitMiddleware, then the denials of _rate_limit in  *)
(* their order with the awaits between them, the handler, and the          *)
(* accounting of what it cost (module Usage), which comes only after the   *)
(* handler has run.  Whether a key is valid, its credit positive, the body *)
(* small enough and the rate limit respected is left open: other           *)
(* components decide that.                                                 *)
(***************************************************************************)
EXTENDS Usage

CONSTANTS
  Requests,       \* requests, each of which comes once
  Budget,         \* client_budget_usd
  TokenLimit,     \* client_token_limit
  MaxConcurrent   \* max_concurrent_requests; 0 is unlimited

ASSUME GateAssumption ==
  /\ IsFiniteSet(Requests)
  /\ Budget \in Nat /\ TokenLimit \in Nat /\ MaxConcurrent \in Nat

VARIABLES
  windowed,     \* the budget and the token cap are per window, else for a lifetime
  abandoned,    \* clients may leave a stream while it is sent
  inFlight,     \* _in_flight
  pc, client,   \* where each request is, and whose it is
  verdict       \* why it was denied, or that it was served (history)

config == <<windowed, abandoned>>
gateVars == <<usageVars, config, inFlight, pc, client, verdict>>

Steps == {"new", "auth", "credit", "limiter", "running", "sending", "closing", "done"}
InSlot == {"auth", "credit", "limiter", "running", "sending"}

GateInit ==
  /\ Init
  /\ windowed \in BOOLEAN
  /\ abandoned \in BOOLEAN
  /\ inFlight = 0
  /\ pc = [r \in Requests |-> "new"]
  /\ client \in [Requests -> Clients]
  /\ verdict = [r \in Requests |-> "none"]

-----------------------------------------------------------------------------

Goto(r, l) == pc' = [pc EXCEPT ![r] = l]
Deny(r, why) == Goto(r, "sending") /\ verdict' = [verdict EXCEPT ![r] = why]

\* Variant: the limit is compared one too late.
HasSlotLate == MaxConcurrent = 0 \/ inFlight <= MaxConcurrent

HasSlot == MaxConcurrent = 0 \/ inFlight < MaxConcurrent

\* ConcurrencyLimitMiddleware: a slot is taken, or the request turned away.
Enter(r) ==
  /\ pc[r] = "new"
  /\ \/ /\ HasSlot
        /\ inFlight' = inFlight + 1
        /\ Goto(r, "auth")
        /\ UNCHANGED verdict
     \/ /\ ~HasSlot
        /\ Goto(r, "done")
        /\ verdict' = [verdict EXCEPT ![r] = "concurrency"]
        /\ UNCHANGED inFlight
  /\ UNCHANGED <<usageVars, config, client>>

\* Variant: the rollover of the window is missed.
SpentByStale(c) ==
  IF windowed THEN GetOr(window, c, [window |-> 0, used |-> 0]).used
  ELSE GetOr(usage, c, Zero).cost

\* What the budget check holds against a client.
SpentBy(c) == IF windowed THEN WindowUse(window, c) ELSE GetOr(usage, c, Zero).cost
TokensOf(c) == IF windowed THEN WindowUse(tokens, c) ELSE GetOr(usage, c, Zero).requests

\* The key list has been read: authentication, and with no await between, the budget.
CheckBudget(r) ==
  /\ pc[r] = "auth"
  /\ \/ Deny(r, "unauthorized")
     \/ /\ SpentBy(client[r]) >= Budget
        /\ Deny(r, "budget")
     \/ /\ SpentBy(client[r]) < Budget
        /\ Goto(r, "credit")
        /\ UNCHANGED verdict
  /\ UNCHANGED <<usageVars, config, inFlight, client>>

\* The credit balance has been read: then the token cap and the body size.
CheckTokens(r) ==
  /\ pc[r] = "credit"
  /\ \/ Deny(r, "credit")
     \/ /\ TokensOf(client[r]) >= TokenLimit
        /\ Deny(r, "tokens")
     \/ /\ TokensOf(client[r]) < TokenLimit
        /\ \/ Deny(r, "body")
           \/ Goto(r, "limiter") /\ UNCHANGED verdict
  /\ UNCHANGED <<usageVars, config, inFlight, client>>

\* The rate limiter has answered.
Limit(r) ==
  /\ pc[r] = "limiter"
  /\ \/ Deny(r, "rate")
     \/ Goto(r, "running") /\ UNCHANGED verdict
  /\ UNCHANGED <<usageVars, config, inFlight, client>>

\* The handler is done: what the answer cost is accounted for, a failure is not.
Serve(r) ==
  /\ pc[r] = "running"
  /\ \E cost \in 0..MaxCost : Account(client[r], NoUser, cost)
  /\ Deny(r, "served")
  /\ UNCHANGED <<config, inFlight, client>>

Fail(r) ==
  /\ pc[r] = "running"
  /\ Deny(r, "failed")
  /\ UNCHANGED <<usageVars, config, inFlight, client>>

\* The response is sent to its last byte, or given up: the slot is free.
Leave(r) ==
  /\ pc[r] = "sending"
  /\ inFlight' = inFlight - 1
  /\ Goto(r, "done")
  /\ UNCHANGED <<usageVars, config, client, verdict>>

\* The client leaves while a stream is sent.  The slot is freed when the response
\* is given up; the generator is closed later, and only then accounts.
Abandon(r) ==
  /\ abandoned
  /\ pc[r] = "running"
  /\ inFlight' = inFlight - 1
  /\ Goto(r, "closing")
  /\ UNCHANGED <<usageVars, config, client, verdict>>

CloseStream(r) ==
  /\ pc[r] = "closing"
  /\ \E cost \in 0..MaxCost : Account(client[r], NoUser, cost)
  /\ Goto(r, "done")
  /\ verdict' = [verdict EXCEPT ![r] = "served"]
  /\ UNCHANGED <<config, inFlight, client>>

Background ==
  /\ Tick \/ Flush
  /\ UNCHANGED <<config, inFlight, pc, client, verdict>>

\* The worker restarts: what was in flight is gone.
RestartWorker ==
  /\ Restart
  /\ inFlight' = 0
  /\ pc' = [r \in Requests |-> IF pc[r] = "new" THEN "new" ELSE "done"]
  /\ UNCHANGED <<config, client, verdict>>

GateNext ==
  \/ \E r \in Requests :
       \/ Enter(r) \/ CheckBudget(r) \/ CheckTokens(r) \/ Limit(r) \/ Serve(r) \/ Fail(r)
       \/ Leave(r) \/ Abandon(r) \/ CloseStream(r)
  \/ Background \/ RestartWorker

GateSpec == GateInit /\ [][GateNext]_gateVars

-----------------------------------------------------------------------------
(* Correctness *)

\* Types; the counter of requests in flight is the number of slots held.
TypeOK ==
  /\ UsageOK
  /\ windowed \in BOOLEAN /\ abandoned \in BOOLEAN
  /\ pc \in [Requests -> Steps] /\ client \in [Requests -> Clients]
  /\ inFlight = Cardinality({r \in Requests : pc[r] \in InSlot})
  /\ MaxConcurrent # 0 => inFlight <= MaxConcurrent

\* The checks come before the work and the accounting after it, so that a client can
\* overrun its budget; but by no more than the requests that may be in flight, as
\* long as the tables hold everyone who has used the window, and no worker restarts
\* and no stream is left behind (_budget_denial, ConcurrencyLimitMiddleware).
OverrunBounded ==
  windowed /\ ~lost /\ ~abandoned /\ MaxConcurrent # 0 =>
    \A c \in Clients :
      /\ Fits(Spenders) /\ Budget > 0 => spent[c].cost < Budget + MaxConcurrent * MaxCost
      /\ Fits(Callers) /\ TokenLimit > 0 => spent[c].tokens < TokenLimit + MaxConcurrent

\* A request is denied for its client's spending only if the client has spent that
\* much: in this window if windows are set, ever if not.
NoFalseDenial ==
  [][\A r \in Requests :
       verdict'[r] = "budget" /\ verdict[r] # "budget" =>
         Budget <= IF windowed THEN spent[client[r]].cost ELSE total[client[r]]]_gateVars
=============================================================================
