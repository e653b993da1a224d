---------------------------- MODULE RetryingClient ----------------------------
(***************************************************************************)
(* The retry loop of the clients (_send of the Python client, sync and     *)
(* async, and of the JavaScript one) against the gateway's idempotency     *)
(* records.  The attempts of a call carry one key and one body; the calls  *)
(* modelled share the key, as those of a caller that names one do.         *)
(*                                                                         *)
(* A transport error says nothing of the attempt: it may never arrive, be  *)
(* under way, arrive later, or be answered to nobody.                      *)
(***************************************************************************)
EXTENDS Idempotency, Sequences

CONSTANTS
  Calls,        \* calls of chat(), embeddings() or moderations()
  Attempts,     \* the requests each call may make: one, and max_retries more
  Wants         \* the bodies the calls may have

ASSUME ClientAssumption ==
  /\ Attempts \in [Calls -> Seq(Requests) \ {<<>>}]
  /\ \A c, d \in Calls : \A i \in DOMAIN Attempts[c], j \in DOMAIN Attempts[d] :
       Attempts[c][i] = Attempts[d][j] => c = d /\ i = j
  /\ Wants \subseteq [Calls -> Bodies]

VARIABLES
  attempt,      \* the attempt each call is at
  stage,        \* waiting for its answer, or over
  wants         \* the body of each call

clientVars == <<attempt, stage, wants>>
allVars == <<vars, clientVars>>

Current(c) == Attempts[c][attempt[c]]
Last(c) == attempt[c] = Len(Attempts[c])
CallOf(r) == CHOOSE c \in Calls : \E i \in DOMAIN Attempts[c] : Attempts[c][i] = r

ClientInit ==
  /\ Init
  /\ attempt = [c \in Calls |-> 1]
  /\ stage = [c \in Calls |-> "waiting"]
  /\ wants \in Wants

Over == {"returned", "raised"}
To(c, s) == stage' = [stage EXCEPT ![c] = s]

\* Sleep, however long, and send the next attempt.
TryAgain(c) ==
  /\ ~Last(c)
  /\ attempt' = [attempt EXCEPT ![c] = @ + 1]
  /\ UNCHANGED stage

\* Variant: the attempts that end in a transport error are not counted.
TransportErrorUncounted(c) ==
  /\ stage[c] = "waiting"
  /\ UNCHANGED <<vars, clientVars>>

\* httpx.TransportError: no connection, a lost one, or a timeout.
TransportError(c) ==
  /\ stage[c] = "waiting"
  /\ \/ TryAgain(c)
     \/ Last(c) /\ To(c, "raised") /\ UNCHANGED attempt
  /\ UNCHANGED <<vars, wants>>

\* Variant: the status of an answer is not looked at.
AnsweredUnchecked(c) ==
  LET a == answer[Current(c)]
  IN /\ stage[c] = "waiting" /\ pc[Current(c)] = "done"
     /\ \/ To(c, "returned") /\ UNCHANGED attempt
        \/ a.kind = "error" /\ TryAgain(c)
     /\ UNCHANGED <<vars, wants>>

\* The answer to the attempt, if it is still waited for.  429, 502, 503 and 504 are
\* tried again unless the attempts are used up or Retry-After asks for too much;
\* 409 and 422, as any other error, are not.
Answered(c) ==
  LET a == answer[Current(c)]
  IN /\ stage[c] = "waiting" /\ pc[Current(c)] = "done"
     /\ \/ a.kind \in {"ok", "replay"} /\ To(c, "returned") /\ UNCHANGED attempt
        \/ a.kind \notin {"ok", "replay"} /\ To(c, "raised") /\ UNCHANGED attempt
        \/ a.kind = "error" /\ TryAgain(c)
     /\ UNCHANGED <<vars, wants>>

-----------------------------------------------------------------------------
(* The gateway's side *)

Sent(r) == \E i \in 1 .. attempt[CallOf(r)] : Attempts[CallOf(r)][i] = r

\* An attempt that was sent arrives, maybe long after the client gave it up.
ArriveSent(r) ==
  /\ Sent(r)
  /\ Arrive(r)
  /\ body'[r] = wants[CallOf(r)]
  /\ UNCHANGED clientVars

\* The middleware refuses it (429, 401, 413): the route never sees the key.
Refuse(r) ==
  /\ Sent(r) /\ pc[r] = "new"
  /\ Reply(r, "error", "nobody")
  /\ UNCHANGED <<record, body, executed, mishaps, clientVars>>

Work(r) == Step(r) /\ UNCHANGED clientVars

ClientStep(c) == TransportError(c) \/ Answered(c)

ClientNext ==
  \/ \E c \in Calls : ClientStep(c)
  \/ \E r \in Requests : ArriveSent(r) \/ Refuse(r) \/ Work(r)
  \/ \E r \in Requests : Crash(r) /\ UNCHANGED clientVars
  \/ Expire /\ UNCHANGED clientVars

\* The fairness of the gateway, and: a client goes on, and does not wait for ever, for
\* its requests have a timeout.
ClientSpec ==
  /\ ClientInit /\ [][ClientNext]_allVars
  /\ \A r \in Requests : WF_allVars(Work(r))
  /\ WF_allVars(Expire /\ UNCHANGED clientVars)
  /\ \A c \in Calls : WF_allVars(ClientStep(c))

-----------------------------------------------------------------------------
(* Correctness *)

\* Every call comes to an end: it returns an answer or raises, whatever is lost,
\* refused, in conflict or dead.
EveryCallEnds == \A c \in Calls : <>(stage[c] \in Over)

\* What a call returns is the answer to its own body.
ReturnsItsOwn ==
  \A c \in Calls : stage[c] = "returned" =>
    LET a == answer[Current(c)] IN a.from \in executed /\ body[a.from] = wants[c]
=============================================================================
