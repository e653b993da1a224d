------------------------------ MODULE Idempotency ------------------------------
(***************************************************************************)
(* Idempotency-Key (idempotency.py) in the route that uses it (_run_chat   *)
(* of main.py; embeddings follows the same cycle): claim the key, do the   *)
(* work, bill it, store the response; or free the key when the work fails. *)
(*                                                                         *)
(* The requests of one client with one key share one cache entry, so one   *)
(* entry is modelled.  Every access to it is an await: other requests run  *)
(* between a failed claim and the read that classifies it, between the     *)
(* work and the write of its response.                                     *)
(***************************************************************************)
EXTENDS Naturals, FiniteSets

CONSTANTS
  Requests,     \* HTTP requests that carry the key: the first and its retries
  Bodies        \* request bodies, told apart by their fingerprint

ASSUME IdempotencyAssumption == "nobody" \notin Requests

VARIABLES
  record,       \* the cache entry: a sentinel, a stored response, or nothing
  pc,           \* where each request is
  body,         \* its body
  answer,       \* what its client got, and whose response it was
  executed,     \* requests whose upstream call has succeeded (history)
  mishaps       \* what may go wrong in this behaviour, beside the death of requests

vars == <<record, pc, body, answer, executed, mishaps>>

Mishaps == {"failure", "lapse", "fault"}
Failures == "failure" \in mishaps   \* an upstream call may fail
Lapses == "lapse" \in mishaps       \* the entry's TTL may run out, even under a request at work
Faults == "fault" \in mishaps       \* a cache access may raise; each fails open

NoBody == "no body"
NoRecord == [status |-> "absent", body |-> NoBody, by |-> "nobody"]
NoAnswer == [kind |-> "none", from |-> "nobody"]

\* json.dumps({"status": "in_progress", ...}) and the record of complete(); "by"
\* is whose sentinel or response it is, which the code does not store.
Sentinel(r) == [status |-> "in_progress", body |-> body[r], by |-> r]
Done(r) == [status |-> "done", body |-> body[r], by |-> r]

AtWork == {"working", "billing", "completing", "releasing"}

Init ==
  /\ record = NoRecord
  /\ pc = [r \in Requests |-> "new"]
  /\ body = [r \in Requests |-> NoBody]
  /\ answer = [r \in Requests |-> NoAnswer]
  /\ executed = {}
  /\ mishaps \in SUBSET Mishaps

Goto(r, l) == pc' = [pc EXCEPT ![r] = l]

Reply(r, kind, from) ==
  /\ Goto(r, "done")
  /\ answer' = [answer EXCEPT ![r] = [kind |-> kind, from |-> from]]

-----------------------------------------------------------------------------

Arrive(r) ==
  /\ pc[r] = "new"
  /\ \E b \in Bodies : body' = [body EXCEPT ![r] = b]
  /\ Goto(r, "claiming")
  /\ UNCHANGED <<record, answer, executed, mishaps>>

\* Variant: the sentinel is looked for and then set, not added.
ClaimBySet(r) ==
  /\ pc[r] = "claiming"
  /\ \/ /\ record.status # "done"
        /\ record' = Sentinel(r)
        /\ Goto(r, "working")
     \/ /\ record.status = "done"
        /\ Goto(r, "reading")
        /\ UNCHANGED record
  /\ UNCHANGED <<body, answer, executed, mishaps>>

\* cache.add: atomic.  On an exception the request proceeds (if its sentinel was
\* stored all the same, that is the first disjunct).
Claim(r) ==
  /\ pc[r] = "claiming"
  /\ \/ /\ record = NoRecord
        /\ record' = Sentinel(r)
        /\ Goto(r, "working")
     \/ /\ record # NoRecord
        /\ Goto(r, "reading")
        /\ UNCHANGED record
     \/ /\ Faults
        /\ Goto(r, "working")
        /\ UNCHANGED record
  /\ UNCHANGED <<body, answer, executed, mishaps>>

\* Variant: the fingerprint is not compared.
ReadBackAnyBody(r) ==
  /\ pc[r] = "reading"
  /\ \/ /\ record = NoRecord \/ Faults
        /\ Goto(r, "working")
        /\ UNCHANGED answer
     \/ /\ record.status = "in_progress"
        /\ Reply(r, "conflict", record.by)
     \/ /\ record.status = "done"
        /\ Goto(r, "billing")
        /\ answer' = [answer EXCEPT ![r] = [kind |-> "replay", from |-> record.by]]
  /\ UNCHANGED <<record, body, executed, mishaps>>

\* The read after a failed claim.  By now the entry may be gone, and then the
\* request proceeds without a sentinel of its own.  The fingerprint is compared
\* before the status: another body is a 422 even while the first is in flight.
ReadBack(r) ==
  /\ pc[r] = "reading"
  /\ \/ /\ record = NoRecord \/ Faults
        /\ Goto(r, "working")
        /\ UNCHANGED answer
     \/ /\ record # NoRecord
        /\ record.body # body[r]
        /\ Reply(r, "mismatch", "nobody")
     \/ /\ record.status = "in_progress"
        /\ record.body = body[r]
        /\ Reply(r, "conflict", record.by)
     \/ /\ record.status = "done"
        /\ record.body = body[r]
        /\ Goto(r, "billing")
        /\ answer' = [answer EXCEPT ![r] = [kind |-> "replay", from |-> record.by]]
  /\ UNCHANGED <<record, body, executed, mishaps>>

\* handle_chat returns.
WorkSucceeds(r) ==
  /\ pc[r] = "working"
  /\ executed' = executed \cup {r}
  /\ answer' = [answer EXCEPT ![r] = [kind |-> "ok", from |-> r]]
  /\ Goto(r, "billing")
  /\ UNCHANGED <<record, body, mishaps>>

\* Variant: the error path raises without freeing the key.
WorkFailsKeepsKey(r) ==
  /\ Failures
  /\ pc[r] = "working"
  /\ Reply(r, "error", "nobody")
  /\ UNCHANGED <<record, body, executed, mishaps>>

\* handle_chat raises.
WorkFails(r) ==
  /\ Failures
  /\ pc[r] = "working"
  /\ Goto(r, "releasing")
  /\ UNCHANGED <<record, body, answer, executed, mishaps>>

\* _record_client_usage, which spends the client's credit: also for a replay.
Bill(r) ==
  /\ pc[r] = "billing"
  /\ Goto(r, IF answer[r].kind = "replay" THEN "done" ELSE "completing")
  /\ UNCHANGED <<record, body, answer, executed, mishaps>>

\* complete() overwrites the entry, whatever it is by now.
Complete(r) ==
  /\ pc[r] = "completing"
  /\ \/ record' = Done(r)
     \/ Faults /\ UNCHANGED record
  /\ Goto(r, "done")
  /\ UNCHANGED <<body, answer, executed, mishaps>>

\* release() deletes the entry, whatever it is by now: every request that did
\* not get a replay, a 409 or a 422 believes it holds the sentinel.
Release(r) ==
  /\ pc[r] = "releasing"
  /\ \/ record' = NoRecord
     \/ Faults /\ UNCHANGED record
  /\ Reply(r, "error", "nobody")
  /\ UNCHANGED <<body, executed, mishaps>>

\* The process dies or the task is cancelled: "except Exception" sees neither.
Crash(r) ==
  /\ pc[r] \notin {"new", "done", "crashed"}
  /\ Goto(r, "crashed")
  /\ answer' = [answer EXCEPT ![r] = NoAnswer]
  /\ UNCHANGED <<record, body, executed, mishaps>>

\* Variant: a sentinel is stored without a TTL.
ExpireDoneOnly ==
  /\ Lapses
  /\ record.status = "done"
  /\ record' = NoRecord
  /\ UNCHANGED <<pc, body, answer, executed, mishaps>>

\* The TTL of the entry runs out.
Expire ==
  /\ Lapses
  /\ record # NoRecord
  /\ record' = NoRecord
  /\ UNCHANGED <<pc, body, answer, executed, mishaps>>

Step(r) == \/ Claim(r) \/ ReadBack(r) \/ Bill(r) \/ Complete(r) \/ Release(r)
           \/ WorkSucceeds(r) \/ WorkFails(r)

Next == \/ \E r \in Requests : Arrive(r) \/ Step(r) \/ Crash(r)
        \/ Expire

Spec == Init /\ [][Next]_vars

\* Requests at work get on with it (the upstream call ends: it has a timeout),
\* and time passes.
Fairness == (\A r \in Requests : WF_vars(Step(r))) /\ WF_vars(Expire)

FairSpec == Spec /\ Fairness

-----------------------------------------------------------------------------
(* Correctness *)

Records == [status : {"in_progress", "done"}, body : Bodies, by : Requests]
Answers == [kind : {"ok", "replay", "conflict"}, from : Requests]
           \cup [kind : {"none", "error", "mismatch"}, from : {"nobody"}]

\* Every variable has its type.
TypeOK ==
  /\ record \in Records \cup {NoRecord}
  /\ pc \in [Requests -> {"new", "claiming", "reading", "done", "crashed"} \cup AtWork]
  /\ body \in [Requests -> Bodies \cup {NoBody}]
  /\ answer \in [Requests -> Answers]
  /\ executed \in SUBSET Requests
  /\ mishaps \subseteq Mishaps

\* A replayed response is the response of a request that ran upstream with the
\* very body it is replayed for: whatever expires, fails or overtakes, a key
\* reused for another operation never gets this one's answer.
ReplayIsSameOperation ==
  \A r \in Requests : answer[r].kind = "replay" =>
    answer[r].from \in executed /\ body[answer[r].from] = body[r]

\* A sentinel belongs to a request that is still at work or that died: no path
\* through _run_chat leaves one behind, or the key would answer 409 until its
\* TTL to retries of a request that is over.  (While no cache access raises.)
SentinelHasHolder ==
  ~Faults /\ record.status = "in_progress" =>
    pc[record.by] \in AtWork \cup {"crashed"}

\* A key runs its operation upstream at most once, however the retries of the
\* request interleave and whichever of them die.  True while upstream calls
\* succeed and the entry outlives them.
AtMostOnce == mishaps = {} => \A q, r \in executed : q = r

\* A dead request blocks its key for a TTL, not for ever.
KeyIsFreed ==
  Lapses /\ record.status = "in_progress" ~> record.status # "in_progress"

\* "so two concurrent requests can't both proceed" (the module docstring).
OneProceeds ==
  ~Lapses /\ ~Faults => \A q, r \in Requests : pc[q] = "working" /\ pc[r] = "working" => q = r
=============================================================================
