--------------------------- MODULE RetryingClientProofs ---------------------------
(***************************************************************************)
(* Proofs about Idempotency, for any number of requests and bodies; and    *)
(* about RetryingClient: what is shown of a key's requests holds of the    *)
(* attempts of retrying clients, and calls return what is theirs, for any  *)
(* number of calls, attempts and bodies.                                   *)
(***************************************************************************)
EXTENDS RetryingClient, SequenceTheorems, TLAPS


-----------------------------------------------------------------------------
(* Idempotency *)

\* A request on its way has a body: without it TypeOK is not inductive.
Arrived == \A r \in Requests : pc[r] \notin {"new", "done"} => body[r] \in Bodies

\* What ReplayIsSameOperation rests on: a stored response is that of a request
\* that ran, and carries its body; a request is billed, or stores its response,
\* after it ran or for a replay; what has not arrived has done nothing.
Provenance ==
  /\ record.status = "done" =>
       record.by \in executed /\ record.body = body[record.by]
  /\ \A r \in Requests :
       /\ pc[r] = "completing" => r \in executed
       /\ pc[r] = "billing" /\ answer[r].kind # "replay" => r \in executed
       /\ pc[r] = "new" => r \notin executed /\ answer[r] = NoAnswer

RInv == Provenance /\ ReplayIsSameOperation

\* What SentinelHasHolder rests on: the holder of a sentinel got no replay, so
\* that its bill is followed by a complete(); nor has one that still claims.
Held == ~Faults =>
  /\ \A r \in Requests :
       pc[r] \in {"new", "claiming", "reading"} => answer[r].kind # "replay"
  /\ record.status = "in_progress" =>
       /\ pc[record.by] \in AtWork \cup {"crashed"}
       /\ answer[record.by].kind # "replay"

\* What AtMostOnce rests on: with nothing that frees the entry, whoever works or
\* has worked is the one whose record it holds.
OneOwner == mishaps = {} =>
  \A r \in Requests :
    /\ pc[r] = "reading" => record # NoRecord
    /\ pc[r] # "releasing"
    /\ \/ pc[r] \in {"working", "completing"}
       \/ pc[r] = "billing" /\ answer[r].kind # "replay"
       \/ r \in executed
       => record # NoRecord /\ record.by = r

-----------------------------------------------------------------------------

\* What may go wrong is settled from the start: no action of the route changes it.
LEMMA MishapsStay == [Next]_vars => mishaps' = mishaps
BY DEF Next, Step, Arrive, Claim, ReadBack, WorkSucceeds, WorkFails, Bill, Complete,
       Release, Crash, Expire, vars

\* Every variable keeps its type, and requests on their way keep their bodies:
\* claim, complete, release and the route around them, action by action.
LEMMA TypesKept == TypeOK /\ Arrived /\ [Next]_vars => (TypeOK /\ Arrived)'
<1> SUFFICES ASSUME TypeOK, Arrived, [Next]_vars PROVE (TypeOK /\ Arrived)'
  OBVIOUS
<1> USE DEF TypeOK, Arrived, Goto, Reply, AtWork
<1>1. ASSUME NEW r \in Requests, Arrive(r) PROVE (TypeOK /\ Arrived)'
  BY <1>1 DEF Arrive
<1>2. ASSUME NEW r \in Requests, Claim(r) PROVE (TypeOK /\ Arrived)'
  <2>1. Sentinel(r) \in Records
    BY <1>2 DEF Claim, Sentinel, Records
  <2> QED
    BY <1>2, <2>1 DEF Claim
<1>3. ASSUME NEW r \in Requests, ReadBack(r) PROVE (TypeOK /\ Arrived)'
  <2>1. record # NoRecord => record.by \in Requests
    BY DEF Records
  <2>2. answer'[r] \in Answers
    BY <1>3, <2>1 DEF ReadBack, Answers, NoRecord
  <2>3. answer' \in [Requests -> Answers]
    BY <1>3, <2>2 DEF ReadBack
  <2> QED
    BY <1>3, <2>3 DEF ReadBack
<1>4. ASSUME NEW r \in Requests, WorkSucceeds(r) PROVE (TypeOK /\ Arrived)'
  BY <1>4 DEF WorkSucceeds, Answers
<1>5. ASSUME NEW r \in Requests, WorkFails(r) PROVE (TypeOK /\ Arrived)'
  BY <1>5 DEF WorkFails
<1>6. ASSUME NEW r \in Requests, Bill(r) PROVE (TypeOK /\ Arrived)'
  BY <1>6 DEF Bill
<1>7. ASSUME NEW r \in Requests, Complete(r) PROVE (TypeOK /\ Arrived)'
  <2>1. Done(r) \in Records
    BY <1>7 DEF Complete, Done, Records
  <2> QED
    BY <1>7, <2>1 DEF Complete
<1>8. ASSUME NEW r \in Requests, Release(r) PROVE (TypeOK /\ Arrived)'
  BY <1>8 DEF Release, Answers
<1>9. ASSUME NEW r \in Requests, Crash(r) PROVE (TypeOK /\ Arrived)'
  BY <1>9 DEF Crash, Answers, NoAnswer
<1>10. ASSUME Expire PROVE (TypeOK /\ Arrived)'
  BY <1>10 DEF Expire
<1>11. ASSUME UNCHANGED vars PROVE (TypeOK /\ Arrived)'
  BY <1>11 DEF vars
<1> QED
  BY <1>1, <1>2, <1>3, <1>4, <1>5, <1>6, <1>7, <1>8, <1>9, <1>10, <1>11
  DEF Next, Step

\* Nothing is stored, and nothing was asked.
LEMMA Initially == Init => TypeOK /\ Arrived /\ RInv /\ Held /\ OneOwner
<1> SUFFICES ASSUME Init PROVE TypeOK /\ Arrived /\ RInv /\ Held /\ OneOwner
  OBVIOUS
<1>1. TypeOK /\ Arrived
  <2>1. NoAnswer \in Answers
    BY DEF NoAnswer, Answers
  <2> QED
    BY <2>1 DEF Init, TypeOK, Arrived
<1>2. RInv
  BY DEF Init, RInv, Provenance, ReplayIsSameOperation, NoRecord, NoAnswer
<1>3. Held
  BY DEF Init, Held, NoRecord, NoAnswer
<1>4. OneOwner
  BY DEF Init, OneOwner
<1> QED
  BY <1>1, <1>2, <1>3, <1>4

\* Types hold throughout.
LEMMA TypeInvariant == Spec => [](TypeOK /\ Arrived)
BY Initially, TypesKept, PTL DEF Spec

\* Every variable has its type.
THEOREM TypeCorrect == Spec => []TypeOK
BY TypeInvariant, PTL

-----------------------------------------------------------------------------

\* What is stored and replayed stays what a request that ran has got.
LEMMA ProvenanceKept == TypeOK /\ Arrived /\ RInv /\ [Next]_vars => RInv'
<1> SUFFICES ASSUME TypeOK, Arrived, RInv, [Next]_vars PROVE RInv'
  OBVIOUS
<1> USE DEF TypeOK, RInv, Provenance, ReplayIsSameOperation, Goto, Reply
<1>1. ASSUME NEW r \in Requests, Arrive(r) PROVE RInv'
  <2>1. \A q \in executed : body'[q] = body[q]
    BY <1>1 DEF Arrive
  <2>2. \A q \in Requests : answer[q].kind = "replay" => body'[q] = body[q]
    BY <1>1 DEF Arrive, NoAnswer
  <2> QED
    BY <1>1, <2>1, <2>2 DEF Arrive
<1>2. ASSUME NEW r \in Requests, Claim(r) PROVE RInv'
  BY <1>2 DEF Claim, Sentinel
<1>3. ASSUME NEW r \in Requests, ReadBack(r) PROVE RInv'
  BY <1>3 DEF ReadBack
<1>4. ASSUME NEW r \in Requests, WorkSucceeds(r) PROVE RInv'
  BY <1>4 DEF WorkSucceeds
<1>5. ASSUME NEW r \in Requests, WorkFails(r) PROVE RInv'
  BY <1>5 DEF WorkFails
<1>6. ASSUME NEW r \in Requests, Bill(r) PROVE RInv'
  BY <1>6 DEF Bill
<1>7. ASSUME NEW r \in Requests, Complete(r) PROVE RInv'
  BY <1>7 DEF Complete, Done
<1>8. ASSUME NEW r \in Requests, Release(r) PROVE RInv'
  BY <1>8 DEF Release, NoRecord
<1>9. ASSUME NEW r \in Requests, Crash(r) PROVE RInv'
  BY <1>9 DEF Crash, NoAnswer
<1>10. ASSUME Expire PROVE RInv'
  BY <1>10 DEF Expire, NoRecord
<1>11. ASSUME UNCHANGED vars PROVE RInv'
  BY <1>11 DEF vars
<1> QED
  BY <1>1, <1>2, <1>3, <1>4, <1>5, <1>6, <1>7, <1>8, <1>9, <1>10, <1>11
  DEF Next, Step

\* Whatever expires, raises, fails or dies, a replayed answer is the answer to
\* the very body it is replayed for: the fingerprint comparison of claim().
THEOREM ReplaysAreFaithful == Spec => []ReplayIsSameOperation
<1>1. RInv => ReplayIsSameOperation
  BY DEF RInv
<1> QED
  BY <1>1, Initially, ProvenanceKept, TypeInvariant, PTL DEF Spec

-----------------------------------------------------------------------------

\* Whoever holds a sentinel keeps to the route, or dies.
LEMMA HeldKept == TypeOK /\ Held /\ [Next]_vars => Held'
<1> SUFFICES ASSUME TypeOK, Held, [Next]_vars, ~Faults, ~Faults' PROVE Held'
  <2>1. [Next]_vars => mishaps' = mishaps
    BY MishapsStay
  <2> QED BY <2>1 DEF Held, Faults
<1> USE DEF TypeOK, Held, AtWork, Goto, Reply
<1>0. record.status = "in_progress" => record.by \in Requests
  BY DEF Records, NoRecord
<1>1. ASSUME NEW r \in Requests, Arrive(r) PROVE Held'
  BY <1>0, <1>1 DEF Arrive
<1>2. ASSUME NEW r \in Requests, Claim(r) PROVE Held'
  BY <1>0, <1>2 DEF Claim, Sentinel
<1>3. ASSUME NEW r \in Requests, ReadBack(r) PROVE Held'
  <2>1. record' = record
    BY <1>3 DEF ReadBack
  <2>2. ASSUME NEW q \in Requests, q # r
        PROVE pc'[q] = pc[q] /\ answer'[q] = answer[q]
    BY <1>3, <2>2 DEF ReadBack
  <2>3. record.status = "in_progress" => record.by # r
    BY <1>3 DEF ReadBack
  <2>4. pc'[r] \notin {"new", "claiming", "reading"}
    BY <1>3 DEF ReadBack
  <2> QED
    BY <1>0, <2>1, <2>2, <2>3, <2>4
<1>4. ASSUME NEW r \in Requests, WorkSucceeds(r) PROVE Held'
  BY <1>0, <1>4 DEF WorkSucceeds
<1>5. ASSUME NEW r \in Requests, WorkFails(r) PROVE Held'
  BY <1>0, <1>5 DEF WorkFails
<1>6. ASSUME NEW r \in Requests, Bill(r) PROVE Held'
  BY <1>0, <1>6 DEF Bill
<1>7. ASSUME NEW r \in Requests, Complete(r) PROVE Held'
  BY <1>7 DEF Complete, Done
<1>8. ASSUME NEW r \in Requests, Release(r) PROVE Held'
  BY <1>8 DEF Release, NoRecord
<1>9. ASSUME NEW r \in Requests, Crash(r) PROVE Held'
  BY <1>0, <1>9 DEF Crash, NoAnswer
<1>10. ASSUME Expire PROVE Held'
  BY <1>10 DEF Expire, NoRecord
<1>11. ASSUME UNCHANGED vars PROVE Held'
  BY <1>11 DEF vars
<1> QED
  BY <1>1, <1>2, <1>3, <1>4, <1>5, <1>6, <1>7, <1>8, <1>9, <1>10, <1>11
  DEF Next, Step

\* While no cache access raises, a sentinel is that of a request at work or of
\* one that died: complete() or release() ends every path through the route.
THEOREM SentinelsAreHeld == Spec => []SentinelHasHolder
<1>1. Held => SentinelHasHolder
  BY DEF Held, SentinelHasHolder
<1> QED
  BY <1>1, Initially, HeldKept, TypeCorrect, PTL DEF Spec

\* Whoever works, or has worked, keeps the record.
LEMMA OneOwnerKept == TypeOK /\ OneOwner /\ [Next]_vars => OneOwner'
<1> SUFFICES ASSUME TypeOK, OneOwner, [Next]_vars, mishaps = {}, mishaps' = {} PROVE OneOwner'
  <2>1. [Next]_vars => mishaps' = mishaps
    BY MishapsStay
  <2> QED BY <2>1 DEF OneOwner
<1>0. ~Failures /\ ~Lapses /\ ~Faults
  BY DEF Failures, Lapses, Faults
<1> USE DEF TypeOK, OneOwner, Goto, Reply
<1>1. ASSUME NEW r \in Requests, Arrive(r) PROVE OneOwner'
  BY <1>0, <1>1 DEF Arrive
<1>2. ASSUME NEW r \in Requests, Claim(r) PROVE OneOwner'
  BY <1>0, <1>2 DEF Claim, Sentinel, NoRecord
<1>3. ASSUME NEW r \in Requests, ReadBack(r) PROVE OneOwner'
  BY <1>0, <1>3 DEF ReadBack
<1>4. ASSUME NEW r \in Requests, WorkSucceeds(r) PROVE OneOwner'
  BY <1>0, <1>4 DEF WorkSucceeds
<1>5. ASSUME NEW r \in Requests, WorkFails(r) PROVE OneOwner'
  BY <1>0, <1>5 DEF WorkFails
<1>6. ASSUME NEW r \in Requests, Bill(r) PROVE OneOwner'
  BY <1>0, <1>6 DEF Bill
<1>7. ASSUME NEW r \in Requests, Complete(r) PROVE OneOwner'
  BY <1>0, <1>7 DEF Complete, Done, NoRecord
<1>8. ASSUME NEW r \in Requests, Release(r) PROVE OneOwner'
  BY <1>0, <1>8 DEF Release
<1>9. ASSUME NEW r \in Requests, Crash(r) PROVE OneOwner'
  BY <1>0, <1>9 DEF Crash
<1>10. ASSUME Expire PROVE OneOwner'
  BY <1>0, <1>10 DEF Expire
<1>11. ASSUME UNCHANGED vars PROVE OneOwner'
  BY <1>0, <1>11 DEF vars
<1> QED
  BY <1>1, <1>2, <1>3, <1>4, <1>5, <1>6, <1>7, <1>8, <1>9, <1>10, <1>11
  DEF Next, Step

\* While upstream calls succeed and nothing frees the entry, the operation runs
\* upstream at most once: the atomic add of claim().  Requests may die anywhere.
THEOREM RunsOnce == Spec => []AtMostOnce
<1>1. TypeOK /\ OneOwner => AtMostOnce
  BY DEF TypeOK, OneOwner, AtMostOnce
<1> QED
  BY <1>1, Initially, OneOwnerKept, TypeCorrect, PTL DEF Spec

-----------------------------------------------------------------------------
(* RetryingClient *)

\* Types of the clients' side.
ClientTypes ==
  /\ attempt \in [Calls -> Nat]
  /\ \A c \in Calls : attempt[c] \in DOMAIN Attempts[c]
  /\ stage \in [Calls -> {"waiting"} \cup Over]
  /\ wants \in [Calls -> Bodies]

\* An attempt on its way, or answered with a response, carries its call's body.
BodiesAreTheirs ==
  \A r \in Requests :
    pc[r] \notin {"new", "done"} \/ answer[r].kind \in {"ok", "replay"} =>
      body[r] = wants[CallOf(r)]

\* An answer that is no replay is that of the attempt itself.
OwnAnswers ==
  \A r \in Requests : answer[r].kind = "ok" => answer[r].from = r /\ r \in executed

\* What has returned has been answered, by an attempt that is over.
ReturnedAnswered ==
  \A c \in Calls : stage[c] = "returned" =>
    pc[Current(c)] = "done" /\ answer[Current(c)].kind \in {"ok", "replay"}

CInv ==
  /\ TypeOK /\ Arrived /\ RInv
  /\ ClientTypes /\ BodiesAreTheirs /\ OwnAnswers /\ ReturnedAnswered

-----------------------------------------------------------------------------

\* The attempt a call is at is a request, and no other call's.
LEMMA CurrentIsIts ==
  ASSUME ClientTypes, NEW c \in Calls
  PROVE  Current(c) \in Requests /\ CallOf(Current(c)) = c
<1>1. attempt[c] \in DOMAIN Attempts[c] /\ Attempts[c] \in Seq(Requests)
  BY ClientAssumption DEF ClientAssumption, ClientTypes
<1>2. Current(c) \in Requests
  BY <1>1, ElementOfSeq DEF Current
<1>3. \A d \in Calls : (\E i \in DOMAIN Attempts[d] : Attempts[d][i] = Current(c)) => d = c
  BY <1>1, ClientAssumption DEF ClientAssumption, Current
<1>4. \E i \in DOMAIN Attempts[c] : Attempts[c][i] = Current(c)
  BY <1>1 DEF Current
<1> QED
  BY <1>2, <1>3, <1>4 DEF CallOf

\* A step of the composition is one of the route, the refusal of an attempt that the
\* route never sees, or one of a client alone.
LEMMA StepIsRoute ==
  [ClientNext]_allVars => [Next]_vars \/ \E r \in Requests : Refuse(r)
BY DEF ClientNext, allVars, ClientStep, TransportError, Answered, ArriveSent, Work, Next

\* A refused attempt has claimed, stored and run nothing.
LEMMA RefuseKeeps ==
  ASSUME TypeOK, NEW r \in Requests, Refuse(r)
  PROVE  /\ TypeOK'
         /\ Arrived => Arrived'
         /\ RInv => RInv'
         /\ Held => Held'
         /\ OneOwner => OneOwner'
<1> USE DEF TypeOK, Refuse, Reply, Goto
<1>1. TypeOK'
  BY DEF Answers
<1>2. Arrived => Arrived'
  BY DEF Arrived
<1>3. RInv => RInv'
  BY DEF RInv, Provenance, ReplayIsSameOperation
<1>4. Held => Held'
  <2>1. record.status = "in_progress" => record.by \in Requests
    BY DEF Records, NoRecord
  <2> QED
    BY <2>1 DEF Held, Faults, AtWork
<1>5. OneOwner => OneOwner'
  BY DEF OneOwner
<1> QED
  BY <1>1, <1>2, <1>3, <1>4, <1>5

\* What was shown above of the requests of a key, of the attempts of clients.
LEMMA RouteInvariant ==
  ClientSpec => [](TypeOK /\ Arrived /\ RInv /\ Held /\ OneOwner)
<1> DEFINE I == TypeOK /\ Arrived /\ RInv /\ Held /\ OneOwner
<1>1. ClientInit => I
  BY Initially DEF ClientInit
<1>2. I /\ [ClientNext]_allVars => I'
  BY StepIsRoute, RefuseKeeps, TypesKept, ProvenanceKept, HeldKept, OneOwnerKept
<1> QED
  BY <1>1, <1>2, PTL DEF ClientSpec

\* Clients go from an attempt to the next, and stop at the last.
LEMMA ClientTypesKept == ClientTypes /\ [ClientNext]_allVars => ClientTypes'
<1> SUFFICES ASSUME ClientTypes, [ClientNext]_allVars PROVE ClientTypes'
  OBVIOUS
<1>1. ASSUME NEW c \in Calls, ClientStep(c) PROVE ClientTypes'
  <2>1. ASSUME TryAgain(c) PROVE attempt[c] + 1 \in DOMAIN Attempts[c]
    <3>1. Attempts[c] \in Seq(Requests)
      BY ClientAssumption DEF ClientAssumption
    <3> QED
      BY <2>1, <3>1, LenProperties DEF TryAgain, Last, ClientTypes
  <2>2. wants' = wants
    BY <1>1 DEF ClientStep, TransportError, Answered
  <2>3. CASE TryAgain(c)
    BY <2>1, <2>2, <2>3 DEF TryAgain, ClientTypes
  <2>4. CASE UNCHANGED attempt /\ \E s \in Over : To(c, s)
    BY <2>2, <2>4 DEF To, ClientTypes
  <2> QED
    BY <1>1, <2>3, <2>4 DEF ClientStep, TransportError, Answered, Over
<1>2. CASE UNCHANGED clientVars
  BY <1>2 DEF clientVars, ClientTypes
<1> QED
  BY <1>1, <1>2 DEF ClientNext, ArriveSent, Refuse, Work, allVars

\* The bodies of a call never change.
LEMMA WantsStay == [ClientNext]_allVars => wants' = wants
BY DEF ClientNext, ClientStep, TransportError, Answered, ArriveSent, Refuse, Work,
       allVars, clientVars

\* An attempt arrives with its call's body, and is answered with its own response or
\* with one that it found stored.
LEMMA BodiesKept ==
  TypeOK /\ RInv /\ BodiesAreTheirs /\ OwnAnswers /\ [ClientNext]_allVars =>
    (BodiesAreTheirs /\ OwnAnswers)'
<1> DEFINE BInv == BodiesAreTheirs /\ OwnAnswers
<1> SUFFICES ASSUME TypeOK, RInv, BInv, [ClientNext]_allVars, wants' = wants PROVE BInv'
  BY WantsStay
<1> USE DEF TypeOK, BodiesAreTheirs, OwnAnswers, Goto, Reply
<1>1. ASSUME NEW r \in Requests, ArriveSent(r) PROVE BInv'
  <2>1. answer[r].kind \notin {"ok", "replay"}
    BY <1>1 DEF ArriveSent, Arrive, RInv, Provenance, NoAnswer
  <2> QED
    BY <1>1, <2>1 DEF ArriveSent, Arrive
<1>2. ASSUME NEW r \in Requests, Refuse(r) PROVE BInv'
  BY <1>2 DEF Refuse
<1>3. ASSUME NEW r \in Requests, Claim(r) PROVE BInv'
  BY <1>3 DEF Claim
<1>4. ASSUME NEW r \in Requests, ReadBack(r) PROVE BInv'
  BY <1>4 DEF ReadBack
<1>5. ASSUME NEW r \in Requests, WorkSucceeds(r) PROVE BInv'
  BY <1>5 DEF WorkSucceeds
<1>6. ASSUME NEW r \in Requests, WorkFails(r) PROVE BInv'
  BY <1>6 DEF WorkFails
<1>7. ASSUME NEW r \in Requests, Bill(r) PROVE BInv'
  BY <1>7 DEF Bill
<1>8. ASSUME NEW r \in Requests, Complete(r) PROVE BInv'
  BY <1>8 DEF Complete
<1>9. ASSUME NEW r \in Requests, Release(r) PROVE BInv'
  BY <1>9 DEF Release
<1>10. ASSUME NEW r \in Requests, Crash(r) PROVE BInv'
  BY <1>10 DEF Crash, NoAnswer
<1>11. CASE Expire
  BY <1>11 DEF Expire
<1>12. CASE UNCHANGED vars
  BY <1>12 DEF vars
<1>13. ASSUME NEW c \in Calls, ClientStep(c) PROVE UNCHANGED vars
  BY <1>13 DEF ClientStep, TransportError, Answered
<1> QED
  BY <1>1, <1>2, <1>3, <1>4, <1>5, <1>6, <1>7, <1>8, <1>9, <1>10, <1>11, <1>12, <1>13
     DEF ClientNext, Work, Step, allVars

\* An attempt that is over stays as it was answered.
LEMMA DoneStays ==
  ASSUME TypeOK, [ClientNext]_allVars, NEW q \in Requests, pc[q] = "done"
  PROVE  pc'[q] = "done" /\ answer'[q] = answer[q]
<1> USE DEF TypeOK, Goto, Reply
<1>1. ASSUME NEW r \in Requests, Step(r) PROVE pc'[q] = "done" /\ answer'[q] = answer[q]
  BY <1>1 DEF Step, Claim, ReadBack, Bill, Complete, Release, WorkSucceeds, WorkFails
<1>2. ASSUME NEW r \in Requests, Arrive(r) \/ Refuse(r) \/ Crash(r)
      PROVE  pc'[q] = "done" /\ answer'[q] = answer[q]
  BY <1>2 DEF Arrive, Refuse, Crash
<1>3. CASE Expire
  BY <1>3 DEF Expire
<1>4. CASE UNCHANGED vars
  BY <1>4 DEF vars
<1>5. ASSUME NEW c \in Calls, ClientStep(c) PROVE UNCHANGED vars
  BY <1>5 DEF ClientStep, TransportError, Answered
<1> QED
  BY <1>1, <1>2, <1>3, <1>4, <1>5 DEF ClientNext, ArriveSent, Work, allVars

\* A call returns with an attempt that is over, and moves no further.
LEMMA ReturnedKept ==
  TypeOK /\ ClientTypes /\ ReturnedAnswered /\ [ClientNext]_allVars => ReturnedAnswered'
<1> SUFFICES ASSUME TypeOK, ClientTypes, ReturnedAnswered, [ClientNext]_allVars,
                    NEW c \in Calls, stage'[c] = "returned"
             PROVE  pc'[Current(c)'] = "done" /\ answer'[Current(c)'].kind \in {"ok", "replay"}
  BY DEF ReturnedAnswered
<1>1. Current(c) \in Requests
  BY CurrentIsIts
<1>2. CASE stage[c] = "returned"
  <2>1. attempt'[c] = attempt[c]
    BY <1>2 DEF ClientNext, ClientStep, TransportError, Answered, TryAgain, To, ArriveSent,
                Refuse, Work, allVars, clientVars, ClientTypes
  <2>2. Current(c)' = Current(c)
    BY <2>1 DEF Current
  <2> QED
    BY <1>1, <1>2, <2>2, DoneStays DEF ReturnedAnswered
<1>3. CASE stage[c] # "returned"
  <2>1. PICK d \in Calls : ClientStep(d)
    BY <1>3 DEF ClientNext, ArriveSent, Refuse, Work, allVars, clientVars
  <2>2. d = c
    BY <1>3, <2>1 DEF ClientStep, TransportError, Answered, TryAgain, To, ClientTypes
  <2>3. /\ pc[Current(c)] = "done" /\ answer[Current(c)].kind \in {"ok", "replay"}
        /\ UNCHANGED <<vars, attempt>>
    BY <1>3, <2>1, <2>2
       DEF ClientStep, TransportError, Answered, TryAgain, To, ClientTypes
  <2> QED
    BY <2>3 DEF Current, vars
<1> QED
  BY <1>2, <1>3

LEMMA ClientInitially == ClientInit => CInv
<1> SUFFICES ASSUME ClientInit PROVE CInv
  OBVIOUS
<1>1. TypeOK /\ Arrived /\ RInv
  BY Initially DEF ClientInit
<1>2. ClientTypes
  <2>1. ASSUME NEW c \in Calls PROVE 1 \in DOMAIN Attempts[c]
    BY ClientAssumption, EmptySeq, LenProperties DEF ClientAssumption
  <2> QED
    BY <2>1, ClientAssumption DEF ClientAssumption, ClientInit, ClientTypes
<1>3. BodiesAreTheirs /\ OwnAnswers /\ ReturnedAnswered
  BY DEF ClientInit, Init, NoAnswer, BodiesAreTheirs, OwnAnswers, ReturnedAnswered
<1> QED
  BY <1>1, <1>2, <1>3 DEF CInv

LEMMA ClientInvariant == ClientSpec => []CInv
<1>1. CInv /\ [ClientNext]_allVars => CInv'
  BY StepIsRoute, RefuseKeeps, TypesKept, ProvenanceKept, ClientTypesKept, BodiesKept,
     ReturnedKept DEF CInv
<1> QED
  BY <1>1, ClientInitially, PTL DEF ClientSpec

-----------------------------------------------------------------------------

\* What chat(), embeddings() or moderations() returns is the response to its own body,
\* though the calls share a key, attempts overtake each other, and answers are lost or
\* replayed.
THEOREM CallsReturnTheirOwn == ClientSpec => []ReturnsItsOwn
<1>1. CInv => ReturnsItsOwn
  <2> SUFFICES ASSUME CInv, NEW c \in Calls, stage[c] = "returned"
               PROVE  LET a == answer[Current(c)]
                      IN  a.from \in executed /\ body[a.from] = wants[c]
    BY DEF ReturnsItsOwn
  <2>1. Current(c) \in Requests /\ CallOf(Current(c)) = c
    BY CurrentIsIts DEF CInv
  <2>2. answer[Current(c)].kind \in {"ok", "replay"}
    BY DEF CInv, ReturnedAnswered
  <2>3. body[Current(c)] = wants[c]
    BY <2>1, <2>2 DEF CInv, BodiesAreTheirs
  <2> QED
    BY <2>1, <2>2, <2>3 DEF CInv, OwnAnswers, RInv, ReplayIsSameOperation
<1> QED
  BY <1>1, ClientInvariant, PTL

\* A retried operation runs at most once while no call fails and no entry lapses: the
\* clients' retries add nothing to what the route answers for.
THEOREM RetriesRunOnce == ClientSpec => []AtMostOnce
<1>1. TypeOK /\ OneOwner => AtMostOnce
  BY DEF TypeOK, OneOwner, AtMostOnce
<1> QED
  BY <1>1, RouteInvariant, PTL

\* And a sentinel that an attempt leaves is that of an attempt at work, or dead.
THEOREM RetriesHoldSentinels == ClientSpec => []SentinelHasHolder
<1>1. Held => SentinelHasHolder
  BY DEF Held, SentinelHasHolder
<1> QED
  BY <1>1, RouteInvariant, PTL
===================================================================================
