------------------------------- MODULE KeyStore -------------------------------
(***************************************************************************)
(* The runtime-managed API keys and their prepaid credit (keystore.py) and *)
(* the admin routes that drive them (main.py).                             *)
(*                                                                         *)
(* The key set and the ledger are two blobs in the cache backend.  A call  *)
(* runs in a coroutine of some worker process; every access to the backend *)
(* is an await, so every access is a step here and other coroutines run    *)
(* between any two of them.  Changes are read-modify-write cycles under a  *)
(* mutex made of cache.add with a TTL: the entry may expire under a slow   *)
(* holder, it is deleted without asking whose it is, and a waiter that has *)
(* used up its attempts goes ahead without it.                             *)
(***************************************************************************)
EXTENDS Integers, FiniteSets, Dict

CONSTANTS
  Workers,      \* coroutines that may call the store
  Keys,         \* raw keys; auth.client_id is injective, so a key names its ledger entry
  StaticKeys,   \* the keys of REKAI_API_KEYS, which may hold credit too
  Grants,       \* amounts a grant may add (0: a positive amount below one quantum)
  Costs,        \* what a request may cost, in quanta
  MaxKeys,      \* _MAX_DYNAMIC_KEYS
  MaxCredits,   \* _MAX_CREDIT_ENTRIES
  MaxAttempts,  \* _LOCK_MAX_ATTEMPTS
  Horizon,      \* bound of the clock
  MaxCalls      \* bound on the calls of a behaviour, [patient or not]

ASSUME KeyStoreAssumption ==
  /\ "nobody" \notin Workers
  /\ StaticKeys \subseteq Keys
  /\ Grants \subseteq Nat
  /\ Costs \subseteq Nat \ {0}
  /\ MaxKeys \in Nat
  /\ MaxCredits \in Nat
  /\ MaxAttempts \in Nat \ {0}
  /\ Horizon \in Nat
  /\ MaxCalls \in [BOOLEAN -> Nat]

VARIABLES
  patient,      \* no section of this behaviour outlives the lock's TTL or a waiter's
                \* attempts, and no process dies inside one
  now,          \* time.time()
  keys,         \* the blob rekai:api_keys:dynamic, key -> expiry
  credits,      \* the blob rekai:api_keys:credits, key -> balance
  lock,         \* whose cache.add made the entry rekai:api_keys:dynamic:lock
  pc,           \* where each coroutine is suspended
  op,           \* the call it is executing
  tries,        \* failed attempts at the lock
  held,         \* whether it runs the section as the winner of cache.add
  live,         \* its copy of the key set, as it will write it
  dead,         \* keys whose balance it is about to forfeit
  ledger,       \* its copy of the ledger, as it will write it
  calls         \* calls begun so far

vars == <<now, patient, keys, credits, lock, pc, op, tries, held, live, dead, ledger, calls>>
frame == <<tries, held, live, dead, ledger>>

Never == Horizon + 1                 \* no expiry: a time the clock does not reach
NoCredit == -1                       \* credit_usd omitted
NoOne == "nobody"
NoOp == [name |-> "none", key |-> "none", expires |-> 0, amount |-> NoCredit]
Section == {"load", "save", "cload", "csave", "leave"}

InSection(w) == pc[w] \in Section

\* Entries whose expiry time has come: the "v is None or v > now" of add() and
\* revoke() keeps the others.
ExpiredIn(d) == {k \in DOMAIN d : d[k] <= now}

\* A grant below one quantum is rounded up to one (the max(round(...)) of grant_credit).
Granted(b, a) == IF b = 0 /\ a = 0 THEN 1 ELSE b + a

Init ==
  /\ patient \in BOOLEAN
  /\ now = 0
  /\ keys = EmptyDict
  /\ credits = EmptyDict
  /\ lock = NoOne
  /\ pc = [w \in Workers |-> "idle"]
  /\ op = [w \in Workers |-> NoOp]
  /\ tries = [w \in Workers |-> 0]
  /\ held = [w \in Workers |-> FALSE]
  /\ live = [w \in Workers |-> EmptyDict]
  /\ dead = [w \in Workers |-> {}]
  /\ ledger = [w \in Workers |-> EmptyDict]
  /\ calls = 0

Goto(w, l) == pc' = [pc EXCEPT ![w] = l]

\* The coroutine returns: its frame is gone.
Return(w) ==
  /\ Goto(w, "idle")
  /\ op' = [op EXCEPT ![w] = NoOp]
  /\ tries' = [tries EXCEPT ![w] = 0]
  /\ held' = [held EXCEPT ![w] = FALSE]
  /\ live' = [live EXCEPT ![w] = EmptyDict]
  /\ dead' = [dead EXCEPT ![w] = {}]
  /\ ledger' = [ledger EXCEPT ![w] = EmptyDict]

-----------------------------------------------------------------------------
(* Calls *)

Begin(w, o, l) ==
  /\ pc[w] = "idle"
  /\ calls < MaxCalls[patient]
  /\ calls' = calls + 1
  /\ op' = [op EXCEPT ![w] = o]
  /\ Goto(w, l)
  /\ UNCHANGED <<now, patient, keys, credits, lock, frame>>

\* POST /admin/keys: expires_at is computed before the store is called.
BeginAdd(w, k) ==
  \E e \in {now + 1, Never}, a \in Grants \cup {NoCredit} :
    Begin(w, [name |-> "add", key |-> k, expires |-> e, amount |-> a], "lock")

\* DELETE /admin/keys/{key}
BeginRevoke(w, k) ==
  Begin(w, [name |-> "revoke", key |-> k, expires |-> 0, amount |-> NoCredit], "lock")

\* POST /admin/keys/{key}/credits
BeginGrant(w, k) ==
  \E a \in Grants :
    Begin(w, [name |-> "grant", key |-> k, expires |-> 0, amount |-> a], "check")

\* The debit after a priced response.
BeginSpend(w, k) ==
  \E c \in Costs :
    Begin(w, [name |-> "spend", key |-> k, expires |-> 0, amount |-> c], "preread")

\* The grant route looks the key up before it tops it up, outside the lock;
\* a static key needs no lookup, an unknown or expired one is a 404.
GrantCheck(w) ==
  /\ pc[w] = "check"
  /\ \/ /\ op[w].key \in StaticKeys \cup (DOMAIN keys \ ExpiredIn(keys))
        /\ Goto(w, "lock")
        /\ UNCHANGED <<op, frame>>
     \/ /\ op[w].key \notin StaticKeys \cup (DOMAIN keys \ ExpiredIn(keys))
        /\ Return(w)
  /\ UNCHANGED <<now, patient, keys, credits, lock, calls>>

\* spend_credit reads the ledger once without the lock, to skip uncredited clients.
SpendPreread(w) ==
  /\ pc[w] = "preread"
  /\ \/ op[w].key \in DOMAIN credits /\ Goto(w, "lock") /\ UNCHANGED <<op, frame>>
     \/ op[w].key \notin DOMAIN credits /\ Return(w)
  /\ UNCHANGED <<now, patient, keys, credits, lock, calls>>

-----------------------------------------------------------------------------
(* The mutex: _with_lock *)

Enter(w, h) ==
  /\ pc[w] = "lock"
  /\ held' = [held EXCEPT ![w] = h]
  /\ Goto(w, IF op[w].name \in {"add", "revoke"} THEN "load" ELSE "cload")
  /\ UNCHANGED <<now, patient, keys, credits, op, tries, live, dead, ledger, calls>>

\* Variant: the result of cache.add is not looked at.
AcquireUnchecked(w) ==
  /\ tries[w] < MaxAttempts
  /\ lock' = w
  /\ Enter(w, TRUE)

Acquire(w) ==
  /\ lock = NoOne
  /\ tries[w] < MaxAttempts
  /\ lock' = w
  /\ Enter(w, TRUE)

LockBusy(w) ==
  /\ pc[w] = "lock"
  /\ lock # NoOne
  /\ tries[w] < MaxAttempts
  /\ patient => tries[w] + 1 < MaxAttempts
  /\ tries' = [tries EXCEPT ![w] = @ + 1]
  /\ UNCHANGED <<now, patient, keys, credits, lock, pc, op, held, live, dead, ledger, calls>>

\* Variant: a waiter whose attempts are used up keeps waiting.
NeverGiveUp(w) == FALSE

\* The attempts are used up: go ahead without the lock.
GiveUp(w) ==
  /\ tries[w] = MaxAttempts
  /\ Enter(w, FALSE)
  /\ UNCHANGED lock

\* The finally of _with_lock deletes the entry, whoever made it.  An add that
\* carries credit goes on to grant_credit: a second call, a second critical section.
Leave(w) ==
  /\ pc[w] = "leave"
  /\ lock' = IF held[w] THEN NoOne ELSE lock
  /\ \/ /\ op[w].name = "add" /\ op[w].amount # NoCredit
        /\ op' = [op EXCEPT ![w].name = "grant"]
        /\ Goto(w, "lock")
        /\ tries' = [tries EXCEPT ![w] = 0]
        /\ held' = [held EXCEPT ![w] = FALSE]
        /\ live' = [live EXCEPT ![w] = EmptyDict]
        /\ dead' = [dead EXCEPT ![w] = {}]
        /\ ledger' = [ledger EXCEPT ![w] = EmptyDict]
     \/ /\ ~(op[w].name = "add" /\ op[w].amount # NoCredit)
        /\ Return(w)
  /\ UNCHANGED <<now, patient, keys, credits, calls>>

-----------------------------------------------------------------------------
(* The sections: add, revoke, grant_credit, spend_credit *)

\* Variant: the cap is tested with > instead of >=.
AddLoadOverfull(w) ==
  LET expired == ExpiredIn(keys)
      k == op[w].key
  IN /\ pc[w] = "load" /\ op[w].name = "add"
     /\ k \in DOMAIN keys \/ Cardinality(DOMAIN keys \ expired) <= MaxKeys
     /\ live' = [live EXCEPT ![w] = With(Without(keys, expired), k, op[w].expires)]
     /\ dead' = [dead EXCEPT ![w] = expired]
     /\ Goto(w, "save")
     /\ UNCHANGED <<now, patient, keys, credits, lock, op, tries, held, ledger, calls>>

\* Both add and revoke prune on the way: the copy they will write has no
\* expired key.  Only add goes on to forfeit the balances of all it pruned.
AddLoad(w) ==
  LET expired == ExpiredIn(keys)
      kept == Without(keys, expired)
      k == op[w].key
  IN /\ pc[w] = "load" /\ op[w].name = "add"
     /\ \/ /\ k \in DOMAIN keys \/ Cardinality(DOMAIN kept) < MaxKeys
           /\ live' = [live EXCEPT ![w] = With(kept, k, op[w].expires)]
           /\ dead' = [dead EXCEPT ![w] = expired]
           /\ Goto(w, "save")
           /\ UNCHANGED op
        \/ /\ k \notin DOMAIN keys /\ Cardinality(DOMAIN kept) >= MaxKeys
           \* 409 key_store_full: the route returns before any grant
           /\ op' = [op EXCEPT ![w].amount = NoCredit]
           /\ Goto(w, "leave")
           /\ UNCHANGED <<live, dead>>
     /\ UNCHANGED <<now, patient, keys, credits, lock, tries, held, ledger, calls>>

\* Variant: a withdrawn key's balance stays.
RevokeLoadKeepsCredit(w) ==
  /\ pc[w] = "load" /\ op[w].name = "revoke"
  /\ live' = [live EXCEPT ![w] = Without(keys, ExpiredIn(keys) \cup {op[w].key})]
  /\ dead' = [dead EXCEPT ![w] = {}]
  /\ Goto(w, IF op[w].key \in DOMAIN keys THEN "save" ELSE "leave")
  /\ UNCHANGED <<now, patient, keys, credits, lock, op, tries, held, ledger, calls>>

RevokeLoad(w) ==
  LET k == op[w].key
  IN /\ pc[w] = "load" /\ op[w].name = "revoke"
     /\ \/ /\ k \in DOMAIN keys
           /\ live' = [live EXCEPT ![w] = Without(keys, ExpiredIn(keys) \cup {k})]
           /\ dead' = [dead EXCEPT ![w] = {k}]
           /\ Goto(w, "save")
        \/ /\ k \notin DOMAIN keys
           /\ Goto(w, "leave")
           /\ UNCHANGED <<live, dead>>
     /\ UNCHANGED <<now, patient, keys, credits, lock, op, tries, held, ledger, calls>>

SaveKeys(w) ==
  /\ pc[w] = "save"
  /\ keys' = live[w]
  /\ Goto(w, IF dead[w] = {} THEN "leave" ELSE "cload")
  /\ UNCHANGED <<now, patient, credits, lock, op, frame, calls>>

ForfeitLoad(w) ==
  /\ pc[w] = "cload" /\ op[w].name \in {"add", "revoke"}
  /\ ledger' = [ledger EXCEPT ![w] = Without(credits, dead[w])]
  /\ Goto(w, IF dead[w] \cap DOMAIN credits = {} THEN "leave" ELSE "csave")
  /\ UNCHANGED <<now, patient, keys, credits, lock, op, tries, held, live, dead, calls>>

GrantLoad(w) ==
  LET k == op[w].key
  IN /\ pc[w] = "cload" /\ op[w].name = "grant"
     /\ \/ /\ k \in DOMAIN credits \/ Cardinality(DOMAIN credits) < MaxCredits
           /\ ledger' = [ledger EXCEPT ![w] =
                           With(credits, k, Granted(GetOr(credits, k, 0), op[w].amount))]
           /\ Goto(w, "csave")
        \/ /\ k \notin DOMAIN credits /\ Cardinality(DOMAIN credits) >= MaxCredits
           /\ Goto(w, "leave")
           /\ UNCHANGED ledger
     /\ UNCHANGED <<now, patient, keys, credits, lock, op, tries, held, live, dead, calls>>

\* The balance is read again under the lock; it may go below zero.
SpendLoad(w) ==
  LET k == op[w].key
  IN /\ pc[w] = "cload" /\ op[w].name = "spend"
     /\ \/ /\ k \in DOMAIN credits
           /\ ledger' = [ledger EXCEPT ![w] = [credits EXCEPT ![k] = @ - op[w].amount]]
           /\ Goto(w, "csave")
        \/ /\ k \notin DOMAIN credits
           /\ Goto(w, "leave")
           /\ UNCHANGED ledger
     /\ UNCHANGED <<now, patient, keys, credits, lock, op, tries, held, live, dead, calls>>

SaveCredits(w) ==
  /\ pc[w] = "csave"
  /\ credits' = ledger[w]
  /\ Goto(w, "leave")
  /\ UNCHANGED <<now, patient, keys, lock, op, frame, calls>>

-----------------------------------------------------------------------------
(* The environment *)

\* A process dies: its coroutine is gone, what it had written stays, and so
\* does the lock entry it made.
Crash(w) ==
  /\ pc[w] # "idle"
  /\ patient => ~InSection(w)
  /\ Return(w)
  /\ UNCHANGED <<now, patient, keys, credits, lock, calls>>

\* The TTL of the lock entry runs out.
LockExpires ==
  /\ ~patient
  /\ lock # NoOne
  /\ lock' = NoOne
  /\ UNCHANGED <<now, patient, keys, credits, pc, op, frame, calls>>

Tick ==
  /\ now < Horizon
  /\ now' = now + 1
  /\ UNCHANGED <<patient, keys, credits, lock, pc, op, frame, calls>>

Call(w) == \E k \in Keys : \/ BeginAdd(w, k)
                           \/ BeginRevoke(w, k)
                           \/ BeginGrant(w, k)
                           \/ BeginSpend(w, k)

Step(w) == \/ GrantCheck(w) \/ SpendPreread(w)
           \/ Acquire(w) \/ LockBusy(w) \/ GiveUp(w) \/ Leave(w)
           \/ AddLoad(w) \/ RevokeLoad(w) \/ SaveKeys(w) \/ ForfeitLoad(w)
           \/ GrantLoad(w) \/ SpendLoad(w) \/ SaveCredits(w)

Next == \/ \E w \in Workers : Call(w) \/ Step(w) \/ Crash(w)
        \/ LockExpires
        \/ Tick

Spec == Init /\ [][Next]_vars

\* The event loop runs every coroutine whose await has finished.
Fairness == \A w \in Workers : WF_vars(Step(w))

FairSpec == Spec /\ Fairness

-----------------------------------------------------------------------------
(* Correctness *)

Ops == [name : {"add", "revoke", "grant", "spend"},
        key : Keys, expires : 0..Never, amount : Nat \cup {NoCredit}]

IsKeySet(d) == IsDict(d, Keys, 0..Never)
IsLedger(d) == IsDict(d, Keys, Int)

\* Every variable has its type: the blobs and the copies are dicts over known keys.
TypeOK ==
  /\ patient \in BOOLEAN
  /\ now \in 0..Horizon
  /\ IsKeySet(keys)
  /\ IsLedger(credits)
  /\ lock \in Workers \cup {NoOne}
  /\ pc \in [Workers -> {"idle", "check", "preread", "lock"} \cup Section]
  /\ op \in [Workers -> Ops \cup {NoOp}]
  /\ tries \in [Workers -> 0..MaxAttempts]
  /\ held \in [Workers -> BOOLEAN]
  /\ live = [w \in Workers |-> live[w]] /\ \A w \in Workers : IsKeySet(live[w])
  /\ dead \in [Workers -> SUBSET Keys]
  /\ ledger = [w \in Workers |-> ledger[w]] /\ \A w \in Workers : IsLedger(ledger[w])
  /\ calls \in 0..MaxCalls[patient]

\* The stored set never outgrows _MAX_DYNAMIC_KEYS, although the cap is tested
\* on a copy that may be stale when it is written and a re-added key is exempt
\* from the test: not even when the mutex fails open (add, revoke).
KeysWithinCap == Cardinality(DOMAIN keys) <= MaxKeys

\* Likewise the ledger and _MAX_CREDIT_ENTRIES (grant_credit).
CreditsWithinCap == Cardinality(DOMAIN credits) <= MaxCredits

\* A section is entered by one coroutine at a time: what _with_lock is for.
\* True while no section outlives its lock and no waiter's patience.
MutualExclusion ==
  patient => \A v, w \in Workers : InSection(v) /\ InSection(w) => v = w

\* No call waits for ever, not even when the holder of the lock has died and its
\* entry never expires (the attempts of _with_lock are counted): MaxCalls being
\* finite, at some point every call that was begun has returned.
EveryCallReturns == <>[](\A w \in Workers : pc[w] = "idle")

\* Balances an add or a revoke has condemned but not yet written away.
Doomed ==
  UNION {dead[w] : w \in {v \in Workers : /\ pc[v] \in {"cload", "csave"}
                                          /\ op[v].name \in {"add", "revoke"}}}

Ledger == INSTANCE KeyLedger WITH balance <- Without(credits, Doomed)

\* While the lock holds, every call takes effect at one instant: no add, revoke,
\* grant or debit is lost under another's write, and a key leaves together with
\* its balance although the two blobs are written one after the other.
ImplementsLedger == Ledger!Init /\ [][patient => Ledger!Next]_(Ledger!lvars)

\* Between calls, every balance belongs to a key somebody can authenticate with:
\* a withdrawn key's balance goes with it, so a key stored again later starts
\* without one (the comments in add and revoke).
NoStrandedCredit ==
  patient /\ (\A w \in Workers : pc[w] = "idle") => DOMAIN credits \subseteq StaticKeys \cup DOMAIN keys
=============================================================================
