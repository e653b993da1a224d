------------------------------- MODULE KeyLedger -------------------------------
(***************************************************************************)
(* What the dynamic key store promises its callers: a set of API keys with *)
(* expiry times and a ledger of prepaid balances, on which every admin     *)
(* call and every debit takes effect at one instant.  No locks, no blobs,  *)
(* no reads that go stale.  KeyStore implements it as long as no critical  *)
(* section outlives its lock.                                              *)
(***************************************************************************)
EXTENDS Integers, FiniteSets, Dict

CONSTANTS
  Keys,         \* the raw keys, identified with the client ids derived from them
  Grants,       \* amounts a grant may add (0: a positive amount below one quantum)
  Costs,        \* amounts a request may cost
  MaxKeys,      \* _MAX_DYNAMIC_KEYS
  MaxCredits,   \* _MAX_CREDIT_ENTRIES
  Horizon       \* the last instant of the clock

VARIABLES
  now,          \* the wall clock
  keys,         \* key -> expiry time
  balance       \* key -> remaining credit, in quanta of 10^-6 USD

lvars == <<now, keys, balance>>

Never == Horizon + 1

\* The keys whose expiry time has come.
ExpiredIn(d) == {k \in DOMAIN d : d[k] <= now}

\* What a balance of b becomes when amount a is granted: a grant smaller than
\* one quantum still leaves a spendable balance.
Granted(b, a) == IF b = 0 /\ a = 0 THEN 1 ELSE b + a

Init ==
  /\ now = 0
  /\ keys = EmptyDict
  /\ balance = EmptyDict

\* A key is stored; expired keys are dropped on the way, with their balances.
\* A key that had expired and is stored again counts as dropped.
Add(k, e) ==
  \E gone \in SUBSET ExpiredIn(keys) :
    /\ k \in DOMAIN keys \/ Cardinality(DOMAIN keys \ gone) < MaxKeys
    /\ keys' = With(Without(keys, gone), k, e)
    /\ balance' = Without(balance, gone)
    /\ UNCHANGED now

\* A key is withdrawn together with its balance; expired keys may go with it.
Revoke(k) ==
  \E gone \in SUBSET ExpiredIn(keys) :
    /\ k \in DOMAIN keys
    /\ keys' = Without(keys, gone \cup {k})
    /\ balance' = Without(balance, {k})
    /\ UNCHANGED now

\* A balance is topped up, or opened if the ledger has room.
Grant(k, a) ==
  /\ k \in DOMAIN balance \/ Cardinality(DOMAIN balance) < MaxCredits
  /\ balance' = With(balance, k, Granted(GetOr(balance, k, 0), a))
  /\ UNCHANGED <<now, keys>>

\* A request is debited: once, from the balance as it is at that instant.
Spend(k, c) ==
  /\ k \in DOMAIN balance
  /\ balance' = [balance EXCEPT ![k] = @ - c]
  /\ UNCHANGED <<now, keys>>

Tick ==
  /\ now < Horizon
  /\ now' = now + 1
  /\ UNCHANGED <<keys, balance>>

Next ==
  \/ Tick
  \/ \E k \in Keys :
       \/ \E e \in 1..Never : Add(k, e)
       \/ Revoke(k)
       \/ \E a \in Grants : Grant(k, a)
       \/ \E c \in Costs : Spend(k, c)

Spec == Init /\ [][Next]_lvars
=============================================================================
