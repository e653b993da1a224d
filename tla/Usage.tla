--------------------------------- MODULE Usage ---------------------------------
(***************************************************************************)
(* What a worker counts for each client (the Metrics of metrics.py): its   *)
(* lifetime usage, its usage in the current window of the budget and of    *)
(* the token cap, and the usage of its end users.  Every table is bounded  *)
(* by max_tracked_clients and evicts when full.  The lifetime tables are   *)
(* flushed to a snapshot and read back when the process starts again       *)
(* (_flush_loop and lifespan of main.py); the windows are not.             *)
(*                                                                         *)
(* Every method runs under one lock, so an action is a whole call of       *)
(* _record_client_usage or _record_stream_accounting.  Of the time only    *)
(* the index of the current window matters.                                *)
(***************************************************************************)
EXTENDS Integers, FiniteSets, Dict

CONSTANTS
  Clients,      \* masked client ids
  Users,        \* end users, the "user" field of a request
  NoUser,       \* the field left out
  Cap,          \* max_tracked_clients; 0 is unlimited
  MaxCost,      \* bound on the cost of one call
  MaxCalls,     \* bound on the calls accounted
  MaxWindow     \* bound on the windows

ASSUME UsageAssumption ==
  /\ IsFiniteSet(Clients) /\ IsFiniteSet(Users) /\ NoUser \notin Users
  /\ Cap \in Nat /\ MaxCost \in Nat /\ MaxCalls \in Nat /\ MaxWindow \in Nat

VARIABLES
  now,        \* int(time.time() / window_seconds)
  usage,      \* usage_by_client
  users,      \* usage_by_user
  window,     \* _budget_window_usage
  tokens,     \* _token_window_usage
  saved,      \* the snapshot in the store
  calls,      \* calls accounted since the beginning (history)
  total,      \* cost of each client since the beginning (history)
  spent,      \* cost and tokens of each client in this window (history)
  latest,     \* the client and user last accounted for (history)
  lost        \* the process restarted in this window (history)

tables == <<usage, users, window, tokens>>
truth == <<calls, total, spent, latest, lost>>
usageVars == <<now, tables, saved, truth>>

NoSnapshot == [usage |-> EmptyDict, users |-> EmptyDict]
Zero == [requests |-> 0, cost |-> 0]
None == <<>>

\* A snapshot written under a larger cap: every client, with a user each.
Legacy(u) == [usage |-> [c \in Clients |-> [requests |-> 1, cost |-> 1]],
              users |-> [c \in Clients |-> [v \in {u} |-> [requests |-> 1, cost |-> 1]]]]

Init ==
  /\ now = 0
  /\ usage = EmptyDict /\ users = EmptyDict /\ window = EmptyDict /\ tokens = EmptyDict
  /\ saved \in {NoSnapshot} \cup {Legacy(u) : u \in Users}
  /\ calls = 0
  /\ total = [c \in Clients |-> GetOr(saved.usage, c, Zero).cost]
  /\ spent = [c \in Clients |-> [cost |-> 0, tokens |-> 0]]
  /\ latest = None
  /\ lost = FALSE

-----------------------------------------------------------------------------
(* The tables *)

Full(t) == Cap # 0 /\ Cardinality(DOMAIN t) >= Cap

\* One more request of k.
Counted(t, k, cost) ==
  LET old == GetOr(t, k, Zero)
  IN With(t, k, [requests |-> old.requests + 1, cost |-> old.cost + cost])

Coldest(t) == {k \in DOMAIN t : \A j \in DOMAIN t : t[k].requests <= t[j].requests}

\* The outcomes of recording a call of k: a new key at the cap evicts a coldest one.
RecordUsage(t, k, cost) ==
  IF k \notin DOMAIN t /\ Full(t)
  THEN {Counted(Without(t, {j}), k, cost) : j \in Coldest(t)}
  ELSE {Counted(t, k, cost)}

Pairs(t) == UNION {{c} \X DOMAIN t[c] : c \in DOMAIN t}
ColdestPairs(t) ==
  {p \in Pairs(t) : \A q \in Pairs(t) : t[p[1]][p[2]].requests <= t[q[1]][q[2]].requests}

\* A client left without users is dropped.
WithoutPair(t, p) ==
  LET rest == Without(t[p[1]], {p[2]})
  IN IF DOMAIN rest = {} THEN Without(t, {p[1]}) ELSE With(t, p[1], rest)

\* The outcomes of recording a call of user u of client c.  The table of c is
\* taken before the eviction, and the call written to it after: if the eviction
\* dropped that table, the call is written to nothing.
RecordUser(t, c, u, cost) ==
  LET mine == GetOr(t, c, EmptyDict)
  IN IF u = NoUser THEN {t}
     ELSE IF u \in DOMAIN mine \/ Cap = 0 \/ Cardinality(Pairs(t)) < Cap
     THEN {With(t, c, Counted(mine, u, cost))}
     ELSE {LET kept == WithoutPair(t, p)
           IN IF p[1] = c /\ c \notin DOMAIN kept THEN kept
              ELSE With(kept, c, Counted(GetOr(kept, c, EmptyDict), u, cost))
           : p \in ColdestPairs(t)}

\* What c has used in the current window, by a window table.
WindowUse(t, c) == IF c \in DOMAIN t /\ t[c].window = now THEN t[c].used ELSE 0

Live(t) == {c \in DOMAIN t : t[c].window = now}
Smallest(t) == {c \in DOMAIN t : \A d \in DOMAIN t : t[c].used <= t[d].used}

\* Variant: a live entry is evicted though a stale one could be dropped.
MakeRoomBlindly(t) == {Without(t, {c}) : c \in Smallest(t)}

\* At the cap the entries of past windows go first, then the smallest.
MakeRoom(t) ==
  LET fresh == Without(t, DOMAIN t \ Live(t))
  IN IF Full(fresh) THEN {Without(fresh, {c}) : c \in Smallest(fresh)} ELSE {fresh}

\* Variant: the count goes on over the end of the window.
RecordWindowCarried(t, c, n) ==
  IF n = 0 THEN {t}
  ELSE {With(s, c, [window |-> now, used |-> GetOr(t, c, [used |-> 0]).used + n]) :
          s \in IF c \notin DOMAIN t /\ Full(t) THEN MakeRoom(t) ELSE {t}}

\* The outcomes of adding n to what c has used in the current window.
RecordWindow(t, c, n) ==
  IF n = 0 THEN {t}
  ELSE {With(s, c, [window |-> now, used |-> WindowUse(t, c) + n]) :
          s \in IF c \notin DOMAIN t /\ Full(t) THEN MakeRoom(t) ELSE {t}}

-----------------------------------------------------------------------------
(* Actions *)

\* A call of client c for user u that cost this much, and a token.
Account(c, u, cost) ==
  /\ calls < MaxCalls
  /\ usage' \in RecordUsage(usage, c, cost)
  /\ users' \in RecordUser(users, c, u, cost)
  /\ window' \in RecordWindow(window, c, cost)
  /\ tokens' \in RecordWindow(tokens, c, 1)
  /\ calls' = calls + 1
  /\ total' = [total EXCEPT ![c] = @ + cost]
  /\ spent' = [spent EXCEPT ![c] = [cost |-> @.cost + cost, tokens |-> @.tokens + 1]]
  /\ latest' = IF u = NoUser THEN None ELSE <<c, u>>
  /\ UNCHANGED <<now, saved, lost>>

\* The clock enters the next window.
Tick ==
  /\ now < MaxWindow
  /\ now' = now + 1
  /\ spent' = [c \in Clients |-> [cost |-> 0, tokens |-> 0]]
  /\ lost' = FALSE
  /\ UNCHANGED <<tables, saved, calls, total, latest>>

\* _flush_loop, or the last save of lifespan.
Flush ==
  /\ saved' = [usage |-> usage, users |-> users]
  /\ UNCHANGED <<now, tables, truth>>

\* The keys kept of a table over the cap, given the requests of each: the busiest.
Busiest(counts) ==
  LET K == DOMAIN counts
  IN IF Cap = 0 \/ Cardinality(K) <= Cap THEN {K}
     ELSE {S \in SUBSET K : /\ Cardinality(S) = Cap
                            /\ \A k \in S, j \in K \ S : counts[k] >= counts[j]}

\* Variant: a snapshot is read back whole.
SeedUntrimmed(s) == {s}

\* Of a snapshot, the clients K and the pairs P; no client without a pair.
Kept(s, K, P) ==
  [usage |-> Without(s.usage, DOMAIN s.usage \ K),
   users |-> [c \in {p[1] : p \in P} |->
                [u \in {p[2] : p \in {q \in P : q[1] = c}} |-> s.users[c][u]]]]

\* How busy each client, or each user of each client, was.
Busy(t) == [c \in DOMAIN t |-> t[c].requests]
BusyPairs(t) == [p \in Pairs(t) |-> t[p[1]][p[2]].requests]

\* seed(): the outcomes of reading a snapshot back.
Seed(s) ==
  {Kept(s, K, P) : K \in Busiest(Busy(s.usage)), P \in Busiest(BusyPairs(s.users))}

\* The process ends, and starts again from the snapshot, or from nothing if the
\* store does not give it.
Restart ==
  /\ \E s \in Seed(saved) \cup {NoSnapshot} : usage' = s.usage /\ users' = s.users
  /\ window' = EmptyDict /\ tokens' = EmptyDict
  /\ latest' = None
  /\ lost' = TRUE
  /\ UNCHANGED <<now, saved, calls, total, spent>>

Next ==
  \/ \E c \in Clients, u \in Users \cup {NoUser}, cost \in 0..MaxCost : Account(c, u, cost)
  \/ Tick \/ Flush \/ Restart

Spec == Init /\ [][Next]_usageVars

-----------------------------------------------------------------------------
(* Correctness *)

Entry == [requests : Nat, cost : Nat]
WindowEntry == [window : 0..now, used : Nat]

\* Types; and a client is in the table of users only with a user.
UsageOK ==
  /\ now \in 0..MaxWindow
  /\ IsDict(usage, Clients, Entry)
  /\ DOMAIN users \subseteq Clients
  /\ \A c \in DOMAIN users : IsDict(users[c], Users, Entry) /\ DOMAIN users[c] # {}
  /\ IsDict(window, Clients, WindowEntry) /\ IsDict(tokens, Clients, WindowEntry)
  /\ calls \in 0..MaxCalls /\ lost \in BOOLEAN
  /\ total \in [Clients -> Nat]
  /\ spent \in [Clients -> [cost : Nat, tokens : Nat]]

\* No table outgrows max_tracked_clients, whatever is recorded or read back; the
\* users are counted as pairs, over all clients (record_* and seed of Metrics).
TablesBounded ==
  Cap # 0 =>
    /\ Cardinality(DOMAIN usage) <= Cap
    /\ Cardinality(Pairs(users)) <= Cap
    /\ Cardinality(DOMAIN window) <= Cap
    /\ Cardinality(DOMAIN tokens) <= Cap

\* The clients that the current window has to tell apart.
Spenders == {c \in Clients : spent[c].cost > 0}
Callers == {c \in Clients : spent[c].tokens > 0}
Fits(S) == Cap = 0 \/ Cardinality(S) <= Cap

\* As long as those who spent in this window fit the table, nothing they spent is
\* forgotten before the window ends: what is stale makes room first.
WindowsTruthful ==
  ~lost =>
    /\ Fits(Spenders) => \A c \in Clients : WindowUse(window, c) = spent[c].cost
    /\ Fits(Callers) => \A c \in Clients : WindowUse(tokens, c) = spent[c].tokens

\* Evictions, restarts and old snapshots lose spending but never invent it.
NothingInvented ==
  \A c \in Clients :
    /\ GetOr(usage, c, Zero).cost <= total[c]
    /\ GetOr(saved.usage, c, Zero).cost <= total[c]
    /\ WindowUse(window, c) <= spent[c].cost
    /\ WindowUse(tokens, c) <= spent[c].tokens

\* What the docstring of record_user_usage promises: a call is attributed to the
\* end user under its client, so that the tenant can see which of its users spend.
UsersAreCounted ==
  latest # None => latest[1] \in DOMAIN users /\ latest[2] \in DOMAIN users[latest[1]]
=============================================================================
