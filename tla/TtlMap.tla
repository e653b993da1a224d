-------------------------------- MODULE TtlMap --------------------------------
(***************************************************************************)
(* What a cache backend promises: a map whose entries are there until      *)
(* their time is up, changed by single atomic operations, of which "add"   *)
(* never touches an entry that is there.  No entry is dropped to make room *)
(* for another.                                                            *)
(***************************************************************************)
EXTENDS Naturals, Dict

CONSTANTS Keys, Values, TTLs

VARIABLES map, now

Entry(v, ttl) == [val |-> v, exp |-> now + ttl]

Set(k, v, ttl) == map' = IF ttl > 0 THEN With(map, k, Entry(v, ttl)) ELSE Without(map, {k})
Add(k, v, ttl) == k \notin DOMAIN map /\ Set(k, v, ttl)
Delete(k) == map' = Without(map, {k})

\* Time passes, and what is due goes.
Pass ==
  /\ now' = now + 1
  /\ map' = Without(map, {k \in DOMAIN map : map[k].exp <= now'})

Next ==
  \/ /\ UNCHANGED now
     /\ \E k \in Keys : \/ Delete(k)
                        \/ \E v \in Values, ttl \in TTLs : Add(k, v, ttl) \/ Set(k, v, ttl)
  \/ Pass
=============================================================================
