--------------------------------- MODULE Dict ---------------------------------
(***************************************************************************)
(* Python dictionaries as partial functions.  The stores of the gateway    *)
(* (the key set, the credit ledger, the caches) are dicts read and written *)
(* whole or entry by entry; these are the few operations they need.        *)
(***************************************************************************)

\* The dict without entries.
EmptyDict == [k \in {} |-> 0]

\* d is a dict with keys in K and values in V.
IsDict(d, K, V) == DOMAIN d \subseteq K /\ d \in [DOMAIN d -> V]

\* d[k] = v
With(d, k, v) == [x \in DOMAIN d \cup {k} |-> IF x = k THEN v ELSE d[x]]

\* d with the entries of S dropped: {k: v for k, v in d.items() if k not in S}
Without(d, S) == [x \in DOMAIN d \ S |-> d[x]]

\* d.get(k, default)
GetOr(d, k, default) == IF k \in DOMAIN d THEN d[k] ELSE default
=============================================================================
