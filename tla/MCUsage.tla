-------------------------------- MODULE MCUsage --------------------------------
(* Usage with more clients than max_tracked_clients. *)
EXTENDS Usage, TLC

\* Nothing distinguishes clients, or users.
Symmetry == Permutations(Clients) \cup Permutations(Users)
=============================================================================
