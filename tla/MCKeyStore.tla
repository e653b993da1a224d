------------------------------ MODULE MCKeyStore ------------------------------
(* Instances of KeyStore for TLC. *)
EXTENDS KeyStore

\* Where everything may go wrong, two calls are enough to meet in the section.
MCMaxCalls == [p \in BOOLEAN |-> IF p THEN 4 ELSE 2]
=============================================================================
