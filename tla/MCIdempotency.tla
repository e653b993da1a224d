---------------------------- MODULE MCIdempotency ----------------------------
(* Instances of Idempotency for TLC: the constants are given in the configurations. *)
EXTENDS Idempotency
=============================================================================
