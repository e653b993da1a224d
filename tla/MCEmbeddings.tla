----------------------------- MODULE MCEmbeddings -----------------------------
(* Instances of Embeddings for TLC: the constants are given in the configurations. *)
EXTENDS Embeddings
=============================================================================
