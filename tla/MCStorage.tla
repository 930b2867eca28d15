------------------------------ MODULE MCStorage ------------------------------
(* A storage with two keys that take two values. *)
EXTENDS Storage
=============================================================================
