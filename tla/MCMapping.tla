----------------------------- MODULE MCMapping -----------------------------
(* TLC instances of Mapping. *)
EXTENDS Mapping
=============================================================================
