------------------------------ MODULE MCNetDoh ------------------------------
(* NetDoh for TLC. *)
EXTENDS NetDoh
=============================================================================
