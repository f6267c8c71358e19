------------------------------ MODULE MCNetDot ------------------------------
(* NetDot for TLC. *)
EXTENDS NetDot
=============================================================================
