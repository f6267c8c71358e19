------------------------------ MODULE MCNetTcp ------------------------------
(* NetTcp for TLC. *)
EXTENDS NetTcp
=============================================================================
