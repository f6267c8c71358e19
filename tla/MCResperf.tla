----------------------------- MODULE MCResperf -----------------------------
(* Resperf for TLC. *)
EXTENDS Resperf
=============================================================================
