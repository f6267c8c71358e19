---------------------------- MODULE MCStatistics ----------------------------
(* Statistics for TLC: the smallest and the largest latency. *)
EXTENDS Statistics

MCResponses == {<<0, 3>>, <<2^Bits - 1, 0>>}
=============================================================================
