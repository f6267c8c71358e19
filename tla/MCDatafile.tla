----------------------------- MODULE MCDatafile -----------------------------
(* Datafile for TLC: every content up to a length, as a file read twice or     *)
(* without end, as a file on standard input read twice, and as a pipe; short   *)
(* ones also as a pipe that would have to be read twice.                       *)
EXTENDS Datafile

MCCap == [f \in Formats |-> IF f = "blob" THEN 6 ELSE 3]
MCInputSize == [f \in Formats |-> MCCap[f] + 1]

Contents(f) ==
  CASE f = "query" -> SeqOf({"n", "c", "a"}, 5)
    [] f = "update" -> SeqOf({"n", "s", "a"}, 6)
    [] f = "blob" -> SeqOf({"0", "1"}, 7)
Source(regular, seek, runs) == [is_file |-> regular, seekable |-> seek, maxruns |-> runs]
Sources(c) ==
  {Source(TRUE, TRUE, 0), Source(TRUE, TRUE, 2), Source(FALSE, TRUE, 2), Source(FALSE, FALSE, 1)}
    \cup (IF Len(c) <= 4 THEN {Source(FALSE, FALSE, 2)} ELSE {})
MCInputs ==
  UNION {UNION {{[content |-> c, format |-> f, is_file |-> s.is_file, seekable |-> s.seekable,
                  maxruns |-> s.maxruns] : s \in Sources(c)} : c \in Contents(f)} : f \in Formats}
=============================================================================
