--------------------------- MODULE QueryThreadInv ---------------------------
(***************************************************************************)
(* The inductive invariant of QueryThread.  IndInv adds to the stated      *)
(* properties what the threads' labels say of their local variables, and   *)
(* how an early result is paired with the query it was charged to.         *)
(***************************************************************************)
EXTENDS QueryThread

\* The query the sender holds has been charged already (it is not outstanding).
Charged == IF Unsent \subseteq Range(outstanding) THEN 0 ELSE 1

\* What the labels say of the local variables, and of the held query.
Locals ==
  /\ Holding => s_q \in Qids
  /\ r_pc \in {"tlock", "timeout"} => r_q \in Qids
  /\ s_pc \in {"input", "build", "send"} => qsock[s_q] # None
  /\ s_pc = "pick" => s_tries >= 1
  /\ s_pc \in {"pick", "picked", "input", "build", "unbuilt"} => timestamp[s_q] = Unstamped
  /\ s_pc = "send" => timestamp[s_q] # Unstamped
  /\ r_accepted > 0 => r_pc \in {"match", "stats"}

\* An outstanding query without a timestamp is the one the sender holds, or
\* was left with when the input ended.
OnlyHeldUnstamped ==
  \A q \in Range(outstanding) : timestamp[q] = Unstamped =>
    /\ q = s_q
    /\ s_pc \in {"stamp", "pick", "picked", "input", "build", "unbuilt",
                 "drain", "drain_sock", "finish", "notify", "done"}

\* How the threads and main end.
Ends ==
  /\ m_pc \in {"start", "wait"} => ~interrupted
  /\ m_pc \in {"join_receiver", "cleanup", "done"} => s_pc = "done"
  /\ m_pc \in {"cleanup", "done"} => r_pc = "done"
  /\ r_pc = "done" /\ ~interrupted => done_sending /\ num_sent <= num_completed + num_timedout
  /\ m_pc = "done" /\ interrupted => outstanding = <<>>

\* The limit of do_send, with the place of the query it holds.
Limit ==
  /\ Charged <= early
  /\ InFlightBound
  /\ Holding => Cardinality(InFlight) + 1 + Charged <= MaxOutstanding + early

IndInv ==
  TypeOK /\ ListsPartition /\ Locals /\ OnlyHeldUnstamped /\ Ends /\ Conservation /\ Limit

\* What query_move and the list operations do to the table.
Moves ==
  \A q \in Qids :
    /\ PrependUnused(q) => ListsPartition' /\ Range(outstanding') = Range(outstanding) \ {q}
    /\ AppendUnused(q) => ListsPartition' /\ Range(outstanding') = Range(outstanding) \ {q}
    /\ PrependOutstanding(q) =>
         ListsPartition' /\ Range(outstanding') = Range(outstanding) \cup {q}

=============================================================================
