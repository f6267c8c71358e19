---------------------------- MODULE StreamSocket ----------------------------
(***************************************************************************)
(* What the sending thread is promised by a socket that may need several   *)
(* calls to send one query: sendto takes a query whole, keeps it or        *)
(* refuses it; a query that is kept is reported to the sent callback once, *)
(* or dropped; no other query is kept before that.                         *)
(***************************************************************************)
EXTENDS Naturals

CONSTANT Queries        \* the queries handed to sendto
CONSTANT None           \* no query

VARIABLES pend,         \* the query the socket keeps, or None
          done          \* the queries taken whole or reported as sent

SockInit == pend = None /\ done = {}

\* sendto returns the length of the query
Take(q) ==
  /\ pend = None /\ q \notin done
  /\ done' = done \union {q}
  /\ UNCHANGED pend

\* sendto returns -1 with EINPROGRESS
Keep(q) ==
  /\ pend = None /\ q \notin done
  /\ pend' = q
  /\ UNCHANGED done

\* sockready has sent the rest and calls the sent callback
Finish ==
  /\ pend # None /\ pend \notin done
  /\ done' = done \union {pend}
  /\ pend' = None

\* sockready gives the query up when it reconnects
Drop ==
  /\ pend # None
  /\ pend' = None
  /\ UNCHANGED done

SockNext == (\E q \in Queries : Take(q) \/ Keep(q)) \/ Finish \/ Drop

SockSpec == SockInit /\ [][SockNext]_<<pend, done>>
=============================================================================
