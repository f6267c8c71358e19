------------------------------- MODULE NetDot -------------------------------
(***************************************************************************)
(* One DNS-over-TLS socket of net_dot.c between the sending thread (ST),   *)
(* which calls sockready and sendto, the receiving thread (RT), which      *)
(* calls recv, and a peer.  Either thread reconnects, under the mutex that *)
(* guards the TLS session; at, have_more, sending and the counters are     *)
(* also used outside of it.                                                *)
(*                                                                         *)
(* What a thread does while it holds the mutex is one step; what it does   *)
(* after PERF_UNLOCK is cut where the other thread can tell.  Messages are *)
(* in Parts pieces, as in NetTcp.                                          *)
(***************************************************************************)
EXTENDS Integers, Sequences

CONSTANTS MaxConns,     \* bound: connections opened
          MaxQueries,   \* bound: queries handed to sendto
          PerConn,      \* num_queries_per_conn, 0 if there is no limit
          BufSize       \* TCP_RECV_BUF_SIZE, in pieces
ASSUME DotAssumption ==
  /\ MaxConns \in Nat \ {0} /\ MaxQueries \in Nat \ {0} /\ PerConn \in Nat
  /\ BufSize \in Nat \ {0, 1}

Parts == 2
Conns == 1 .. MaxConns
Queries == 1 .. MaxQueries
Pieces == Conns \X (1 .. Parts)

VARIABLES
  \* the socket
  is_ready, is_conn_ready, do_reconnect, is_sending, sending, qid,
  nqpc_sent, nqpc_recv, nqpc_ts,
  at, have_more,
  recvbuf,              \* what the memory holds, beyond "at" too
  leaked,               \* the mutex is held by nobody who would release it
  \* ST and RT
  s_pc, s_from, s_n,    \* sending before SSL_write, and what it returned
  r_pc, r_at, r_n,      \* at before SSL_read, and what it returned
  r_more,               \* what will be stored into have_more
  \* the session and the peer
  conn,                 \* connections opened so far, the last one is in use
  state,                \* what became of it
  wire,                 \* the request pieces written on each connection
  down,                 \* the response pieces not read yet
  answered,             \* how many responses the peer sent
  late,                 \* nqpc_ts has passed
  \* history
  reported,             \* queries taken whole or reported to sock->sent
  torn,                 \* who was in unlocked code during a reconnect
  requests              \* queries begun on this connection

query   == <<is_sending, sending, qid>>
taken   == <<wire, reported, requests>>
counts  == <<nqpc_sent, nqpc_ts, late>>
session == <<is_ready, is_conn_ready, do_reconnect, conn, state>>
sLocals == <<s_from, s_n>>
received == <<at, have_more, recvbuf, nqpc_recv>>
rtVars  == <<r_pc, r_at, r_n, r_more>>
peer    == <<down, answered>>
vars == <<s_pc, sLocals, query, taken, counts, session, received, rtVars, peer, leaked, torn>>

TypeOK ==
  /\ s_pc \in {"idle", "held", "add", "limit", "relock", "event", "send", "count"}
  /\ s_from \in 0 .. Parts /\ s_n \in 0 .. Parts
  /\ is_ready \in BOOLEAN /\ is_conn_ready \in BOOLEAN /\ do_reconnect \in BOOLEAN
  /\ is_sending \in BOOLEAN /\ sending \in 0 .. Parts - 1 /\ qid \in 0 .. MaxQueries
  /\ nqpc_sent \in Nat /\ nqpc_recv \in Nat /\ nqpc_ts \in BOOLEAN /\ late \in BOOLEAN
  /\ r_pc \in {"idle", "add", "parse", "take", "more", "fatal", "crashed"}
  /\ at \in 0 .. BufSize /\ r_at \in 0 .. BufSize /\ r_n \in 0 .. BufSize
  /\ have_more \in BOOLEAN /\ r_more \in BOOLEAN /\ leaked \in BOOLEAN
  /\ recvbuf \in Seq(Pieces) /\ Len(recvbuf) <= BufSize
  /\ conn \in Conns /\ state \in {"connecting", "tcp", "up", "lost"}
  /\ wire \in [Conns -> Seq(Queries \X (1 .. Parts))]
  /\ down \in Seq(Pieces) /\ answered \in Nat
  /\ reported \subseteq Queries /\ torn \subseteq {"ST", "RT"} /\ requests \in Nat

\* perf_net_dot_opensocket and perf__dot_connect
Init ==
  /\ s_pc = "idle" /\ s_from = 0 /\ s_n = 0
  /\ is_ready = FALSE /\ is_conn_ready \in BOOLEAN /\ do_reconnect = FALSE
  /\ is_sending = FALSE /\ sending = 0 /\ qid = 0
  /\ nqpc_sent = 0 /\ nqpc_recv = 0 /\ nqpc_ts = FALSE /\ late = FALSE
  /\ r_pc = "idle" /\ at = 0 /\ r_at = 0 /\ r_n = 0 /\ have_more = FALSE /\ r_more = FALSE
  /\ recvbuf = <<>> /\ leaked = FALSE
  /\ conn = 1 /\ state = IF is_conn_ready THEN "tcp" ELSE "connecting"
  /\ wire = [c \in Conns |-> <<>>] /\ down = <<>> /\ answered = 0
  /\ reported = {} /\ torn = {} /\ requests = 0

\* perf_log_fatal has ended the process, or a wild memmove has.
Ended == r_pc \in {"fatal", "crashed"}

\* Both threads may take the mutex: nobody else holds it between two steps.
LockFree == ~Ended /\ ~leaked /\ s_pc # "held"

\* perf__dot_reconnect, apart from the query in progress, and connect(), which
\* succeeds at once or is in progress.
ResetAt == at' = 0
Reconnect ==
  /\ conn < MaxConns
  /\ conn' = conn + 1 /\ down' = <<>> /\ answered' = 0
  /\ have_more' = FALSE /\ ResetAt /\ is_ready' = FALSE
  /\ is_conn_ready' \in BOOLEAN
  /\ state' = IF is_conn_ready' THEN "tcp" ELSE "connecting"
  /\ nqpc_sent' = 0 /\ nqpc_recv' = 0 /\ nqpc_ts' = FALSE /\ late' = FALSE
  /\ requests' = 0
  /\ UNCHANGED <<recvbuf, wire, reported, leaked>>

\* What perf__dot_reconnect does with a query in progress: one that was sent in
\* part is given up.  Mutant: it is kept.
KeepPartial == UNCHANGED query
DropPartial == sending' = 0 /\ is_sending' = (is_sending /\ sending = 0) /\ UNCHANGED qid

ReconnectByST ==
  /\ Reconnect
  /\ torn' = IF r_pc = "idle" THEN torn ELSE torn \union {"RT"}
  /\ UNCHANGED <<sLocals, rtVars>>
ReconnectByRT ==
  /\ Reconnect /\ DropPartial
  /\ torn' = IF s_pc = "add" THEN torn \union {"ST"} ELSE torn
  /\ UNCHANGED <<s_pc, sLocals, do_reconnect, r_at, r_n, r_more>>

-----------------------------------------------------------------------------
(* The sending thread *)

STFrame == UNCHANGED <<received, rtVars, peer, torn>>

\* The beginning of sockready after an unrecoverable error
ReadyReconnect ==
  /\ s_pc = "idle" /\ LockFree /\ do_reconnect
  /\ ReconnectByST /\ DropPartial
  /\ do_reconnect' = FALSE
  /\ s_pc' = "held"

\* ST is in sockready, holding the mutex, past do_reconnect.
InReady == s_pc = "held" \/ (s_pc = "idle" /\ LockFree /\ ~do_reconnect)

FlushNothing ==
  /\ InReady /\ is_ready /\ ~is_sending
  /\ s_pc' = "limit"
  /\ UNCHANGED <<sLocals, query, taken, counts, session, leaked>> /\ STFrame

Written(q, from, to) ==
  /\ wire' = [wire EXCEPT ![conn] = @ \o [k \in 1 .. to - from |-> <<q, from + k>>]]
  /\ requests' = IF from = 0 THEN requests + 1 ELSE requests

\* SSL_write takes some or all of the rest, and the mutex is released.
FlushWrite ==
  /\ InReady /\ is_ready /\ is_sending
  /\ \E to \in sending + 1 .. Parts :
       /\ Written(qid, sending, to)
       /\ s_from' = sending /\ s_n' = to - sending
  /\ s_pc' = "add"
  /\ UNCHANGED <<query, reported, counts, session, leaked>> /\ STFrame

\* What is in sendbuf has been written to its end.
Finished == sending' = 0 /\ is_sending' = FALSE

\* self->sending += n and what follows, without the mutex: the value that is
\* added to may have been loaded before RT reset it.
FlushAdd ==
  /\ s_pc = "add"
  /\ \E base \in {s_from, sending} :
       IF base + s_n < Parts
       THEN /\ sending' = base + s_n
            /\ s_pc' = "idle"
            /\ UNCHANGED <<is_sending, reported, nqpc_sent>>
       ELSE /\ Finished
            /\ reported' = reported \union {qid}
            /\ nqpc_sent' = nqpc_sent + 1
            /\ s_pc' = "limit"
  /\ UNCHANGED <<sLocals, qid, wire, requests, nqpc_ts, late, session, leaked>> /\ STFrame

\* SSL_ERROR_SYSCALL
FlushSyscall ==
  /\ InReady /\ is_ready /\ is_sending /\ state = "lost"
  /\ ReconnectByST /\ DropPartial
  /\ s_pc' = "idle"
  /\ UNCHANGED do_reconnect

\* SSL_ERROR_WANT_READ or _WRITE; or another error, which is only logged
FlushWant ==
  /\ InReady /\ is_ready /\ is_sending
  /\ s_pc' = "idle"
  /\ UNCHANGED <<sLocals, query, taken, counts, session, leaked>> /\ STFrame

\* The limit of queries per connection, without the mutex.  Mutant: one query
\* more.
LimitReachedLate == PerConn > 0 /\ nqpc_sent > PerConn
LimitReached == PerConn > 0 /\ nqpc_sent >= PerConn
Limit ==
  /\ s_pc = "limit"
  /\ s_pc' = IF ~LimitReached THEN "send"
             ELSE IF nqpc_recv >= nqpc_sent \/ late THEN "relock" ELSE "idle"
  /\ nqpc_ts' = (nqpc_ts \/ LimitReached)
  /\ UNCHANGED <<sLocals, query, taken, nqpc_sent, late, session, leaked>> /\ STFrame

LimitReconnect ==
  /\ s_pc = "relock" /\ LockFree
  /\ ReconnectByST /\ DropPartial
  /\ s_pc' = "idle"
  /\ UNCHANGED do_reconnect

\* Not writable in time, or the pipe of the main thread is readable
WaitTimedOut ==
  /\ InReady /\ ~is_ready /\ ~is_conn_ready
  /\ s_pc' = "idle"
  /\ UNCHANGED <<sLocals, query, taken, counts, session, leaked>> /\ STFrame

\* SSL_connect wants more; the TCP connection is there by then.
Shaking == InReady /\ ~is_ready /\ (is_conn_ready \/ state # "connecting")
ShakeWant ==
  /\ Shaking /\ state # "lost"
  /\ is_conn_ready' = TRUE /\ s_pc' = "idle"
  /\ UNCHANGED <<sLocals, query, taken, counts, is_ready, do_reconnect, conn, state, leaked>>
  /\ STFrame

\* SO_ERROR, or SSL_connect fails
ShakeFail ==
  /\ Shaking /\ state = "lost"
  /\ do_reconnect' = TRUE /\ s_pc' = "idle"
  /\ is_conn_ready' \in {is_conn_ready, TRUE}
  /\ UNCHANGED <<sLocals, query, taken, counts, is_ready, conn, state, leaked>> /\ STFrame

ShakeDone ==
  /\ Shaking /\ state = "tcp"
  /\ is_conn_ready' = TRUE /\ is_ready' = TRUE /\ state' = "up"
  /\ s_pc' = "event"
  /\ UNCHANGED <<sLocals, query, taken, counts, do_reconnect, conn, leaked>> /\ STFrame

\* sockready returns after the handshake, with a look at is_sending without
\* the mutex.  Mutant: it does not look.
ReadyAlways == "send"
ReadyIfFree == IF is_sending THEN "idle" ELSE "send"
ReadyReturn ==
  /\ s_pc = "event"
  /\ s_pc' = ReadyIfFree
  /\ UNCHANGED <<sLocals, query, taken, counts, session, leaked>> /\ STFrame

\* sendto of the next query
InSend == s_pc = "send" /\ LockFree /\ qid < MaxQueries /\ qid' = qid + 1

\* It is kept: the session is not ready, or SSL_ERROR_WANT_READ or _WRITE.
SendKeep ==
  /\ InSend
  /\ is_sending' = TRUE /\ sending' = 0 /\ s_pc' = "idle"
  /\ UNCHANGED <<sLocals, taken, counts, session, leaked>> /\ STFrame

\* SSL_write takes it in whole or in part.
SendWrite ==
  /\ InSend /\ is_ready
  /\ \E to \in 1 .. Parts :
       /\ Written(qid', 0, to)
       /\ IF to = Parts
          THEN /\ s_pc' = "count" /\ reported' = reported \union {qid'}
               /\ UNCHANGED <<is_sending, sending>>
          ELSE /\ s_pc' = "idle" /\ is_sending' = TRUE /\ sending' = to
               /\ UNCHANGED reported
  /\ UNCHANGED <<sLocals, counts, session, leaked>> /\ STFrame

\* self->nqpc_sent++, without the mutex
SendCount ==
  /\ s_pc = "count" /\ s_pc' = "idle"
  /\ nqpc_sent' = nqpc_sent + 1
  /\ UNCHANGED <<sLocals, query, taken, nqpc_ts, late, session, leaked>> /\ STFrame

\* ECONNREFUSED, ECONNRESET, ENOTCONN or EPIPE: the query is kept for the next
\* connection.
SendReconnect ==
  /\ InSend /\ is_ready /\ state = "lost"
  /\ ReconnectByST
  /\ is_sending' = TRUE /\ sending' = 0 /\ s_pc' = "idle"
  /\ UNCHANGED do_reconnect

\* SSL_write fails otherwise: sendto returns -1, for an error that is not
\* SSL_ERROR_SYSCALL (l.293) without releasing the mutex.
SendFail ==
  /\ InSend /\ is_ready /\ state = "lost"
  /\ leaked' \in BOOLEAN /\ s_pc' = "idle"
  /\ UNCHANGED <<sLocals, is_sending, sending, taken, counts, session>> /\ STFrame

\* do_send has no query to send.
SendNothing ==
  /\ s_pc = "send" /\ s_pc' = "idle"
  /\ UNCHANGED <<sLocals, query, taken, counts, session, leaked>> /\ STFrame

-----------------------------------------------------------------------------
(* The receiving thread *)

RTFrame == UNCHANGED <<s_pc, sLocals, query, taken, counts, session, answered, leaked, torn>>

\* recv finds have_more set and reads nothing.
RecvMore ==
  /\ r_pc = "idle" /\ have_more
  /\ r_pc' = "parse"
  /\ UNCHANGED <<received, r_at, r_n, r_more, down>> /\ RTFrame

\* It has the mutex; there is no session, or SSL_ERROR_WANT_READ.
RecvAgain ==
  /\ r_pc = "idle" /\ ~have_more /\ LockFree
  /\ ~is_ready \/ (down = <<>> /\ state # "lost")
  /\ UNCHANGED <<received, rtVars, down>> /\ RTFrame

\* SSL_read puts some pieces behind those that are there, and the mutex is
\* released.
RecvRead ==
  /\ r_pc = "idle" /\ ~have_more /\ LockFree /\ is_ready
  /\ \E k \in 1 .. Len(down) :
       /\ at + k <= BufSize
       /\ recvbuf' = SubSeq(recvbuf, 1, at) \o SubSeq(down, 1, k)
                       \o SubSeq(recvbuf, at + k + 1, Len(recvbuf))
       /\ down' = SubSeq(down, k + 1, Len(down))
       /\ r_n' = k
  /\ r_at' = at /\ r_pc' = "add"
  /\ UNCHANGED <<at, have_more, nqpc_recv, r_more>> /\ RTFrame

\* SSL_read returns 0 or fails: recv reconnects.  Mutant: it does not.
RecvReconnectNot ==
  /\ r_pc = "idle" /\ ~have_more /\ LockFree /\ is_ready
  /\ state = "lost" /\ down = <<>>
  /\ UNCHANGED vars
RecvReconnect ==
  /\ r_pc = "idle" /\ ~have_more /\ LockFree /\ is_ready
  /\ state = "lost" /\ down = <<>>
  /\ ReconnectByRT
  /\ UNCHANGED r_pc

\* It fails in another way, which do_recv takes for fatal.
RecvFatal ==
  /\ r_pc = "idle" /\ ~have_more /\ LockFree /\ is_ready
  /\ state = "lost" /\ down = <<>>
  /\ r_pc' = "fatal"
  /\ UNCHANGED <<received, r_at, r_n, r_more, down>> /\ RTFrame

\* self->at += n and the tests that follow, without the mutex: the value that
\* is added to may have been loaded before ST reset it.
RecvAdd ==
  /\ r_pc = "add"
  /\ \E base \in {r_at, at} :
       /\ at' = base + r_n
       /\ r_pc' = IF base + r_n < Parts THEN "idle" ELSE "take"
  /\ UNCHANGED <<have_more, recvbuf, nqpc_recv, r_at, r_n, r_more, down>> /\ RTFrame

RecvParse ==
  /\ r_pc = "parse"
  /\ r_pc' = IF at < Parts THEN "idle" ELSE "take"
  /\ UNCHANGED <<received, r_at, r_n, r_more, down>> /\ RTFrame

\* The first message is taken out and what follows it moved to the front: if
\* "at" was reset meanwhile, the length of the move is below zero.
RecvTake ==
  /\ r_pc = "take" /\ at >= Parts
  /\ recvbuf' = SubSeq(recvbuf, Parts + 1, at) \o SubSeq(recvbuf, at - Parts + 1, Len(recvbuf))
  /\ at' = at - Parts
  /\ nqpc_recv' = IF PerConn > 0 THEN nqpc_recv + 1 ELSE nqpc_recv
  /\ r_more' = (at' >= Parts)
  /\ r_pc' = "more"
  /\ UNCHANGED <<have_more, r_at, r_n, down>> /\ RTFrame
RecvWild ==
  /\ r_pc = "take" /\ at < Parts
  /\ r_pc' = "crashed"
  /\ UNCHANGED <<received, r_at, r_n, r_more, down>> /\ RTFrame

\* have_more is stored, and recv returns.
RecvReturn ==
  /\ r_pc = "more" /\ r_pc' = "idle"
  /\ have_more' = r_more
  /\ UNCHANGED <<at, recvbuf, nqpc_recv, r_at, r_n, r_more, down>> /\ RTFrame

-----------------------------------------------------------------------------
(* The peer and the clock *)

PeerFrame == UNCHANGED <<s_pc, sLocals, query, taken, nqpc_sent, nqpc_ts, is_ready,
                         is_conn_ready, do_reconnect, conn, received, rtVars, leaked, torn>>

Established ==
  /\ state = "connecting" /\ state' = "tcp"
  /\ UNCHANGED <<peer, late>> /\ PeerFrame
Lost ==
  /\ state # "lost" /\ state' = "lost"
  /\ UNCHANGED <<peer, late>> /\ PeerFrame
\* The peer answers the next whole request.
Answer ==
  /\ state = "up" /\ Parts * (answered + 1) <= Len(wire[conn])
  /\ answered' = answered + 1
  /\ down' = down \o [k \in 1 .. Parts |-> <<conn, k>>]
  /\ UNCHANGED <<state, late>> /\ PeerFrame
TimePasses ==
  /\ nqpc_ts /\ ~late /\ late' = TRUE
  /\ UNCHANGED <<state, peer>> /\ PeerFrame

-----------------------------------------------------------------------------
SockReady ==
  \/ ReadyReconnect \/ FlushNothing \/ FlushWrite \/ FlushAdd \/ FlushSyscall \/ FlushWant
  \/ Limit \/ LimitReconnect \/ WaitTimedOut \/ ShakeWant \/ ShakeFail \/ ShakeDone
  \/ ReadyReturn
SendTo == SendKeep \/ SendWrite \/ SendCount \/ SendReconnect \/ SendFail \/ SendNothing
Recv == RecvMore \/ RecvAgain \/ RecvRead \/ RecvReconnect \/ RecvAdd \/ RecvParse
        \/ RecvTake \/ RecvWild \/ RecvReturn
Peer == Established \/ Lost \/ Answer \/ TimePasses

ST == ~Ended /\ (SockReady \/ SendTo)
RT == ~Ended /\ Recv

Next == ST \/ RT \/ (~Ended /\ (RecvFatal \/ Peer))

Spec == Init /\ [][Next]_vars

\* Threads are scheduled; a connection attempt and a handshake end; a socket
\* that can be written to is not full for ever.
Fairness ==
  /\ WF_vars(ST) /\ WF_vars(RT)
  /\ SF_vars(~Ended /\ FlushWrite) /\ SF_vars(~Ended /\ ShakeDone)
  /\ WF_vars(~Ended /\ state = "connecting" /\ (Established \/ Lost))
FairSpec == Spec /\ Fairness

-----------------------------------------------------------------------------
(* Properties *)

\* Variables keep their types, and both directions are framed.  Where recv looks
\* for a message it finds the beginning of one that the connection in use has
\* sent, and it moves memory only within its buffer, unless ST reconnected while
\* RT was past its PERF_UNLOCK (l.207).  Every connection begins with the
\* beginning of a query, and the pieces of a query follow each other, unless RT
\* reconnected while ST was past its PERF_UNLOCK (l.357).
FramingKept ==
  /\ TypeOK
  /\ "RT" \notin torn =>
       /\ r_pc # "crashed"
       /\ \A i \in 1 .. at : recvbuf[i] = <<conn, ((i - 1) % Parts) + 1>>
  /\ "ST" \notin torn =>
       \A c \in Conns : \A i \in DOMAIN wire[c] :
         \/ wire[c][i][2] = 1 /\ (i > 1 => wire[c][i - 1][2] = Parts)
         \/ i > 1 /\ wire[c][i] = <<wire[c][i - 1][1], wire[c][i - 1][2] + 1>>

\* No connection carries more queries than the limit, although either thread
\* resets the counter and ST counts without the mutex.
PerConnKept == PerConn > 0 => requests <= PerConn

\* The socket keeps what StreamSocket promises the sending thread.
Sock == INSTANCE StreamSocket
          WITH None <- 0, pend <- IF is_sending THEN qid ELSE 0, done <- reported
KeepsPromise == Sock!SockSpec

\* What LossesHandled excepts: a reconnect during unlocked code, and a mutex that
\* is not released.
Broken == Ended \/ torn # {} \/ leaked

\* A connection that is lost is replaced, also when ST has nothing to write and
\* only RT can see it.  A query in progress does not stay so: it is sent or
\* dropped, unless the connections keep failing (up to the bound).
LossesHandled ==
  /\ []<>(state # "lost" \/ conn = MaxConns \/ Broken)
  /\ []<>(~is_sending \/ conn = MaxConns \/ Broken)

-----------------------------------------------------------------------------
(* What a document says *)

\* CHANGES l.354: dnsperf tries to connect again when it loses a DoT connection.
LossReplaced == []<>(state # "lost" \/ conn = MaxConns \/ Ended \/ torn # {})
=============================================================================
