------------------------------- MODULE NetTcp -------------------------------
(***************************************************************************)
(* One TCP socket of net_tcp.c between the sending thread (ST), which      *)
(* calls sockready and sendto and opens every connection, the receiving    *)
(* thread (RT), which calls recv, and a peer.  They share sock->fd,        *)
(* recv_need_reconn and nqpc_recv without a lock.                          *)
(*                                                                         *)
(* A message is written and read in Parts pieces: a request <<q, k>>, a    *)
(* response <<c, k>> (the k-th piece of a response on the connection c).   *)
(* A descriptor that is closed is given out again.                         *)
(***************************************************************************)
EXTENDS Integers, Sequences

CONSTANTS MaxConns,     \* bound: connections opened
          MaxQueries,   \* bound: queries handed to sendto
          PerConn       \* num_queries_per_conn, 0 if there is no limit
ASSUME TcpAssumption ==
  MaxConns \in Nat \ {0} /\ MaxQueries \in Nat \ {0} /\ PerConn \in Nat

Parts == 2
Conns == 1 .. MaxConns
Queries == 1 .. MaxQueries
NoConn == 0             \* a descriptor that is not open
Fds == {0, 1}           \* the two lowest descriptors the process has free
NoFd == -1

VARIABLES
  \* ST
  s_pc,                 \* where the sending thread is
  s_ret,                \* which of the two reconnects of sockready it is in
  s_fd,                 \* its local fd (open, store) and oldfd (close)
  is_ready, need_reconnect, is_sending, sending, qid, nqpc_sent, nqpc_ts,
  \* shared
  fd, recv_need_reconn, nqpc_recv,
  \* RT
  r_pc,                 \* where the receiving thread is
  r_fd,                 \* its local fd
  recvfd, have_more, recvbuf,
  \* kernel and peer
  desc,                 \* the connection behind a descriptor
  conn,                 \* connections opened so far
  state,                \* what became of a connection
  wire,                 \* the request pieces written on a connection
  down,                 \* the response pieces not read yet
  answered,             \* how many responses the peer sent
  late,                 \* nqpc_ts has passed
  \* history
  reported,             \* queries taken whole or reported to sock->sent
  fdOf,                 \* the descriptor a connection had
  requests              \* queries begun on the newest connection

query  == <<is_sending, sending, qid, nqpc_sent, wire, reported, requests>>
limits == <<need_reconnect, nqpc_ts>>
link   == <<s_fd, fd, desc, conn, state, fdOf, nqpc_recv, late>>
rtVars == <<r_pc, r_fd, recvfd, have_more, recvbuf>>
peer   == <<down, answered>>
vars == <<s_pc, s_ret, is_ready, query, limits, link, recv_need_reconn, rtVars, peer>>

Current == desc[fd]
Opened(c) == \E d \in Fds : desc[d] = c
Freed == {d \in Fds : desc[d] = NoConn}

TypeOK ==
  /\ s_pc \in {"idle", "reset", "open", "store", "close", "flush", "wait", "send"}
  /\ s_ret \in {"top", "cont"}
  /\ s_fd \in Fds /\ fd \in Fds /\ r_fd \in Fds /\ recvfd \in Fds
  /\ recv_need_reconn \in Fds \union {NoFd}
  /\ is_ready \in BOOLEAN /\ need_reconnect \in BOOLEAN /\ is_sending \in BOOLEAN
  /\ have_more \in BOOLEAN /\ nqpc_ts \in BOOLEAN /\ late \in BOOLEAN
  /\ sending \in 0 .. Parts - 1 /\ qid \in 0 .. MaxQueries
  /\ nqpc_sent \in Nat /\ nqpc_recv \in Nat
  /\ r_pc \in {"idle", "read", "signal", "parse"}
  /\ recvbuf \in Seq(Conns \X (1 .. Parts))
  /\ desc \in [Fds -> Conns \union {NoConn}] /\ conn \in Conns
  /\ state \in [Conns -> {"none", "connecting", "up", "lost"}]
  /\ wire \in [Conns -> Seq(Queries \X (1 .. Parts))]
  /\ down \in [Conns -> Seq(Conns \X (1 .. Parts))]
  /\ answered \in [Conns -> Nat]
  /\ reported \subseteq Queries /\ fdOf \in [Conns -> Fds] /\ requests \in Nat

\* perf_net_tcp_opensocket: the first connection is up or being made
Init ==
  /\ s_pc = "idle" /\ s_ret = "top" /\ s_fd = 0 /\ is_ready \in BOOLEAN
  /\ need_reconnect = FALSE /\ is_sending = FALSE /\ sending = 0 /\ qid = 0
  /\ nqpc_sent = 0 /\ nqpc_ts = FALSE
  /\ fd = 0 /\ recv_need_reconn = NoFd /\ nqpc_recv = 0
  /\ r_pc = "idle" /\ r_fd = 0 /\ recvfd = 0 /\ have_more = FALSE /\ recvbuf = <<>>
  /\ desc = [d \in Fds |-> IF d = 0 THEN 1 ELSE NoConn] /\ conn = 1
  /\ state = [c \in Conns |-> IF c > 1 THEN "none"
                              ELSE IF is_ready THEN "up" ELSE "connecting"]
  /\ wire = [c \in Conns |-> <<>>] /\ down = [c \in Conns |-> <<>>]
  /\ answered = [c \in Conns |-> 0]
  /\ late = FALSE /\ reported = {} /\ fdOf = [c \in Conns |-> 0] /\ requests = 0

-----------------------------------------------------------------------------
(* The sending thread.  What none of its steps changes is in STFrame. *)

STFrame == UNCHANGED <<recv_need_reconn, rtVars, peer>>

\* Whether ST has to reconnect before anything else.
MustReconnect == recv_need_reconn = fd \/ need_reconnect

\* sockready is called
ReadyTop ==
  /\ s_pc = "idle"
  /\ MustReconnect => conn < MaxConns
  /\ s_pc' = IF MustReconnect THEN "reset" ELSE IF is_ready THEN "flush" ELSE "wait"
  /\ s_ret' = "top"
  /\ UNCHANGED <<is_ready, query, limits, link>>

\* perf__tcp_connect up to socket()
ConnReset ==
  /\ s_pc = "reset" /\ s_pc' = "open"
  /\ is_ready' = TRUE /\ nqpc_sent' = 0 /\ nqpc_recv' = 0 /\ nqpc_ts' = FALSE
  /\ late' = FALSE
  /\ UNCHANGED <<s_ret, s_fd, need_reconnect, is_sending, sending, qid, fd, desc, conn, state,
                 fdOf, wire, reported, requests>>

\* The rest of perf__tcp_connect: the lowest free descriptor, and connect()
\* that succeeds at once or is in progress.
ConnOpen ==
  /\ s_pc = "open" /\ s_pc' = "store"
  /\ conn < MaxConns
  /\ conn' = conn + 1 /\ requests' = 0
  /\ \E d \in Freed :
       /\ \A e \in Freed : d <= e
       /\ s_fd' = d
       /\ desc' = [desc EXCEPT ![d] = conn']
       /\ fdOf' = [fdOf EXCEPT ![conn'] = d]
  /\ \E st \in {"connecting", "up"} :
       /\ state' = [state EXCEPT ![conn'] = st]
       /\ is_ready' = (st = "up")
  /\ UNCHANGED <<s_ret, is_sending, sending, qid, nqpc_sent, wire, reported, limits, fd, nqpc_recv,
                 late>>

\* ck_pr_store_int(&sock->fd, fd); s_fd is oldfd from here
ConnStore ==
  /\ s_pc = "store" /\ s_pc' = "close"
  /\ fd' = s_fd /\ s_fd' = fd
  /\ UNCHANGED <<s_ret, is_ready, query, limits, desc, conn, state, fdOf, nqpc_recv, late>>

\* The descriptors after close(oldfd).  Mutant: after close(fd).
ClosedNew == [desc EXCEPT ![fd] = NoConn]
Closed == [desc EXCEPT ![s_fd] = NoConn]

\* close(oldfd) and what follows it at the top of sockready; or after a failed
\* write, where a query sent in part is dropped.
ConnClose ==
  /\ s_pc = "close" /\ desc' = Closed
  /\ IF s_ret = "top"
     THEN /\ s_pc' = IF is_ready THEN "flush" ELSE "wait"
          /\ need_reconnect' = FALSE
          /\ UNCHANGED <<sending, is_sending>>
     ELSE /\ s_pc' = "wait"
          /\ sending' = 0 /\ is_sending' = (is_sending /\ sending = 0)
          /\ UNCHANGED need_reconnect
  /\ UNCHANGED <<s_ret, s_fd, is_ready, qid, nqpc_sent, wire, reported, requests, nqpc_ts, fd, conn,
                 state, fdOf, nqpc_recv, late>>

\* sendto() fails for good only on a connection the peer has dropped.
WriteFails == state[Current] = "lost"

\* sendto() takes the pieces from .. to of the query q, which is thereby done
\* or not.  What is written to a connection the peer has dropped may still be
\* taken.
Written(q, from, to) ==
  /\ wire' = [wire EXCEPT ![Current] = @ \o [k \in 1 .. to - from |-> <<q, from + k>>]]
  /\ is_sending' = (to < Parts)
  /\ reported' = IF to = Parts THEN reported \union {q} ELSE reported
  /\ nqpc_sent' = IF to = Parts THEN nqpc_sent + 1 ELSE nqpc_sent
  /\ requests' = IF from = 0 THEN requests + 1 ELSE requests

\* What remains of the query in sendbuf is written up to the piece "to".
Continue(to) == Written(qid, sending, to) /\ sending' = to % Parts

\* sockready on a connection that is ready, nothing in progress or the rest
\* of it written: the limit of queries per connection, or the socket is ready.
\* Mutant: one query more.
LimitReachedLate(sent) == PerConn > 0 /\ sent > PerConn
LimitReached(sent) == PerConn > 0 /\ sent >= PerConn
AllAnswered(sent) == nqpc_recv >= sent
AtLimit(sent) ==
  /\ s_pc' = IF LimitReached(sent) THEN "idle" ELSE "send"
  /\ nqpc_ts' = (nqpc_ts \/ LimitReached(sent))
  /\ need_reconnect' = (need_reconnect \/ (LimitReached(sent) /\ (AllAnswered(sent) \/ late)))

FlushNothing ==
  /\ s_pc = "flush" /\ ~is_sending
  /\ AtLimit(nqpc_sent)
  /\ UNCHANGED <<s_ret, is_ready, query, link>>

\* sendto() takes some or all of the rest.  Mutant: a query sent in part passes
\* for done.
FlushWriteDone ==
  /\ s_pc = "flush" /\ is_sending
  /\ \E to \in sending + 1 .. Parts : Continue(to) /\ AtLimit(nqpc_sent')
  /\ UNCHANGED <<s_ret, is_ready, qid, link>>
FlushWrite ==
  /\ s_pc = "flush" /\ is_sending
  /\ \E to \in sending + 1 .. Parts :
       /\ Continue(to)
       /\ IF to = Parts THEN AtLimit(nqpc_sent') ELSE s_pc' = "idle" /\ UNCHANGED limits
  /\ UNCHANGED <<s_ret, is_ready, qid, link>>

\* EAGAIN: sockready returns 0
FlushAgain ==
  /\ s_pc = "flush" /\ is_sending
  /\ s_pc' = "idle"
  /\ UNCHANGED <<s_ret, is_ready, query, limits, link>>

\* Another error: sockready reconnects.
FlushError ==
  /\ s_pc = "flush" /\ is_sending /\ WriteFails
  /\ conn < MaxConns
  /\ s_pc' = "reset" /\ s_ret' = "cont"
  /\ UNCHANGED <<is_ready, query, limits, link>>

\* conn_cont: not writable in time, or the pipe of the main thread is readable
WaitTimedOut ==
  /\ s_pc = "wait" /\ s_pc' = "idle"
  /\ UNCHANGED <<s_ret, is_ready, query, limits, link>>

\* writable with SO_ERROR set
WaitError ==
  /\ s_pc = "wait" /\ state[Current] = "lost"
  /\ s_pc' = "idle"
  /\ need_reconnect' = TRUE
  /\ UNCHANGED <<s_ret, is_ready, query, nqpc_ts, link>>

\* Writable without SO_ERROR: the peer accepted the connection, or recv() of RT
\* has taken the error from the socket.
Writable == s_pc = "wait" /\ state[Current] # "connecting" /\ is_ready' = TRUE

WaitNothing ==
  /\ Writable /\ ~is_sending
  /\ s_pc' = "send"
  /\ UNCHANGED <<s_ret, query, limits, link>>

WaitWrite ==
  /\ Writable /\ is_sending
  /\ \E to \in sending + 1 .. Parts :
       /\ Continue(to)
       /\ s_pc' = IF to = Parts THEN "send" ELSE "idle"
  /\ UNCHANGED <<s_ret, limits, qid, link>>

\* EAGAIN, or another error
WaitNotWritten ==
  /\ Writable /\ is_sending
  /\ s_pc' = "idle"
  /\ need_reconnect' \in {need_reconnect, need_reconnect \/ WriteFails}
  /\ UNCHANGED <<s_ret, query, nqpc_ts, link>>

\* sendto of the next query: RT asked for a new connection, or the write fails
SendReconnect ==
  /\ s_pc = "send" /\ qid < MaxQueries
  /\ recv_need_reconn = fd \/ WriteFails
  /\ s_pc' = "idle"
  /\ qid' = qid + 1
  /\ need_reconnect' = TRUE /\ is_sending' = TRUE /\ sending' = 0
  /\ UNCHANGED <<s_ret, is_ready, nqpc_sent, wire, reported, requests, nqpc_ts, link>>

\* sendto remembers how far it got.
Progress(to) == sending' = IF to < Parts THEN to ELSE sending

\* sendto takes the query in whole or in part
SendWrite ==
  /\ s_pc = "send" /\ qid < MaxQueries
  /\ recv_need_reconn # fd
  /\ s_pc' = "idle"
  /\ qid' = qid + 1
  /\ \E to \in 1 .. Parts : Written(qid', 0, to) /\ Progress(to)
  /\ UNCHANGED <<s_ret, is_ready, limits, link>>

\* sendto takes nothing (EAGAIN), or there is no query to send
SendNothing ==
  /\ s_pc = "send"
  /\ s_pc' = "idle"
  /\ qid' \in {qid} \union (IF recv_need_reconn = fd THEN {} ELSE {qid + 1} \cap Queries)
  /\ UNCHANGED <<s_ret, is_ready, is_sending, sending, nqpc_sent, wire, reported, requests,
                 limits, link>>

-----------------------------------------------------------------------------
(* The receiving thread *)

RTFrame == UNCHANGED <<s_pc, s_ret, is_ready, query, limits, s_fd, fd, desc, conn, state, fdOf,
                       late, answered>>

\* The buffer once sock->fd is loaded.  Mutant: it is kept.
BufferKept == recvbuf
BufferAfterLoad == IF fd = recvfd THEN recvbuf ELSE <<>>

\* recv loads sock->fd and resets its buffer if that has changed.
RecvTop ==
  /\ r_pc = "idle"
  /\ r_fd' = fd /\ recvfd' = fd
  /\ have_more' = (have_more /\ fd = recvfd)
  /\ recvbuf' = BufferAfterLoad
  /\ r_pc' = IF have_more' THEN "parse" ELSE "read"
  /\ UNCHANGED <<recv_need_reconn, nqpc_recv, down>>

\* recv() reads one or more pieces.
RecvRead ==
  /\ r_pc = "read" /\ desc[r_fd] # NoConn
  /\ LET c == desc[r_fd]
     IN  \E k \in 1 .. Len(down[c]) :
           /\ recvbuf' = recvbuf \o SubSeq(down[c], 1, k)
           /\ down' = [down EXCEPT ![c] = SubSeq(@, k + 1, Len(@))]
  /\ r_pc' = IF Len(recvbuf') < Parts THEN "idle" ELSE "parse"
  /\ UNCHANGED <<recv_need_reconn, nqpc_recv, r_fd, recvfd, have_more>>

\* EAGAIN
RecvAgain ==
  /\ r_pc = "read" /\ desc[r_fd] # NoConn
  /\ down[desc[r_fd]] = <<>> /\ state[desc[r_fd]] # "lost"
  /\ r_pc' = "idle"
  /\ UNCHANGED <<recv_need_reconn, nqpc_recv, r_fd, recvfd, have_more, recvbuf, down>>

\* EBADF, end of file or an error of the connection
Disconnected(d) ==
  desc[d] # NoConn => state[desc[d]] = "lost" /\ down[desc[d]] = <<>>

RecvFail ==
  /\ r_pc = "read" /\ Disconnected(r_fd)
  /\ r_pc' = "signal"
  /\ UNCHANGED <<recv_need_reconn, nqpc_recv, r_fd, recvfd, have_more, recvbuf, down>>

\* What is stored into recv_need_reconn.  Mutant: nothing.
SignalNothing == recv_need_reconn
Signal == r_fd

\* ck_pr_store_int(&self->recv_need_reconn, fd)
RecvSignal ==
  /\ r_pc = "signal" /\ r_pc' = "idle"
  /\ recv_need_reconn' = Signal
  /\ UNCHANGED <<nqpc_recv, r_fd, recvfd, have_more, recvbuf, down>>

\* A whole message is at the head of the buffer: recv returns it.
RecvParse ==
  /\ r_pc = "parse" /\ r_pc' = "idle"
  /\ recvbuf' = SubSeq(recvbuf, Parts + 1, Len(recvbuf))
  /\ have_more' = (Len(recvbuf') >= Parts)
  /\ nqpc_recv' = IF PerConn > 0 THEN nqpc_recv + 1 ELSE nqpc_recv
  /\ UNCHANGED <<recv_need_reconn, r_fd, recvfd, down>>

-----------------------------------------------------------------------------
(* The peer and the clock *)

PeerFrame == UNCHANGED <<s_pc, s_ret, is_ready, query, limits, s_fd, fd, desc, conn, fdOf,
                         nqpc_recv, recv_need_reconn, rtVars>>

Established(c) ==
  /\ state[c] = "connecting" /\ Opened(c)
  /\ state' = [state EXCEPT ![c] = "up"]
  /\ UNCHANGED <<peer, late>>

\* The connection is refused, reset or closed by the peer.
Lost(c) ==
  /\ state[c] \in {"connecting", "up"} /\ Opened(c)
  /\ state' = [state EXCEPT ![c] = "lost"]
  /\ UNCHANGED <<peer, late>>

\* The peer answers the next whole request.
Answer(c) ==
  /\ state[c] = "up" /\ Opened(c)
  /\ Parts * (answered[c] + 1) <= Len(wire[c])
  /\ answered' = [answered EXCEPT ![c] = @ + 1]
  /\ down' = [down EXCEPT ![c] = @ \o [k \in 1 .. Parts |-> <<c, k>>]]
  /\ UNCHANGED <<state, late>>

\* perf_get_time() > nqpc_ts from here on
TimePasses ==
  /\ nqpc_ts /\ ~late /\ late' = TRUE
  /\ UNCHANGED <<state, peer>>

-----------------------------------------------------------------------------
Connect == ConnReset \/ ConnOpen \/ ConnStore \/ ConnClose
Flush == FlushNothing \/ FlushWrite \/ FlushAgain \/ FlushError
Wait == WaitTimedOut \/ WaitError \/ WaitNothing \/ WaitWrite \/ WaitNotWritten
SendTo == SendReconnect \/ SendWrite \/ SendNothing

ST == (ReadyTop \/ Connect \/ Flush \/ Wait \/ SendTo) /\ STFrame
RT == (RecvTop \/ RecvRead \/ RecvAgain \/ RecvFail \/ RecvSignal \/ RecvParse) /\ RTFrame
Peer == (TimePasses \/ \E c \in Conns : Established(c) \/ Lost(c) \/ Answer(c)) /\ PeerFrame

Next == ST \/ RT \/ Peer

Spec == Init /\ [][Next]_vars

\* Threads are scheduled; a connection attempt ends; a socket that can be
\* written to is not full for ever.
Fairness ==
  /\ WF_vars(ST) /\ WF_vars(RT)
  /\ SF_vars((FlushWrite \/ WaitWrite) /\ STFrame)
  /\ \A c \in Conns : WF_vars(state[c] = "connecting" /\ (Established(c) \/ Lost(c)) /\ PeerFrame)
FairSpec == Spec /\ Fairness

-----------------------------------------------------------------------------
(* Properties *)

\* ST never works on a descriptor that is closed or was given to another
\* connection, and none is left open: outside a reconnect the only descriptor
\* open is sock->fd, and it is the newest connection (the order of
\* perf__tcp_connect, the store and close(oldfd) in sockready).
DescriptorsKept ==
  /\ Current # NoConn
  /\ s_pc \notin {"store", "close"} => \A d \in Fds : desc[d] # NoConn <=> d = fd
  /\ s_pc # "store" => Current = conn

\* Some connection before c had the same descriptor.
Recurs(c) == \E b \in 1 .. c - 1 : fdOf[b] = fdOf[c]

\* The pieces are written connection after connection.  The piece next after one
\* is the next of the same query, or the first of a later query; b is the last
\* connection before c on which anything was written.
Follows(next, piece) ==
  IF next[2] = 1 THEN next[1] > piece[1] ELSE next = <<piece[1], piece[2] + 1>>
LastPiece(c) == wire[c][Len(wire[c])]
Precedes(b, c) == wire[b] # <<>> /\ \A a \in b + 1 .. c - 1 : wire[a] = <<>>
InOrder ==
  \A c \in Conns : \A i \in DOMAIN wire[c] :
    IF i > 1 THEN Follows(wire[c][i], wire[c][i - 1])
    ELSE \/ wire[c][1][2] = 1 /\ \A b \in 1 .. c - 1 : wire[b] = <<>>
         \/ \E b \in 1 .. c - 1 : Precedes(b, c) /\ Follows(wire[c][1], LastPiece(b))

\* Variables keep their types, and both directions are framed.  RT finds the
\* beginning of a message where it looks for one, whatever reconnect comes
\* between two calls of recv, unless the connection has a descriptor that was in
\* use before, by which recv cannot tell it (l.159).  No piece of a query is left
\* out, repeated or written between those of another one, on a connection or from
\* one to the next; what is not finished is dropped for good.
FramingKept ==
  /\ TypeOK
  /\ \A i \in DOMAIN recvbuf :
       ~Recurs(recvbuf[i][1]) => recvbuf[i][2] = ((i - 1) % Parts) + 1
  /\ InOrder

\* The limit of queries per connection may be passed by one query at most, and
\* only if the first one is left from the connection before (sockready returns
\* 1 after conn_cont without looking at the limit, l.386).
PerConnKept == PerConn > 0 => requests <= IF PerConn < 2 THEN 2 ELSE PerConn

\* The socket keeps what StreamSocket promises the sending thread: every query
\* is taken whole, refused, or kept and reported once or dropped, and sendto is
\* never called while a query is kept.
Sock == INSTANCE StreamSocket
          WITH None <- 0, pend <- IF is_sending THEN qid ELSE 0, done <- reported
KeepsPromise == Sock!SockSpec

\* ST is told to leave only a connection that is lost, unless the signal was
\* meant for an earlier one that had the same descriptor (l.170, l.181).
SignalMeant == recv_need_reconn = fd => WriteFails \/ Recurs(Current)

\* No signal to ST is wrong, and none is missing.  A connection that is lost is
\* replaced, also when ST has nothing to write: RT finds out and recv_need_reconn
\* reaches ST.  A query in progress does not stay so: it is sent or dropped,
\* unless the connections keep failing (up to the bound).
LossesHandled ==
  /\ []SignalMeant
  /\ []<>(state[Current] # "lost" \/ conn = MaxConns)
  /\ []<>(~is_sending \/ conn = MaxConns)
=============================================================================
