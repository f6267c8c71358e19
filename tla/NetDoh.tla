------------------------------- MODULE NetDoh -------------------------------
(***************************************************************************)
(* One DNS-over-HTTPS socket of net_doh.c between the sending thread (ST), *)
(* the receiving thread (RT) and a peer.  All of it but nqpc_recv is used  *)
(* under one mutex, so that a call is one step; either thread drops the    *)
(* connection, also from a callback of nghttp2, and sockready makes a new  *)
(* one.                                                                    *)
(*                                                                         *)
(* nghttp2 is external: a session writes a request in Parts pieces and     *)
(* hands the frames of the responses to the callbacks, in order.  A frame  *)
(* is [c, q, t, v]: connection, stream, type ("H" headers, "d" data, "D"   *)
(* data that ends the stream, "E" an end without data, "R" RST_STREAM or   *)
(* GOAWAY) and, for headers, what they say.                                *)
(***************************************************************************)
EXTENDS Integers, Sequences

CONSTANTS MaxConns,     \* bound: connections opened
          MaxQueries,   \* bound: queries handed to sendto
          PerConn,      \* num_queries_per_conn, 0 if there is no limit
          MaxDown,      \* bound: frames on the way from the peer
          MsgMax        \* DNS_MSG_MAX_SIZE, in chunks
ASSUME DohAssumption ==
  /\ MaxConns \in Nat \ {0} /\ MaxQueries \in Nat \ {0} /\ PerConn \in Nat
  /\ MsgMax \in Nat \ {0} /\ MaxDown \in Nat \ {0}

Parts == 2
Conns == 1 .. MaxConns
Queries == 1 .. MaxQueries
Says == {"dns", "html", "error"}  \* 200 with a DNS message, 200 without, 404
NoCode == "none"

VARIABLES
  \* the socket
  is_ready, is_conn_ready, is_ssl_ready, is_sending, do_reconnect, do_connect, qid,
  nqpc_sent, nqpc_recv, nqpc_ts,
  recvbuf,              \* frames not handed to nghttp2 yet
  dnsmsg,               \* the streams whose chunks are in dnsmsg
  dnsmsg_completed, http2_code, http2_is_dns,
  \* the threads
  s_pc, r_pc,
  \* nghttp2 and the peer
  outq,                 \* pieces of the request the session has not written
  conn,                 \* connections opened so far, the last one is in use
  fd_open,              \* sock->fd is not closed
  state,                \* what became of the connection
  stage,                \* how far the peer is with a query on it
  down,                 \* frames not read yet
  late,                 \* nqpc_ts has passed
  \* history
  reported,             \* queries taken whole or reported to sock->sent
  got,                  \* whose the last message was that recv returned
  said,                 \* the headers of the answers on this connection
  bare,                 \* an answer on it has ended without data
  carried,              \* a connection has begun with something of the last one
  requests              \* requests submitted on this connection

query  == <<is_sending, qid, outq, reported, requests>>
counts == <<nqpc_sent, nqpc_ts, late>>
session == <<is_ready, is_conn_ready, is_ssl_ready, do_reconnect, do_connect>>
link   == <<conn, fd_open, carried>>
message == <<dnsmsg, dnsmsg_completed, http2_code, http2_is_dns>>
peer   == <<state, stage, down, said, bare>>
vars == <<s_pc, r_pc, query, counts, session, link, message, recvbuf, nqpc_recv, peer, got>>

Stages == {"unasked", "asked", "headed", "body", "answered"}
Frames == [c : Conns, q : Queries, t : {"H", "d", "D", "E", "R"}, v : Says]

TypeOK ==
  /\ s_pc \in {"idle", "held", "send", "fatal"} /\ r_pc \in {"idle", "count", "fatal", "exited"}
  /\ is_ready \in BOOLEAN /\ is_conn_ready \in BOOLEAN /\ is_ssl_ready \in BOOLEAN
  /\ do_reconnect \in BOOLEAN /\ do_connect \in BOOLEAN /\ is_sending \in BOOLEAN
  /\ qid \in 0 .. MaxQueries /\ nqpc_sent \in Nat /\ nqpc_recv \in Nat
  /\ nqpc_ts \in BOOLEAN /\ late \in BOOLEAN
  /\ recvbuf \in Seq(Frames) /\ down \in Seq(Frames)
  /\ dnsmsg \in Seq(Queries) /\ Len(dnsmsg) <= MsgMax
  /\ dnsmsg_completed \in BOOLEAN /\ http2_is_dns \in BOOLEAN
  /\ http2_code \in {NoCode, "200", "404"}
  /\ outq \in 0 .. Parts /\ conn \in Conns /\ fd_open \in BOOLEAN /\ carried \in BOOLEAN
  /\ state \in {"connecting", "tcp", "up", "lost"}
  /\ stage \in [Queries -> Stages] /\ reported \subseteq Queries
  /\ said \in [Queries -> Says \union {NoCode}] /\ bare \in BOOLEAN
  /\ got \in {"nothing", "own", "foreign", "any"}
  /\ requests \in Nat

\* perf_net_doh_opensocket and perf__doh_connect
Init ==
  /\ s_pc = "idle" /\ r_pc = "idle"
  /\ is_ready = FALSE /\ is_conn_ready \in BOOLEAN /\ is_ssl_ready = FALSE
  /\ do_reconnect = FALSE /\ do_connect = FALSE /\ is_sending = FALSE /\ qid = 0
  /\ nqpc_sent = 0 /\ nqpc_recv = 0 /\ nqpc_ts = FALSE /\ late = FALSE
  /\ recvbuf = <<>> /\ down = <<>> /\ dnsmsg = <<>> /\ dnsmsg_completed = FALSE
  /\ http2_code = NoCode /\ http2_is_dns = FALSE
  /\ outq = 0 /\ conn = 1 /\ fd_open = TRUE /\ carried = FALSE
  /\ state = IF is_conn_ready THEN "tcp" ELSE "connecting"
  /\ stage = [q \in Queries |-> "unasked"] /\ reported = {}
  /\ said = [q \in Queries |-> NoCode] /\ bare = FALSE
  /\ got = "nothing"
  /\ requests = 0

\* perf_log_fatal has ended the process.
Ended == s_pc = "fatal" \/ r_pc \in {"fatal", "exited"}
LockFree == ~Ended /\ s_pc # "held"

-----------------------------------------------------------------------------
(* Dropping and making a connection *)

\* perf__doh_reconnect: the part that is the same wherever it is called.  The
\* descriptor is closed, the nghttp2 session is left to sockready.  Mutant:
\* is_sending is not reset.
DropSending == is_ready' = FALSE /\ UNCHANGED is_sending
DropFlags == is_ready' = FALSE /\ is_sending' = FALSE
Drop ==
  /\ DropFlags
  /\ is_conn_ready' = FALSE /\ is_ssl_ready' = FALSE /\ do_connect' = TRUE
  /\ fd_open' = FALSE
  /\ UNCHANGED conn

\* What perf__doh_reconnect does to the message being received.  Mutant: the
\* chunks are kept.
ClearedKept(m) == [m EXCEPT !.done = FALSE, !.code = NoCode, !.dns = FALSE]
Cleared(m) == [m EXCEPT !.msg = <<>>, !.done = FALSE, !.code = NoCode, !.dns = FALSE]

Message == [msg |-> dnsmsg, done |-> dnsmsg_completed, code |-> http2_code, dns |-> http2_is_dns]
SetMessage(m) ==
  /\ dnsmsg' = m.msg /\ dnsmsg_completed' = m.done
  /\ http2_code' = m.code /\ http2_is_dns' = m.dns

\* sockready after do_reconnect or do_connect was set: perf__doh_connect, which
\* replaces the session but leaves recvbuf alone.
ReadyConnect ==
  /\ s_pc = "idle" /\ LockFree /\ (do_reconnect \/ do_connect)
  /\ conn < MaxConns
  /\ IF do_reconnect THEN DropFlags /\ is_ssl_ready' = FALSE /\ SetMessage(Cleared(Message))
     ELSE UNCHANGED <<is_ready, is_sending, is_ssl_ready, message>>
  /\ do_reconnect' = FALSE /\ do_connect' = FALSE
  /\ is_conn_ready' \in BOOLEAN
  /\ conn' = conn + 1 /\ fd_open' = TRUE /\ outq' = 0
  /\ carried' = (carried \/ recvbuf # <<>>)
  /\ state' = IF is_conn_ready' THEN "tcp" ELSE "connecting"
  /\ stage' = [q \in Queries |-> "unasked"] /\ down' = <<>>
  /\ said' = [q \in Queries |-> NoCode] /\ bare' = FALSE
  /\ nqpc_sent' = 0 /\ nqpc_recv' = 0 /\ nqpc_ts' = FALSE /\ late' = FALSE
  /\ s_pc' = "held"
  /\ requests' = 0
  /\ UNCHANGED <<r_pc, qid, reported, recvbuf, got>>

-----------------------------------------------------------------------------
(* The sending thread *)

STFrame == UNCHANGED <<r_pc, recvbuf, nqpc_recv, got>>

\* ST is in sockready, holding the mutex, with a descriptor.
InReady == s_pc = "held" \/ (s_pc = "idle" /\ LockFree /\ ~do_reconnect /\ ~do_connect)

\* nghttp2_session_send writes some pieces of the request q, maybe all or none.
Sends(q, from, left) ==
  /\ left \in 0 .. from
  /\ outq' = left
  /\ stage' = IF q \in Queries /\ from > 0 /\ left = 0 THEN [stage EXCEPT ![q] = "asked"] ELSE stage
  /\ UNCHANGED <<state, down, said, bare>>

\* The limit of queries per connection.  Mutant: one query more.
LimitReachedLate(sent) == PerConn > 0 /\ sent > PerConn
LimitReached(sent) == PerConn > 0 /\ sent >= PerConn

\* There is more to write.
Unsent(n) == n > 0

\* is_sending after the request has been sent or not.  Mutant: it is not reset.
SendingStays(sent) == is_sending
SendingAfter(sent) == is_sending /\ ~sent

\* A ready session is flushed; a request that has left is reported.
Flush ==
  /\ InReady /\ is_ready
  /\ \E left \in 0 .. outq : Sends(qid, outq, left)
  /\ LET sent == is_sending /\ ~Unsent(outq')
         n == IF sent THEN nqpc_sent + 1 ELSE nqpc_sent
     IN  /\ is_sending' = SendingAfter(sent)
         /\ reported' = IF sent THEN reported \union {qid} ELSE reported
         /\ nqpc_sent' = n
         /\ IF is_sending /\ ~sent THEN s_pc' = "idle" /\ UNCHANGED <<nqpc_ts, do_reconnect>>
            ELSE /\ s_pc' = IF LimitReached(n) THEN "idle" ELSE "send"
                 /\ nqpc_ts' = (nqpc_ts \/ LimitReached(n))
                 /\ do_reconnect' = (LimitReached(n) /\ (nqpc_recv >= n \/ late))
  /\ UNCHANGED <<qid, requests, late, is_ready, is_conn_ready, is_ssl_ready, do_connect, link,
                 message>>
  /\ STFrame

\* nghttp2_session_send fails: _http2_send_cb has dropped the connection, or has
\* only logged the error, and the next sockready drops it (again).
SendsFail ==
  /\ state = "lost" /\ do_reconnect' = TRUE
  /\ \/ Drop /\ SetMessage(Cleared(Message)) /\ UNCHANGED carried
     \/ UNCHANGED <<is_ready, is_sending, is_conn_ready, is_ssl_ready, do_connect, link, message>>
  /\ UNCHANGED <<reported, counts, peer>>

FlushFail ==
  /\ InReady /\ is_ready /\ outq > 0
  /\ SendsFail /\ s_pc' = "idle"
  /\ UNCHANGED <<qid, outq, requests>> /\ STFrame

\* Not writable in time, or SSL_connect wants more
Shaking == InReady /\ ~is_ready
ShakeWant ==
  /\ Shaking /\ s_pc' = "idle"
  /\ is_conn_ready' \in {is_conn_ready, state # "connecting"}
  /\ is_conn_ready => is_conn_ready'
  /\ UNCHANGED <<query, counts, is_ready, is_ssl_ready, do_reconnect, do_connect, link, message,
                 peer>>
  /\ STFrame

\* SO_ERROR, SSL_connect fails or the protocol is not h2
ShakeFail ==
  /\ Shaking /\ state \in {"tcp", "lost"} /\ s_pc' = "idle"
  /\ do_reconnect' = TRUE
  /\ is_conn_ready' \in {is_conn_ready, TRUE}
  /\ UNCHANGED <<query, counts, is_ready, is_ssl_ready, do_connect, link, message, peer>>
  /\ STFrame

\* SETTINGS are submitted, and sockready returns 1.
ShakeDone ==
  /\ Shaking /\ state = "tcp"
  /\ is_conn_ready' = TRUE /\ is_ssl_ready' = TRUE /\ is_ready' = TRUE
  /\ state' = "up" /\ s_pc' = "send"
  /\ UNCHANGED <<query, counts, do_reconnect, do_connect, link, message, stage, down, said, bare>>
  /\ STFrame

\* sendto of the next query
InSend == s_pc = "send" /\ LockFree /\ qid < MaxQueries

\* RT has dropped the connection: the query is lost.
SendLost ==
  /\ InSend /\ ~is_ready /\ s_pc' = "idle"
  /\ UNCHANGED <<query, counts, session, link, message, peer>> /\ STFrame

\* _submit_dns_query_get or _submit_dns_query_post: the session has a request,
\* all Parts of which are to be written.
Submit == qid' = qid + 1 /\ requests' = requests + 1

SendTo ==
  /\ InSend /\ is_ready
  /\ IF is_sending
     THEN s_pc' = "fatal" /\ UNCHANGED <<query, nqpc_sent, peer>>
     ELSE /\ Submit
          /\ \E left \in 0 .. Parts : Sends(qid', Parts, left)
          /\ is_sending' = Unsent(outq')
          /\ reported' = IF ~is_sending' THEN reported \union {qid'} ELSE reported
          /\ nqpc_sent' = IF ~is_sending' THEN nqpc_sent + 1 ELSE nqpc_sent
          /\ s_pc' = "idle"
  /\ UNCHANGED <<nqpc_ts, late, session, link, message>> /\ STFrame

SendFail ==
  /\ InSend /\ is_ready /\ ~is_sending /\ Submit
  /\ SendsFail /\ s_pc' = "idle"
  /\ outq' = Parts
  /\ STFrame

\* do_send has no query to send.
SendNothing ==
  /\ s_pc = "send" /\ s_pc' = "idle"
  /\ UNCHANGED <<query, counts, session, link, message, peer>> /\ STFrame

-----------------------------------------------------------------------------
(* The receiving thread *)

RTFrame == UNCHANGED <<s_pc, qid, outq, reported, requests, counts, do_reconnect, state, stage, said,
                       bare>>
NoDrop == UNCHANGED <<is_ready, is_sending, is_conn_ready, is_ssl_ready, do_connect, conn, fd_open>>
Recving == r_pc = "idle" /\ LockFree /\ is_ready

\* The callbacks.  A state of the message also says whether nghttp2 goes on:
\* "paused" by a chunk that must wait, "error", or the process has "exited".
\* drops counts the calls of perf__doh_reconnect.
Go(m) == m.end = "no"

\* _http2_header_cb
Header(m, f) ==
  [m EXCEPT !.code = IF f.v = "error" THEN "404" ELSE "200", !.dns = @ \/ f.v = "dns"]

\* _http2_data_chunk_recv_cb
Chunk(m, f) ==
  IF m.done THEN [m EXCEPT !.end = "paused"]
  ELSE IF Len(m.msg) = MsgMax THEN [m EXCEPT !.end = "error"]
  ELSE [m EXCEPT !.msg = Append(@, f.q)]

\* _http2_frame_recv_cb for the end of a stream and for RST_STREAM, GOAWAY
EndStream(m) == IF m.done THEN [m EXCEPT !.end = "exited"] ELSE [m EXCEPT !.done = TRUE]
Reset(m) == [Cleared(m) EXCEPT !.drops = @ + 1]

\* nghttp2_session_mem_recv on one frame; a frame of another connection is not
\* one that the session can take.
OnFrame(m, f) ==
  IF ~Go(m) THEN m
  ELSE LET n == IF f.c # conn THEN [m EXCEPT !.end = "error"]
                ELSE CASE f.t = "H" -> Header(m, f)
                       [] f.t = "d" -> Chunk(m, f)
                       [] f.t = "D" -> LET k == Chunk(m, f) IN IF Go(k) THEN EndStream(k) ELSE k
                       [] f.t = "E" -> EndStream(m)
                       [] f.t = "R" -> Reset(m)
       IN  IF Go(n) THEN [n EXCEPT !.used = @ + 1] ELSE n
Before == [msg |-> dnsmsg, done |-> dnsmsg_completed, code |-> http2_code, dns |-> http2_is_dns,
           end |-> "no", drops |-> 0, used |-> 0]
MemRecv(frames) ==
  LET after[n \in 0 .. Len(frames)] == IF n = 0 THEN Before ELSE OnFrame(after[n - 1], frames[n])
  IN  after[Len(frames)]

\* What a completed message comes to
Judge(m) ==
  LET empty == [m EXCEPT !.msg = <<>>, !.done = FALSE] IN
  CASE ~m.done -> [returned |-> FALSE, m |-> m]
    [] m.done /\ ~m.dns ->
         [returned |-> FALSE, m |-> [empty EXCEPT !.code = NoCode, !.dns = FALSE]]
    [] m.done /\ m.dns /\ m.code # "200" ->
         [returned |-> FALSE, m |-> [empty EXCEPT !.code = NoCode]]
    [] m.done /\ m.dns /\ m.code = "200" -> [returned |-> TRUE, m |-> empty]

\* recv: what SSL_read brings is added to recvbuf and handed to nghttp2.  When a
\* callback pauses, what is left stays in recvbuf; the library may count the
\* chunk itself as taken, and only the end of its stream is still to come.
Rest(frames, m) ==
  LET rest == SubSeq(frames, m.used + 1, Len(frames))
      ended == IF Head(rest).t = "D" THEN <<[Head(rest) EXCEPT !.t = "E"]>> ELSE <<>>
  IN  IF m.end = "paused" THEN {rest, ended \o Tail(rest)} ELSE {rest}

\* Whose a message is: told only of the one request on a connection
Whose(msg) ==
  CASE requests # 1 -> "any"
    [] requests = 1 /\ said[qid] = "dns" /\ (\A i \in DOMAIN msg : msg[i] = qid) -> "own"
    [] OTHER -> "foreign"

\* After an error errno is what it was, and do_recv may end the process.
Recv ==
  /\ Recving /\ state \in {"up", "lost"}
  /\ \E n \in 0 .. Len(down) :
       /\ n > 0 \/ recvbuf # <<>>
       /\ n = 0 => state = "up"
       /\ LET frames == recvbuf \o SubSeq(down, 1, n)
              m == MemRecv(frames)
              j == Judge(m)
          IN  /\ down' = SubSeq(down, n + 1, Len(down))
              /\ IF m.drops > 0 THEN Drop ELSE NoDrop
              /\ carried' = (carried \/ \E i \in 1 .. m.used - 1 : frames[i].t = "R")
              /\ IF m.end \in {"error", "exited"}
                 THEN /\ r_pc' \in IF m.end = "exited" THEN {"exited"} ELSE {"idle", "fatal"}
                      /\ recvbuf' = frames
                      /\ SetMessage(m)
                      /\ UNCHANGED got
                 ELSE /\ recvbuf' \in Rest(frames, m)
                      /\ SetMessage(j.m)
                      /\ r_pc' = IF j.returned /\ PerConn > 0 THEN "count" ELSE "idle"
                      /\ got' = IF j.returned THEN Whose(m.msg) ELSE got
  /\ UNCHANGED nqpc_recv /\ RTFrame

\* SSL_read finds the connection closed or broken, and it is dropped.  Mutant: it
\* is left to the sender.
RecvDropNot == Recving /\ state = "lost" /\ UNCHANGED vars
RecvDrop ==
  /\ Recving /\ state = "lost"
  /\ Drop /\ SetMessage(Cleared(Message)) /\ UNCHANGED carried
  /\ UNCHANGED <<r_pc, recvbuf, nqpc_recv, down, got>> /\ RTFrame

\* Another error, for which do_recv ends the process
RecvFatal ==
  /\ Recving /\ state = "lost" /\ r_pc' = "fatal"
  /\ NoDrop /\ UNCHANGED <<carried, message, recvbuf, nqpc_recv, down, got>> /\ RTFrame

\* nqpc_recv is counted after the unlock.
RecvCount ==
  /\ r_pc = "count" /\ ~Ended /\ r_pc' = "idle"
  /\ nqpc_recv' = nqpc_recv + 1
  /\ NoDrop /\ UNCHANGED <<carried, message, recvbuf, down, got>> /\ RTFrame

-----------------------------------------------------------------------------
(* The peer, and time *)

PeerFrame == UNCHANGED <<s_pc, r_pc, query, nqpc_sent, nqpc_ts, session, link, message, recvbuf,
                         nqpc_recv, got>>
Accept ==
  /\ ~Ended /\ state = "connecting" /\ state' = "tcp"
  /\ UNCHANGED <<stage, down, said, bare, late>> /\ PeerFrame

\* The next frame of the answer to q
Frame(q, t, v) == [c |-> conn, q |-> q, t |-> t, v |-> v]
Answer(q, from, t, v, to) ==
  /\ ~Ended /\ state = "up" /\ stage[q] \in from /\ Len(down) < MaxDown
  /\ stage' = [stage EXCEPT ![q] = to]
  /\ down' = Append(down, Frame(q, t, v))
  /\ said' = IF t = "H" THEN [said EXCEPT ![q] = v] ELSE said
  /\ bare' = (bare \/ t = "E")
  /\ UNCHANGED <<state, late>> /\ PeerFrame
Respond ==
  \E q \in Queries, v \in Says :
    \/ Answer(q, {"asked"}, "H", v, "headed")
    \/ v = "dns" /\ \/ Answer(q, {"headed"}, "d", v, "body")
                    \/ Answer(q, {"headed", "body"}, "D", v, "answered")
                    \/ Answer(q, {"headed", "body"}, "E", v, "answered")
                    \/ Answer(q, {"asked", "headed", "body"}, "R", v, "answered")
Lose ==
  /\ ~Ended /\ state # "lost" /\ state' = "lost"
  /\ UNCHANGED <<stage, down, said, bare, late>> /\ PeerFrame
Late ==
  /\ ~Ended /\ nqpc_ts /\ ~late /\ late' = TRUE
  /\ UNCHANGED <<peer>> /\ PeerFrame

-----------------------------------------------------------------------------
SenderSteps == ReadyConnect \/ Flush \/ FlushFail \/ ShakeWant \/ ShakeFail \/ ShakeDone
            \/ SendLost \/ SendTo \/ SendFail \/ SendNothing
Next ==
  \/ ReadyConnect \/ Flush \/ FlushFail \/ ShakeWant \/ ShakeFail \/ ShakeDone
  \/ SendLost \/ SendTo \/ SendFail \/ SendNothing
  \/ Recv \/ RecvDrop \/ RecvFatal \/ RecvCount
  \/ Accept \/ Respond \/ Lose \/ Late
Spec == Init /\ [][Next]_vars

\* do_send calls sockready again and again, and do_recv calls recv, which sees in
\* the end that a connection is lost.
Fairness == WF_vars(SenderSteps) /\ WF_vars(RecvDrop \/ RecvCount)
FairSpec == Spec /\ Fairness

-----------------------------------------------------------------------------
(* Properties *)

\* A descriptor that recv or sockready uses is open: perf__doh_reconnect, which
\* closes it, also makes the socket not ready (l.243), whoever calls it.
ReadyMeansOpen == is_ready \/ is_conn_ready => fd_open

\* sendto is never "called when sending" (l.573), although RT may drop the
\* connection between sockready and sendto.
NeverCalledWhenSending == s_pc # "fatal"

\* The socket is used only while it is open and nothing is being sent.
UsedWhenFree == ReadyMeansOpen /\ NeverCalledWhenSending

\* No more requests on a connection than -O num-queries-per-conn.
PerConnKept == PerConn > 0 => requests <= PerConn

\* Variables keep their types, and what recv makes of the answers is right.  With
\* a single request on a connection it returns nothing but its answer, and only a
\* DNS message: nothing of an earlier connection is in it, unless frames were
\* carried over.  The chunks in dnsmsg are not more than a message (l.911), and the
\* fatal "frame received when already having a dns msg" (l.853) is not met while
\* every answer ends with data: the next chunk waits for recv.
AnswersKept ==
  /\ TypeOK
  /\ ~carried => got # "foreign"
  /\ r_pc = "exited" => bare

\* The socket does what do_send relies on.
Sock == INSTANCE StreamSocket WITH
          None <- 0, pend <- IF is_sending THEN qid ELSE 0, done <- reported
KeepsPromise == Sock!SockSpec

\* A connection that is lost is replaced, also when there is nothing to write, and
\* a query in progress is sent or dropped in the end.
LossesHandled ==
  /\ []<>(state # "lost" \/ conn = MaxConns \/ Ended)
  /\ []<>(~is_sending \/ conn = MaxConns \/ Ended)
=============================================================================
