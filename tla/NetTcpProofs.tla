---------------------------- MODULE NetTcpProofs ----------------------------
(***************************************************************************)
(* The descriptors of a TCP socket, what it promises the sending thread,   *)
(* the framing of both directions and the number of queries per            *)
(* connection, for every number of connections and queries and every       *)
(* limit.                                                                  *)
(***************************************************************************)
EXTENDS NetTcp, ListLemmas

\* The variables of the sending thread that the theorems depend on; the other
\* thread and the peer change none of them.
own == <<s_pc, s_fd, fd, desc, conn, is_sending, sending, qid, reported>>

Types ==
  /\ s_pc \in {"idle", "reset", "open", "store", "close", "flush", "wait", "send"}
  /\ s_fd \in Fds /\ fd \in Fds /\ desc \in [Fds -> Conns \union {NoConn}] /\ conn \in Conns
  /\ is_sending \in BOOLEAN /\ sending \in 0 .. Parts - 1 /\ qid \in 0 .. MaxQueries
  /\ reported \subseteq Queries

\* In a reconnect two descriptors are open, the new and the old one; which of them
\* is in s_fd changes with ConnStore.
Descriptors ==
  CASE s_pc = "store" -> s_fd # fd /\ desc[s_fd] = conn /\ desc[fd] # NoConn
    [] s_pc = "close" -> s_fd # fd /\ desc[fd] = conn /\ desc[s_fd] # NoConn
    [] OTHER -> desc[fd] = conn /\ \A d \in Fds : desc[d] # NoConn <=> d = fd

\* A query in progress is the last one that was handed over and is not reported,
\* nor is any later one; sendto is called with none in progress.
Pending ==
  /\ \A q \in reported : q <= qid
  /\ is_sending => qid # 0 /\ qid \notin reported
  /\ s_pc = "send" => ~is_sending

\* The inductive invariant of the descriptors and of the query in progress
TcpInv == Types /\ Descriptors /\ Pending

\* A connection knows its descriptor, and only connections that were opened have
\* pieces on the way.
Links ==
  /\ \A d \in Fds : desc[d] # NoConn => fdOf[desc[d]] = d /\ desc[d] <= conn
  /\ \A c \in Conns : c > conn => down[c] = <<>> /\ wire[c] = <<>>
  /\ \A c \in Conns : \A i \in 1 .. Len(down[c]) : down[c][i][1] = c

\* The pieces that RT may still read from a descriptor, after the n that it has
\* buffered from it, begin where the buffer ends: the connection is the first on
\* its descriptor, so that recv has noticed the change of sock->fd.
Buffered(d) == IF d = recvfd THEN Len(recvbuf) ELSE 0
Readable(d) == desc[d] # NoConn /\ (d \in {fd, recvfd} \/ s_pc = "store")
AlignedAt(d) ==
  Readable(d) /\ ~Recurs(desc[d]) =>
    /\ (Buffered(d) + Len(down[desc[d]])) % Parts = 0
    /\ \A i \in 1 .. Len(down[desc[d]]) :
         down[desc[d]][i][2] = ((Buffered(d) + i - 1) % Parts) + 1
Aligned ==
  /\ r_fd = recvfd /\ \E b \in 1 .. conn : fdOf[b] = recvfd
  /\ have_more \/ r_pc = "parse" => Len(recvbuf) >= Parts
  /\ s_pc = "store" /\ s_fd = recvfd => Recurs(conn)
  /\ \A i \in 1 .. Len(recvbuf) :
       /\ recvbuf[i][1] <= conn
       /\ ~Recurs(recvbuf[i][1]) => recvbuf[i][2] = ((i - 1) % Parts) + 1
  /\ \A d \in Fds : AlignedAt(d)

\* RT has stored, or is about to store, the descriptor of a connection that is
\* lost, or one that has been given to another connection since.
Leaves(d) == desc[d] # NoConn => state[desc[d]] = "lost" \/ Recurs(desc[d])
Signals ==
  /\ r_pc = "signal" => Leaves(r_fd)
  /\ recv_need_reconn # NoFd =>
       Leaves(recv_need_reconn) /\ \E b \in 1 .. conn : fdOf[b] = recv_need_reconn

\* What was written last is the beginning of the query in progress, or belongs to
\* an earlier query.
Newest(b) == wire[b] # <<>> /\ \A a \in b + 1 .. MaxConns : wire[a] = <<>>
Continues(piece) ==
  IF is_sending /\ sending > 0 THEN piece = <<qid, sending>>
  ELSE piece[1] <= qid /\ (is_sending => piece[1] < qid)
WireOrder ==
  /\ InOrder
  /\ \/ \E b \in 1 .. conn : Newest(b) /\ Continues(LastPiece(b))
     \/ (\A c \in Conns : wire[c] = <<>>) /\ (is_sending => sending = 0)

\* The requests on the connection are counted in nqpc_sent, but for the one in
\* progress; one that was not begun waits for a new connection.
MostRequests == IF PerConn < 2 THEN 2 ELSE PerConn
Counted ==
  /\ requests \in Nat /\ (PerConn > 0 => requests <= MostRequests)
  /\ s_pc # "open" => requests <= nqpc_sent + (IF is_sending /\ sending > 0 THEN 1 ELSE 0)
  /\ s_pc \in {"open", "store", "close", "wait"} \/ ~is_ready => nqpc_sent = 0
  /\ s_pc \in {"store", "close", "wait"} \/ ~is_ready => requests = 0
  /\ s_pc \in {"flush", "send"} => is_ready
  /\ PerConn > 0 /\ s_pc = "send" => nqpc_sent < MostRequests
  /\ is_sending /\ sending = 0 =>
       requests = 0 \/ (need_reconnect /\ s_pc \in {"idle", "reset", "open"})

LEMMA InitHolds == Init => TcpInv
<1> SUFFICES ASSUME Init PROVE TcpInv
  OBVIOUS
<1>1. Types
  <2>1. 1 \in Conns /\ 0 \in 0 .. MaxQueries /\ 0 \in 0 .. Parts - 1
    BY TcpAssumption DEF Conns, Parts
  <2>2. desc \in [Fds -> Conns \union {NoConn}]
    BY <2>1 DEF Init
  <2> QED BY <2>1, <2>2, Zenon DEF Init, Types, Fds
<1>2. Descriptors
  BY DEF Init, Descriptors, Fds, NoConn
<1>3. Pending
  BY DEF Init, Pending
<1> QED BY <1>1, <1>2, <1>3 DEF TcpInv

-----------------------------------------------------------------------------
(* The descriptors *)

LEMMA DescriptorStep ==
  ASSUME TcpInv, ReadyTop \/ Connect \/ Flush \/ Wait \/ SendTo
  PROVE  /\ Descriptors'
         /\ s_fd' \in Fds /\ fd' \in Fds /\ desc' \in [Fds -> Conns \union {NoConn}] /\ conn' \in Conns
<1> USE DEF Fds, NoConn
<1>1. /\ s_fd \in Fds /\ fd \in Fds /\ desc \in [Fds -> Conns \union {NoConn}] /\ conn \in Conns
      /\ Descriptors
  BY DEF TcpInv, Types
<1>2. CASE ConnOpen
  <2>1. PICK d \in Freed : s_fd' = d /\ desc' = [desc EXCEPT ![d] = conn']
    BY <1>2, Zenon DEF ConnOpen
  <2>2. s_pc = "open" /\ s_pc' = "store" /\ conn' = conn + 1 /\ conn < MaxConns /\ fd' = fd
    BY <1>2 DEF ConnOpen
  <2>3. d \in Fds /\ d # fd /\ desc[fd] # NoConn
    BY <1>1, <2>1, <2>2 DEF Freed, Descriptors, Conns
  <2>4. conn' \in Conns
    BY <1>1, <2>2, TcpAssumption DEF Conns
  <2> QED BY <1>1, <2>1, <2>2, <2>3, <2>4 DEF Descriptors
<1>3. CASE ConnStore
  <2>1. s_pc = "store" /\ s_pc' = "close" /\ fd' = s_fd /\ s_fd' = fd /\ desc' = desc /\ conn' = conn
    BY <1>3 DEF ConnStore
  <2> QED BY <1>1, <2>1 DEF Descriptors
<1>4. CASE ConnClose
  <2>1. /\ s_pc = "close" /\ s_pc' \notin {"store", "close"} /\ desc' = [desc EXCEPT ![s_fd] = NoConn]
        /\ fd' = fd /\ s_fd' = s_fd /\ conn' = conn
    BY <1>4 DEF ConnClose, Closed
  <2>2. s_fd # fd /\ desc[fd] = conn /\ conn # NoConn
    BY <1>1, <2>1 DEF Descriptors, Conns
  <2>3. desc'[fd] = conn /\ desc'[s_fd] = NoConn
    BY <1>1, <2>1, <2>2
  <2>4. \A d \in Fds : d = fd \/ d = s_fd
    BY <1>1, <2>2
  <2> QED BY <1>1, <2>1, <2>2, <2>3, <2>4 DEF Descriptors
<1>5. CASE ReadyTop \/ ConnReset \/ Flush \/ Wait \/ SendTo
  <2>1. /\ s_pc \notin {"store", "close"} /\ s_pc' \notin {"store", "close"}
        /\ s_fd' = s_fd /\ fd' = fd /\ desc' = desc /\ conn' = conn
    BY <1>5, Zenon DEF ReadyTop, ConnReset, Flush, FlushNothing, FlushWrite, FlushAgain, FlushError, AtLimit, Wait,
       WaitTimedOut, WaitError, WaitNothing, WaitWrite, WaitNotWritten, Writable, SendTo, SendReconnect, SendWrite,
       SendNothing, link
  <2> QED BY <1>1, <2>1 DEF Descriptors
<1> QED BY <1>2, <1>3, <1>4, <1>5 DEF Connect

-----------------------------------------------------------------------------
(* The query in progress *)

\* What a step of ST may do with queries: nothing but to let one pass, to finish or
\* drop the one in progress, to take the next one whole or to keep it.
Nothing ==
  /\ reported' = reported /\ is_sending' = is_sending
  /\ qid' = qid \/ (~is_sending /\ qid' = qid + 1 /\ qid' \in Queries)
Dropped == reported' = reported /\ ~is_sending' /\ qid' = qid
Finished == is_sending /\ ~is_sending' /\ qid' = qid /\ reported' = reported \union {qid}
Taken == ~is_sending /\ ~is_sending' /\ qid' = qid + 1 /\ qid' \in Queries /\ reported' = reported \union {qid'}
Kept == ~is_sending /\ is_sending' /\ qid' = qid + 1 /\ qid' \in Queries /\ reported' = reported

QueryStep == (Nothing \/ Dropped \/ Finished \/ Taken \/ Kept) /\ is_sending' \in BOOLEAN

LEMMA WrittenStep ==
  ASSUME NEW q, NEW from \in 0 .. Parts - 1, NEW to \in from + 1 .. Parts, Written(q, from, to)
  PROVE  /\ is_sending' \in BOOLEAN
         /\ \/ is_sending' /\ reported' = reported /\ to \in 1 .. Parts - 1
            \/ ~is_sending' /\ reported' = reported \union {q} /\ to = Parts
<1>1. \/ to \in 1 .. Parts - 1 /\ to < Parts /\ to # Parts
      \/ to = Parts /\ ~(to < Parts)
  BY DEF Parts
<1>2. (to < Parts) \in BOOLEAN
  BY <1>1
<1> QED BY <1>1, <1>2, Zenon DEF Written

LEMMA ContinueStep ==
  ASSUME Types, is_sending, NEW to \in sending + 1 .. Parts, Continue(to), qid' = qid
  PROVE  QueryStep /\ sending' \in 0 .. Parts - 1 /\ (to = Parts => ~is_sending')
<1>1. sending \in 0 .. Parts - 1 /\ Written(qid, sending, to) /\ sending' = to % Parts
  BY DEF Types, Continue
<1>2. sending' \in 0 .. Parts - 1
  BY <1>1 DEF Parts
<1>3. /\ is_sending' \in BOOLEAN
      /\ \/ is_sending' /\ reported' = reported /\ to \in 1 .. Parts - 1
         \/ ~is_sending' /\ reported' = reported \union {qid} /\ to = Parts
  BY <1>1, WrittenStep
<1>4. to \in 1 .. Parts - 1 => to # Parts
  BY DEF Parts
<1> QED BY <1>2, <1>3, <1>4, Zenon DEF QueryStep, Nothing, Finished, Types

\* Every step of ST does one of these things, and leads to sendto only with nothing
\* in progress.
LEMMA SenderStep ==
  ASSUME TcpInv, ReadyTop \/ Connect \/ Flush \/ Wait \/ SendTo
  PROVE  /\ QueryStep /\ sending' \in 0 .. Parts - 1 /\ (s_pc' = "send" => ~is_sending')
         /\ s_pc' \in {"idle", "reset", "open", "store", "close", "flush", "wait", "send"}
<1>1. Types /\ is_sending \in BOOLEAN /\ sending \in 0 .. Parts - 1 /\ qid \in 0 .. MaxQueries
  BY DEF TcpInv, Types
<1>2. s_pc = "send" => ~is_sending
  BY DEF TcpInv, Pending
<1>3. CASE ReadyTop \/ ConnReset \/ ConnOpen \/ ConnStore \/ FlushAgain \/ FlushError \/ WaitTimedOut \/ WaitError \/ WaitNotWritten
  <2>1. /\ UNCHANGED <<reported, is_sending, qid, sending>>
        /\ s_pc' \in {"idle", "reset", "open", "store", "close", "flush", "wait"}
    BY <1>3 DEF ReadyTop, ConnReset, ConnOpen, ConnStore, FlushAgain, FlushError, WaitTimedOut, WaitError,
       WaitNotWritten, query
  <2> QED BY <1>1, <2>1 DEF QueryStep, Nothing
<1>4. CASE FlushNothing \/ WaitNothing
  <2>1. ~is_sending /\ UNCHANGED <<reported, is_sending, qid, sending>> /\ s_pc' \in {"idle", "send"}
    BY <1>4 DEF FlushNothing, WaitNothing, AtLimit, query
  <2> QED BY <1>1, <2>1 DEF QueryStep, Nothing
<1>5. CASE ConnClose
  <2>1. /\ UNCHANGED <<reported, qid>> /\ s_pc' \in {"flush", "wait"}
        /\ \/ UNCHANGED <<is_sending, sending>>
           \/ sending' = 0 /\ is_sending' = (is_sending /\ sending = 0)
    BY <1>5 DEF ConnClose
  <2>2. 0 \in 0 .. Parts - 1
    BY DEF Parts
  <2>3. is_sending' \in BOOLEAN /\ (is_sending' = is_sending \/ ~is_sending')
    BY <1>1, <2>1, Zenon
  <2> QED BY <1>1, <2>1, <2>2, <2>3, Zenon DEF QueryStep, Nothing, Dropped
<1>6. CASE FlushWrite
  <2>1. PICK to \in sending + 1 .. Parts :
          /\ Continue(to)
          /\ IF to = Parts THEN AtLimit(nqpc_sent') ELSE s_pc' = "idle" /\ UNCHANGED limits
    BY <1>6 DEF FlushWrite
  <2>2. is_sending /\ qid' = qid
    BY <1>6 DEF FlushWrite
  <2>3. QueryStep /\ sending' \in 0 .. Parts - 1 /\ (to = Parts => ~is_sending')
    BY <1>1, <2>1, <2>2, ContinueStep
  <2> QED BY <2>1, <2>3 DEF AtLimit
<1>7. CASE WaitWrite
  <2>1. PICK to \in sending + 1 .. Parts : Continue(to) /\ s_pc' = IF to = Parts THEN "send" ELSE "idle"
    BY <1>7 DEF WaitWrite
  <2>2. is_sending /\ qid' = qid
    BY <1>7 DEF WaitWrite
  <2>3. QueryStep /\ sending' \in 0 .. Parts - 1 /\ (to = Parts => ~is_sending')
    BY <1>1, <2>1, <2>2, ContinueStep
  <2> QED BY <2>1, <2>3
<1>8. CASE SendReconnect
  <2>1. /\ ~is_sending /\ is_sending' = TRUE /\ qid' = qid + 1 /\ qid < MaxQueries /\ reported' = reported
        /\ sending' = 0 /\ s_pc' = "idle"
    BY <1>2, <1>8 DEF SendReconnect
  <2>2. qid' \in Queries /\ 0 \in 0 .. Parts - 1
    BY <1>1, <2>1, TcpAssumption DEF Queries, Parts
  <2> QED BY <2>1, <2>2 DEF QueryStep, Kept
<1>9. CASE SendWrite
  <2>1. PICK to \in 1 .. Parts : Written(qid', 0, to) /\ Progress(to)
    BY <1>9 DEF SendWrite
  <2>2. ~is_sending /\ qid' = qid + 1 /\ qid < MaxQueries /\ s_pc' = "idle"
    BY <1>2, <1>9 DEF SendWrite
  <2>3. qid' \in Queries
    BY <1>1, <2>2, TcpAssumption DEF Queries
  <2>4. 0 \in 0 .. Parts - 1 /\ to \in 0 + 1 .. Parts
    BY DEF Parts
  <2>5. /\ is_sending' \in BOOLEAN
        /\ \/ is_sending' /\ reported' = reported /\ to \in 1 .. Parts - 1
           \/ ~is_sending' /\ reported' = reported \union {qid'} /\ to = Parts
    BY <2>1, <2>4, WrittenStep
  <2>6. sending' \in 0 .. Parts - 1
    BY <1>1, <2>1 DEF Progress, Parts
  <2> QED BY <2>2, <2>3, <2>5, <2>6 DEF QueryStep, Kept, Taken
<1>10. CASE SendNothing
  <2>1. /\ ~is_sending /\ UNCHANGED <<reported, is_sending, sending>> /\ s_pc' = "idle"
        /\ qid' = qid \/ (qid' = qid + 1 /\ qid' \in Queries)
    BY <1>2, <1>10 DEF SendNothing
  <2> QED BY <1>1, <2>1 DEF QueryStep, Nothing
<1> QED BY <1>3, <1>4, <1>5, <1>6, <1>7, <1>8, <1>9, <1>10 DEF Connect, Flush, Wait, SendTo

LEMMA NextKept == TcpInv /\ [Next]_vars => TcpInv'
<1> SUFFICES ASSUME TcpInv, [Next]_vars PROVE TcpInv'
  OBVIOUS
<1>1. CASE ReadyTop \/ Connect \/ Flush \/ Wait \/ SendTo
  <2>1. /\ QueryStep /\ sending' \in 0 .. Parts - 1 /\ (s_pc' = "send" => ~is_sending')
        /\ s_pc' \in {"idle", "reset", "open", "store", "close", "flush", "wait", "send"}
    BY <1>1, SenderStep
  <2>2. /\ Descriptors'
        /\ s_fd' \in Fds /\ fd' \in Fds /\ desc' \in [Fds -> Conns \union {NoConn}] /\ conn' \in Conns
    BY <1>1, DescriptorStep
  <2>3. /\ is_sending \in BOOLEAN /\ is_sending' \in BOOLEAN /\ qid \in 0 .. MaxQueries
        /\ reported \subseteq Queries /\ MaxQueries \in Nat
        /\ \A q \in reported : q <= qid /\ q \in Nat
        /\ is_sending => qid # 0 /\ qid \notin reported
    BY <2>1, TcpAssumption DEF TcpInv, Types, Pending, QueryStep, Queries
  <2>4. /\ qid' \in 0 .. MaxQueries /\ reported' \subseteq Queries
        /\ \A q \in reported' : q <= qid'
        /\ is_sending' => qid' # 0 /\ qid' \notin reported'
    <3>1. CASE Nothing
      BY <2>3, <3>1 DEF Nothing, Queries
    <3>2. CASE Dropped
      BY <2>3, <3>2 DEF Dropped
    <3>3. CASE Finished
      BY <2>3, <3>3 DEF Finished, Queries
    <3>4. CASE Taken
      BY <2>3, <3>4 DEF Taken, Queries
    <3>5. CASE Kept
      BY <2>3, <3>5 DEF Kept, Queries
    <3> QED BY <2>1, <3>1, <3>2, <3>3, <3>4, <3>5 DEF QueryStep
  <2> QED BY <2>1, <2>2, <2>3, <2>4 DEF TcpInv, Types, Pending
<1>2. CASE RT \/ Peer \/ UNCHANGED vars
  <2>1. UNCHANGED own
    BY <1>2 DEF RT, RTFrame, Peer, PeerFrame, vars, own, query, link
  <2> QED BY <2>1 DEF own, TcpInv, Types, Descriptors, Pending
<1> QED BY <1>1, <1>2 DEF Next, ST

LEMMA Inductive == Spec => []TcpInv
<1> QED BY InitHolds, NextKept, PTL DEF Spec

-----------------------------------------------------------------------------
(* The types *)

\* What a write adds to a connection
Pieces(q, from, to) == [k \in 1 .. to - from |-> <<q, from + k>>]
Piece == Queries \X (1 .. Parts)

LEMMA PiecesAre ==
  ASSUME NEW q \in Queries, NEW from \in 0 .. Parts - 1, NEW to \in from + 1 .. Parts
  PROVE  /\ Pieces(q, from, to) \in Seq(Piece) /\ Len(Pieces(q, from, to)) = to - from
         /\ \A k \in 1 .. to - from : Pieces(q, from, to)[k] = <<q, from + k>>
<1>1. Parts \in Nat
  BY DEF Parts
<1> QED BY <1>1, RunLemma DEF Pieces, Piece

\* A write goes to the newest connection.
LEMMA WriteWhere ==
  ASSUME TcpInv, TypeOK, NEW q \in Queries, NEW from \in 0 .. Parts - 1, NEW to \in from + 1 .. Parts,
         Written(q, from, to), s_pc \notin {"store", "close"}
  PROVE  /\ Current = conn /\ wire' = [wire EXCEPT ![conn] = @ \o Pieces(q, from, to)]
         /\ wire' \in [Conns -> Seq(Piece)] /\ nqpc_sent' = IF to = Parts THEN nqpc_sent + 1 ELSE nqpc_sent
<1>1. Current = conn /\ conn \in Conns
  BY DEF TcpInv, Descriptors, Current, Types
<1>2. wire' = [wire EXCEPT ![conn] = @ \o Pieces(q, from, to)]
  BY <1>1 DEF Written, Pieces
<1>3. wire \in [Conns -> Seq(Piece)]
  BY DEF TypeOK, Piece
<1>4. wire[conn] \o Pieces(q, from, to) \in Seq(Piece)
  <2>1. wire[conn] \in Seq(Piece)
    BY <1>1, <1>3
  <2> QED BY <2>1, PiecesAre
<1> QED BY <1>1, <1>2, <1>3, <1>4, Zenon DEF Written

\* The types that Types does not have already
MoreTypes ==
  /\ s_ret \in {"top", "cont"} /\ is_ready \in BOOLEAN /\ need_reconnect \in BOOLEAN
  /\ nqpc_ts \in BOOLEAN /\ late \in BOOLEAN /\ nqpc_sent \in Nat /\ nqpc_recv \in Nat
  /\ state \in [Conns -> {"none", "connecting", "up", "lost"}]
  /\ wire \in [Conns -> Seq(Piece)] /\ fdOf \in [Conns -> Fds]
  /\ r_fd \in Fds /\ recvfd \in Fds /\ recv_need_reconn \in Fds \union {NoFd}
  /\ have_more \in BOOLEAN /\ r_pc \in {"idle", "read", "signal", "parse"}
  /\ recvbuf \in Seq(Conns \X (1 .. Parts))
  /\ down \in [Conns -> Seq(Conns \X (1 .. Parts))] /\ answered \in [Conns -> Nat]

LEMMA TypesMeet == TypeOK <=> Types /\ MoreTypes /\ requests \in Nat
BY Zenon DEF TypeOK, Types, MoreTypes, Piece

\* The numbers and flags of ST
LEMMA SenderNumbers ==
  ASSUME TypeOK
  PROVE  /\ conn \in Conns /\ conn \in Nat /\ qid \in Nat /\ sending \in 0 .. Parts - 1 /\ sending \in Nat
         /\ nqpc_sent \in Nat /\ requests \in Nat /\ is_ready \in BOOLEAN /\ need_reconnect \in BOOLEAN
         /\ is_sending \in BOOLEAN
<1>1. conn \in Conns /\ qid \in 0 .. MaxQueries /\ sending \in 0 .. Parts - 1
  BY TypesMeet DEF Types
<1>2. nqpc_sent \in Nat /\ is_ready \in BOOLEAN /\ need_reconnect \in BOOLEAN
  BY TypesMeet DEF MoreTypes
<1>3. requests \in Nat /\ is_sending \in BOOLEAN
  BY TypesMeet DEF Types
<1>4. conn \in Nat /\ qid \in Nat /\ sending \in Nat
  BY <1>1 DEF Conns, Parts
<1> QED BY <1>1, <1>2, <1>3, <1>4

LEMMA SenderTypes ==
  ASSUME TcpInv, TypeOK, MoreTypes, ReadyTop \/ Connect \/ Flush \/ Wait \/ SendTo, STFrame
  PROVE  MoreTypes'
<1>1. Types /\ sending \in 0 .. Parts - 1 /\ qid \in 0 .. MaxQueries /\ conn \in Conns
  BY DEF TcpInv, Types
<1>2. UNCHANGED <<r_fd, recvfd, recv_need_reconn, have_more, r_pc, recvbuf, down, answered>>
  BY DEF STFrame, rtVars, peer
<1>3. is_sending => qid \in Queries
  BY <1>1, TcpAssumption DEF TcpInv, Pending, Queries
<1>4. ASSUME NEW to \in sending + 1 .. Parts, Continue(to), is_sending, s_pc \in {"flush", "wait"}
      PROVE  wire' \in [Conns -> Seq(Piece)] /\ nqpc_sent' \in Nat
  <2>1. Written(qid, sending, to) /\ qid \in Queries /\ s_pc \notin {"store", "close"}
    BY <1>3, <1>4 DEF Continue
  <2>2. /\ wire' \in [Conns -> Seq(Piece)]
        /\ nqpc_sent' = IF to = Parts THEN nqpc_sent + 1 ELSE nqpc_sent
    BY <1>1, <2>1, WriteWhere
  <2> QED BY <2>2 DEF MoreTypes
<1>5. CASE ReadyTop \/ FlushAgain \/ FlushError \/ WaitTimedOut \/ WaitError \/ WaitNothing \/ WaitNotWritten
           \/ SendReconnect \/ SendNothing
  <2>1. /\ UNCHANGED <<nqpc_ts, late, nqpc_sent, nqpc_recv, state, wire, fdOf>> /\ s_ret' \in {s_ret, "top", "cont"}
        /\ is_ready' = is_ready \/ is_ready' = TRUE
        /\ need_reconnect' = need_reconnect \/ need_reconnect' = TRUE \/ need_reconnect' = (need_reconnect \/ WriteFails)
    BY <1>5 DEF ReadyTop, FlushAgain, FlushError, WaitTimedOut, WaitError, WaitNothing, WaitNotWritten, Writable,
       SendReconnect, SendNothing, query, link, limits
  <2>2. need_reconnect' \in BOOLEAN /\ is_ready' \in BOOLEAN
    BY <2>1, Zenon DEF MoreTypes
  <2> QED BY <1>2, <2>1, <2>2 DEF MoreTypes
<1>6. CASE FlushNothing
  <2>1. /\ UNCHANGED <<s_ret, is_ready, late, nqpc_sent, nqpc_recv, state, wire, fdOf>>
        /\ nqpc_ts' = (nqpc_ts \/ LimitReached(nqpc_sent))
        /\ need_reconnect' = (need_reconnect \/ (LimitReached(nqpc_sent) /\ (AllAnswered(nqpc_sent) \/ late)))
    BY <1>6 DEF FlushNothing, AtLimit, query, link
  <2>2. nqpc_ts' \in BOOLEAN /\ need_reconnect' \in BOOLEAN
    BY <2>1, Zenon
  <2> QED BY <1>2, <2>1, <2>2 DEF MoreTypes
<1>7. CASE FlushWrite
  <2>1. PICK to \in sending + 1 .. Parts :
          /\ Continue(to)
          /\ IF to = Parts THEN AtLimit(nqpc_sent') ELSE s_pc' = "idle" /\ UNCHANGED limits
    BY <1>7 DEF FlushWrite
  <2>2. UNCHANGED <<s_ret, is_ready, late, nqpc_recv, state, fdOf>> /\ s_pc = "flush" /\ is_sending
    BY <1>7 DEF FlushWrite, link
  <2>3. wire' \in [Conns -> Seq(Piece)] /\ nqpc_sent' \in Nat
    BY <1>4, <2>1, <2>2
  <2>4. nqpc_ts' \in BOOLEAN /\ need_reconnect' \in BOOLEAN
    <3>1. \/ nqpc_ts' = nqpc_ts /\ need_reconnect' = need_reconnect
          \/ /\ nqpc_ts' = (nqpc_ts \/ LimitReached(nqpc_sent'))
             /\ need_reconnect' = (need_reconnect \/ (LimitReached(nqpc_sent') /\ (AllAnswered(nqpc_sent') \/ late)))
      BY <2>1 DEF AtLimit, limits
    <3> QED BY <3>1, Zenon DEF MoreTypes
  <2> QED BY <1>2, <2>2, <2>3, <2>4 DEF MoreTypes
<1>8. CASE WaitWrite
  <2>1. PICK to \in sending + 1 .. Parts : Continue(to)
    BY <1>8 DEF WaitWrite
  <2>2. /\ UNCHANGED <<s_ret, limits, late, nqpc_recv, state, fdOf>> /\ is_ready' = TRUE
        /\ s_pc = "wait" /\ is_sending
    BY <1>8 DEF WaitWrite, Writable, link
  <2>3. wire' \in [Conns -> Seq(Piece)] /\ nqpc_sent' \in Nat
    BY <1>4, <2>1, <2>2
  <2> QED BY <1>2, <2>2, <2>3 DEF MoreTypes, limits
<1>9. CASE SendWrite
  <2>1. PICK to \in 1 .. Parts : Written(qid', 0, to)
    BY <1>9 DEF SendWrite
  <2>2. UNCHANGED <<s_ret, is_ready, limits, late, nqpc_recv, state, fdOf>> /\ s_pc = "send" /\ qid' = qid + 1 /\ qid < MaxQueries
    BY <1>9 DEF SendWrite, link
  <2>3. qid' \in Queries /\ 0 \in 0 .. Parts - 1 /\ to \in 0 + 1 .. Parts
    BY <1>1, <2>2, TcpAssumption DEF Queries, Parts
  <2>4. /\ wire' \in [Conns -> Seq(Piece)]
        /\ nqpc_sent' = IF to = Parts THEN nqpc_sent + 1 ELSE nqpc_sent
    BY <1>1, <2>1, <2>2, <2>3, WriteWhere
  <2> QED BY <1>2, <2>2, <2>4 DEF MoreTypes, limits
<1>10. CASE ConnReset \/ ConnStore \/ ConnClose
  <2>1. /\ UNCHANGED <<s_ret, state, wire, fdOf>> /\ (is_ready' = is_ready \/ is_ready' = TRUE)
        /\ need_reconnect' \in {need_reconnect, FALSE} /\ nqpc_ts' \in {nqpc_ts, FALSE} /\ late' \in {late, FALSE}
        /\ nqpc_sent' \in {nqpc_sent, 0} /\ nqpc_recv' \in {nqpc_recv, 0}
    BY <1>10, Zenon DEF ConnReset, ConnStore, ConnClose, query, limits
  <2>2. need_reconnect' \in BOOLEAN /\ nqpc_ts' \in BOOLEAN /\ late' \in BOOLEAN /\ is_ready' \in BOOLEAN
    BY <2>1, Zenon DEF MoreTypes
  <2> QED BY <1>2, <2>1, <2>2 DEF MoreTypes
<1>11. CASE ConnOpen
  <2>1. /\ UNCHANGED <<s_ret, need_reconnect, nqpc_ts, late, nqpc_sent, nqpc_recv, wire>>
        /\ conn' = conn + 1 /\ conn < MaxConns
    BY <1>11 DEF ConnOpen, query, limits
  <2>2. PICK d \in Fds : fdOf' = [fdOf EXCEPT ![conn'] = d]
    BY <1>11, Zenon DEF ConnOpen, Freed
  <2>3. PICK st \in {"connecting", "up"} : state' = [state EXCEPT ![conn'] = st] /\ is_ready' = (st = "up")
    BY <1>11, Zenon DEF ConnOpen
  <2>4. is_ready' \in BOOLEAN
    BY <2>3, Zenon
  <2> QED BY <1>2, <2>1, <2>2, <2>3, <2>4, Zenon DEF MoreTypes
<1> QED BY <1>5, <1>6, <1>7, <1>8, <1>9, <1>10, <1>11 DEF Connect, Flush, Wait, SendTo

\* recv() moves the first k pieces from the connection to the buffer.
LEMMA ReadMoves ==
  ASSUME MoreTypes, NEW c \in Conns, NEW k \in 1 .. Len(down[c]),
         recvbuf' = recvbuf \o SubSeq(down[c], 1, k),
         down' = [down EXCEPT ![c] = SubSeq(@, k + 1, Len(@))]
  PROVE  /\ recvbuf' \in Seq(Conns \X (1 .. Parts)) /\ down' \in [Conns -> Seq(Conns \X (1 .. Parts))]
         /\ k \in Nat /\ Len(recvbuf) \in Nat /\ Len(down[c]) \in Nat
         /\ Len(recvbuf') = Len(recvbuf) + k /\ Len(down'[c]) = Len(down[c]) - k
         /\ \A i \in 1 .. Len(recvbuf) : recvbuf'[i] = recvbuf[i]
         /\ \A i \in 1 .. k : recvbuf'[Len(recvbuf) + i] = down[c][i]
         /\ \A i \in 1 .. Len(down[c]) - k : down'[c][i] = down[c][k + i]
         /\ \A b \in Conns \ {c} : down'[b] = down[b]
<1>1. PICK S : S = Conns \X (1 .. Parts)
  BY Zenon
<1>2. recvbuf \in Seq(S) /\ down \in [Conns -> Seq(S)]
  BY <1>1, Zenon DEF MoreTypes
<1>3. PICK s \in Seq(S) : s = down[c]
  BY <1>2, Zenon
<1>4. down'[c] = SubSeq(s, k + 1, Len(s)) /\ recvbuf' = recvbuf \o SubSeq(s, 1, k) /\ k \in 1 .. Len(s)
  BY <1>2, <1>3, Zenon
<1>5. MovedElements(S, recvbuf, s, k, recvbuf', down'[c])
  <2>1. Moved(S, recvbuf, s, k, recvbuf', down'[c])
    BY <1>2, <1>4, Zenon DEF Moved
  <2> QED BY <2>1, PiecesMoveLemma, Zenon
<1>6. \A b \in Conns \ {c} : down'[b] = down[b]
  BY <1>2, Zenon
<1>7. down' \in [Conns -> Seq(S)]
  <2>1. down'[c] \in Seq(S)
    BY <1>5 DEF MovedElements
  <2> QED BY <1>2, <2>1
<1> QED BY <1>1, <1>3, <1>5, <1>6, <1>7, Zenon DEF MovedElements

\* A message leaves the head of the buffer.
LEMMA ParseMoves ==
  ASSUME MoreTypes, Len(recvbuf) >= Parts, recvbuf' = SubSeq(recvbuf, Parts + 1, Len(recvbuf))
  PROVE  /\ recvbuf' \in Seq(Conns \X (1 .. Parts)) /\ Len(recvbuf) \in Nat
         /\ Len(recvbuf') = Len(recvbuf) - Parts
         /\ \A i \in 1 .. Len(recvbuf) - Parts : recvbuf'[i] = recvbuf[Parts + i]
<1>1. recvbuf \in Seq(Conns \X (1 .. Parts)) /\ Len(recvbuf) \in Nat
  BY DEF MoreTypes
<1>2. Parts \in 0 .. Len(recvbuf)
  BY <1>1 DEF Parts
<1>3. PICK S : S = Conns \X (1 .. Parts)
  BY Zenon
<1>4. recvbuf \in Seq(S)
  BY <1>1, <1>3, Zenon
<1>5. /\ recvbuf' \in Seq(S) /\ Len(recvbuf') = Len(recvbuf) - Parts
      /\ \A i \in 1 .. Len(recvbuf) - Parts : recvbuf'[i] = recvbuf[Parts + i]
  BY <1>2, <1>4, CutLemma
<1> QED BY <1>1, <1>3, <1>5, Zenon

\* An answer adds its pieces at the end.
LEMMA AnswerAdds ==
  ASSUME MoreTypes, NEW c \in Conns, Answer(c)
  PROVE  /\ down' \in [Conns -> Seq(Conns \X (1 .. Parts))] /\ Len(down[c]) \in Nat
         /\ Len(down'[c]) = Len(down[c]) + Parts
         /\ \A i \in 1 .. Len(down[c]) : down'[c][i] = down[c][i]
         /\ \A k \in 1 .. Parts : down'[c][Len(down[c]) + k] = <<c, k>>
         /\ \A b \in Conns \ {c} : down'[b] = down[b]
<1> DEFINE S == Conns \X (1 .. Parts)
           p == [k \in 1 .. Parts |-> <<c, k>>]
<1>1. down \in [Conns -> Seq(S)] /\ down[c] \in Seq(S)
  BY DEF MoreTypes
<1>2. p \in Seq(S) /\ Len(p) = Parts /\ \A k \in 1 .. Parts : p[k] = <<c, k>>
  BY DEF Parts
<1>3. down' = [down EXCEPT ![c] = @ \o p]
  BY DEF Answer
<1> HIDE DEF S, p
<1>4. down'[c] = down[c] \o p /\ \A b \in Conns \ {c} : down'[b] = down[b]
  BY <1>1, <1>3
<1>5. /\ down'[c] \in Seq(S) /\ Len(down[c]) \in Nat /\ Len(down'[c]) = Len(down[c]) + Len(p)
      /\ \A i \in 1 .. Len(down[c]) : down'[c][i] = down[c][i]
      /\ \A k \in 1 .. Len(p) : down'[c][Len(down[c]) + k] = p[k]
  <2>1. down[c] \in Seq(S) /\ p \in Seq(S)
    BY <1>1, <1>2
  <2> QED BY <2>1, <1>4, JoinLemma
<1>6. down' \in [Conns -> Seq(S)]
  BY <1>1, <1>3, <1>4, <1>5
<1> QED BY <1>2, <1>4, <1>5, <1>6, Zenon DEF S

LEMMA ReceiverTypes ==
  ASSUME TcpInv, MoreTypes, Aligned,
         (RecvTop \/ RecvRead \/ RecvAgain \/ RecvFail \/ RecvSignal \/ RecvParse) /\ RTFrame
  PROVE  MoreTypes'
<1>1. UNCHANGED <<s_ret, is_ready, need_reconnect, nqpc_ts, late, nqpc_sent, state, wire, fdOf, answered>>
  BY DEF RTFrame, query, limits
<1>2. fd \in Fds /\ desc \in [Fds -> Conns \union {NoConn}]
  BY DEF TcpInv, Types
<1>3. CASE RecvTop
  <2>1. /\ r_fd' = fd /\ recvfd' = fd /\ have_more' = (have_more /\ fd = recvfd)
        /\ recvbuf' = (IF fd = recvfd THEN recvbuf ELSE <<>>) /\ r_pc' \in {"parse", "read"}
        /\ UNCHANGED <<recv_need_reconn, nqpc_recv, down>>
    BY <1>3 DEF RecvTop, BufferAfterLoad
  <2>2. have_more' \in BOOLEAN
    BY <2>1, Zenon
  <2>3. recvbuf' \in Seq(Conns \X (1 .. Parts))
    BY <2>1 DEF MoreTypes
  <2> QED BY <1>1, <1>2, <2>1, <2>2, <2>3 DEF MoreTypes
<1>4. CASE RecvRead
  <2> DEFINE c == desc[r_fd]
  <2>1. PICK k \in 1 .. Len(down[c]) :
          /\ recvbuf' = recvbuf \o SubSeq(down[c], 1, k)
          /\ down' = [down EXCEPT ![c] = SubSeq(@, k + 1, Len(@))]
    BY <1>4, Zenon DEF RecvRead
  <2>2. c \in Conns
    BY <1>2, <1>4 DEF RecvRead, MoreTypes
  <2>3. recvbuf' \in Seq(Conns \X (1 .. Parts)) /\ down' \in [Conns -> Seq(Conns \X (1 .. Parts))]
    BY <2>1, <2>2, ReadMoves, Zenon
  <2>4. UNCHANGED <<recv_need_reconn, nqpc_recv, r_fd, recvfd, have_more>> /\ r_pc' \in {"idle", "parse"}
    BY <1>4 DEF RecvRead
  <2> QED BY <1>1, <2>3, <2>4, Zenon DEF MoreTypes
<1>5. CASE RecvAgain \/ RecvFail \/ RecvSignal
  BY <1>1, <1>5 DEF RecvAgain, RecvFail, RecvSignal, Signal, MoreTypes
<1>6. CASE RecvParse
  <2>1. /\ recvbuf' = SubSeq(recvbuf, Parts + 1, Len(recvbuf)) /\ Len(recvbuf) >= Parts
        /\ have_more' = (Len(recvbuf') >= Parts) /\ r_pc' = "idle"
        /\ nqpc_recv' = IF PerConn > 0 THEN nqpc_recv + 1 ELSE nqpc_recv
        /\ UNCHANGED <<recv_need_reconn, r_fd, recvfd, down>>
    BY <1>6 DEF RecvParse, Aligned
  <2>2. recvbuf' \in Seq(Conns \X (1 .. Parts))
    BY <2>1, ParseMoves
  <2>3. have_more' \in BOOLEAN
    BY <2>1
  <2>4. nqpc_recv' \in Nat
    BY <2>1 DEF MoreTypes
  <2> QED BY <1>1, <2>1, <2>2, <2>3, <2>4 DEF MoreTypes
<1> QED BY <1>3, <1>4, <1>5, <1>6

LEMMA PeerTypes ==
  ASSUME MoreTypes, Peer
  PROVE  MoreTypes'
<1>1. UNCHANGED <<s_ret, is_ready, need_reconnect, nqpc_ts, nqpc_sent, nqpc_recv, wire, fdOf, r_fd, recvfd,
                  recv_need_reconn, have_more, r_pc, recvbuf>>
  BY DEF Peer, PeerFrame, query, limits, rtVars
<1>2. ASSUME late' \in BOOLEAN, state' \in [Conns -> {"none", "connecting", "up", "lost"}],
             down' \in [Conns -> Seq(Conns \X (1 .. Parts))], answered' \in [Conns -> Nat]
      PROVE  MoreTypes'
  BY <1>1, <1>2, Zenon DEF MoreTypes
<1>3. /\ late \in BOOLEAN /\ state \in [Conns -> {"none", "connecting", "up", "lost"}]
      /\ down \in [Conns -> Seq(Conns \X (1 .. Parts))] /\ answered \in [Conns -> Nat]
  BY DEF MoreTypes
<1>4. CASE TimePasses
  <2>1. late' = TRUE /\ state' = state /\ down' = down /\ answered' = answered
    BY <1>4 DEF TimePasses, peer
  <2> QED BY <1>2, <1>3, <2>1, Zenon
<1>5. ASSUME NEW c \in Conns, Established(c) \/ Lost(c)
      PROVE  MoreTypes'
  <2>1. late' = late /\ down' = down /\ answered' = answered
        /\ (state' = [state EXCEPT ![c] = "up"] \/ state' = [state EXCEPT ![c] = "lost"])
    BY <1>5, Zenon DEF Established, Lost, peer
  <2>2. state' \in [Conns -> {"none", "connecting", "up", "lost"}]
    BY <1>3, <2>1, Zenon
  <2> QED BY <1>2, <1>3, <2>1, <2>2, Zenon
<1>6. ASSUME NEW c \in Conns, Answer(c)
      PROVE  MoreTypes'
  <2>1. late' = late /\ state' = state /\ answered' = [answered EXCEPT ![c] = @ + 1]
    BY <1>6 DEF Answer
  <2>2. answered' \in [Conns -> Nat]
    BY <1>3, <2>1
  <2>3. down' \in [Conns -> Seq(Conns \X (1 .. Parts))]
    BY <1>6, AnswerAdds
  <2> QED BY <1>2, <1>3, <2>1, <2>2, <2>3, Zenon
<1> QED BY <1>4, <1>5, <1>6 DEF Peer

LEMMA TypeKept ==
  ASSUME TcpInv, TypeOK, Aligned, [Next]_vars
  PROVE  Types' /\ MoreTypes'
<1>1. TcpInv' /\ Types' /\ TcpInv /\ MoreTypes
  BY NextKept, TypesMeet DEF TcpInv
<1>2. ASSUME UNCHANGED vars PROVE MoreTypes'
  BY <1>1, <1>2 DEF MoreTypes, vars, query, limits, link, rtVars, peer
<1>3. ASSUME ST PROVE MoreTypes'
  BY <1>1, <1>3, SenderTypes DEF ST
<1>4. ASSUME RT PROVE MoreTypes'
  BY <1>1, <1>4, ReceiverTypes DEF RT
<1>5. ASSUME Peer PROVE MoreTypes'
  BY <1>1, <1>5, PeerTypes
<1>6. MoreTypes'
  BY <1>2, <1>3, <1>4, <1>5 DEF Next
<1> QED BY <1>1, <1>6

-----------------------------------------------------------------------------
(* Connections and descriptors over time *)

\* Outside of a reconnect ST leaves the connections alone and writes only to the
\* newest one.
LEMMA SenderQuiet ==
  ASSUME TcpInv, TypeOK, ReadyTop \/ ConnReset \/ Flush \/ Wait \/ SendTo
  PROVE  /\ s_pc \notin {"store", "close"} /\ s_pc' \notin {"store", "close"}
         /\ UNCHANGED <<s_fd, fd, desc, conn, state, fdOf>>
         /\ \A c \in Conns : c # conn => wire'[c] = wire[c]
<1>1. /\ s_pc \notin {"store", "close"} /\ s_pc' \notin {"store", "close"}
      /\ UNCHANGED <<s_fd, fd, desc, conn, state, fdOf>>
  BY DEF ReadyTop, ConnReset, Flush, FlushNothing, FlushWrite, FlushAgain, FlushError, AtLimit, Wait,
     WaitTimedOut, WaitError, WaitNothing, WaitWrite, WaitNotWritten, Writable, SendTo, SendReconnect, SendWrite,
     SendNothing, link
<1>2. Current = conn
  BY <1>1 DEF TcpInv, Descriptors, Current
<1>3. wire \in [Conns -> Seq(Piece)]
  BY DEF TypeOK, Piece
<1>4. UNCHANGED wire \/ \E u : wire' = [wire EXCEPT ![conn] = u]
  <2>1. CASE ReadyTop \/ ConnReset \/ FlushNothing \/ FlushAgain \/ FlushError \/ WaitTimedOut \/ WaitError
             \/ WaitNothing \/ WaitNotWritten \/ SendReconnect \/ SendNothing
    BY <2>1 DEF ReadyTop, ConnReset, FlushNothing, FlushAgain, FlushError, WaitTimedOut, WaitError, WaitNothing,
       WaitNotWritten, SendReconnect, SendNothing, query
  <2>2. CASE FlushWrite \/ WaitWrite \/ SendWrite
    BY <1>2, <2>2 DEF FlushWrite, WaitWrite, SendWrite, Continue, Written
  <2> QED BY <2>1, <2>2 DEF Flush, Wait, SendTo
<1> QED BY <1>1, <1>3, <1>4

\* A new connection gets a free descriptor, and recurs if an earlier one had it.
LEMMA OpenStep ==
  ASSUME TcpInv, TypeOK, Links, ConnOpen
  PROVE  /\ s_pc' = "store" /\ conn' = conn + 1 /\ conn' \in Conns /\ fd' = fd
         /\ s_fd' \in Fds /\ s_fd' # fd /\ desc[fd] = conn /\ desc[s_fd'] = NoConn
         /\ desc' = [desc EXCEPT ![s_fd'] = conn'] /\ fdOf' = [fdOf EXCEPT ![conn'] = s_fd']
         /\ wire' = wire /\ \A c \in Conns : c <= conn => state'[c] = state[c]
         /\ \A c \in 1 .. conn : Recurs(c)' = Recurs(c)
         /\ (\E b \in 1 .. conn : fdOf[b] = s_fd') => Recurs(conn)'
<1>1. s_pc = "open" /\ s_pc' = "store" /\ conn' = conn + 1 /\ conn < MaxConns /\ fd' = fd /\ wire' = wire
  BY DEF ConnOpen, query
<1>2. PICK d \in Freed : s_fd' = d /\ desc' = [desc EXCEPT ![d] = conn'] /\ fdOf' = [fdOf EXCEPT ![conn'] = d]
  BY Zenon DEF ConnOpen
<1>3. PICK st \in {"connecting", "up"} : state' = [state EXCEPT ![conn'] = st]
  BY Zenon DEF ConnOpen
<1>4. /\ fd \in Fds /\ conn \in Conns /\ conn # NoConn /\ MaxConns \in Nat
      /\ fdOf \in [Conns -> Fds] /\ state \in [Conns -> {"none", "connecting", "up", "lost"}]
  BY TcpAssumption DEF TypeOK, Conns, NoConn
<1>5. conn' \in Conns /\ conn \in Nat
  BY <1>1, <1>4 DEF Conns
<1>6. d \in Fds /\ desc[d] = NoConn /\ desc[fd] = conn /\ d # fd
  BY <1>1, <1>2, <1>4 DEF TcpInv, Descriptors, Freed
<1>7. \A c \in 1 .. conn : c \in Conns /\ c # conn' /\ fdOf'[c] = fdOf[c] /\ state'[c] = state[c]
  BY <1>1, <1>2, <1>3, <1>4, <1>5 DEF Conns
<1>8. ASSUME NEW c \in 1 .. conn PROVE Recurs(c)' = Recurs(c)
  <2>1. c \in 1 .. conn /\ \A b \in 1 .. c - 1 : b \in 1 .. conn
    BY <1>5
  <2>2. fdOf'[c] = fdOf[c] /\ \A b \in 1 .. c - 1 : fdOf'[b] = fdOf[b]
    BY <1>7, <2>1
  <2> QED BY <2>2 DEF Recurs
<1>9. ASSUME NEW b \in 1 .. conn, fdOf[b] = d
      PROVE  Recurs(conn)'
  <2>1. fdOf'[conn'] = d /\ fdOf'[b] = d /\ b \in 1 .. conn' - 1
    BY <1>1, <1>2, <1>4, <1>5, <1>7, <1>9
  <2> QED BY <2>1 DEF Recurs
<1>10. \A c \in Conns : c <= conn => c \in 1 .. conn
  BY <1>4 DEF Conns
<1> QED BY <1>1, <1>2, <1>5, <1>6, <1>7, <1>8, <1>9, <1>10

LEMMA LinksKept ==
  ASSUME TcpInv, TypeOK, Links, [Next]_vars
  PROVE  Links'
<1>1. /\ fd \in Fds /\ s_fd \in Fds /\ r_fd \in Fds /\ conn \in Nat /\ desc \in [Fds -> Conns \union {NoConn}]
      /\ \A c \in Conns : c \in Nat
      /\ down \in [Conns -> Seq(Conns \X (1 .. Parts))] /\ MoreTypes /\ fdOf \in [Conns -> Fds]
  <2>1. \A c \in Conns : c \in Nat
    BY DEF Conns
  <2>2. MoreTypes
    BY TypesMeet
  <2> QED BY <2>1, <2>2 DEF TypeOK
<1>2. CASE UNCHANGED vars
  BY <1>2 DEF Links, vars, query, link, peer
<1>3. CASE (ReadyTop \/ ConnReset \/ Flush \/ Wait \/ SendTo) /\ STFrame
  <2>1. /\ UNCHANGED <<desc, conn, fdOf, down>> /\ \A c \in Conns : c # conn => wire'[c] = wire[c]
    BY <1>3, SenderQuiet DEF STFrame, peer
  <2>2. ASSUME NEW c \in Conns, c > conn PROVE wire'[c] = <<>>
    <3>1. c # conn /\ wire[c] = <<>>
      BY <1>1, <2>2 DEF Links
    <3> QED BY <2>1, <3>1
  <2> QED BY <2>1, <2>2, Zenon DEF Links
<1>4. CASE ConnOpen /\ STFrame
  <2>1. /\ conn' = conn + 1 /\ conn' \in Conns /\ s_fd' \in Fds /\ desc' = [desc EXCEPT ![s_fd'] = conn']
        /\ fdOf' = [fdOf EXCEPT ![conn'] = s_fd'] /\ wire' = wire /\ down' = down
    BY <1>4, OpenStep DEF STFrame, peer
  <2>2. ASSUME NEW d \in Fds, desc'[d] # NoConn
        PROVE  fdOf'[desc'[d]] = d /\ desc'[d] <= conn'
    <3>1. CASE d = s_fd'
      BY <1>1, <2>1, <3>1
    <3>2. CASE d # s_fd'
      <4>1. desc'[d] = desc[d] /\ desc[d] \in Conns
        BY <1>1, <2>1, <2>2, <3>2
      <4>2. fdOf[desc[d]] = d /\ desc[d] <= conn /\ desc[d] \in Nat
        BY <1>1, <2>2, <4>1 DEF Links
      <4>3. desc[d] # conn' /\ desc[d] <= conn'
        BY <1>1, <2>1, <4>1, <4>2
      <4> QED BY <1>1, <2>1, <4>1, <4>2, <4>3
    <3> QED BY <3>1, <3>2
  <2>3. \A c \in Conns : c > conn' => c > conn
    BY <1>1, <2>1
  <2> QED BY <2>1, <2>2, <2>3, Zenon DEF Links
<1>5. CASE ConnStore /\ STFrame
  BY <1>5 DEF ConnStore, STFrame, peer, query, Links
<1>6. CASE ConnClose /\ STFrame
  BY <1>1, <1>6 DEF ConnClose, Closed, STFrame, peer, Links
<1>7. CASE RT
  <2>1. UNCHANGED <<desc, conn, fdOf, wire>>
    BY <1>7 DEF RT, RTFrame, query
  <2>2. CASE RecvRead
    <3>0. PICK c \in Conns : c = desc[r_fd]
      BY <1>1, <2>2 DEF RecvRead, Links
    <3>1. PICK k \in 1 .. Len(down[c]) :
            /\ recvbuf' = recvbuf \o SubSeq(down[c], 1, k)
            /\ down' = [down EXCEPT ![c] = SubSeq(@, k + 1, Len(@))]
      BY <2>2, <3>0, Zenon DEF RecvRead
    <3>2. c \in Conns /\ c <= conn
      BY <1>1, <2>2, <3>0 DEF RecvRead, Links
    <3>3. /\ k \in Nat /\ Len(down[c]) \in Nat /\ Len(down'[c]) = Len(down[c]) - k
          /\ \A i \in 1 .. Len(down[c]) - k : down'[c][i] = down[c][k + i]
          /\ \A b \in Conns \ {c} : down'[b] = down[b]
      BY <1>1, <3>1, <3>2, ReadMoves, Zenon
    <3>4. \A i \in 1 .. Len(down'[c]) : down'[c][i][1] = c
      <4> SUFFICES ASSUME NEW i \in 1 .. Len(down'[c]) PROVE down'[c][i][1] = c
        OBVIOUS
      <4>1. k + i \in 1 .. Len(down[c]) /\ i \in 1 .. Len(down[c]) - k
        BY <3>3
      <4>2. down'[c][i] = down[c][k + i]
        BY <3>3, <4>1
      <4>3. down[c][k + i][1] = c
        BY <4>1 DEF Links
      <4> QED BY <4>2, <4>3
    <3>5. \A b \in Conns : b > conn => down'[b] = <<>>
      <4>1. \A b \in Conns : b > conn => b # c
        BY <1>1, <3>2
      <4> QED BY <3>3, <4>1 DEF Links
    <3>6. \A b \in Conns : \A i \in 1 .. Len(down'[b]) : down'[b][i][1] = b
      BY <3>3, <3>4 DEF Links
    <3> QED BY <2>1, <3>5, <3>6 DEF Links
  <2>3. CASE ~RecvRead
    BY <1>7, <2>1, <2>3 DEF RT, RecvTop, RecvAgain, RecvFail, RecvSignal, RecvParse, Links
  <2> QED BY <2>2, <2>3
<1>8. CASE Peer
  <2>1. UNCHANGED <<desc, conn, fdOf, wire>>
    BY <1>8 DEF Peer, PeerFrame, query
  <2>2. ASSUME NEW c \in Conns, Answer(c)
        PROVE  Links'
    <3>1. c <= conn
      BY <2>2 DEF Answer, Opened, Links, Conns, NoConn
    <3>2. /\ Len(down[c]) \in Nat /\ Len(down'[c]) = Len(down[c]) + Parts
          /\ \A i \in 1 .. Len(down[c]) : down'[c][i] = down[c][i]
          /\ \A k \in 1 .. Parts : down'[c][Len(down[c]) + k] = <<c, k>>
          /\ \A b \in Conns \ {c} : down'[b] = down[b]
      BY <1>1, <2>2, AnswerAdds
    <3>3. ASSUME NEW i \in 1 .. Len(down'[c])
          PROVE  down'[c][i][1] = c
      <4>1. CASE i <= Len(down[c])
        BY <3>2, <4>1 DEF Links
      <4>2. CASE i > Len(down[c])
        <5>1. i - Len(down[c]) \in 1 .. Parts /\ i = Len(down[c]) + (i - Len(down[c]))
          BY <3>2, <4>2 DEF Parts
        <5>2. down'[c][i] = <<c, i - Len(down[c])>>
          BY <3>2, <5>1, Zenon
        <5> QED BY <5>2
      <4> QED BY <3>2, <4>1, <4>2
    <3>4. \A b \in Conns : b > conn => down'[b] = <<>>
      BY <1>1, <3>1, <3>2 DEF Links
    <3>5. \A b \in Conns : \A i \in 1 .. Len(down'[b]) : down'[b][i][1] = b
      BY <3>2, <3>3 DEF Links
    <3> QED BY <2>1, <3>4, <3>5 DEF Links
  <2>3. CASE UNCHANGED down
    BY <2>1, <2>3 DEF Links
  <2> QED BY <1>8, <2>2, <2>3 DEF Peer, TimePasses, Established, Lost, peer
<1> QED BY <1>2, <1>3, <1>4, <1>5, <1>6, <1>7, <1>8 DEF Next, ST, Connect

-----------------------------------------------------------------------------
(* Responses are framed *)

LEMMA OneMessage ==
  /\ \A x \in Int : (x + Parts) % Parts = x % Parts
  /\ \A x \in Int, k \in 1 .. Parts : x % Parts = 0 => ((x + k - 1) % Parts) + 1 = k
BY DEF Parts

LEMMA AlignedTypes ==
  ASSUME TypeOK
  PROVE  /\ MoreTypes /\ fd \in Fds /\ s_fd \in Fds /\ r_fd \in Fds /\ recvfd \in Fds /\ conn \in Nat
         /\ desc \in [Fds -> Conns \union {NoConn}] /\ (\A c \in Conns : c \in Nat /\ c # NoConn)
         /\ Len(recvbuf) \in Nat /\ (\A c \in Conns : Len(down[c]) \in Nat) /\ Parts \in Nat
         /\ \A i \in 1 .. Len(recvbuf) : recvbuf[i][1] \in Conns
         /\ \A d \in Fds : Buffered(d) \in Nat
<1>1. /\ MoreTypes /\ fd \in Fds /\ s_fd \in Fds /\ r_fd \in Fds /\ recvfd \in Fds /\ conn \in Nat
      /\ desc \in [Fds -> Conns \union {NoConn}] /\ (\A c \in Conns : c \in Nat /\ c # NoConn) /\ Parts \in Nat
  <2>1. MoreTypes /\ Types
    BY TypesMeet
  <2>2. /\ fd \in Fds /\ s_fd \in Fds /\ r_fd \in Fds /\ recvfd \in Fds /\ conn \in Conns
        /\ desc \in [Fds -> Conns \union {NoConn}]
    BY <2>1 DEF Types, MoreTypes
  <2>3. Parts \in Nat /\ \A c \in Conns : c \in Nat /\ c # NoConn
    BY DEF Conns, NoConn, Parts
  <2> QED BY <2>1, <2>2, <2>3
<1>2. recvbuf \in Seq(Conns \X (1 .. Parts)) /\ down \in [Conns -> Seq(Conns \X (1 .. Parts))]
  BY DEF TypeOK
<1>3. Len(recvbuf) \in Nat /\ (\A c \in Conns : Len(down[c]) \in Nat)
  BY <1>2
<1>4. \A i \in 1 .. Len(recvbuf) : recvbuf[i][1] \in Conns
  BY <1>2
<1> QED BY <1>1, <1>3, <1>4 DEF Buffered

LEMMA AlignedOpen ==
  ASSUME TcpInv, TypeOK, Links, Aligned, ConnOpen, STFrame
  PROVE  Aligned'
<1>1. /\ s_pc' = "store" /\ conn' = conn + 1 /\ conn' \in Conns /\ fd' = fd
      /\ s_fd' \in Fds /\ s_fd' # fd /\ desc[fd] = conn
      /\ desc' = [desc EXCEPT ![s_fd'] = conn'] /\ fdOf' = [fdOf EXCEPT ![conn'] = s_fd']
      /\ \A c \in 1 .. conn : Recurs(c)' = Recurs(c)
      /\ (\E b \in 1 .. conn : fdOf[b] = s_fd') => Recurs(conn)'
  BY OpenStep
<1>2. UNCHANGED <<r_pc, r_fd, recvfd, have_more, recvbuf, down>>
  BY DEF STFrame, rtVars, peer
<1>3. /\ fd \in Fds /\ conn \in Nat /\ desc \in [Fds -> Conns \union {NoConn}] /\ fdOf \in [Conns -> Fds]
      /\ (\A c \in Conns : c \in Nat) /\ \A i \in 1 .. Len(recvbuf) : recvbuf[i][1] \in Conns
  BY AlignedTypes DEF MoreTypes
<1>4. PICK b \in 1 .. conn : fdOf[b] = recvfd
  BY DEF Aligned
<1>5. b \in 1 .. conn' /\ fdOf'[b] = recvfd'
  <2>1. b \in Conns /\ b # conn' /\ b \in 1 .. conn'
    BY <1>1, <1>3, TcpAssumption DEF Conns
  <2> QED BY <1>1, <1>2, <1>3, <1>4, <2>1, Zenon
<1>6. s_fd' = recvfd' => Recurs(conn)'
  BY <1>1, <1>2, <1>4
<1>7. ASSUME NEW i \in 1 .. Len(recvbuf)
      PROVE  recvbuf[i][1] <= conn' /\ (~Recurs(recvbuf[i][1])' => recvbuf[i][2] = ((i - 1) % Parts) + 1)
  <2>1. recvbuf[i][1] <= conn /\ (~Recurs(recvbuf[i][1]) => recvbuf[i][2] = ((i - 1) % Parts) + 1)
    BY Zenon DEF Aligned
  <2>2. PICK c \in 1 .. conn : c = recvbuf[i][1]
    BY <1>3, <2>1 DEF Conns
  <2>3. Recurs(c)' = Recurs(c) /\ c <= conn'
    <3>1. conn' = conn + 1 /\ conn \in Nat
      BY <1>1, <1>3
    <3>2. c <= conn'
      BY <3>1
    <3> QED BY <1>1, <3>2, Zenon
  <2>4. recvbuf'[i][1] = c
    BY <1>2, <2>2
  <2> QED BY <2>1, <2>2, <2>3, <2>4 DEF Recurs
<1>8. ASSUME NEW d \in Fds
      PROVE  AlignedAt(d)'
  <2>1. CASE d = s_fd'
    <3>0. conn' > conn
      BY <1>1, <1>3
    <3>1. desc'[d] = conn' /\ down'[conn'] = <<>>
      BY <1>1, <1>2, <1>3, <2>1, <3>0, Zenon DEF Links
    <3>2. Recurs(desc[d])' = Recurs(conn)'
      BY <3>1 DEF Recurs
    <3>3. ~Recurs(conn)' => Buffered(d)' = 0
      BY <1>6, <2>1 DEF Buffered
    <3>4. (0 + 0) % Parts = 0 /\ Len(<<>>) = 0
      BY DEF Parts
    <3>5. ASSUME ~Recurs(conn)'
          PROVE  /\ (Buffered(d)' + Len(down'[desc'[d]])) % Parts = 0
                 /\ \A i \in 1 .. Len(down'[desc'[d]]) : FALSE
      BY <3>1, <3>3, <3>4, <3>5
    <3> QED BY <3>2, <3>5, Zenon DEF AlignedAt
  <2>2. CASE d # s_fd'
    <3>1. d = fd /\ desc'[d] = conn /\ desc[d] = conn
      BY <1>1, <1>3, <2>2 DEF Fds
    <3>2. Readable(d)' => Readable(d)
      BY <3>1, <1>1 DEF Readable
    <3>3. conn \in 1 .. conn
      BY <1>1, <1>3 DEF Conns, Descriptors, TcpInv, Types
    <3>4. Recurs(conn)' \in BOOLEAN /\ Recurs(desc[d])' = Recurs(desc[d])
      <4>1. PICK c : c = conn
        OBVIOUS
      <4>2. Recurs(c)' = Recurs(c)
        BY <1>1, <3>3, <4>1
      <4>3. Recurs(desc[d])' = Recurs(c)' /\ Recurs(desc[d]) = Recurs(c)
        BY <3>1, <4>1 DEF Recurs
      <4> QED BY <4>2, <4>3 DEF Recurs
    <3>5. Buffered(d)' = Buffered(d) /\ down'[desc'[d]] = down[desc[d]]
      BY <1>2, <3>1 DEF Buffered
    <3>6. AlignedAt(d)
      BY DEF Aligned
    <3> QED BY <3>2, <3>4, <3>5, <3>6 DEF AlignedAt
  <2> QED BY <2>1, <2>2
<1>9. Len(recvbuf') = Len(recvbuf) /\ \A i \in 1 .. Len(recvbuf') :
        /\ recvbuf'[i][1] <= conn'
        /\ ~Recurs(recvbuf[i][1])' => recvbuf'[i][2] = ((i - 1) % Parts) + 1
  BY <1>2, <1>7
<1> QED BY <1>1, <1>2, <1>5, <1>6, <1>8, <1>9 DEF Aligned

LEMMA AlignedLoad ==
  ASSUME TcpInv, TypeOK, Links, Aligned, RecvTop, RTFrame
  PROVE  Aligned'
<1>1. /\ r_fd' = fd /\ recvfd' = fd /\ have_more' = (have_more /\ fd = recvfd)
      /\ recvbuf' = (IF fd = recvfd THEN recvbuf ELSE <<>>) /\ r_pc' = (IF have_more' THEN "parse" ELSE "read")
      /\ UNCHANGED <<down, s_pc, s_fd, fd, desc, conn, fdOf>>
  BY DEF RecvTop, BufferAfterLoad, RTFrame
<1>2. /\ fd \in Fds /\ s_fd \in Fds /\ recvfd \in Fds /\ conn \in Nat /\ desc \in [Fds -> Conns \union {NoConn}]
      /\ \A c \in Conns : c \in Nat /\ c # NoConn
  BY AlignedTypes
<1>3. desc[fd] # NoConn /\ (s_pc = "store" => s_fd # fd /\ desc[s_fd] = conn)
  BY <1>2 DEF TcpInv, Types, Descriptors
<1>4. \A c : Recurs(c)' = Recurs(c)
  BY <1>1 DEF Recurs
<1>5. CASE fd = recvfd
  <2>1. recvbuf' = recvbuf /\ recvfd' = recvfd /\ (have_more' \/ r_pc' = "parse" => have_more)
    BY <1>1, <1>5, Zenon
  <2>2. ASSUME NEW d \in Fds PROVE AlignedAt(d)'
    <3>1. AlignedAt(d)
      BY DEF Aligned
    <3> QED BY <1>1, <2>1, <3>1, Zenon DEF AlignedAt, Readable, Buffered, Recurs
  <2> QED BY <1>1, <1>5, <2>1, <2>2 DEF Aligned, Recurs
<1>6. CASE fd # recvfd
  <2>1. recvbuf' = <<>> /\ Len(recvbuf') = 0 /\ ~have_more' /\ r_pc' = "read"
    BY <1>1, <1>6, Zenon
  <2>2. \E b \in 1 .. conn' : fdOf'[b] = recvfd'
    <3>1. desc[fd] \in 1 .. conn /\ fdOf[desc[fd]] = fd
      <4>1. fdOf[desc[fd]] = fd /\ desc[fd] <= conn /\ desc[fd] \in Conns
        BY <1>2, <1>3 DEF Links
      <4> QED BY <1>2, <4>1 DEF Conns
    <3> QED BY <1>1, <3>1
  <2>3. ASSUME NEW d \in Fds PROVE AlignedAt(d)'
    <3>1. AlignedAt(d)
      BY DEF Aligned
    <3>2. Buffered(d)' = 0
      BY <2>1 DEF Buffered
    <3>3. CASE d = fd
      <4>1. Buffered(d) = 0 /\ Readable(d)
        BY <1>3, <1>6, <3>3 DEF Buffered, Readable
      <4> QED BY <1>1, <3>1, <3>2, <4>1 DEF AlignedAt, Recurs
    <3>4. CASE d # fd
      <4>1. Readable(d)' => s_pc = "store" /\ d = s_fd /\ Readable(d)
        BY <1>1, <1>2, <1>3, <3>4 DEF Readable, Fds
      <4>2. CASE recvfd = d
        <5>1. Readable(d)' => Recurs(conn) /\ desc[d] = conn
          BY <1>3, <4>1, <4>2 DEF Aligned
        <5>2. desc'[d] = desc[d]
          BY <1>1
        <5> QED BY <1>1, <5>1, <5>2 DEF AlignedAt, Recurs
      <4>3. CASE recvfd # d
        <5>1. Buffered(d) = 0
          BY <4>3 DEF Buffered
        <5> QED BY <1>1, <3>1, <3>2, <4>1, <5>1 DEF AlignedAt, Recurs
      <4> QED BY <4>2, <4>3
    <3> QED BY <3>3, <3>4
  <2>4. ~(s_pc' = "store" /\ s_fd' = recvfd')
    BY <1>1, <1>3
  <2> QED BY <1>1, <2>1, <2>2, <2>3, <2>4 DEF Aligned
<1> QED BY <1>5, <1>6

LEMMA AlignedRead ==
  ASSUME TcpInv, TypeOK, Links, Aligned, RecvRead, RTFrame
  PROVE  Aligned'
<1>1. PICK c : c = desc[r_fd]
  OBVIOUS
<1>2. PICK k \in 1 .. Len(down[c]) :
        /\ recvbuf' = recvbuf \o SubSeq(down[c], 1, k)
        /\ down' = [down EXCEPT ![c] = SubSeq(@, k + 1, Len(@))]
  BY <1>1, Zenon DEF RecvRead
<1>3. /\ r_pc' = IF Len(recvbuf') < Parts THEN "idle" ELSE "parse"
      /\ UNCHANGED <<r_fd, recvfd, have_more, s_pc, s_fd, fd, desc, conn, fdOf>>
  BY DEF RecvRead, RTFrame
<1>4. /\ recvfd \in Fds /\ r_fd \in Fds /\ conn \in Nat /\ desc \in [Fds -> Conns \union {NoConn}] /\ MoreTypes /\ Parts \in Nat
      /\ \A x \in Conns : x \in Nat /\ x # NoConn
  BY AlignedTypes
<1>5. c \in Conns /\ c <= conn /\ r_fd = recvfd /\ desc[recvfd] = c /\ fdOf[c] = recvfd
  <2>1. r_fd = recvfd /\ desc[r_fd] # NoConn
    BY DEF RecvRead, Aligned
  <2>2. desc[recvfd] = c /\ c # NoConn /\ c \in Conns
    BY <1>1, <1>4, <2>1
  <2>3. fdOf[c] = recvfd /\ c <= conn
    BY <1>4, <2>2 DEF Links
  <2> QED BY <2>1, <2>2, <2>3
<1>6. /\ k \in Nat /\ Len(recvbuf) \in Nat /\ Len(down[c]) \in Nat
      /\ Len(recvbuf') = Len(recvbuf) + k /\ Len(down'[c]) = Len(down[c]) - k
      /\ \A i \in 1 .. Len(recvbuf) : recvbuf'[i] = recvbuf[i]
      /\ \A i \in 1 .. k : recvbuf'[Len(recvbuf) + i] = down[c][i]
      /\ \A i \in 1 .. Len(down[c]) - k : down'[c][i] = down[c][k + i]
      /\ \A b \in Conns \ {c} : down'[b] = down[b]
  <2>1. MoreTypes /\ c \in Conns
    BY <1>4, <1>5
  <2> QED BY <1>2, <2>1, ReadMoves, Zenon
<1>61. /\ k \in Nat /\ Len(recvbuf) \in Nat /\ Len(down[c]) \in Nat
       /\ Len(recvbuf') = Len(recvbuf) + k /\ Len(down'[c]) = Len(down[c]) - k
  BY <1>6
<1>7. /\ Readable(recvfd) /\ Buffered(recvfd) = Len(recvbuf)
      /\ ~Recurs(c) => /\ (Len(recvbuf) + Len(down[c])) % Parts = 0
                        /\ \A i \in 1 .. Len(down[c]) : down[c][i][2] = ((Len(recvbuf) + i - 1) % Parts) + 1
  <2>1. Readable(recvfd) /\ Buffered(recvfd) = Len(recvbuf)
    BY <1>4, <1>5 DEF Readable, Buffered
  <2>2. AlignedAt(recvfd)
    BY <1>4 DEF Aligned
  <2> QED BY <1>5, <2>1, <2>2, Zenon DEF AlignedAt
<1>8. ASSUME NEW i \in 1 .. Len(recvbuf')
      PROVE  recvbuf'[i][1] <= conn /\ (~Recurs(recvbuf'[i][1]) => recvbuf'[i][2] = ((i - 1) % Parts) + 1)
  <2>1. CASE i <= Len(recvbuf)
    <3>1. i \in 1 .. Len(recvbuf) /\ recvbuf'[i] = recvbuf[i]
      BY <1>6, <2>1
    <3> QED BY <3>1 DEF Aligned
  <2>2. CASE i > Len(recvbuf)
    <3>1. PICK j \in 1 .. k : i = Len(recvbuf) + j
      <4>1. i - Len(recvbuf) \in 1 .. k /\ i = Len(recvbuf) + (i - Len(recvbuf))
        BY <1>61, <2>2
      <4> QED BY <4>1
    <3>2. recvbuf'[i] = down[c][j] /\ j \in 1 .. Len(down[c])
      BY <1>6, <3>1
    <3>3. down[c][j][1] = c
      BY <1>5, <3>2 DEF Links
    <3>4. ~Recurs(c) => down[c][j][2] = ((Len(recvbuf) + j - 1) % Parts) + 1
      BY <1>7, <3>2, Zenon
    <3> QED BY <1>5, <3>1, <3>2, <3>3, <3>4
  <2>3. i <= Len(recvbuf) \/ i > Len(recvbuf)
    BY <1>61
  <2> QED BY <2>1, <2>2, <2>3
<1>9. ASSUME NEW d \in Fds PROVE AlignedAt(d)'
  <2>1. CASE d = recvfd
    <3>1. Buffered(d)' = Len(recvbuf) + k /\ desc'[d] = c
      BY <1>3, <1>5, <1>6, <2>1 DEF Buffered
    <3>2. (Len(recvbuf) + k) + (Len(down[c]) - k) = Len(recvbuf) + Len(down[c])
      <4>1. \A a, b, x \in Nat : (a + x) + (b - x) = a + b
        OBVIOUS
      <4> QED BY <1>61, <4>1, Zenon
    <3>3. ASSUME NEW i \in 1 .. Len(down'[c]), ~Recurs(c)
          PROVE  down'[c][i][2] = ((Len(recvbuf) + k + i - 1) % Parts) + 1
      <4>1. PICK j \in 1 .. Len(down[c]) : j = k + i
        BY <1>61
      <4>2. i \in 1 .. Len(down[c]) - k /\ Len(recvbuf) + k + i - 1 = Len(recvbuf) + j - 1
        BY <1>61, <4>1
      <4>3. down'[c][i] = down[c][j]
        BY <1>6, <4>1, <4>2
      <4> QED BY <1>7, <3>3, <4>1, <4>2, <4>3, Zenon
    <3>4. Recurs(desc[d])' = Recurs(c)
      BY <1>3, <3>1 DEF Recurs
    <3> QED BY <1>6, <1>7, <3>1, <3>2, <3>3, <3>4, Zenon DEF AlignedAt
  <2>2. CASE d # recvfd
    <3>1. desc[d] # NoConn => desc[d] \in Conns \ {c}
      BY <1>4, <1>5, <2>2 DEF Links
    <3>2. desc[d] # NoConn => down'[desc[d]] = down[desc[d]]
      BY <1>6, <3>1
    <3>3. AlignedAt(d)
      BY DEF Aligned
    <3> QED BY <1>3, <2>2, <3>2, <3>3 DEF AlignedAt, Readable, Buffered, Recurs
  <2> QED BY <2>1, <2>2
<1>10. have_more' \/ r_pc' = "parse" => Len(recvbuf') >= Parts
  <2>1. have_more => Len(recvbuf) >= Parts
    BY DEF Aligned
  <2>2. Len(recvbuf) >= Parts => Len(recvbuf') >= Parts
    BY <1>4, <1>61
  <2>3. r_pc' = "parse" => Len(recvbuf') >= Parts
    BY <1>3, <1>4, <1>61
  <2> QED BY <1>3, <2>1, <2>2, <2>3, Zenon
<1>11. \A i \in 1 .. Len(recvbuf') : Recurs(recvbuf[i][1])' = Recurs(recvbuf'[i][1])
  BY <1>3 DEF Recurs
<1> QED BY <1>3, <1>5, <1>8, <1>9, <1>10, <1>11 DEF Aligned, Recurs

LEMMA AlignedParse ==
  ASSUME TcpInv, TypeOK, Aligned, RecvParse, RTFrame
  PROVE  Aligned'
<1>1. /\ r_pc' = "idle" /\ recvbuf' = SubSeq(recvbuf, Parts + 1, Len(recvbuf))
      /\ UNCHANGED <<r_fd, recvfd, down, s_pc, s_fd, fd, desc, conn, fdOf>>
  BY DEF RecvParse, RTFrame
<1>2. have_more' = (Len(recvbuf') >= Parts)
  BY DEF RecvParse
<1>3. MoreTypes /\ Parts \in Nat /\ (\A b \in Conns : Len(down[b]) \in Nat) /\ desc \in [Fds -> Conns \union {NoConn}]
  BY AlignedTypes
<1>4. Len(recvbuf) >= Parts
  BY DEF Aligned, RecvParse
<1>5. /\ Len(recvbuf) \in Nat /\ Len(recvbuf') = Len(recvbuf) - Parts
      /\ \A i \in 1 .. Len(recvbuf) - Parts : recvbuf'[i] = recvbuf[Parts + i]
  <2>1. MoreTypes /\ recvbuf' = SubSeq(recvbuf, Parts + 1, Len(recvbuf))
    BY <1>1, <1>3
  <2> QED BY <1>4, <2>1, ParseMoves
<1>6. PICK n \in Nat : n = Len(recvbuf') /\ Len(recvbuf) = n + Parts
  <2>1. Len(recvbuf) \in Nat /\ Parts \in Nat /\ Len(recvbuf') = Len(recvbuf) - Parts
    BY <1>3, <1>5
  <2>2. Len(recvbuf') \in Nat /\ Len(recvbuf) = Len(recvbuf') + Parts
    BY <1>4, <2>1
  <2> QED BY <2>2
<1>7. ASSUME NEW i \in 1 .. n
      PROVE  recvbuf'[i][1] <= conn /\ (~Recurs(recvbuf'[i][1]) => recvbuf'[i][2] = ((i - 1) % Parts) + 1)
  <2>1. PICK j \in 1 .. Len(recvbuf) : j = Parts + i
    BY <1>3, <1>6
  <2>2. recvbuf'[i] = recvbuf[j]
    BY <1>3, <1>5, <1>6, <2>1
  <2>3. (j - 1) % Parts = (i - 1) % Parts
    <3>1. j - 1 = (i - 1) + Parts /\ i - 1 \in Int
      BY <1>3, <2>1
    <3> QED BY <3>1, OneMessage
  <2> QED BY <2>1, <2>2, <2>3 DEF Aligned
<1>8. ASSUME NEW d \in Fds PROVE AlignedAt(d)'
  <2>1. AlignedAt(d)
    BY DEF Aligned
  <2>2. CASE d # recvfd
    BY <1>1, <2>1, <2>2 DEF AlignedAt, Readable, Buffered, Recurs
  <2>3. CASE d = recvfd
    <3>1. Buffered(d)' = n /\ Buffered(d) = n + Parts
      BY <1>1, <1>6, <2>3, Zenon DEF Buffered
    <3>2. ASSUME desc[d] # NoConn, NEW x \in Nat
          PROVE  (n + x) % Parts = ((n + Parts) + x) % Parts
      <4>1. (n + Parts) + x = (n + x) + Parts /\ n + x \in Int
        BY <1>3
      <4> QED BY <4>1, OneMessage
    <3>3. ASSUME desc[d] # NoConn, NEW i \in 1 .. Len(down[desc[d]])
          PROVE  (n + i - 1) % Parts = ((n + Parts) + i - 1) % Parts
      <4>1. Len(down[desc[d]]) \in Nat
        BY <1>3, <3>3
      <4>2. (n + Parts) + i - 1 = (n + i - 1) + Parts /\ n + i - 1 \in Int
        BY <1>3, <4>1
      <4> QED BY <4>2, OneMessage
    <3>4. desc[d] # NoConn => Len(down[desc[d]]) \in Nat
      BY <1>3
    <3>5. (Readable(d)' <=> Readable(d)) /\ (Recurs(desc[d])' <=> Recurs(desc[d])) /\ down' = down /\ desc' = desc
      BY <1>1 DEF Readable, Recurs
    <3>6. Readable(d) => desc[d] # NoConn
      BY DEF Readable
    <3> QED BY <2>1, <3>1, <3>2, <3>3, <3>4, <3>5, <3>6, Zenon DEF AlignedAt
  <2> QED BY <2>2, <2>3
<1>9. \A i \in 1 .. n : Recurs(recvbuf[i][1])' = Recurs(recvbuf'[i][1])
  BY <1>1 DEF Recurs
<1>10. (have_more' \/ r_pc' = "parse") => Len(recvbuf') >= Parts
  BY <1>1, <1>2, Zenon
<1>11. r_fd' = recvfd' /\ (\E b \in 1 .. conn' : fdOf'[b] = recvfd') /\ (s_pc' = "store" /\ s_fd' = recvfd' => Recurs(conn)')
  BY <1>1 DEF Aligned, Recurs
<1> QED BY <1>1, <1>6, <1>7, <1>8, <1>9, <1>10, <1>11, Zenon DEF Aligned

LEMMA AlignedAnswer ==
  ASSUME TcpInv, TypeOK, Aligned, NEW c \in Conns, Answer(c), PeerFrame
  PROVE  Aligned'
<1>1. UNCHANGED <<r_pc, r_fd, recvfd, have_more, recvbuf, s_pc, s_fd, fd, desc, conn, fdOf>>
  BY DEF PeerFrame, rtVars
<1>2. MoreTypes /\ Parts \in Nat /\ (\A d \in Fds : Buffered(d) \in Nat) /\ desc \in [Fds -> Conns \union {NoConn}]
  BY AlignedTypes
<1>3. /\ Len(down[c]) \in Nat /\ Len(down'[c]) = Len(down[c]) + Parts
      /\ \A i \in 1 .. Len(down[c]) : down'[c][i] = down[c][i]
      /\ \A k \in 1 .. Parts : down'[c][Len(down[c]) + k] = <<c, k>>
      /\ \A b \in Conns \ {c} : down'[b] = down[b]
  BY <1>2, AnswerAdds, Zenon
<1>4. ASSUME NEW d \in Fds PROVE AlignedAt(d)'
  <2>1. AlignedAt(d) /\ (Readable(d)' <=> Readable(d)) /\ (Recurs(desc[d])' <=> Recurs(desc[d]))
        /\ Buffered(d)' = Buffered(d) /\ desc' = desc
    BY <1>1 DEF Aligned, Readable, Recurs, Buffered
  <2>2. CASE desc[d] # c
    <3>1. Readable(d) => down'[desc[d]] = down[desc[d]]
      BY <1>2, <1>3, <2>2 DEF Readable
    <3> QED BY <2>1, <3>1 DEF AlignedAt
  <2>3. CASE desc[d] = c
    <3>1. PICK n \in Nat : n = Buffered(d)
      BY <1>2
    <3>2. PICK m \in Nat : m = Len(down[c])
      BY <1>3
    <3>3. ASSUME Readable(d), ~Recurs(c)
          PROVE  /\ (n + (m + Parts)) % Parts = 0
                 /\ \A i \in 1 .. m + Parts : down'[c][i][2] = ((n + i - 1) % Parts) + 1
      <4>1. /\ (n + m) % Parts = 0
            /\ \A i \in 1 .. m : down[c][i][2] = ((n + i - 1) % Parts) + 1
        BY <2>1, <2>3, <3>1, <3>2, <3>3 DEF AlignedAt
      <4>2. n + (m + Parts) = (n + m) + Parts /\ n + m \in Int
        BY <1>2
      <4>3. (n + (m + Parts)) % Parts = 0
        BY <4>1, <4>2, OneMessage
      <4>4. ASSUME NEW i \in 1 .. m + Parts PROVE down'[c][i][2] = ((n + i - 1) % Parts) + 1
        <5>1. CASE i <= m
          <6>1. i \in 1 .. m /\ down'[c][i] = down[c][i]
            <7>1. i \in 1 .. m
              BY <5>1
            <7> QED BY <1>3, <3>2, <7>1
          <6> QED BY <4>1, <6>1
        <5>2. CASE i > m
          <6>1. PICK k \in 1 .. Parts : i = m + k
            BY <1>2, <5>2, i - m \in 1 .. Parts
          <6>2. down'[c][i] = <<c, k>>
            BY <1>3, <3>2, <6>1
          <6>3. n + i - 1 = (n + m) + k - 1
            BY <6>1
          <6>4. (((n + m) + k - 1) % Parts) + 1 = k
            BY <4>1, <4>2, OneMessage
          <6> QED BY <6>2, <6>3, <6>4
        <5>3. i <= m \/ i > m
          BY <1>2
        <5> QED BY <5>1, <5>2, <5>3
      <4> QED BY <4>3, <4>4
    <3>4. Len(down'[c]) = m + Parts
      BY <1>3, <3>2
    <3> QED BY <2>1, <2>3, <3>1, <3>3, <3>4 DEF AlignedAt
  <2> QED BY <2>2, <2>3
<1> QED BY <1>1, <1>4 DEF Aligned, Recurs

LEMMA AlignedKept ==
  ASSUME TcpInv, TypeOK, Links, Aligned, [Next]_vars
  PROVE  Aligned'
<1>1. /\ MoreTypes /\ fd \in Fds /\ s_fd \in Fds /\ recvfd \in Fds /\ conn \in Nat
      /\ desc \in [Fds -> Conns \union {NoConn}]
  BY AlignedTypes
<1>2. ASSUME UNCHANGED <<r_fd, recvfd, have_more, recvbuf, down, fd, s_fd, desc, conn, fdOf>>,
             (s_pc' = "store") <=> (s_pc = "store"), r_pc' = "parse" => r_pc = "parse"
      PROVE  Aligned'
  BY <1>2, Zenon DEF Aligned, AlignedAt, Readable, Buffered, Recurs
<1>3. CASE UNCHANGED vars
  BY <1>2, <1>3 DEF vars, link, rtVars, peer
<1>4. CASE (ReadyTop \/ ConnReset \/ Flush \/ Wait \/ SendTo) /\ STFrame
  <2>1. /\ UNCHANGED <<r_pc, r_fd, recvfd, have_more, recvbuf, down>>
        /\ s_pc \notin {"store", "close"} /\ s_pc' \notin {"store", "close"}
        /\ UNCHANGED <<s_fd, fd, desc, conn, fdOf>>
    BY <1>4, SenderQuiet DEF STFrame, rtVars, peer
  <2> QED BY <1>2, <2>1
<1>5. CASE ConnOpen /\ STFrame
  BY <1>5, AlignedOpen
<1>6. CASE ConnStore /\ STFrame
  <2>1. /\ UNCHANGED <<r_pc, r_fd, recvfd, have_more, recvbuf, down, desc, conn, fdOf>>
        /\ s_pc = "store" /\ s_pc' = "close"
    BY <1>6 DEF ConnStore, STFrame, rtVars, peer
  <2>2. ASSUME NEW d \in Fds PROVE AlignedAt(d)'
    <3>1. AlignedAt(d)
      BY DEF Aligned
    <3> QED BY <2>1, <3>1, Zenon DEF AlignedAt, Readable, Buffered, Recurs
  <2> QED BY <2>1, <2>2 DEF Aligned, Recurs
<1>7. CASE ConnClose /\ STFrame
  <2>1. /\ UNCHANGED <<r_pc, r_fd, recvfd, have_more, recvbuf, down, fd, conn, fdOf>>
        /\ s_pc = "close" /\ s_pc' # "store" /\ desc' = [desc EXCEPT ![s_fd] = NoConn]
    BY <1>7 DEF ConnClose, Closed, STFrame, rtVars, peer
  <2>2. ASSUME NEW d \in Fds PROVE AlignedAt(d)'
    <3>1. AlignedAt(d) /\ desc'[d] \in {desc[d], NoConn}
      BY <1>1, <2>1 DEF Aligned
    <3> QED BY <2>1, <3>1, Zenon DEF AlignedAt, Readable, Buffered, Recurs
  <2> QED BY <2>1, <2>2 DEF Aligned, Recurs
<1>8. CASE RT
  <2>1. CASE RecvTop
    BY <1>8, <2>1, AlignedLoad DEF RT
  <2>2. CASE RecvRead
    BY <1>8, <2>2, AlignedRead DEF RT
  <2>3. CASE RecvParse
    BY <1>8, <2>3, AlignedParse DEF RT
  <2>4. CASE RecvAgain \/ RecvFail \/ RecvSignal
    BY <1>2, <1>8, <2>4 DEF RT, RTFrame, RecvAgain, RecvFail, RecvSignal
  <2> QED BY <1>8, <2>1, <2>2, <2>3, <2>4 DEF RT
<1>9. CASE Peer
  <2>1. ASSUME NEW c \in Conns, Answer(c) PROVE Aligned'
    BY <1>9, <2>1, AlignedAnswer DEF Peer
  <2>2. ASSUME TimePasses \/ \E c \in Conns : Established(c) \/ Lost(c) PROVE Aligned'
    <3>1. UNCHANGED down
      BY <2>2 DEF TimePasses, Established, Lost, peer
    <3> QED BY <1>2, <1>9, <3>1 DEF Peer, PeerFrame, rtVars
  <2> QED BY <1>9, <2>1, <2>2 DEF Peer
<1> QED BY <1>3, <1>4, <1>5, <1>6, <1>7, <1>8, <1>9 DEF Next, ST, Connect

-----------------------------------------------------------------------------
(* RT asks ST to leave only a connection that is lost *)

LEMMA SignalsKept ==
  ASSUME TcpInv, TypeOK, Links, Aligned, Signals, [Next]_vars
  PROVE  Signals'
<1>1. /\ fd \in Fds /\ s_fd \in Fds /\ r_fd \in Fds /\ recvfd \in Fds /\ conn \in Nat
      /\ desc \in [Fds -> Conns \union {NoConn}] /\ \A c \in Conns : c \in Nat /\ c # NoConn
  BY AlignedTypes
<1>2. recv_need_reconn \in Fds \union {NoFd} /\ state \in [Conns -> {"none", "connecting", "up", "lost"}]
  BY DEF TypeOK
<1>3. \E b \in 1 .. conn : fdOf[b] = r_fd
  BY DEF Aligned
\* A step that keeps the connections, or closes one, and forgets no loss.
<1>4. ASSUME UNCHANGED <<r_fd, recv_need_reconn, conn, fdOf>>, r_pc' = "signal" => r_pc = "signal",
             \A d \in Fds : desc'[d] \in {desc[d], NoConn},
             \A c \in Conns : state[c] = "lost" => state'[c] = "lost"
      PROVE  Signals'
  <2>1. ASSUME NEW d \in Fds, Leaves(d) PROVE Leaves(d)'
    <3>1. \A c : Recurs(c)' = Recurs(c)
      BY <1>4 DEF Recurs
    <3>2. desc'[d] # NoConn => desc'[d] = desc[d] /\ desc[d] \in Conns
      BY <1>1, <1>4
    <3> QED BY <1>4, <2>1, <3>2 DEF Leaves, Recurs
  <2> QED BY <1>1, <1>2, <1>4, <2>1 DEF Signals
<1>5. CASE UNCHANGED vars
  BY <1>4, <1>5 DEF vars, link, rtVars
<1>6. CASE (ReadyTop \/ ConnReset \/ Flush \/ Wait \/ SendTo) /\ STFrame
  <2>1. UNCHANGED <<r_pc, r_fd, recv_need_reconn, desc, conn, state, fdOf>>
    BY <1>6, SenderQuiet DEF STFrame, rtVars
  <2> QED BY <1>4, <2>1
<1>7. CASE ConnOpen /\ STFrame
  <2>1. /\ conn' = conn + 1 /\ conn' \in Conns /\ s_fd' \in Fds
        /\ desc' = [desc EXCEPT ![s_fd'] = conn'] /\ fdOf' = [fdOf EXCEPT ![conn'] = s_fd']
        /\ (\A c \in Conns : c <= conn => state'[c] = state[c])
        /\ (\A c \in 1 .. conn : Recurs(c)' = Recurs(c))
        /\ ((\E b \in 1 .. conn : fdOf[b] = s_fd') => Recurs(conn)')
    BY <1>7, OpenStep
  <2>2. UNCHANGED <<r_pc, r_fd, recv_need_reconn>>
    BY <1>7 DEF STFrame, rtVars
  <2>3. fdOf \in [Conns -> Fds]
    BY DEF TypeOK
  <2>4. ASSUME NEW b \in 1 .. conn PROVE fdOf'[b] = fdOf[b]
    <3>1. b \in Conns /\ b # conn' /\ conn' \in Conns
      BY <1>1, <2>1, TcpAssumption DEF Conns
    <3>2. fdOf' = [fdOf EXCEPT ![conn'] = s_fd']
      BY <2>1
    <3> QED BY <2>3, <3>1, <3>2
  <2>5. ASSUME NEW d \in Fds, Leaves(d), \E b \in 1 .. conn : fdOf[b] = d PROVE Leaves(d)'
    <3>1. CASE d = s_fd'
      <4>1. desc'[d] = conn' /\ Recurs(conn)'
        BY <1>1, <2>1, <2>5, <3>1
      <4> QED BY <4>1 DEF Leaves, Recurs
    <3>2. CASE d # s_fd'
      <4>1. desc'[d] = desc[d] /\ (desc[d] # NoConn => desc[d] \in Conns /\ desc[d] \in 1 .. conn)
        <5>1. desc'[d] = desc[d] /\ desc[d] \in Conns \union {NoConn}
          BY <1>1, <2>1, <3>2
        <5>2. desc[d] # NoConn => desc[d] <= conn
          BY DEF Links
        <5>3. \A c \in Conns : c <= conn => c \in 1 .. conn
          BY <1>1 DEF Conns
        <5> QED BY <5>1, <5>2, <5>3
      <4>2. desc[d] # NoConn => state'[desc[d]] = state[desc[d]] /\ Recurs(desc[d])' = Recurs(desc[d])
        <5>1. ASSUME NEW c \in 1 .. conn, desc[d] = c, desc'[d] = c PROVE Recurs(desc[d])' = Recurs(c)
          <6>1. Recurs(desc[d])' = (\E b \in 1 .. c - 1 : fdOf'[b] = fdOf'[c])
            BY <5>1, Zenon DEF Recurs
          <6>2. \A b \in 1 .. c - 1 : b \in 1 .. conn
            BY <1>1
          <6> QED BY <2>4, <6>1, <6>2, Zenon DEF Recurs
        <5>2. ASSUME desc[d] # NoConn PROVE state'[desc[d]] = state[desc[d]]
          <6>1. desc[d] \in Conns /\ desc[d] <= conn
            BY <1>1, <4>1, <5>2
          <6> QED BY <2>1, <6>1
        <5> QED BY <4>1, <5>1, <5>2
      <4> QED BY <2>5, <4>1, <4>2 DEF Leaves
    <3> QED BY <3>1, <3>2
  <2>6. (\E b \in 1 .. conn : fdOf[b] = recv_need_reconn) => \E b \in 1 .. conn' : fdOf'[b] = recv_need_reconn
    <3>1. \A b \in 1 .. conn : b \in 1 .. conn'
      BY <1>1, <2>1
    <3> QED BY <2>4, <3>1
  <2> QED BY <1>1, <1>2, <1>3, <2>2, <2>5, <2>6 DEF Signals
<1>8. CASE ConnStore /\ STFrame
  <2>1. UNCHANGED <<r_pc, r_fd, recv_need_reconn, desc, conn, state, fdOf>>
    BY <1>8 DEF ConnStore, STFrame, rtVars
  <2> QED BY <1>4, <2>1
<1>9. CASE ConnClose /\ STFrame
  <2>1. /\ UNCHANGED <<r_pc, r_fd, recv_need_reconn, conn, state, fdOf>> /\ desc' = [desc EXCEPT ![s_fd] = NoConn]
    BY <1>9 DEF ConnClose, Closed, STFrame, rtVars
  <2>2. \A d \in Fds : desc'[d] \in {desc[d], NoConn}
    BY <1>1, <2>1
  <2> QED BY <1>4, <2>1, <2>2
<1>10. CASE RT
  <2>1. UNCHANGED <<desc, conn, state, fdOf>>
    BY <1>10 DEF RT, RTFrame
  <2>2. \A d \in Fds : Leaves(d)' = Leaves(d)
    BY <2>1 DEF Leaves, Recurs
  <2>3. CASE RecvTop \/ RecvRead \/ RecvAgain \/ RecvParse
    <3>1. UNCHANGED recv_need_reconn /\ r_pc' # "signal"
      BY <2>3 DEF RecvTop, RecvRead, RecvAgain, RecvParse
    <3> QED BY <1>2, <2>1, <2>2, <3>1 DEF Signals
  <2>4. CASE RecvFail
    <3>1. UNCHANGED <<r_fd, recv_need_reconn>> /\ Leaves(r_fd)
      BY <2>4 DEF RecvFail, Disconnected, Leaves
    <3> QED BY <1>1, <1>2, <2>1, <2>2, <3>1 DEF Signals
  <2>5. CASE RecvSignal
    <3>1. r_pc' = "idle" /\ recv_need_reconn' = r_fd /\ r_fd' = r_fd /\ r_pc = "signal"
      BY <2>5 DEF RecvSignal, Signal
    <3> QED BY <1>1, <1>3, <2>1, <2>2, <3>1 DEF Signals
  <2> QED BY <1>10, <2>3, <2>4, <2>5 DEF RT
<1>11. CASE Peer
  <2>1. UNCHANGED <<r_pc, r_fd, recv_need_reconn, desc, conn, fdOf>>
    BY <1>11 DEF Peer, PeerFrame, rtVars
  <2>2. \A c \in Conns : state[c] = "lost" => state'[c] = "lost"
    BY <1>2, <1>11 DEF Peer, TimePasses, Established, Lost, Answer
  <2> QED BY <1>4, <2>1, <2>2
<1> QED BY <1>5, <1>6, <1>7, <1>8, <1>9, <1>10, <1>11 DEF Next, ST, Connect

-----------------------------------------------------------------------------
(* The pieces are written in their order *)

\* What a step does to the pieces on the connections and to the query in progress:
\* it writes none, or it writes the next ones of that query or the first ones of
\* the query after it.
Still ==
  /\ UNCHANGED wire /\ conn' \in {conn, conn + 1}
  /\ \/ UNCHANGED <<is_sending, sending, qid>>
     \/ ~is_sending' /\ qid' \in {qid, qid + 1}
     \/ ~is_sending /\ is_sending' /\ sending' = 0 /\ qid' = qid + 1
Writes(q, from, to) ==
  /\ wire' = [wire EXCEPT ![conn] = @ \o Pieces(q, from, to)] /\ conn' = conn /\ qid' = q
  /\ \/ to < Parts /\ is_sending' /\ sending' = to
     \/ to = Parts /\ ~is_sending'
  /\ \/ is_sending /\ q = qid /\ from = sending
     \/ ~is_sending /\ q = qid + 1 /\ from = 0

LEMMA ContinueWrites ==
  ASSUME TcpInv, TypeOK, is_sending, s_pc \notin {"store", "close"}, NEW to \in sending + 1 .. Parts, Continue(to),
         qid' = qid, conn' = conn
  PROVE  Writes(qid, sending, to) /\ qid \in Queries /\ sending \in 0 .. Parts - 1
<1>1. qid \in Queries /\ sending \in 0 .. Parts - 1 /\ Written(qid, sending, to) /\ sending' = to % Parts
  BY TcpAssumption DEF Continue, TcpInv, Types, Pending, Queries
<1>2. \/ to < Parts /\ to % Parts = to
      \/ to = Parts /\ ~(to < Parts)
  BY <1>1 DEF Parts
<1>3. is_sending' = (to < Parts) /\ (to < Parts) \in BOOLEAN
  BY <1>1, <1>2 DEF Written
<1>4. wire' = [wire EXCEPT ![conn] = @ \o Pieces(qid, sending, to)]
  BY <1>1, WriteWhere, Zenon
<1> QED BY <1>1, <1>2, <1>3, <1>4, Zenon DEF Writes

LEMMA WireStep ==
  ASSUME TcpInv, TypeOK, [Next]_vars
  PROVE  \/ Still
         \/ \E q \in Queries, from \in 0 .. Parts - 1 : \E to \in from + 1 .. Parts : Writes(q, from, to)
<1>1. CASE UNCHANGED vars \/ RT \/ Peer
  BY <1>1 DEF vars, RT, RTFrame, Peer, PeerFrame, query, link, Still
<1>2. CASE ReadyTop \/ ConnReset \/ ConnOpen \/ ConnStore
  BY <1>2 DEF ReadyTop, ConnReset, ConnOpen, ConnStore, query, link, Still
<1>3. CASE ConnClose
  <2>1. UNCHANGED <<wire, conn, qid>>
    BY <1>3 DEF ConnClose
  <2>2. UNCHANGED <<is_sending, sending>> \/ ~is_sending'
    BY <1>3, Zenon DEF ConnClose, TcpInv, Types
  <2> QED BY <2>1, <2>2 DEF Still
<1>4. CASE FlushNothing \/ FlushAgain \/ FlushError \/ WaitTimedOut \/ WaitError \/ WaitNothing \/ WaitNotWritten
  BY <1>4 DEF FlushNothing, FlushAgain, FlushError, WaitTimedOut, WaitError, WaitNothing, WaitNotWritten, query,
     link, Still
<1>5. CASE FlushWrite
  <2>1. PICK to \in sending + 1 .. Parts : Continue(to)
    BY <1>5 DEF FlushWrite
  <2>2. is_sending /\ s_pc \notin {"store", "close"} /\ qid' = qid /\ conn' = conn
    BY <1>5 DEF FlushWrite, link
  <2> QED BY <2>1, <2>2, ContinueWrites
<1>6. CASE WaitWrite
  <2>1. PICK to \in sending + 1 .. Parts : Continue(to)
    BY <1>6 DEF WaitWrite
  <2>2. is_sending /\ s_pc \notin {"store", "close"} /\ qid' = qid /\ conn' = conn
    BY <1>6 DEF WaitWrite, Writable, link
  <2> QED BY <2>1, <2>2, ContinueWrites
<1>7. CASE SendReconnect \/ SendNothing
  <2>1. ~is_sending /\ is_sending \in BOOLEAN
    BY <1>7 DEF SendReconnect, SendNothing, TcpInv, Pending, Types
  <2>2. CASE SendReconnect
    BY <2>1, <2>2, Zenon DEF SendReconnect, link, Still
  <2>3. CASE SendNothing
    <3>1. qid' \in {qid, qid + 1} /\ is_sending' = is_sending /\ wire' = wire /\ conn' = conn
      BY <2>3 DEF SendNothing, link
    <3> QED BY <2>1, <3>1 DEF Still
  <2> QED BY <1>7, <2>2, <2>3
<1>8. CASE SendWrite
  <2>1. PICK to \in 1 .. Parts : Written(qid', 0, to) /\ Progress(to)
    BY <1>8 DEF SendWrite
  <2>2. /\ qid' = qid + 1 /\ qid' \in Queries /\ conn' = conn /\ ~is_sending /\ s_pc \notin {"store", "close"}
        /\ 0 \in 0 .. Parts - 1 /\ to \in 0 + 1 .. Parts
    BY <1>8, TcpAssumption DEF SendWrite, link, TcpInv, Pending, Types, Queries, Parts
  <2>3. PICK q \in Queries : q = qid'
    BY <2>2
  <2>4. Written(q, 0, to)
    BY <2>1, <2>3
  <2>5. wire' = [wire EXCEPT ![conn] = @ \o Pieces(q, 0, to)]
    BY <2>2, <2>4, WriteWhere
  <2>6. \/ to < Parts /\ is_sending' /\ sending' = to
        \/ to = Parts /\ ~is_sending'
    <3>1. (to < Parts) \in BOOLEAN /\ ((to < Parts) \/ (to = Parts /\ ~(to < Parts)))
      BY DEF Parts
    <3> QED BY <2>1, <3>1, Zenon DEF Written, Progress
  <2>7. Writes(q, 0, to)
    BY <2>2, <2>3, <2>5, <2>6 DEF Writes
  <2> QED BY <2>2, <2>7
<1> QED BY <1>1, <1>2, <1>3, <1>4, <1>5, <1>6, <1>7, <1>8 DEF Next, ST, Connect, Flush, Wait, SendTo

\* What is written next follows what was written last.
LEMMA ContinuesFollows ==
  ASSUME TcpInv, NEW q \in Queries, NEW from \in 0 .. Parts - 1, NEW to \in from + 1 .. Parts, Writes(q, from, to),
         NEW piece \in Piece, Continues(piece)
  PROVE  Follows(<<q, from + 1>>, piece)
<1>1. qid \in Nat /\ sending \in 0 .. Parts - 1 /\ Parts = 2
  BY DEF TcpInv, Types, Parts
<1>2. piece[1] \in Nat /\ piece = <<piece[1], piece[2]>>
  BY TcpAssumption DEF Piece, Queries
<1>3. CASE is_sending /\ sending > 0
  <2>1. piece = <<qid, sending>> /\ q = qid /\ from = sending
    BY <1>3 DEF Continues, Writes
  <2>2. from + 1 # 1
    BY <1>1, <1>3, <2>1
  <2> QED BY <2>1, <2>2 DEF Follows
<1>4. CASE ~(is_sending /\ sending > 0)
  <2>1. from = 0 /\ piece[1] < q
    <3>1. CASE is_sending
      BY <1>1, <1>2, <1>4, <3>1 DEF Continues, Writes
    <3>2. CASE ~is_sending
      BY <1>1, <1>2, <1>4, <3>2 DEF Continues, Writes
    <3> QED BY <3>1, <3>2
  <2>2. q > piece[1] /\ from + 1 = 1
    BY <1>2, <2>1 DEF Queries
  <2> QED BY <2>2 DEF Follows
<1> QED BY <1>3, <1>4

LEMMA WriteAdds ==
  ASSUME TypeOK, NEW q \in Queries, NEW from \in 0 .. Parts - 1, NEW to \in from + 1 .. Parts, Writes(q, from, to)
  PROVE  Longer(Parts, wire[conn], wire'[conn], q, from, to)
<1>1. wire \in [Conns -> Seq(Queries \X (1 .. Parts))] /\ conn \in Conns /\ Parts \in Nat
  BY DEF TypeOK, Parts
<1>2. PICK w, u : w = wire[conn] /\ u = wire'[conn]
  OBVIOUS
<1>3. Joined(Parts, Queries, w, u, q, from, to)
  BY <1>1, <1>2 DEF Writes, Pieces, Joined
<1>4. Longer(Parts, w, u, q, from, to)
  BY <1>3, AddLemma, Zenon
<1> QED BY <1>2, <1>4

\* InOrder, Newest and LastPiece in the terms of ExtendLemma.
LEMMA OrderTerms ==
  /\ InOrder <=> InSequence(wire, MaxConns)
  /\ InOrder' <=> InSequence(wire', MaxConns)
  /\ \A b : Newest(b) => LastBefore(wire, b, MaxConns + 1)
  /\ \A b : LastBefore(wire', b, MaxConns + 1) => Newest(b)'
  /\ \A b : LastPiece(b) = EndOf(wire, b) /\ LastPiece(b)' = EndOf(wire', b)
<1>1. /\ InOrder <=> InSequence(wire, MaxConns)
      /\ \A b : LastPiece(b) = EndOf(wire, b)
  BY Zenon DEF InOrder, InSequence, Begins, LastBefore, EndOf, After, Follows, Precedes, LastPiece, Conns
<1>2. /\ InOrder' <=> InSequence(wire', MaxConns)
      /\ \A b : LastPiece(b)' = EndOf(wire', b)
  BY Zenon DEF InOrder, InSequence, Begins, LastBefore, EndOf, After, Follows, Precedes, LastPiece, Conns
<1>3. (MaxConns + 1) - 1 = MaxConns
  BY TcpAssumption
<1>4. /\ \A b : Newest(b) => LastBefore(wire, b, MaxConns + 1)
      /\ \A b : LastBefore(wire', b, MaxConns + 1) => Newest(b)'
  BY <1>3, Zenon DEF Newest, LastBefore
<1> QED BY <1>1, <1>2, <1>4, Zenon

LEMMA WriteOrdered ==
  ASSUME TcpInv, TypeOK, Links, WireOrder,
         NEW q \in Queries, NEW from \in 0 .. Parts - 1, NEW to \in from + 1 .. Parts, Writes(q, from, to)
  PROVE  WireOrder'
<1>1. wire \in [Conns -> Seq(Piece)] /\ conn \in Conns
  BY DEF TypeOK, Piece
<1>2. MaxConns \in Nat /\ Parts \in Nat /\ q \in Nat /\ Conns = 1 .. MaxConns
  BY TcpAssumption DEF Conns, Parts, Queries
<1>3. wire' = [wire EXCEPT ![conn] = @ \o Pieces(q, from, to)] /\ conn' = conn /\ qid' = q
  BY DEF Writes
<1>4. \A c \in Conns : (c # conn => wire'[c] = wire[c]) /\ (c > conn => wire[c] = <<>>)
  <2>1. \A c \in Conns : c # conn => wire'[c] = wire[c]
    BY <1>1, <1>3, Zenon
  <2>2. \A c \in Conns : c > conn => wire[c] = <<>>
    BY DEF Links
  <2> QED BY <2>1, <2>2
<1>5. \/ from = 0 /\ \A c \in Conns : wire[c] = <<>>
      \/ \E b \in 1 .. conn : Newest(b) /\ Follows(<<q, from + 1>>, LastPiece(b))
  <2>1. ASSUME NEW b \in 1 .. conn, Newest(b), Continues(LastPiece(b))
        PROVE  Follows(<<q, from + 1>>, LastPiece(b))
    <3>1. wire[b] \in Seq(Piece) /\ wire[b] # <<>>
      <4>1. b \in Conns
        BY <1>1, <1>2
      <4> QED BY <1>1, <2>1, <4>1 DEF Newest
    <3>2. LastPiece(b) \in Piece
      <4>1. PICK w \in Seq(Piece) : w = wire[b] /\ w # <<>>
        BY <3>1
      <4>2. Len(w) \in 1 .. Len(w) /\ \A i \in 1 .. Len(w) : w[i] \in Piece
        <5>1. Len(w) \in Nat /\ Len(w) > 0
          BY <4>1
        <5> QED BY <5>1, Elements
      <4> QED BY <4>1, <4>2, Zenon DEF LastPiece
    <3> QED BY <2>1, <3>2, ContinuesFollows, Zenon
  <2>2. (is_sending => sending = 0) => from = 0
    BY DEF Writes
  <2> QED BY <2>1, <2>2, Zenon DEF WireOrder
<1>6. Extended(Parts, wire, wire', MaxConns, conn, q, from, to)
  <2>1. Longer(Parts, wire[conn], wire'[conn], q, from, to)
    BY WriteAdds
  <2>2. \/ from = 0 /\ \A c \in Conns : wire[c] = <<>>
        \/ \E b \in 1 .. conn : LastBefore(wire, b, MaxConns + 1) /\ After(<<q, from + 1>>, EndOf(wire, b))
    BY <1>5, OrderTerms, Zenon DEF Follows, After
  <2> QED BY <1>1, <1>2, <1>4, <2>1, <2>2, Zenon DEF Extended
<1>7. InSequence(wire', MaxConns) /\ LastBefore(wire', conn, MaxConns + 1) /\ EndOf(wire', conn) = <<q, to>>
  <2>1. InSequence(wire, MaxConns)
    BY OrderTerms DEF WireOrder
  <2> QED BY <1>6, <2>1, ExtendLemma
<1>8. PICK b \in 1 .. conn' : b = conn
  BY <1>1, <1>2, <1>3
<1>9. InOrder' /\ Newest(b)' /\ LastPiece(b)' = <<q, to>>
  BY <1>7, <1>8, OrderTerms
<1>10. Continues(LastPiece(b))'
  <2>1. \/ is_sending' /\ sending' = to /\ to > 0
        \/ ~is_sending'
    BY DEF Writes
  <2> QED BY <1>2, <1>3, <1>9, <2>1 DEF Continues
<1> QED BY <1>9, <1>10 DEF WireOrder

LEMMA WireOrderKept ==
  ASSUME TcpInv, TypeOK, Links, WireOrder, [Next]_vars
  PROVE  WireOrder'
<1>1. CASE Still
  <2>1. wire' = wire /\ conn' \in {conn, conn + 1} /\ conn \in Nat /\ qid \in Nat /\ sending \in Nat
    BY <1>1, SenderNumbers DEF Still
  <2>2. InOrder'
    BY <2>1 DEF WireOrder, InOrder, Precedes, LastPiece
  <2>3. ASSUME NEW b \in 1 .. conn, Newest(b), Continues(LastPiece(b))
        PROVE  \E a \in 1 .. conn' : Newest(a)' /\ Continues(LastPiece(a))'
    <3>0. b \in 1 .. conn'
      BY <2>1
    <3>1. Newest(b)' /\ b \in 1 .. conn' /\ LastPiece(b)' = LastPiece(b)
      BY <2>1, <2>3, <3>0, Zenon DEF Newest, LastPiece
    <3>2. wire[b] \in Seq(Piece) /\ wire[b] # <<>>
      <4>1. b \in Conns /\ wire \in [Conns -> Seq(Piece)]
        <5>1. conn \in 1 .. MaxConns /\ MaxConns \in Nat
          BY TcpAssumption, SenderNumbers DEF Conns
        <5>2. b \in Conns
          BY <5>1 DEF Conns
        <5> QED BY <5>2, Zenon DEF TypeOK, Piece
      <4>2. wire[b] # <<>>
        BY <2>3, Zenon DEF Newest
      <4> QED BY <4>1, <4>2
    <3>3. PICK p \in Piece : p = LastPiece(b)
      BY <3>2 DEF LastPiece
    <3>4. p[1] \in Nat
      BY DEF Piece, Queries
    <3>5. IF is_sending' /\ sending' > 0 THEN p = <<qid', sending'>>
          ELSE p[1] <= qid' /\ (is_sending' => p[1] < qid')
      BY <1>1, <2>1, <2>3, <3>3, <3>4 DEF Still, Continues
    <3> QED BY <3>1, <3>3, <3>5 DEF Continues
  <2>4. ASSUME \A c \in Conns : wire[c] = <<>>, is_sending => sending = 0
        PROVE  (\A c \in Conns : wire'[c] = <<>>) /\ (is_sending' => sending' = 0)
    <3>1. is_sending' => sending' = 0
      BY <1>1, <2>4, Zenon DEF Still
    <3>2. \A c \in Conns : wire'[c] = <<>>
      BY <2>1, <2>4, Zenon
    <3> QED BY <3>1, <3>2
  <2> QED BY <2>2, <2>3, <2>4 DEF WireOrder
<1>2. CASE \E q \in Queries, from \in 0 .. Parts - 1 : \E to \in from + 1 .. Parts : Writes(q, from, to)
  BY <1>2, WriteOrdered
<1> QED BY <1>1, <1>2, WireStep

-----------------------------------------------------------------------------
(* The queries of a connection *)

\* The query in progress goes on; its first piece is the first on the connection.
LEMMA ContinueCounts ==
  ASSUME TcpInv, TypeOK, Counted, is_sending, s_pc \in {"flush", "wait"}, NEW to \in sending + 1 .. Parts,
         Continue(to)
  PROVE  /\ requests' \in Nat /\ (PerConn > 0 => requests' <= MostRequests)
         /\ requests' <= nqpc_sent' + (IF is_sending' /\ sending' > 0 THEN 1 ELSE 0)
         /\ ~(is_sending' /\ sending' = 0)
         /\ nqpc_sent' \in {nqpc_sent, nqpc_sent + 1}
<1>1. /\ nqpc_sent \in Nat /\ PerConn \in Nat /\ requests \in Nat /\ sending \in 0 .. Parts - 1
      /\ MostRequests \in Nat /\ MostRequests >= 2
  BY TcpAssumption, SenderNumbers DEF MostRequests
<1>2. /\ requests' = (IF sending = 0 THEN requests + 1 ELSE requests)
      /\ nqpc_sent' = (IF to = Parts THEN nqpc_sent + 1 ELSE nqpc_sent)
      /\ is_sending' = (to < Parts) /\ sending' = to % Parts
  BY DEF Continue, Written
<1>3. /\ sending > 0 => requests <= nqpc_sent + 1
      /\ sending = 0 => requests = 0
      /\ PerConn > 0 => requests <= MostRequests
  BY <1>1 DEF Counted
<1>4. PICK t \in Nat : t = to /\ t > 0 /\ t <= Parts
  BY <1>1 DEF Parts
<1>5. \/ t < Parts /\ is_sending' /\ sending' = t /\ nqpc_sent' = nqpc_sent
      \/ t = Parts /\ ~is_sending' /\ nqpc_sent' = nqpc_sent + 1
  <2>1. CASE t = Parts
    <3>1. ~(to < Parts)
      BY <1>4, <2>1 DEF Parts
    <3> QED BY <1>2, <1>4, <2>1, <3>1, Zenon
  <2>2. CASE t # Parts
    <3>1. to < Parts /\ to # Parts /\ to % Parts = to /\ t < Parts
      BY <1>4, <2>2 DEF Parts
    <3> QED BY <1>2, <1>4, <3>1, Zenon
  <2> QED BY <2>1, <2>2
<1>6. nqpc_sent' + (IF is_sending' /\ sending' > 0 THEN 1 ELSE 0) = nqpc_sent + 1
  BY <1>1, <1>4, <1>5
<1>7. requests' \in Nat /\ requests' <= nqpc_sent + 1 /\ (PerConn > 0 => requests' <= MostRequests)
  BY <1>1, <1>2, <1>3
<1> QED BY <1>4, <1>5, <1>6, <1>7

LEMMA CountedKept ==
  ASSUME TcpInv, TypeOK, Links, Counted, [Next]_vars
  PROVE  Counted'
<1>1. /\ nqpc_sent \in Nat /\ conn \in Conns /\ PerConn \in Nat /\ is_ready \in BOOLEAN /\ conn \in Nat
      /\ need_reconnect \in BOOLEAN /\ is_sending \in BOOLEAN /\ sending \in Nat
      /\ MostRequests \in Nat /\ MostRequests >= 2 /\ MostRequests >= PerConn
  <2>1. PerConn \in Nat /\ MostRequests \in Nat /\ MostRequests >= 2 /\ MostRequests >= PerConn
    BY TcpAssumption DEF MostRequests
  <2> QED BY <2>1, SenderNumbers
<1>2. requests \in Nat /\ (PerConn > 0 => requests <= MostRequests)
  BY DEF Counted
<1>4. CASE UNCHANGED vars \/ RT \/ Peer
  <2>1. UNCHANGED <<s_pc, is_ready, need_reconnect, is_sending, sending, nqpc_sent, requests>>
    BY <1>4 DEF vars, RT, RTFrame, Peer, PeerFrame, query, link, limits
  <2> QED BY <1>2, <2>1 DEF Counted
<1>5. CASE ReadyTop
  <2>1. /\ UNCHANGED <<is_ready, need_reconnect, is_sending, sending, nqpc_sent, requests>> /\ s_pc = "idle"
        /\ \/ s_pc' = "reset"
           \/ ~need_reconnect /\ s_pc' = "flush" /\ is_ready
           \/ ~need_reconnect /\ s_pc' = "wait" /\ ~is_ready
    BY <1>5 DEF ReadyTop, MustReconnect, query, link, limits
  <2> QED BY <1>2, <2>1 DEF Counted
<1>6. CASE ConnReset
  <2>1. /\ s_pc = "reset" /\ s_pc' = "open" /\ is_ready' /\ nqpc_sent' = 0
        /\ UNCHANGED <<need_reconnect, is_sending, sending, requests>>
    BY <1>6 DEF ConnReset
  <2> QED BY <1>2, <2>1 DEF Counted
<1>7. CASE ConnOpen
  <2>1. /\ s_pc = "open" /\ s_pc' = "store" /\ requests' = 0 /\ nqpc_sent' = nqpc_sent
    BY <1>7 DEF ConnOpen
  <2>2. nqpc_sent = 0
    BY <2>1 DEF Counted
  <2> QED BY <1>1, <2>1, <2>2 DEF Counted
<1>8. CASE ConnStore
  <2>1. /\ s_pc = "store" /\ s_pc' = "close"
        /\ UNCHANGED <<is_ready, need_reconnect, is_sending, sending, nqpc_sent, requests>>
    BY <1>8 DEF ConnStore, query, limits
  <2> QED BY <1>2, <2>1 DEF Counted
<1>9. CASE ConnClose
  <2>1. /\ s_pc = "close" /\ (s_pc' = "wait" \/ (s_pc' = "flush" /\ is_ready))
        /\ UNCHANGED <<is_ready, nqpc_sent, requests>>
    BY <1>9 DEF ConnClose
  <2>2. nqpc_sent' = 0 /\ requests' = 0
    BY <2>1 DEF Counted
  <2>3. 0 <= MostRequests /\ 0 <= 0 + 0 /\ 0 <= 0 + 1 /\ 0 \in Nat
    BY <1>1
  <2> QED BY <2>1, <2>2, <2>3 DEF Counted
<1>10. CASE FlushNothing
  <2>1. /\ s_pc = "flush" /\ ~is_sending
        /\ UNCHANGED <<is_ready, is_sending, sending, nqpc_sent, requests>>
        /\ s_pc' = "idle" \/ (s_pc' = "send" /\ ~LimitReached(nqpc_sent))
    BY <1>10 DEF FlushNothing, AtLimit, query, link
  <2>2. s_pc' = "send" /\ PerConn > 0 => nqpc_sent < MostRequests
    BY <1>1, <2>1 DEF LimitReached
  <2> QED BY <1>2, <2>1, <2>2 DEF Counted
<1>11. CASE FlushWrite
  <2>1. PICK to \in sending + 1 .. Parts :
          Continue(to) /\ IF to = Parts THEN AtLimit(nqpc_sent') ELSE s_pc' = "idle" /\ UNCHANGED limits
    BY <1>11 DEF FlushWrite
  <2>2. is_sending /\ s_pc = "flush" /\ is_ready /\ UNCHANGED is_ready
    BY <1>11 DEF FlushWrite, link, Counted
  <2>3. /\ requests' \in Nat /\ (PerConn > 0 => requests' <= MostRequests)
        /\ requests' <= nqpc_sent' + (IF is_sending' /\ sending' > 0 THEN 1 ELSE 0)
        /\ ~(is_sending' /\ sending' = 0)
        /\ nqpc_sent' \in {nqpc_sent, nqpc_sent + 1}
    BY <2>1, <2>2, ContinueCounts
  <2>4. s_pc' = "idle" \/ (s_pc' = "send" /\ ~LimitReached(nqpc_sent'))
    BY <2>1 DEF AtLimit
  <2>5. s_pc' = "send" /\ PerConn > 0 => nqpc_sent' < MostRequests
    BY <1>1, <2>3, <2>4 DEF LimitReached
  <2> QED BY <2>2, <2>3, <2>4, <2>5 DEF Counted
<1>12. CASE FlushAgain \/ FlushError
  <2>1. /\ s_pc = "flush" /\ s_pc' \in {"idle", "reset"}
        /\ UNCHANGED <<is_ready, need_reconnect, is_sending, sending, nqpc_sent, requests>>
    BY <1>12 DEF FlushAgain, FlushError, query, link, limits
  <2> QED BY <1>2, <2>1 DEF Counted
<1>13. CASE WaitTimedOut \/ WaitError \/ WaitNothing \/ WaitNotWritten
  <2>1. /\ s_pc = "wait" /\ UNCHANGED <<is_sending, sending, nqpc_sent, requests>>
        /\ s_pc' = "idle" \/ (s_pc' = "send" /\ is_ready')
    BY <1>13 DEF WaitTimedOut, WaitError, WaitNothing, WaitNotWritten, Writable, query, link
  <2>2. nqpc_sent' = 0 /\ requests' = 0
    BY <2>1 DEF Counted
  <2>3. 0 < MostRequests /\ 0 <= MostRequests
    BY <1>1
  <2> QED BY <2>1, <2>2, <2>3 DEF Counted
<1>14. CASE WaitWrite
  <2>1. PICK to \in sending + 1 .. Parts : Continue(to) /\ s_pc' \in {"idle", "send"}
    BY <1>14 DEF WaitWrite
  <2>2. is_sending /\ s_pc = "wait" /\ is_ready' /\ nqpc_sent = 0
    BY <1>14 DEF WaitWrite, Writable, link, Counted
  <2>3. /\ requests' \in Nat /\ (PerConn > 0 => requests' <= MostRequests)
        /\ requests' <= nqpc_sent' + (IF is_sending' /\ sending' > 0 THEN 1 ELSE 0)
        /\ ~(is_sending' /\ sending' = 0)
        /\ nqpc_sent' \in {nqpc_sent, nqpc_sent + 1}
    BY <2>1, <2>2, ContinueCounts
  <2>4. nqpc_sent' < MostRequests
    BY <1>1, <2>2, <2>3
  <2> QED BY <2>1, <2>2, <2>3, <2>4, Zenon DEF Counted
<1>15. CASE SendReconnect \/ SendNothing
  <2>1. /\ s_pc = "send" /\ s_pc' = "idle" /\ UNCHANGED <<is_ready, nqpc_sent, requests>>
        /\ (is_sending' = is_sending /\ sending' = sending) \/ (need_reconnect' /\ sending' = 0)
    BY <1>15 DEF SendReconnect, SendNothing, link
  <2>2. ~is_sending /\ is_ready
    BY <2>1 DEF TcpInv, Pending, Counted
  <2>3. requests <= nqpc_sent
    <3>1. requests <= nqpc_sent + 0
      BY <2>1, <2>2 DEF Counted
    <3> QED BY <1>1, <1>2, <3>1
  <2>4. /\ requests' <= nqpc_sent' + (IF is_sending' /\ sending' > 0 THEN 1 ELSE 0)
        /\ is_sending' /\ sending' = 0 => need_reconnect'
    BY <1>1, <1>2, <2>1, <2>2, <2>3
  <2> QED BY <1>2, <2>1, <2>2, <2>4 DEF Counted
<1>16. CASE SendWrite
  <2>1. PICK to \in 1 .. Parts : Written(qid', 0, to) /\ Progress(to)
    BY <1>16 DEF SendWrite
  <2>2. ~is_sending /\ s_pc = "send" /\ s_pc' = "idle" /\ is_ready' = is_ready /\ is_ready
    BY <1>16 DEF SendWrite, TcpInv, Pending, Counted
  <2>3. requests' = requests + 1 /\ nqpc_sent' = IF to = Parts THEN nqpc_sent + 1 ELSE nqpc_sent
    BY <2>1 DEF Written
  <2>4. \/ to < Parts /\ is_sending' /\ sending' = to
        \/ to = Parts /\ ~is_sending'
    <3>1. (to < Parts) \in BOOLEAN /\ ((to < Parts) \/ (to = Parts /\ ~(to < Parts)))
      BY DEF Parts
    <3> QED BY <2>1, <3>1, Zenon DEF Written, Progress
  <2>5. requests <= nqpc_sent /\ (PerConn > 0 => nqpc_sent < MostRequests)
    BY <1>1, <1>2, <2>2 DEF Counted
  <2>6. nqpc_sent' + (IF is_sending' /\ sending' > 0 THEN 1 ELSE 0) = nqpc_sent + 1 /\ ~(is_sending' /\ sending' = 0)
    BY <1>1, <2>3, <2>4 DEF Parts
  <2>7. requests' \in Nat /\ requests' <= nqpc_sent + 1 /\ (PerConn > 0 => requests' <= MostRequests)
    BY <1>1, <1>2, <2>3, <2>5
  <2> QED BY <2>2, <2>6, <2>7 DEF Counted
<1> QED BY <1>4, <1>5, <1>6, <1>7, <1>8, <1>9, <1>10, <1>11, <1>12, <1>13, <1>14, <1>15, <1>16
        DEF Next, ST, Connect, Flush, Wait, SendTo

-----------------------------------------------------------------------------
(* The whole invariant *)

\* Links and Aligned carry the framing of the responses, Signals what RT stores,
\* WireOrder the order of the requests and Counted their number.
WholeInv == TcpInv /\ TypeOK /\ Links /\ Aligned /\ Signals /\ WireOrder /\ Counted

LEMMA WholeInit == Init => WholeInv
<1> SUFFICES ASSUME Init PROVE WholeInv
  OBVIOUS
<1>1. TcpInv
  BY InitHolds
<1>2. /\ conn = 1 /\ 1 \in Conns /\ MaxConns \in Nat /\ is_ready \in BOOLEAN /\ recvbuf = <<>> /\ Len(recvbuf) = 0
      /\ wire = [c \in Conns |-> <<>>] /\ down = [c \in Conns |-> <<>>] /\ fdOf = [c \in Conns |-> 0]
      /\ desc = [d \in Fds |-> IF d = 0 THEN 1 ELSE NoConn] /\ fd = 0 /\ recvfd = 0 /\ r_fd = 0
  BY TcpAssumption DEF Init, Conns
<1>3. TypeOK
  <2>1. wire \in [Conns -> Seq(Piece)] /\ down \in [Conns -> Seq(Conns \X (1 .. Parts))] /\ recvbuf \in Seq(Conns \X (1 .. Parts))
    BY <1>2
  <2>2. state \in [Conns -> {"none", "connecting", "up", "lost"}] /\ answered \in [Conns -> Nat] /\ fdOf \in [Conns -> Fds]
    BY DEF Init, Fds
  <2>3. MoreTypes
    BY <2>1, <2>2 DEF Init, MoreTypes, Fds, NoFd
  <2>4. requests \in Nat
    BY DEF Init
  <2> QED BY <1>1, <2>3, <2>4, TypesMeet DEF TcpInv
<1>4. \A c \in Conns : wire[c] = <<>> /\ down[c] = <<>> /\ Len(down[c]) = 0 /\ DOMAIN wire[c] = {} /\ c \in Nat
  BY <1>2 DEF Conns
<1>5. Links
  <2>1. \A d \in Fds : desc[d] # NoConn => fdOf[desc[d]] = d /\ desc[d] <= conn
    BY <1>2 DEF Fds, NoConn
  <2>2. \A c \in Conns : \A i \in 1 .. Len(down[c]) : down[c][i][1] = c
    BY <1>4
  <2> QED BY <1>4, <2>1, <2>2, Zenon DEF Links
<1>6. Aligned
  <2>1. \E b \in 1 .. conn : fdOf[b] = recvfd
    BY <1>2
  <2>2. ASSUME NEW d \in Fds PROVE AlignedAt(d)
    <3>1. Buffered(d) = 0 /\ (desc[d] # NoConn => Len(down[desc[d]]) = 0)
      BY <1>2, <1>4 DEF Buffered
    <3>2. (0 + 0) % Parts = 0 /\ 1 .. 0 = {}
      BY DEF Parts
    <3> QED BY <3>1, <3>2 DEF AlignedAt, Readable
  <2>3. ~have_more /\ r_pc = "idle" /\ s_pc = "idle"
    BY DEF Init
  <2>4. 1 .. Len(recvbuf) = {}
    BY <1>2
  <2> QED BY <1>2, <2>1, <2>2, <2>3, <2>4, Zenon DEF Aligned
<1>7. Signals
  BY DEF Init, Signals
<1>8. WireOrder
  BY <1>4 DEF WireOrder, InOrder, Init
<1>9. Counted
  <2>1. requests = 0 /\ nqpc_sent = 0 /\ s_pc = "idle" /\ ~is_sending
    BY DEF Init
  <2>2. MostRequests \in Nat
    BY TcpAssumption DEF MostRequests
  <2> QED BY <2>1, <2>2 DEF Counted
<1> QED BY <1>1, <1>3, <1>5, <1>6, <1>7, <1>8, <1>9 DEF WholeInv

LEMMA WholeInductive == Spec => []WholeInv
<1>1. WholeInv /\ [Next]_vars => WholeInv'
  <2> SUFFICES ASSUME WholeInv, [Next]_vars PROVE WholeInv'
    OBVIOUS
  <2>1. TcpInv /\ TypeOK /\ Links /\ Aligned /\ Signals /\ WireOrder /\ Counted
    BY DEF WholeInv
  <2>2. TcpInv'
    BY <2>1, NextKept
  <2>3. Types' /\ MoreTypes' /\ Counted'
    BY <2>1, TypeKept, CountedKept
  <2>4. Links'
    BY <2>1, LinksKept
  <2>5. Aligned'
    BY <2>1, AlignedKept
  <2>6. Signals'
    BY <2>1, SignalsKept
  <2>7. WireOrder'
    BY <2>1, WireOrderKept
  <2>8. TypeOK'
    BY <2>3 DEF TypeOK, Types, MoreTypes, Piece, Counted
  <2> QED BY <2>2, <2>3, <2>4, <2>5, <2>6, <2>7, <2>8 DEF WholeInv
<1> QED BY <1>1, WholeInit, PTL DEF Spec

-----------------------------------------------------------------------------
(* The theorems *)

\* The order in which sockready opens, stores and closes descriptors never leaves
\* sock->fd closed or stale, nor a descriptor open (l.285-287, l.303-305).
THEOREM DescriptorsSafe == Spec => []DescriptorsKept
<1>1. TcpInv => DescriptorsKept
  <2> SUFFICES ASSUME TcpInv PROVE DescriptorsKept
    OBVIOUS
  <2>1. conn # NoConn
    BY DEF TcpInv, Types, Conns, NoConn
  <2> QED BY <2>1 DEF TcpInv, Types, Descriptors, DescriptorsKept, Current
<1> QED BY <1>1, Inductive, PTL

\* perf__tcp_sendto and perf__tcp_sockready implement StreamSocket: whatever the
\* receiving thread and the peer do, a query in progress is reported once or
\* dropped before another one is accepted.
THEOREM Implements == Spec => KeepsPromise
<1>1. Init => Sock!SockInit
  BY DEF Init, Sock!SockInit
<1>2. TcpInv /\ [Next]_vars => [Sock!SockNext]_<<IF is_sending THEN qid ELSE 0, reported>>
  <2> SUFFICES ASSUME TcpInv, [Next]_vars
               PROVE  [Sock!SockNext]_<<IF is_sending THEN qid ELSE 0, reported>>
    OBVIOUS
  <2>1. CASE RT \/ Peer \/ UNCHANGED vars
    <3>1. UNCHANGED <<is_sending, qid, reported>>
      BY <2>1 DEF RT, RTFrame, Peer, PeerFrame, vars, query
    <3> QED BY <3>1
  <2>2. CASE ReadyTop \/ Connect \/ Flush \/ Wait \/ SendTo
    <3>1. QueryStep
      BY <2>2, SenderStep
    <3>2. /\ is_sending \in BOOLEAN /\ is_sending' \in BOOLEAN /\ qid \in Nat
          /\ \A q \in reported : q <= qid /\ q \in Nat
          /\ is_sending => qid # 0 /\ qid \notin reported
      BY <3>1, TcpAssumption DEF TcpInv, Types, Pending, QueryStep, Queries
    <3>3. qid + 1 \notin reported /\ qid + 1 # 0
      BY <3>2
    <3>4. CASE Nothing
      BY <3>2, <3>4 DEF Nothing
    <3>5. CASE Dropped
      BY <3>2, <3>5 DEF Dropped, Sock!SockNext, Sock!Drop
    <3>6. CASE Finished
      BY <3>2, <3>6 DEF Finished, Sock!SockNext, Sock!Finish
    <3>7. CASE Taken
      <4>1. Sock!Take(qid')
        BY <3>2, <3>3, <3>7 DEF Taken, Sock!Take
      <4> QED BY <4>1, <3>7 DEF Taken, Sock!SockNext
    <3>8. CASE Kept
      <4>1. Sock!Keep(qid')
        BY <3>2, <3>3, <3>8 DEF Kept, Sock!Keep
      <4> QED BY <4>1, <3>8 DEF Kept, Sock!SockNext
    <3> QED BY <3>1, <3>4, <3>5, <3>6, <3>7, <3>8 DEF QueryStep
  <2> QED BY <2>1, <2>2 DEF Next, ST
<1> QED BY <1>1, <1>2, Inductive, PTL DEF Spec, KeepsPromise, Sock!SockSpec

\* Both directions are framed: perf__tcp_recv finds the beginning of a response
\* where it looks for one, but for a descriptor that is reused, and the pieces that
\* perf__tcp_sendto and perf__tcp_sockready write are those of one query after
\* another, from the first, none left out or repeated, across every reconnect.
THEOREM FramingSafe == Spec => []FramingKept
<1>1. WholeInv => FramingKept
  <2> SUFFICES ASSUME WholeInv PROVE FramingKept
    OBVIOUS
  <2>1. TypeOK /\ InOrder
    BY DEF WholeInv, WireOrder
  <2>2. DOMAIN recvbuf = 1 .. Len(recvbuf)
    BY <2>1 DEF TypeOK
  <2> QED BY <2>1, <2>2 DEF FramingKept, WholeInv, Aligned
<1> QED BY <1>1, WholeInductive, PTL

\* No connection carries more than num_queries_per_conn queries, or two where that
\* is one: sockready does not look at the limit after conn_cont (l.386).
THEOREM LimitSafe == Spec => []PerConnKept
<1>1. WholeInv => PerConnKept
  BY DEF WholeInv, Counted, PerConnKept, MostRequests
<1> QED BY <1>1, WholeInductive, PTL

\* The descriptor that perf__tcp_recv stores into recv_need_reconn makes
\* perf__tcp_sockready leave only a connection that is lost, unless the descriptor
\* was in use before.
THEOREM SignalSafe == Spec => []SignalMeant
<1>1. WholeInv => SignalMeant
  <2> SUFFICES ASSUME WholeInv, recv_need_reconn = fd PROVE WriteFails \/ Recurs(Current)
    BY DEF SignalMeant
  <2>1. fd \in Fds /\ fd # NoFd
    <3>1. fd \in Fds
      BY DEF WholeInv, TypeOK
    <3> QED BY <3>1 DEF Fds, NoFd
  <2>2. desc[fd] # NoConn
    BY DEF WholeInv, TcpInv, Types, Descriptors, Conns, NoConn
  <2> QED BY <2>1, <2>2 DEF WholeInv, Signals, Leaves, WriteFails, Current
<1> QED BY <1>1, WholeInductive, PTL
=============================================================================
