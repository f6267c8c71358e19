---------------------------- MODULE NetDotProofs ----------------------------
(***************************************************************************)
(* What a DoT socket promises the sending thread, how its two directions   *)
(* are framed and how many queries a connection carries, for every number  *)
(* of connections and queries, limit of queries per connection and size of *)
(* the buffer; also when one thread reconnects while the other is past its *)
(* PERF_UNLOCK.                                                            *)
(***************************************************************************)
EXTENDS NetDot, ListLemmas

Types == is_sending \in BOOLEAN /\ qid \in 0 .. MaxQueries /\ reported \subseteq Queries

\* A query in progress, or one whose last pieces are being accounted for, is the
\* last one that was handed over and is not reported; sendto is called with none in
\* progress, although RT may drop the query at any time.
Pending ==
  /\ \A q \in reported : q <= qid
  /\ is_sending \/ s_pc = "add" => qid # 0 /\ qid \notin reported
  /\ s_pc \in {"limit", "send"} => ~is_sending

\* The inductive invariant
DotInv == Types /\ Pending

\* The memory holds what "at" says, and what "at" will say; the value that RT has
\* loaded is the one in memory, or ST has reset that.
Buffers ==
  /\ at <= Len(recvbuf)
  /\ r_pc = "add" => r_at + r_n <= Len(recvbuf) /\ at \in {0, r_at}

\* SSL_write took something, and no more than there was.
Loaded == s_pc = "add" => s_n >= 1 /\ s_from + s_n <= Parts

\* The pieces that RT has read, whether "at" says so yet or not, and those that it
\* may still read are messages of the connection in use, one after the other.
Held == IF r_pc = "add" THEN r_at + r_n ELSE at
Framed ==
  "RT" \notin torn =>
    /\ r_pc # "crashed" /\ (r_pc = "take" => at >= Parts) /\ (r_pc = "add" => at = r_at)
    /\ \A i \in 1 .. Held : recvbuf[i] = <<conn, ((i - 1) % Parts) + 1>>
    /\ (Held + Len(down)) % Parts = 0
    /\ \A i \in 1 .. Len(down) : down[i] = <<conn, ((Held + i - 1) % Parts) + 1>>

\* The last piece written is the one before the next of the query in progress, or
\* the last of its query.
LastPiece == wire[conn][Len(wire[conn])]
Continues ==
  IF s_pc = "add" THEN is_sending /\ sending = s_from /\ wire[conn] # <<>> /\ LastPiece = <<qid, s_from + s_n>>
  ELSE IF is_sending /\ sending > 0 THEN wire[conn] # <<>> /\ LastPiece = <<qid, sending>>
  ELSE wire[conn] = <<>> \/ LastPiece[2] = Parts
AllOrderly(w) == \A c \in Conns : \A i \in DOMAIN w[c] : Orderly(Parts, w[c], i)
Ordered ==
  /\ \A c \in Conns : c > conn => wire[c] = <<>>
  /\ "ST" \notin torn => Continues /\ AllOrderly(wire)

\* The requests on the connection are counted in nqpc_sent, but for one that is in
\* progress or will be counted next; one is begun only below the limit.
Uncounted == s_pc \in {"add", "count"} \/ (is_sending /\ sending > 0)
Counted ==
  /\ requests \in Nat /\ (PerConn > 0 => requests <= PerConn)
  /\ requests <= nqpc_sent + (IF Uncounted THEN 1 ELSE 0)
  /\ (s_pc = "add" /\ ~is_sending) \/ s_pc = "event" \/ ~is_ready => requests = 0
  /\ PerConn > 0 /\ (s_pc \in {"event", "send"} \/ (is_sending /\ sending = 0 /\ s_pc # "add")) =>
       requests < PerConn

LEMMA InitHolds == Init => DotInv
<1>1. 0 \in 0 .. MaxQueries
  BY DotAssumption
<1>2. Init => s_pc = "idle" /\ is_sending = FALSE /\ qid = 0 /\ reported = {}
  BY DEF Init
<1> QED BY <1>1, <1>2, Zenon DEF DotInv, Types, Pending

-----------------------------------------------------------------------------
(* What a step of either thread may do with queries.  The query that FlushAdd
   finishes may have been dropped by RT after it was written. *)

Nothing ==
  /\ reported' = reported /\ is_sending' = is_sending
  /\ qid' = qid \/ (s_pc = "send" /\ qid' = qid + 1 /\ qid' \in Queries /\ s_pc' = "idle")
Dropped == reported' = reported /\ is_sending' = FALSE /\ qid' = qid
Reported == s_pc = "add" /\ s_pc' = "limit" /\ is_sending' = FALSE /\ qid' = qid /\ reported' = reported \union {qid}
Taken ==
  /\ s_pc = "send" /\ s_pc' = "count" /\ is_sending' = is_sending
  /\ qid' = qid + 1 /\ qid' \in Queries /\ reported' = reported \union {qid'}
Kept ==
  /\ s_pc = "send" /\ s_pc' = "idle" /\ is_sending' = TRUE
  /\ qid' = qid + 1 /\ qid' \in Queries /\ reported' = reported

QueryStep == Nothing \/ Dropped \/ Reported \/ Taken \/ Kept

\* How s_pc may change for the invariant
Moves ==
  /\ s_pc' = "add" => s_pc = "add" \/ is_sending'
  /\ s_pc' \in {"limit", "send"} => s_pc \in {"limit", "send"} \/ ~is_sending'

LEMMA DropStep ==
  ASSUME Types, DropPartial, reported' = reported
  PROVE  Nothing \/ Dropped
<1>1. qid' = qid /\ is_sending' = (is_sending /\ sending = 0) /\ is_sending \in BOOLEAN
  BY DEF DropPartial, Types
<1>2. is_sending' = is_sending \/ is_sending' = FALSE
  BY <1>1, Zenon
<1> QED BY <1>1, <1>2 DEF Nothing, Dropped

\* Each step of ST, of RT and of the peer does one of these things.
LEMMA EveryStep ==
  ASSUME DotInv, Next
  PROVE  QueryStep /\ Moves
<1>1. Types /\ is_sending \in BOOLEAN /\ qid \in 0 .. MaxQueries /\ MaxQueries \in Nat
  BY DotAssumption DEF DotInv, Types
<1>2. CASE FlushNothing \/ FlushWant \/ Limit \/ WaitTimedOut \/ ShakeWant \/ ShakeFail \/ ShakeDone \/ SendCount \/ SendNothing
  <2>1. /\ UNCHANGED <<reported, is_sending, qid>> /\ s_pc' # "add"
        /\ s_pc' \in {"limit", "send"} => s_pc \in {"limit", "send"} \/ ~is_sending
    BY <1>2, Zenon DEF FlushNothing, FlushWant, Limit, WaitTimedOut, ShakeWant, ShakeFail, ShakeDone, SendCount,
       SendNothing, query, taken
  <2> QED BY <2>1 DEF QueryStep, Nothing, Moves
<1>3. CASE ReadyReturn
  BY <1>3 DEF ReadyReturn, ReadyIfFree, query, taken, QueryStep, Nothing, Moves
<1>4. CASE ReadyReconnect \/ FlushSyscall \/ LimitReconnect
  <2>1. DropPartial /\ reported' = reported /\ s_pc' \in {"held", "idle"}
    BY <1>4 DEF ReadyReconnect, FlushSyscall, LimitReconnect, ReconnectByST, Reconnect, taken
  <2> QED BY <1>1, <2>1, DropStep DEF QueryStep, Moves
<1>5. CASE FlushWrite
  <2>1. is_sending /\ s_pc' = "add" /\ UNCHANGED <<reported, is_sending, qid>>
    BY <1>5 DEF FlushWrite, query
  <2> QED BY <2>1 DEF QueryStep, Nothing, Moves
<1>6. CASE FlushAdd
  <2>1. /\ s_pc = "add" /\ qid' = qid
        /\ \/ s_pc' = "idle" /\ UNCHANGED <<is_sending, reported>>
           \/ s_pc' = "limit" /\ is_sending' = FALSE /\ reported' = reported \union {qid}
    BY <1>6 DEF FlushAdd, Finished
  <2> QED BY <2>1 DEF QueryStep, Nothing, Reported, Moves
<1>7. CASE SendKeep \/ SendReconnect
  <2>1. /\ s_pc = "send" /\ qid < MaxQueries /\ qid' = qid + 1 /\ is_sending' = TRUE /\ s_pc' = "idle"
        /\ reported' = reported
    BY <1>7 DEF SendKeep, SendReconnect, InSend, ReconnectByST, Reconnect, taken
  <2>2. qid' \in Queries
    BY <1>1, <2>1 DEF Queries
  <2> QED BY <2>1, <2>2 DEF QueryStep, Kept, Moves
<1>8. CASE SendWrite
  <2>1. /\ s_pc = "send" /\ qid < MaxQueries /\ qid' = qid + 1
        /\ \/ s_pc' = "count" /\ reported' = reported \union {qid'} /\ is_sending' = is_sending
           \/ s_pc' = "idle" /\ is_sending' = TRUE /\ reported' = reported
    BY <1>8 DEF SendWrite, InSend
  <2>2. qid' \in Queries
    BY <1>1, <2>1 DEF Queries
  <2> QED BY <2>1, <2>2 DEF QueryStep, Taken, Kept, Moves
<1>9. CASE SendFail
  <2>1. s_pc = "send" /\ qid < MaxQueries /\ qid' = qid + 1 /\ s_pc' = "idle" /\ UNCHANGED <<is_sending, reported>>
    BY <1>9 DEF SendFail, InSend, taken
  <2>2. qid' \in Queries
    BY <1>1, <2>1 DEF Queries
  <2> QED BY <2>1, <2>2 DEF QueryStep, Nothing, Moves
<1>10. CASE RecvReconnect
  <2>1. DropPartial /\ reported' = reported /\ s_pc' = s_pc
    BY <1>10 DEF RecvReconnect, ReconnectByRT, Reconnect, taken
  <2> QED BY <1>1, <2>1, DropStep DEF QueryStep, Moves
<1>11. CASE RecvMore \/ RecvAgain \/ RecvRead \/ RecvAdd \/ RecvParse \/ RecvTake \/ RecvWild \/ RecvReturn \/ RecvFatal \/ Peer
  <2>1. UNCHANGED <<s_pc, reported, is_sending, qid>>
    BY <1>11 DEF RecvMore, RecvAgain, RecvRead, RecvAdd, RecvParse, RecvTake, RecvWild, RecvReturn, RecvFatal,
       RTFrame, Peer, Established, Lost, Answer, TimePasses, PeerFrame, query, taken
  <2> QED BY <2>1 DEF QueryStep, Nothing, Moves
<1> QED BY <1>2, <1>3, <1>4, <1>5, <1>6, <1>7, <1>8, <1>9, <1>10, <1>11 DEF Next, ST, RT, SockReady, SendTo, Recv

LEMMA NextKept == DotInv /\ [Next]_vars => DotInv'
<1> SUFFICES ASSUME DotInv, [Next]_vars PROVE DotInv'
  OBVIOUS
<1>1. CASE UNCHANGED vars
  BY <1>1 DEF vars, query, taken, DotInv, Types, Pending
<1>2. CASE Next
  <2>1. QueryStep /\ Moves
    BY <1>2, EveryStep
  <2>2. /\ is_sending \in BOOLEAN /\ qid \in 0 .. MaxQueries /\ MaxQueries \in Nat /\ reported \subseteq Queries
        /\ \A q \in reported : q <= qid /\ q \in Nat
        /\ is_sending \/ s_pc = "add" => qid # 0 /\ qid \notin reported
        /\ s_pc \in {"limit", "send"} => ~is_sending
    BY DotAssumption DEF DotInv, Types, Pending, Queries
  <2>3. CASE Nothing
    <3>1. CASE qid' = qid
      BY <2>1, <2>2, <2>3, <3>1 DEF Nothing, Moves, DotInv, Types, Pending
    <3>2. CASE s_pc = "send" /\ qid' = qid + 1 /\ qid' \in Queries /\ s_pc' = "idle"
      <4>1. /\ is_sending' = is_sending /\ ~is_sending /\ reported' = reported
            /\ qid' \in 0 .. MaxQueries /\ \A q \in reported : q <= qid'
        BY <2>2, <2>3, <3>2 DEF Nothing, Queries
      <4> QED BY <2>2, <3>2, <4>1 DEF DotInv, Types, Pending
    <3> QED BY <2>3, <3>1, <3>2 DEF Nothing
  <2>4. CASE Dropped
    BY <2>1, <2>2, <2>4, Zenon DEF Dropped, Moves, DotInv, Types, Pending
  <2>5. CASE Reported
    <3>1. reported' \subseteq Queries /\ \A q \in reported' : q <= qid'
      BY <2>2, <2>5 DEF Reported, Queries
    <3> QED BY <2>2, <2>5, <3>1, Zenon DEF Reported, DotInv, Types, Pending
  <2>6. CASE Taken
    <3>1. reported' \subseteq Queries /\ qid' \in 0 .. MaxQueries /\ \A q \in reported' : q <= qid'
      BY <2>2, <2>6 DEF Taken, Queries
    <3> QED BY <2>2, <2>6, <3>1 DEF Taken, DotInv, Types, Pending
  <2>7. CASE Kept
    <3>1. qid' \in 0 .. MaxQueries /\ qid' # 0 /\ qid' \notin reported /\ \A q \in reported : q <= qid'
      BY <2>2, <2>7 DEF Kept, Queries
    <3> QED BY <2>2, <2>7, <3>1 DEF Kept, DotInv, Types, Pending
  <2> QED BY <2>1, <2>3, <2>4, <2>5, <2>6, <2>7 DEF QueryStep
<1> QED BY <1>1, <1>2

LEMMA Inductive == Spec => []DotInv
<1> QED BY InitHolds, NextKept, PTL DEF Spec

-----------------------------------------------------------------------------
(* The types *)

\* What a write adds to a connection
Added(q, from, to) == [k \in 1 .. to - from |-> <<q, from + k>>]
Piece == Queries \X (1 .. Parts)

LEMMA AddedAre ==
  ASSUME NEW q \in Queries, NEW from \in 0 .. Parts - 1, NEW to \in from + 1 .. Parts
  PROVE  /\ Added(q, from, to) \in Seq(Piece) /\ Len(Added(q, from, to)) = to - from
         /\ \A k \in 1 .. to - from : Added(q, from, to)[k] = <<q, from + k>>
<1>1. Parts \in Nat
  BY DEF Parts
<1> QED BY <1>1, RunLemma DEF Added, Piece

\* The types of what ST and the peer write, and of what RT writes
STypes ==
  /\ s_pc \in {"idle", "held", "add", "limit", "relock", "event", "send", "count"}
  /\ s_from \in 0 .. Parts /\ s_n \in 0 .. Parts
  /\ is_ready \in BOOLEAN /\ is_conn_ready \in BOOLEAN /\ do_reconnect \in BOOLEAN
  /\ is_sending \in BOOLEAN /\ sending \in 0 .. Parts - 1 /\ qid \in 0 .. MaxQueries
  /\ nqpc_sent \in Nat /\ nqpc_ts \in BOOLEAN /\ late \in BOOLEAN /\ leaked \in BOOLEAN
  /\ conn \in Conns /\ state \in {"connecting", "tcp", "up", "lost"}
  /\ wire \in [Conns -> Seq(Piece)] /\ answered \in Nat
  /\ reported \subseteq Queries /\ torn \subseteq {"ST", "RT"}
RTypes ==
  /\ r_pc \in {"idle", "add", "parse", "take", "more", "fatal", "crashed"}
  /\ at \in 0 .. BufSize /\ r_at \in 0 .. BufSize /\ r_n \in 0 .. BufSize
  /\ have_more \in BOOLEAN /\ r_more \in BOOLEAN /\ nqpc_recv \in Nat
  /\ recvbuf \in Seq(Pieces) /\ Len(recvbuf) <= BufSize /\ down \in Seq(Pieces)

LEMMA TypesMeet == TypeOK <=> STypes /\ RTypes /\ requests \in Nat
BY ZenonT(30) DEF TypeOK, STypes, RTypes, Piece

LEMMA WriteTypes ==
  ASSUME STypes, NEW q \in Queries, NEW from \in 0 .. Parts - 1, NEW to \in from + 1 .. Parts, Written(q, from, to)
  PROVE  /\ wire' = [wire EXCEPT ![conn] = @ \o Added(q, from, to)]
         /\ wire' \in [Conns -> Seq(Piece)]
<1>1. wire \in [Conns -> Seq(Piece)] /\ conn \in Conns /\ wire[conn] \in Seq(Piece)
  BY DEF STypes
<1>2. wire' = [wire EXCEPT ![conn] = @ \o Added(q, from, to)]
  BY DEF Written, Added
<1>3. wire[conn] \o Added(q, from, to) \in Seq(Piece)
  BY <1>1, AddedAre
<1> QED BY <1>1, <1>2, <1>3

\* Reconnecting is the same for both threads.
LEMMA ReconnectStep ==
  ASSUME STypes, Reconnect
  PROVE  /\ conn' = conn + 1 /\ conn' \in Conns /\ conn \in Nat /\ down' = <<>> /\ at' = 0 /\ nqpc_sent' = 0
         /\ ~is_ready' /\ UNCHANGED <<recvbuf, wire, reported, leaked>>
         /\ is_ready' \in BOOLEAN /\ is_conn_ready' \in BOOLEAN /\ state' \in {"tcp", "connecting"}
         /\ nqpc_ts' = FALSE /\ late' = FALSE /\ answered' = 0 /\ have_more' = FALSE /\ nqpc_recv' = 0
<1>1. conn' = conn + 1 /\ conn' \in Conns /\ conn \in Nat
  BY DotAssumption DEF STypes, Reconnect, Conns
<1> QED BY <1>1, Zenon DEF Reconnect, ResetAt, taken

LEMMA DropTypes ==
  ASSUME STypes, DropPartial
  PROVE  is_sending' \in BOOLEAN /\ sending' \in 0 .. Parts - 1 /\ qid' = qid
         /\ sending' = 0 /\ (is_sending' => is_sending /\ sending = 0)
<1>1. is_sending' \in BOOLEAN /\ (is_sending' => is_sending /\ sending = 0)
  BY Zenon DEF DropPartial
<1> QED BY <1>1 DEF DropPartial, Parts

\* The reconnects of ST, and what becomes of the query in progress
LEMMA ReconnectST ==
  ASSUME STypes, DotInv, ReadyReconnect \/ FlushSyscall \/ LimitReconnect \/ SendReconnect
  PROVE  /\ Reconnect /\ is_sending' \in BOOLEAN /\ sending' = 0 /\ qid' \in 0 .. MaxQueries
         /\ s_pc # "add" /\ s_pc' \in {"held", "idle"} /\ do_reconnect' \in BOOLEAN
         /\ torn' = (IF r_pc = "idle" THEN torn ELSE torn \union {"RT"})
         /\ UNCHANGED <<s_from, s_n, r_pc, r_at, r_n, r_more>>
<1>1. CASE ReadyReconnect \/ FlushSyscall \/ LimitReconnect
  <2>1. ReconnectByST /\ DropPartial /\ s_pc' \in {"held", "idle"} /\ s_pc # "add"
        /\ do_reconnect' \in {do_reconnect, FALSE}
    BY <1>1, Zenon DEF ReadyReconnect, FlushSyscall, LimitReconnect, InReady
  <2>2. is_sending' \in BOOLEAN /\ qid' = qid /\ sending' = 0
    BY <2>1, DropTypes
  <2> QED BY <2>1, <2>2, Zenon DEF ReconnectByST, STypes, sLocals, rtVars
<1>2. CASE SendReconnect
  <2>1. ReconnectByST /\ is_sending' = TRUE /\ sending' = 0 /\ s_pc' = "idle" /\ s_pc = "send"
        /\ do_reconnect' = do_reconnect /\ qid < MaxQueries /\ qid' = qid + 1
    BY <1>2 DEF SendReconnect, InSend
  <2>2. qid' \in 0 .. MaxQueries
    BY <2>1, DotAssumption DEF STypes
  <2> QED BY <2>1, <2>2 DEF ReconnectByST, STypes, sLocals, rtVars
<1> QED BY <1>1, <1>2

LEMMA STypesKept ==
  ASSUME DotInv, TypeOK, Loaded, [Next]_vars
  PROVE  STypes' /\ Loaded'
<1>1. STypes /\ RTypes
  BY TypesMeet
<1>2. reported' \subseteq Queries
  BY NextKept DEF DotInv, Types
<1>3. (is_sending => qid \in Queries) /\ MaxQueries \in Nat /\ qid \in 0 .. MaxQueries
  BY <1>1, DotAssumption DEF DotInv, Pending, Queries, STypes
<1>4. CASE UNCHANGED vars \/ RecvMore \/ RecvAgain \/ RecvRead \/ RecvAdd \/ RecvParse \/ RecvTake \/ RecvWild
           \/ RecvReturn \/ RecvFatal
  <2>1. UNCHANGED <<s_pc, sLocals, query, taken, counts, session, answered, leaked, torn>>
    BY <1>4 DEF RecvMore, RecvAgain, RecvRead, RecvAdd, RecvParse, RecvTake, RecvWild, RecvReturn, RecvFatal,
       RTFrame, vars, peer
  <2> QED BY <1>1, <2>1 DEF sLocals, query, taken, counts, session, STypes, Loaded
<1>5. CASE Peer
  <2>1. /\ UNCHANGED <<s_pc, s_from, s_n, is_ready, is_conn_ready, do_reconnect, is_sending, sending, qid>>
        /\ UNCHANGED <<nqpc_sent, nqpc_ts, leaked, conn, wire, reported, torn>>
    BY <1>5 DEF Peer, Established, Lost, Answer, TimePasses, PeerFrame, sLocals, query, taken
  <2>2. /\ late' = late \/ late' = TRUE
        /\ state' \in {state, "tcp", "lost"} /\ answered' \in {answered, answered + 1}
    BY <1>5 DEF Peer, Established, Lost, Answer, TimePasses, peer
  <2>3. late' \in BOOLEAN
    BY <1>1, <2>2, Zenon DEF STypes
  <2>4. state' \in {"connecting", "tcp", "up", "lost"} /\ answered' \in Nat
    BY <1>1, <2>2 DEF STypes
  <2> QED BY <1>1, <2>1, <2>3, <2>4 DEF STypes, Loaded
<1>6. CASE ReadyReconnect \/ FlushSyscall \/ LimitReconnect \/ SendReconnect
  <2>1. /\ Reconnect /\ is_sending' \in BOOLEAN /\ sending' = 0 /\ qid' \in 0 .. MaxQueries
        /\ s_pc' \in {"held", "idle"} /\ do_reconnect' \in BOOLEAN
        /\ torn' = (IF r_pc = "idle" THEN torn ELSE torn \union {"RT"}) /\ UNCHANGED <<s_from, s_n>>
    BY <1>1, <1>6, ReconnectST
  <2>2. /\ conn' \in Conns /\ nqpc_sent' = 0 /\ UNCHANGED <<wire, reported, leaked>>
        /\ is_ready' \in BOOLEAN /\ is_conn_ready' \in BOOLEAN /\ state' \in {"tcp", "connecting"}
        /\ nqpc_ts' = FALSE /\ late' = FALSE /\ answered' = 0
    BY <1>1, <2>1, ReconnectStep
  <2>3. sending' \in 0 .. Parts - 1 /\ torn' \subseteq {"ST", "RT"}
    BY <1>1, <2>1 DEF STypes, Parts
  <2> QED BY <1>1, <2>1, <2>2, <2>3, Zenon DEF STypes, Loaded
<1>7. CASE RecvReconnect
  <2>1. Reconnect /\ DropPartial /\ torn' \in {torn, torn \union {"ST"}} /\ UNCHANGED <<s_pc, s_from, s_n, do_reconnect>>
    BY <1>7 DEF RecvReconnect, ReconnectByRT, sLocals
  <2>2. /\ conn' \in Conns /\ nqpc_sent' = 0 /\ UNCHANGED <<wire, reported, leaked>>
        /\ is_ready' \in BOOLEAN /\ is_conn_ready' \in BOOLEAN /\ state' \in {"tcp", "connecting"}
        /\ nqpc_ts' = FALSE /\ late' = FALSE /\ answered' = 0
    BY <1>1, <2>1, ReconnectStep
  <2>3. is_sending' \in BOOLEAN /\ sending' \in 0 .. Parts - 1 /\ qid' = qid
    BY <1>1, <2>1, DropTypes
  <2> QED BY <1>1, <2>1, <2>2, <2>3, Zenon DEF STypes, Loaded
<1>8. CASE FlushNothing \/ FlushWant \/ WaitTimedOut \/ ReadyReturn \/ SendNothing
  <2>1. /\ UNCHANGED <<sLocals, query, taken, counts, session, leaked, answered, torn>>
        /\ s_pc' \in {"limit", "idle", "send"}
    BY <1>8 DEF FlushNothing, FlushWant, WaitTimedOut, ReadyReturn, ReadyIfFree, SendNothing, STFrame, peer
  <2> QED BY <1>1, <2>1 DEF sLocals, query, taken, counts, session, STypes, Loaded
<1>9. CASE Limit
  <2>1. nqpc_ts' \in BOOLEAN
    BY <1>9, Zenon DEF Limit
  <2>2. /\ UNCHANGED <<sLocals, query, taken, nqpc_sent, late, session, leaked, answered, torn>>
        /\ s_pc' \in {"send", "relock", "idle"}
    BY <1>9 DEF Limit, STFrame, peer
  <2> QED BY <1>1, <2>1, <2>2 DEF sLocals, query, taken, session, STypes, Loaded
<1>10. CASE ShakeWant \/ ShakeFail \/ ShakeDone
  <2>1. /\ UNCHANGED <<sLocals, query, taken, counts, conn, leaked, answered, torn>>
        /\ s_pc' \in {"idle", "event"} /\ state' \in {state, "up"}
        /\ is_conn_ready' = is_conn_ready \/ is_conn_ready' = TRUE
        /\ is_ready' = is_ready \/ is_ready' = TRUE
        /\ do_reconnect' = do_reconnect \/ do_reconnect' = TRUE
    BY <1>10, Zenon DEF ShakeWant, ShakeFail, ShakeDone, STFrame, peer
  <2>2. is_conn_ready' \in BOOLEAN /\ is_ready' \in BOOLEAN /\ do_reconnect' \in BOOLEAN
    BY <1>1, <2>1, Zenon DEF STypes
  <2> QED BY <1>1, <2>1, <2>2 DEF sLocals, query, taken, counts, STypes, Loaded
<1>11. CASE SendKeep \/ SendFail
  <2>1. /\ UNCHANGED <<sLocals, wire, counts, session, answered, torn>> /\ s_pc' = "idle"
        /\ is_sending' = is_sending \/ is_sending' = TRUE
        /\ sending' \in {sending, 0} /\ (leaked' = leaked \/ leaked' \in BOOLEAN)
        /\ qid' = qid + 1 /\ qid < MaxQueries
    BY <1>11 DEF SendKeep, SendFail, InSend, STFrame, peer, taken
  <2>2. qid' \in 0 .. MaxQueries
    BY <1>3, <2>1
  <2>3. is_sending' \in BOOLEAN /\ leaked' \in BOOLEAN
    BY <1>1, <2>1, Zenon DEF STypes
  <2>4. sending' \in 0 .. Parts - 1
    BY <1>1, <2>1 DEF STypes, Parts
  <2> QED BY <1>1, <1>2, <2>1, <2>2, <2>3, <2>4 DEF sLocals, counts, session, STypes, Loaded
<1>12. CASE SendCount
  <2>1. UNCHANGED <<sLocals, query, taken, nqpc_ts, late, session, leaked, answered, torn>> /\ s_pc' = "idle" /\ nqpc_sent' = nqpc_sent + 1
    BY <1>12 DEF SendCount, STFrame, peer
  <2> QED BY <1>1, <2>1 DEF sLocals, query, taken, session, STypes, Loaded
<1>13. CASE FlushWrite
  <2>1. PICK to \in sending + 1 .. Parts : Written(qid, sending, to) /\ s_from' = sending /\ s_n' = to - sending
    BY <1>13 DEF FlushWrite
  <2>2. /\ UNCHANGED <<query, counts, session, leaked, answered, torn>> /\ is_sending /\ s_pc' = "add"
    BY <1>13 DEF FlushWrite, STFrame, peer
  <2>3. wire' \in [Conns -> Seq(Piece)]
    <3>1. qid \in Queries /\ sending \in 0 .. Parts - 1
      BY <1>1, <1>3, <2>2 DEF STypes
    <3> QED BY <1>1, <2>1, <3>1, WriteTypes
  <2>4. s_from' \in 0 .. Parts /\ s_n' \in 0 .. Parts /\ s_n' >= 1 /\ s_from' + s_n' <= Parts
    BY <1>1, <2>1 DEF STypes, Parts
  <2> QED BY <1>1, <1>2, <2>2, <2>3, <2>4 DEF query, counts, session, STypes, Loaded
<1>14. CASE FlushAdd
  <2>1. PICK base \in {s_from, sending} :
          IF base + s_n < Parts
          THEN sending' = base + s_n /\ s_pc' = "idle" /\ UNCHANGED <<is_sending, nqpc_sent>>
          ELSE sending' = 0 /\ is_sending' = FALSE /\ nqpc_sent' = nqpc_sent + 1 /\ s_pc' = "limit"
    BY <1>14 DEF FlushAdd, Finished
  <2>2. UNCHANGED <<s_from, s_n, qid, wire, nqpc_ts, late, session, leaked, answered, torn>>
    BY <1>14 DEF FlushAdd, STFrame, peer, sLocals
  <2>3. /\ sending' \in 0 .. Parts - 1 /\ nqpc_sent' \in Nat /\ s_pc' \in {"idle", "limit"}
        /\ is_sending' = is_sending \/ is_sending' = FALSE
    <3>1. base \in Nat /\ s_n \in Nat /\ nqpc_sent \in Nat
      BY <1>1 DEF STypes, Parts
    <3> QED BY <2>1, <3>1 DEF Parts
  <2>4. is_sending' \in BOOLEAN
    BY <1>1, <2>3, Zenon DEF STypes
  <2> QED BY <1>1, <1>2, <2>2, <2>3, <2>4 DEF session, STypes, Loaded
<1>15. CASE SendWrite
  <2>1. PICK to \in 1 .. Parts :
          /\ Written(qid', 0, to)
          /\ IF to = Parts THEN s_pc' = "count" /\ UNCHANGED <<is_sending, sending>>
             ELSE s_pc' = "idle" /\ is_sending' = TRUE /\ sending' = to
    BY <1>15 DEF SendWrite
  <2>2. UNCHANGED <<sLocals, counts, session, leaked, answered, torn>> /\ qid' = qid + 1 /\ qid < MaxQueries
    BY <1>15 DEF SendWrite, InSend, STFrame, peer
  <2>3. PICK q \in Queries : q = qid'
    BY <1>3, <2>2 DEF Queries
  <2>4. wire' \in [Conns -> Seq(Piece)]
    <3>1. Written(q, 0, to) /\ 0 \in 0 .. Parts - 1 /\ to \in 0 + 1 .. Parts
      BY <2>1, <2>3 DEF Parts
    <3> QED BY <1>1, <3>1, WriteTypes
  <2>5. /\ sending' \in 0 .. Parts - 1 /\ s_pc' \in {"count", "idle"}
        /\ is_sending' = is_sending \/ is_sending' = TRUE
    <3>1. sending \in 0 .. Parts - 1 /\ to \in 1 .. Parts
      BY <1>1 DEF STypes
    <3> QED BY <2>1, <3>1 DEF Parts
  <2>6. is_sending' \in BOOLEAN
    BY <1>1, <2>5, Zenon DEF STypes
  <2>7. qid' \in 0 .. MaxQueries
    BY <2>3 DEF Queries
  <2> QED BY <1>1, <1>2, <2>2, <2>4, <2>5, <2>6, <2>7 DEF sLocals, counts, session, STypes, Loaded
<1> QED BY <1>4, <1>5, <1>6, <1>7, <1>8, <1>9, <1>10, <1>11, <1>12, <1>13, <1>14, <1>15
        DEF Next, ST, RT, SockReady, SendTo, Recv

\* SSL_read: the k pieces that are first to be read stand behind "at".
Reads(k) ==
  /\ at + k <= BufSize
  /\ recvbuf' = SubSeq(recvbuf, 1, at) \o SubSeq(down, 1, k) \o SubSeq(recvbuf, at + k + 1, Len(recvbuf))
  /\ down' = SubSeq(down, k + 1, Len(down))

LEMMA ReadMoves ==
  ASSUME RTypes, Buffers, NEW k \in 1 .. Len(down), Reads(k)
  PROVE  /\ recvbuf' \in Seq(Pieces) /\ Len(recvbuf') \in Nat /\ at + k <= Len(recvbuf') /\ Len(recvbuf') <= BufSize
         /\ \A i \in 1 .. at : recvbuf'[i] = recvbuf[i]
         /\ \A i \in 1 .. k : recvbuf'[at + i] = down[i]
         /\ down' \in Seq(Pieces) /\ Len(down') = Len(down) - k
         /\ \A i \in 1 .. Len(down) - k : down'[i] = down[k + i]
<1>1. /\ recvbuf \in Seq(Pieces) /\ down \in Seq(Pieces) /\ Len(recvbuf) \in Nat /\ Len(down) \in Nat
      /\ at \in 0 .. Len(recvbuf) /\ k \in 0 .. Len(down) /\ k \in Nat /\ at \in Nat /\ Len(recvbuf) <= BufSize
      /\ BufSize \in Nat
  BY DotAssumption DEF RTypes, Buffers
<1>2. PICK a : a = SubSeq(recvbuf, 1, at)
  BY Zenon
<1>3. a \in Seq(Pieces) /\ Len(a) = at /\ \A i \in 1 .. at : a[i] = recvbuf[i]
  BY <1>1, <1>2, CutLemma
<1>4. PICK b : b = SubSeq(down, 1, k)
  BY Zenon
<1>5. b \in Seq(Pieces) /\ Len(b) = k /\ \A i \in 1 .. k : b[i] = down[i]
  BY <1>1, <1>4, CutLemma
<1>6. PICK c : c = SubSeq(recvbuf, at + k + 1, Len(recvbuf))
  BY Zenon
<1>7. c \in Seq(Pieces) /\ Len(c) \in Nat /\ at + k + Len(c) <= BufSize
  <2>0. at + k + 1 \in Nat /\ Len(recvbuf) \in Nat
    BY <1>1
  <2>1. PICK m \in Nat, n \in Nat : m = at + k + 1 /\ n = Len(recvbuf)
    BY <2>0
  <2>2. m \in Int /\ n \in Int /\ (\A i \in m .. n : recvbuf[i] \in Pieces) /\ c = SubSeq(recvbuf, m, n)
    BY <1>1, <1>6, <2>1
  <2>3. c \in Seq(Pieces) /\ Len(c) = IF m <= n THEN n - m + 1 ELSE 0
    BY <2>2, PartLemma
  <2>4. at + k <= BufSize
    BY DEF Reads
  <2>5. Len(c) \in Nat /\ (Len(c) = 0 \/ at + k + Len(c) = Len(recvbuf))
    <3>1. PICK x : x = Len(c)
      BY Zenon
    <3>2. x = IF m <= n THEN n - m + 1 ELSE 0
      BY <2>3, <3>1
    <3>3. at \in Nat /\ k \in Nat /\ m = at + k + 1
      BY <1>1, <2>1
    <3>4. x \in Nat /\ (x = 0 \/ at + k + x = n)
      BY <3>2, <3>3
    <3> QED BY <2>1, <3>1, <3>4
  <2> QED BY <1>1, <2>3, <2>4, <2>5
<1>8. PICK ab : ab = a \o b
  BY Zenon
<1>9. /\ ab \in Seq(Pieces) /\ Len(ab) = at + k
      /\ \A i \in 1 .. at : ab[i] = a[i]
      /\ \A i \in 1 .. k : ab[at + i] = b[i]
  <2>1. a \in Seq(Pieces) /\ b \in Seq(Pieces)
    BY <1>3, <1>5
  <2>2. /\ ab \in Seq(Pieces) /\ Len(ab) = Len(a) + Len(b)
        /\ \A i \in 1 .. Len(a) : ab[i] = a[i]
        /\ \A i \in 1 .. Len(b) : ab[Len(a) + i] = b[i]
    BY <1>8, <2>1, JoinLemma
  <2> QED BY <1>3, <1>5, <2>2
<1>10. recvbuf' = ab \o c
  BY <1>2, <1>4, <1>6, <1>8 DEF Reads
<1>11. PICK u : u = ab \o c
  BY Zenon
<1>12. u \in Seq(Pieces) /\ Len(u) = Len(ab) + Len(c) /\ \A i \in 1 .. Len(ab) : u[i] = ab[i]
  <2>1. ab \in Seq(Pieces) /\ c \in Seq(Pieces)
    BY <1>7, <1>9
  <2> QED BY <1>11, <2>1, JoinLemma
<1>13. /\ u \in Seq(Pieces) /\ Len(u) \in Nat /\ at + k <= Len(u) /\ Len(u) <= BufSize
       /\ \A i \in 1 .. at + k : u[i] = ab[i]
  BY <1>1, <1>7, <1>9, <1>12
<1>14. \A i \in 1 .. at : u[i] = recvbuf[i]
  BY <1>1, <1>3, <1>9, <1>13
<1>15. ASSUME NEW i \in 1 .. k PROVE u[at + i] = down[i]
  <2>1. at + i \in 1 .. at + k
    BY <1>1
  <2> QED BY <1>5, <1>9, <1>13, <2>1
<1>16. /\ down' \in Seq(Pieces) /\ Len(down') = Len(down) - k
       /\ \A i \in 1 .. Len(down) - k : down'[i] = down[k + i]
  <2>1. PICK v : v = SubSeq(down, k + 1, Len(down))
    BY Zenon
  <2>2. v \in Seq(Pieces) /\ Len(v) = Len(down) - k /\ \A i \in 1 .. Len(down) - k : v[i] = down[k + i]
    BY <1>1, <2>1, CutLemma
  <2>3. down' = v
    BY <2>1 DEF Reads
  <2> QED BY <2>2, <2>3
<1>17. recvbuf' = u
  BY <1>10, <1>11
<1> QED BY <1>13, <1>14, <1>15, <1>16, <1>17

\* The memmove behind a message
LEMMA TakeMoves ==
  ASSUME RTypes, Buffers, at >= Parts,
         recvbuf' = SubSeq(recvbuf, Parts + 1, at) \o SubSeq(recvbuf, at - Parts + 1, Len(recvbuf))
  PROVE  /\ recvbuf' \in Seq(Pieces) /\ Len(recvbuf') = Len(recvbuf)
         /\ \A i \in 1 .. at - Parts : recvbuf'[i] = recvbuf[Parts + i]
<1>1. /\ recvbuf \in Seq(Pieces) /\ Len(recvbuf) \in Nat /\ Parts \in Nat /\ at \in Nat /\ at <= Len(recvbuf)
  BY DEF RTypes, Buffers, Parts
<1>2. PICK n \in Nat, r \in Nat : n = Len(recvbuf) /\ r = at - Parts
  BY <1>1
<1>3. PICK a : a = SubSeq(recvbuf, Parts + 1, at)
  BY Zenon
<1>4. a \in Seq(Pieces) /\ Len(a) = r /\ \A i \in 1 .. r : a[i] = recvbuf[Parts + i]
  <2>1. Parts + 1 \in Int /\ at \in Int /\ \A i \in Parts + 1 .. at : recvbuf[i] \in Pieces
    BY <1>1 DEF Parts
  <2>2. /\ a \in Seq(Pieces) /\ Len(a) = (IF Parts + 1 <= at THEN at - (Parts + 1) + 1 ELSE 0)
        /\ \A i \in 1 .. at - (Parts + 1) + 1 : a[i] = recvbuf[Parts + 1 + i - 1]
    BY <1>3, <2>1, PartLemma
  <2>3. Len(a) = r
    BY <1>1, <1>2, <2>2 DEF Parts
  <2>4. ASSUME NEW i \in 1 .. r PROVE a[i] = recvbuf[Parts + i]
    <3>1. i \in 1 .. at - (Parts + 1) + 1 /\ Parts + 1 + i - 1 = Parts + i
      BY <1>1, <1>2 DEF Parts
    <3> QED BY <2>2, <3>1
  <2> QED BY <2>2, <2>3, <2>4
<1>5. PICK b : b = SubSeq(recvbuf, at - Parts + 1, Len(recvbuf))
  BY Zenon
<1>6. b \in Seq(Pieces) /\ Len(b) = n - r
  <2>1. r \in 0 .. Len(recvbuf) /\ b = SubSeq(recvbuf, r + 1, Len(recvbuf))
    BY <1>1, <1>2, <1>5 DEF Parts
  <2> QED BY <1>1, <1>2, <2>1, CutLemma
<1>7. PICK u : u = a \o b
  BY Zenon
<1>8. u \in Seq(Pieces) /\ Len(u) = Len(a) + Len(b) /\ \A i \in 1 .. Len(a) : u[i] = a[i]
  <2>1. a \in Seq(Pieces) /\ b \in Seq(Pieces)
    BY <1>4, <1>6
  <2> QED BY <1>7, <2>1, JoinLemma
<1>9. Len(u) = n /\ \A i \in 1 .. r : u[i] = recvbuf[Parts + i]
  <2>1. Len(u) = r + (n - r)
    BY <1>4, <1>6, <1>8
  <2>2. \A i \in 1 .. r : u[i] = a[i]
    BY <1>4, <1>8
  <2> QED BY <1>4, <2>1, <2>2
<1>10. recvbuf' = u
  BY <1>3, <1>5, <1>7
<1> QED BY <1>2, <1>8, <1>9, <1>10, Zenon

LEMMA AnswerAdds ==
  ASSUME TypeOK, Answer
  PROVE  /\ down' \in Seq(Pieces) /\ Len(down) \in Nat /\ Len(down') = Len(down) + Parts
         /\ \A i \in 1 .. Len(down) : down'[i] = down[i]
         /\ \A k \in 1 .. Parts : down'[Len(down) + k] = <<conn, k>>
<1>1. down \in Seq(Pieces) /\ conn \in Conns
  BY DEF TypeOK
<1>2. PICK p : p = [k \in 1 .. Parts |-> <<conn, k>>]
  BY Zenon
<1>3. p \in Seq(Pieces) /\ Len(p) = Parts /\ \A k \in 1 .. Parts : p[k] = <<conn, k>>
  BY <1>1, <1>2 DEF Parts, Pieces
<1>4. PICK u : u = down \o p
  BY Zenon
<1>5. /\ u \in Seq(Pieces) /\ Len(down) \in Nat /\ Len(u) = Len(down) + Len(p)
      /\ \A i \in 1 .. Len(down) : u[i] = down[i]
      /\ \A k \in 1 .. Len(p) : u[Len(down) + k] = p[k]
  <2>1. down \in Seq(Pieces) /\ p \in Seq(Pieces)
    BY <1>1, <1>3
  <2> QED BY <1>4, <2>1, JoinLemma
<1>6. down' = u
  BY <1>2, <1>4 DEF Answer
<1> QED BY <1>3, <1>5, <1>6

\* What RT reads, in the steps that do not touch the buffer
LEMMA ReceiverQuiet ==
  ASSUME \/ FlushNothing \/ FlushWrite \/ FlushAdd \/ FlushWant \/ Limit \/ WaitTimedOut \/ ShakeWant \/ ShakeFail
         \/ ShakeDone \/ ReadyReturn \/ SendKeep \/ SendWrite \/ SendCount \/ SendFail \/ SendNothing
         \/ Established \/ Lost \/ TimePasses \/ UNCHANGED vars
  PROVE  UNCHANGED <<received, rtVars, down, torn, conn>>
<1>1. CASE FlushNothing \/ FlushWrite \/ FlushAdd \/ FlushWant \/ Limit \/ WaitTimedOut \/ ShakeWant \/ ShakeFail
           \/ ShakeDone \/ ReadyReturn \/ SendKeep \/ SendWrite \/ SendCount \/ SendFail \/ SendNothing
  BY <1>1, Zenon DEF FlushNothing, FlushWrite, FlushAdd, FlushWant, Limit, WaitTimedOut, ShakeWant, ShakeFail,
     ShakeDone, ReadyReturn, SendKeep, SendWrite, SendCount, SendFail, SendNothing, STFrame, session, peer
<1>2. CASE Established \/ Lost \/ TimePasses
  BY <1>2 DEF Established, Lost, TimePasses, PeerFrame, peer
<1>3. CASE UNCHANGED vars
  BY <1>3 DEF vars, peer, session
<1> QED BY <1>1, <1>2, <1>3

LEMMA RTypesKept ==
  ASSUME DotInv, TypeOK, Buffers, [Next]_vars
  PROVE  RTypes' /\ Buffers'
<1>1. STypes /\ RTypes /\ BufSize \in Nat /\ Len(recvbuf) \in Nat /\ <<>> \in Seq(Pieces)
  BY TypesMeet, DotAssumption DEF TypeOK
<1>2. CASE UNCHANGED <<received, rtVars, down, torn, conn>>
  BY <1>1, <1>2 DEF received, rtVars, RTypes, Buffers
<1>3. CASE Answer
  <2>1. UNCHANGED <<received, rtVars>> /\ down' \in Seq(Pieces)
    BY <1>3, AnswerAdds DEF Answer, PeerFrame
  <2> QED BY <1>1, <2>1 DEF received, rtVars, RTypes, Buffers
<1>4. CASE ReadyReconnect \/ FlushSyscall \/ LimitReconnect \/ SendReconnect \/ RecvReconnect
  <2>1. Reconnect /\ UNCHANGED <<r_pc, r_at, r_n, r_more>>
    BY <1>1, <1>4, ReconnectST DEF RecvReconnect, ReconnectByRT
  <2>2. down' = <<>> /\ at' = 0 /\ recvbuf' = recvbuf /\ have_more' = FALSE /\ nqpc_recv' = 0
    BY <1>1, <2>1, ReconnectStep
  <2>3. 0 \in 0 .. BufSize /\ 0 <= Len(recvbuf) /\ 0 \in Nat
    BY <1>1
  <2> QED BY <1>1, <2>1, <2>2, <2>3, Zenon DEF RTypes, Buffers
<1>5. CASE RecvMore \/ RecvAgain \/ RecvParse \/ RecvWild \/ RecvReturn \/ RecvFatal
  <2>1. /\ UNCHANGED <<at, recvbuf, nqpc_recv, r_at, r_n, r_more, down>>
        /\ r_pc' \in {"idle", "parse", "take", "crashed", "fatal"}
        /\ have_more' = have_more \/ have_more' = r_more
    BY <1>5 DEF RecvMore, RecvAgain, RecvParse, RecvWild, RecvReturn, RecvFatal, received, rtVars
  <2>2. have_more' \in BOOLEAN
    BY <1>1, <2>1, Zenon DEF RTypes
  <2> QED BY <1>1, <2>1, <2>2 DEF RTypes, Buffers
<1>6. CASE RecvRead
  <2>1. PICK k \in 1 .. Len(down) : Reads(k) /\ r_n' = k
    BY <1>6, Zenon DEF RecvRead, Reads
  <2>2. r_at' = at /\ r_pc' = "add" /\ UNCHANGED <<at, have_more, nqpc_recv, r_more>>
    BY <1>6 DEF RecvRead
  <2>3. /\ recvbuf' \in Seq(Pieces) /\ Len(recvbuf') \in Nat /\ at + k <= Len(recvbuf') /\ Len(recvbuf') <= BufSize
        /\ down' \in Seq(Pieces)
    BY <1>1, <2>1, ReadMoves
  <2>4. k \in Nat /\ at \in Nat /\ at \in 0 .. BufSize
    <3>1. Len(down) \in Nat
      BY DEF TypeOK
    <3> QED BY <1>1, <3>1 DEF RTypes
  <2>5. r_n' \in 0 .. BufSize /\ r_at' + r_n' <= Len(recvbuf') /\ at' <= Len(recvbuf') /\ at' \in {0, r_at'}
    BY <1>1, <2>1, <2>2, <2>3, <2>4
  <2> QED BY <1>1, <2>2, <2>3, <2>4, <2>5 DEF RTypes, Buffers
<1>7. CASE RecvAdd
  <2>1. PICK base \in {r_at, at} : at' = base + r_n
    BY <1>7 DEF RecvAdd
  <2>2. r_pc = "add" /\ r_pc' \in {"idle", "take"} /\ UNCHANGED <<have_more, recvbuf, nqpc_recv, r_at, r_n, r_more, down>>
    BY <1>7 DEF RecvAdd
  <2>3. /\ r_at \in Nat /\ r_n \in Nat /\ at \in {0, r_at} /\ r_at + r_n <= Len(recvbuf) /\ Len(recvbuf) <= BufSize
    BY <1>1, <2>2 DEF RTypes, Buffers
  <2>4. at' \in 0 .. BufSize /\ at' <= Len(recvbuf)
    BY <1>1, <2>1, <2>3
  <2> QED BY <1>1, <2>2, <2>4 DEF RTypes, Buffers
<1>8. CASE RecvTake
  <2>1. /\ at >= Parts /\ at' = at - Parts /\ r_pc' = "more" /\ UNCHANGED <<have_more, r_at, r_n, down>>
        /\ recvbuf' = SubSeq(recvbuf, Parts + 1, at) \o SubSeq(recvbuf, at - Parts + 1, Len(recvbuf))
        /\ nqpc_recv' \in {nqpc_recv, nqpc_recv + 1}
    BY <1>8 DEF RecvTake
  <2>2. r_more' \in BOOLEAN
    <3>1. (at' >= Parts) \in BOOLEAN
      OBVIOUS
    <3>2. r_more' = (at' >= Parts)
      BY <1>8 DEF RecvTake
    <3> QED BY <3>1, <3>2, Zenon
  <2>3. recvbuf' \in Seq(Pieces) /\ Len(recvbuf') = Len(recvbuf)
    BY <1>1, <2>1, TakeMoves
  <2>4. at' \in 0 .. BufSize /\ at' <= Len(recvbuf) /\ nqpc_recv' \in Nat
    <3>1. at \in 0 .. BufSize /\ at <= Len(recvbuf) /\ nqpc_recv \in Nat
      BY <1>1 DEF RTypes, Buffers
    <3>2. at' \in 0 .. BufSize /\ at' <= Len(recvbuf)
      BY <1>1, <2>1, <3>1 DEF Parts
    <3> QED BY <2>1, <3>1, <3>2
  <2> QED BY <1>1, <2>1, <2>2, <2>3, <2>4 DEF RTypes, Buffers
<1> QED BY <1>2, <1>3, <1>4, <1>5, <1>6, <1>7, <1>8, ReceiverQuiet DEF Next, ST, RT, SockReady, SendTo, Recv, Peer

-----------------------------------------------------------------------------
(* Responses are framed *)

LEMMA OneMessage ==
  /\ \A x \in Int : (x + Parts) % Parts = x % Parts
  /\ \A x \in Int, k \in 1 .. Parts : x % Parts = 0 => ((x + k - 1) % Parts) + 1 = k
BY DEF Parts

LEMMA FramedKept ==
  ASSUME DotInv, TypeOK, Buffers, Framed, [Next]_vars
  PROVE  Framed'
<1>1. /\ STypes /\ RTypes /\ at \in Nat /\ Held \in Nat /\ Len(down) \in Nat /\ r_at \in Nat /\ r_n \in Nat
      /\ Parts \in Nat
  <2>1. STypes /\ RTypes /\ at \in Nat /\ Len(down) \in Nat /\ r_at \in Nat /\ r_n \in Nat /\ Parts \in Nat
    BY TypesMeet, DotAssumption DEF TypeOK, Parts
  <2> QED BY <2>1 DEF Held
<1>2. CASE UNCHANGED <<received, rtVars, down, torn, conn>>
  BY <1>2 DEF received, rtVars, Framed, Held
<1>3. CASE ReadyReconnect \/ FlushSyscall \/ LimitReconnect \/ SendReconnect \/ RecvReconnect
  <2>1. Reconnect /\ r_pc' = r_pc /\ ("RT" \notin torn' => r_pc = "idle")
    BY <1>1, <1>3, ReconnectST DEF RecvReconnect, ReconnectByRT
  <2>2. down' = <<>> /\ at' = 0
    BY <1>1, <2>1, ReconnectStep
  <2>3. Len(down') = 0 /\ 1 .. 0 = {} /\ (0 + 0) % Parts = 0
    BY <2>2 DEF Parts
  <2>4. "RT" \notin torn' => Held' = 0
    BY <2>1, <2>2 DEF Held
  <2> QED BY <2>1, <2>2, <2>3, <2>4 DEF Framed
<1>4. CASE RecvMore \/ RecvAgain \/ RecvParse \/ RecvWild \/ RecvReturn \/ RecvFatal
  <2>1. /\ UNCHANGED <<at, recvbuf, down, conn, torn>> /\ r_pc # "add" /\ r_pc' # "add"
        /\ r_pc' = "take" => at >= Parts
        /\ r_pc' = "crashed" => r_pc = "take" /\ at < Parts
    <3>1. /\ UNCHANGED <<at, recvbuf, down>> /\ RTFrame /\ r_pc # "add" /\ r_pc' # "add"
          /\ r_pc' = "take" => ~(at < Parts)
          /\ r_pc' = "crashed" => r_pc = "take" /\ at < Parts
      BY <1>4 DEF RecvMore, RecvAgain, RecvParse, RecvWild, RecvReturn, RecvFatal, received, rtVars
    <3> QED BY <1>1, <3>1 DEF RTFrame, session
  <2>2. Held' = Held
    BY <2>1 DEF Held
  <2>3. ASSUME "RT" \notin torn PROVE r_pc' # "crashed"
    BY <1>1, <2>1, <2>3 DEF Framed
  <2> QED BY <2>1, <2>2, <2>3 DEF Framed
<1>5. CASE RecvAdd
  <2>1. PICK base \in {r_at, at} : at' = base + r_n /\ r_pc' = IF base + r_n < Parts THEN "idle" ELSE "take"
    BY <1>5 DEF RecvAdd
  <2>2. r_pc = "add" /\ UNCHANGED <<recvbuf, down, conn, torn>>
    BY <1>5 DEF RecvAdd, RTFrame, session
  <2>3. ASSUME "RT" \notin torn PROVE base = r_at
    BY <2>1, <2>2, <2>3 DEF Framed
  <2>4. "RT" \notin torn => Held' = Held /\ at' = Held
    BY <2>1, <2>2, <2>3 DEF Held
  <2>5. r_pc' # "add" /\ r_pc' # "crashed" /\ (r_pc' = "take" => at' >= Parts)
    <3>1. base \in Nat
      BY <1>1
    <3> QED BY <1>1, <2>1, <3>1
  <2> QED BY <2>2, <2>4, <2>5 DEF Framed
<1>6. CASE RecvRead
  <2>1. PICK k \in 1 .. Len(down) : Reads(k) /\ r_n' = k
    BY <1>6, Zenon DEF RecvRead, Reads
  <2>2. r_at' = at /\ r_pc' = "add" /\ r_pc = "idle" /\ UNCHANGED <<at, conn, torn>>
    BY <1>6 DEF RecvRead, RTFrame, session
  <2>3. /\ \A i \in 1 .. at : recvbuf'[i] = recvbuf[i]
        /\ \A i \in 1 .. k : recvbuf'[at + i] = down[i]
        /\ Len(down') = Len(down) - k
        /\ \A i \in 1 .. Len(down) - k : down'[i] = down[k + i]
    BY <1>1, <2>1, ReadMoves
  <2>4. Held = at /\ Held' = at + k /\ k \in Nat /\ k <= Len(down)
    BY <1>1, <2>1, <2>2 DEF Held
  <2> SUFFICES ASSUME "RT" \notin torn
               PROVE  /\ \A i \in 1 .. Held' : recvbuf'[i] = <<conn, ((i - 1) % Parts) + 1>>
                      /\ (Held' + Len(down')) % Parts = 0
                      /\ \A i \in 1 .. Len(down') : down'[i] = <<conn, ((Held' + i - 1) % Parts) + 1>>
    BY <2>2 DEF Framed
  <2>5. /\ \A i \in 1 .. at : recvbuf[i] = <<conn, ((i - 1) % Parts) + 1>>
        /\ (at + Len(down)) % Parts = 0
        /\ \A i \in 1 .. Len(down) : down[i] = <<conn, ((at + i - 1) % Parts) + 1>>
    BY <2>4 DEF Framed
  <2>6. ASSUME NEW i \in 1 .. Held' PROVE recvbuf'[i] = <<conn, ((i - 1) % Parts) + 1>>
    <3>1. CASE i <= at
      <4>1. i \in 1 .. at
        BY <1>1, <2>4, <3>1
      <4> QED BY <2>3, <2>5, <4>1
    <3>2. CASE i > at
      <4>1. PICK j \in 1 .. k : j \in 1 .. Len(down) /\ i = at + j
        <5>1. i - at \in 1 .. k /\ i - at \in 1 .. Len(down) /\ i = at + (i - at)
          BY <1>1, <2>4, <3>2
        <5> QED BY <5>1
      <4>2. recvbuf'[i] = down[j] /\ down[j] = <<conn, ((at + j - 1) % Parts) + 1>>
        BY <2>3, <2>5, <4>1
      <4>3. i - 1 = at + j - 1
        BY <1>1, <4>1
      <4> QED BY <4>2, <4>3
    <3> QED BY <1>1, <2>4, <3>1, <3>2
  <2>7. Held' + Len(down') = at + Len(down)
    BY <1>1, <2>3, <2>4
  <2>8. ASSUME NEW i \in 1 .. Len(down') PROVE down'[i] = <<conn, ((Held' + i - 1) % Parts) + 1>>
    <3>1. i \in 1 .. Len(down) - k /\ k + i \in 1 .. Len(down) /\ at + (k + i) - 1 = Held' + i - 1
      BY <1>1, <2>3, <2>4
    <3>2. down'[i] = down[k + i] /\ down[k + i] = <<conn, ((at + (k + i) - 1) % Parts) + 1>>
      BY <2>3, <2>5, <3>1
    <3> QED BY <3>1, <3>2
  <2> QED BY <2>5, <2>6, <2>7, <2>8
<1>7. CASE RecvTake
  <2>1. /\ at >= Parts /\ at' = at - Parts /\ r_pc' = "more" /\ r_pc = "take" /\ UNCHANGED <<down, conn, torn>>
        /\ recvbuf' = SubSeq(recvbuf, Parts + 1, at) \o SubSeq(recvbuf, at - Parts + 1, Len(recvbuf))
    BY <1>7 DEF RecvTake, RTFrame, session
  <2>2. \A i \in 1 .. at - Parts : recvbuf'[i] = recvbuf[Parts + i]
    BY <1>1, <2>1, TakeMoves, Zenon
  <2>3. PICK r \in Nat : r = at - Parts /\ at = r + Parts /\ Held = at /\ Held' = r
    BY <1>1, <2>1 DEF Held
  <2> SUFFICES ASSUME "RT" \notin torn
               PROVE  /\ \A i \in 1 .. r : recvbuf'[i] = <<conn, ((i - 1) % Parts) + 1>>
                      /\ (r + Len(down)) % Parts = 0
                      /\ \A i \in 1 .. Len(down) : down[i] = <<conn, ((r + i - 1) % Parts) + 1>>
    BY <2>1, <2>3, Zenon DEF Framed
  <2>4. /\ \A i \in 1 .. at : recvbuf[i] = <<conn, ((i - 1) % Parts) + 1>>
        /\ (at + Len(down)) % Parts = 0
        /\ \A i \in 1 .. Len(down) : down[i] = <<conn, ((at + i - 1) % Parts) + 1>>
    BY <2>3 DEF Framed
  <2>5. ASSUME NEW i \in 1 .. r PROVE recvbuf'[i] = <<conn, ((i - 1) % Parts) + 1>>
    <3>1. Parts + i \in 1 .. at /\ (Parts + i) - 1 = (i - 1) + Parts /\ i - 1 \in Int
      BY <1>1, <2>3
    <3>2. recvbuf'[i] = <<conn, (((Parts + i) - 1) % Parts) + 1>>
      BY <2>2, <2>3, <2>4, <3>1
    <3> QED BY <3>1, <3>2, OneMessage
  <2>6. (r + Len(down)) % Parts = 0
    <3>1. at + Len(down) = (r + Len(down)) + Parts /\ r + Len(down) \in Int
      BY <1>1, <2>3
    <3> QED BY <2>4, <3>1, OneMessage
  <2>7. ASSUME NEW i \in 1 .. Len(down) PROVE down[i] = <<conn, ((r + i - 1) % Parts) + 1>>
    <3>1. at + i - 1 = (r + i - 1) + Parts /\ r + i - 1 \in Int
      BY <1>1, <2>3
    <3> QED BY <2>4, <3>1, OneMessage
  <2> QED BY <2>5, <2>6, <2>7
<1>8. CASE Answer
  <2>1. UNCHANGED <<received, rtVars, conn, torn>>
    BY <1>8 DEF Answer, PeerFrame
  <2>2. /\ Len(down') = Len(down) + Parts
        /\ \A i \in 1 .. Len(down) : down'[i] = down[i]
        /\ \A k \in 1 .. Parts : down'[Len(down) + k] = <<conn, k>>
    BY <1>8, AnswerAdds
  <2>3. Held' = Held /\ UNCHANGED <<r_pc, r_at, at, recvbuf, conn, torn>>
    BY <2>1 DEF Held, received, rtVars
  <2> SUFFICES ASSUME "RT" \notin torn
               PROVE  /\ (Held + Len(down')) % Parts = 0
                      /\ \A i \in 1 .. Len(down') : down'[i] = <<conn, ((Held + i - 1) % Parts) + 1>>
    BY <2>3 DEF Framed
  <2>4. /\ (Held + Len(down)) % Parts = 0
        /\ \A i \in 1 .. Len(down) : down[i] = <<conn, ((Held + i - 1) % Parts) + 1>>
    BY DEF Framed
  <2>5. (Held + Len(down')) % Parts = 0
    <3>1. Held + Len(down') = (Held + Len(down)) + Parts /\ Held + Len(down) \in Int
      BY <1>1, <2>2
    <3> QED BY <2>4, <3>1, OneMessage
  <2>6. ASSUME NEW i \in 1 .. Len(down') PROVE down'[i] = <<conn, ((Held + i - 1) % Parts) + 1>>
    <3>1. CASE i <= Len(down)
      <4>1. i \in 1 .. Len(down)
        BY <1>1, <2>2, <3>1
      <4> QED BY <2>2, <2>4, <4>1
    <3>2. CASE i > Len(down)
      <4>1. PICK k \in 1 .. Parts : i = Len(down) + k
        <5>1. i - Len(down) \in 1 .. Parts /\ i = Len(down) + (i - Len(down))
          BY <1>1, <2>2, <3>2
        <5> QED BY <5>1
      <4>2. down'[i] = <<conn, k>>
        BY <2>2, <4>1
      <4>3. Held + i - 1 = (Held + Len(down)) + k - 1 /\ Held + Len(down) \in Int
        BY <1>1, <4>1
      <4>4. ((Held + i - 1) % Parts) + 1 = k
        BY <2>4, <4>3, OneMessage
      <4> QED BY <4>2, <4>4
    <3> QED BY <1>1, <2>2, <3>1, <3>2
  <2> QED BY <2>5, <2>6
<1> QED BY <1>2, <1>3, <1>4, <1>5, <1>6, <1>7, <1>8, ReceiverQuiet DEF Next, ST, RT, SockReady, SendTo, Recv, Peer

-----------------------------------------------------------------------------
(* Requests are framed *)

LEMMA WriteAdds ==
  ASSUME STypes, NEW q \in Queries, NEW from \in 0 .. Parts - 1, NEW to \in from + 1 .. Parts, Written(q, from, to)
  PROVE  /\ Longer(Parts, wire[conn], wire'[conn], q, from, to)
         /\ \A b \in Conns \ {conn} : wire'[b] = wire[b]
<1>1. wire \in [Conns -> Seq(Queries \X (1 .. Parts))] /\ conn \in Conns /\ Parts \in Nat
  BY DEF STypes, Piece, Parts
<1>2. PICK w, u : w = wire[conn] /\ u = wire'[conn]
  OBVIOUS
<1>3. Joined(Parts, Queries, w, u, q, from, to)
  BY <1>1, <1>2 DEF Written, Joined
<1>4. Longer(Parts, w, u, q, from, to)
  BY <1>3, AddLemma, Zenon
<1>5. \A b \in Conns \ {conn} : wire'[b] = wire[b]
  BY <1>1 DEF Written
<1> QED BY <1>2, <1>4, <1>5

\* What a write leaves behind
Behind(q, to) == wire'[conn] # <<>> /\ wire'[conn][Len(wire'[conn])] = <<q, to>> /\ AllOrderly(wire')

LEMMA WriteFollows ==
  ASSUME STypes, NEW q \in Queries, NEW from \in 0 .. Parts - 1, NEW to \in from + 1 .. Parts, Written(q, from, to),
         FitsBehind(Parts, wire[conn], q, from), AllOrderly(wire)
  PROVE  Behind(q, to)
<1>1. conn \in Conns /\ Parts \in Nat
  BY DEF STypes, Parts
<1>2. PICK w, u : w = wire[conn] /\ u = wire'[conn]
  OBVIOUS
<1>3. Longer(Parts, w, u, q, from, to) /\ \A b \in Conns \ {conn} : wire'[b] = wire[b]
  BY <1>2, WriteAdds
<1>4. FitsBehind(Parts, w, q, from) /\ \A i \in DOMAIN w : Orderly(Parts, w, i)
  BY <1>1, <1>2, Zenon DEF AllOrderly
<1>5. u # <<>> /\ u[Len(u)] = <<q, to>> /\ \A i \in DOMAIN u : Orderly(Parts, u, i)
  BY <1>1, <1>3, <1>4, OrderlyLemma
<1>6. AllOrderly(wire')
  BY <1>2, <1>3, <1>5, Zenon DEF AllOrderly
<1> QED BY <1>2, <1>5, <1>6, Zenon DEF Behind

\* What the order of the requests depends on, in the steps that neither write nor
\* reconnect
LEMMA WireQuiet ==
  ASSUME \/ FlushNothing \/ FlushWant \/ Limit \/ WaitTimedOut \/ ShakeWant \/ ShakeFail \/ ShakeDone \/ ReadyReturn
         \/ SendCount \/ SendNothing \/ SendKeep \/ SendFail \/ RecvMore \/ RecvAgain \/ RecvRead \/ RecvAdd \/ RecvParse
         \/ RecvTake \/ RecvWild \/ RecvReturn \/ RecvFatal \/ Peer \/ UNCHANGED vars
  PROVE  /\ UNCHANGED <<wire, conn, torn, s_from, s_n>>
         /\ \/ UNCHANGED <<is_sending, sending, qid>> /\ (s_pc' = s_pc \/ (s_pc # "add" /\ s_pc' # "add"))
            \/ s_pc = "send" /\ s_pc' = "idle" /\ qid' = qid + 1 /\ is_sending' = TRUE /\ sending' = 0
            \/ s_pc = "send" /\ s_pc' = "idle" /\ qid' = qid + 1 /\ UNCHANGED <<is_sending, sending>>
<1>1. CASE FlushNothing \/ FlushWant \/ Limit \/ WaitTimedOut \/ ShakeWant \/ ShakeFail \/ ShakeDone \/ ReadyReturn
           \/ SendCount \/ SendNothing
  <2>1. UNCHANGED <<sLocals, query, taken, conn, torn>>
    BY <1>1, Zenon DEF FlushNothing, FlushWant, Limit, WaitTimedOut, ShakeWant, ShakeFail, ShakeDone, ReadyReturn,
       SendCount, SendNothing, STFrame, session
  <2>2. s_pc # "add" /\ s_pc' # "add"
    BY <1>1, Zenon DEF FlushNothing, FlushWant, Limit, WaitTimedOut, ShakeWant, ShakeFail, ShakeDone, ReadyReturn, ReadyIfFree,
       SendCount, SendNothing, Shaking, InReady
  <2> QED BY <2>1, <2>2 DEF query, taken, sLocals
<1>2. CASE SendKeep \/ SendFail
  BY <1>2 DEF SendKeep, SendFail, InSend, STFrame, session, taken, sLocals
<1>3. CASE RecvMore \/ RecvAgain \/ RecvRead \/ RecvAdd \/ RecvParse \/ RecvTake \/ RecvWild \/ RecvReturn \/ RecvFatal
  <2>1. RTFrame
    BY <1>3, Zenon
        DEF RecvMore, RecvAgain, RecvRead, RecvAdd, RecvParse, RecvTake, RecvWild, RecvReturn, RecvFatal
  <2> QED BY <2>1 DEF RTFrame, session, query, taken, sLocals
<1>4. CASE Peer
  <2>1. PeerFrame
    BY <1>4 DEF Peer, Established, Lost, Answer, TimePasses
  <2> QED BY <2>1 DEF PeerFrame, query, taken, sLocals
<1>5. CASE UNCHANGED vars
  BY <1>5 DEF vars, session, query, taken, sLocals
<1> QED BY <1>1, <1>2, <1>3, <1>4, <1>5, Zenon

LEMMA OrderedKept ==
  ASSUME DotInv, TypeOK, Loaded, Ordered, [Next]_vars
  PROVE  Ordered'
<1>1. /\ STypes /\ conn \in Conns /\ conn \in Nat /\ (\A c \in Conns : c \in Nat) /\ sending \in 0 .. Parts - 1
      /\ MaxQueries \in Nat /\ qid \in 0 .. MaxQueries /\ Parts \in Nat /\ s_from \in Nat /\ s_n \in Nat
  BY TypesMeet, DotAssumption DEF STypes, Conns, Parts
<1>2. (is_sending => qid \in Queries) /\ (s_pc = "send" => ~is_sending)
  BY <1>1 DEF DotInv, Pending, Queries
<1>3. ASSUME UNCHANGED <<wire, conn, torn>>, Continues => Continues' PROVE Ordered'
  BY <1>3 DEF Ordered
<1>4. ASSUME UNCHANGED <<wire, conn, torn, s_from, s_n>>,
             \/ UNCHANGED <<is_sending, sending, qid>> /\ (s_pc' = s_pc \/ (s_pc # "add" /\ s_pc' # "add"))
             \/ s_pc = "send" /\ s_pc' = "idle" /\ qid' = qid + 1 /\ is_sending' = TRUE /\ sending' = 0
             \/ s_pc = "send" /\ s_pc' = "idle" /\ qid' = qid + 1 /\ UNCHANGED <<is_sending, sending>>
      PROVE  Ordered'
  <2>1. CASE UNCHANGED <<is_sending, sending, qid>> /\ (s_pc' = s_pc \/ (s_pc # "add" /\ s_pc' # "add"))
    <3>1. Continues => Continues'
      BY <1>4, <2>1, Zenon DEF Continues, LastPiece
    <3> QED BY <1>3, <1>4, <3>1
  <2>2. CASE s_pc = "send" /\ s_pc' = "idle" /\ (is_sending' => sending' = 0)
    <3>1. Continues => Continues'
      <4>1. Continues => wire[conn] = <<>> \/ LastPiece[2] = Parts
        BY <1>2, <2>2, Zenon DEF Continues
      <4>2. wire[conn] = <<>> \/ LastPiece[2] = Parts => Continues'
        <5>1. ~(is_sending' /\ sending' > 0)
          BY <2>2
        <5> QED BY <1>4, <2>2, <5>1 DEF Continues, LastPiece
      <4> QED BY <4>1, <4>2
    <3> QED BY <1>3, <1>4, <3>1
  <2> QED BY <1>2, <1>4, <2>1, <2>2
<1>5. ASSUME Reconnect, sending' = 0, "ST" \notin torn' => "ST" \notin torn /\ s_pc' # "add"
      PROVE  Ordered'
  <2>1. conn' = conn + 1 /\ conn' \in Conns /\ wire' = wire
    BY <1>1, <1>5, ReconnectStep
  <2>2. wire'[conn'] = <<>> /\ \A c \in Conns : c > conn' => wire'[c] = <<>>
    <3>1. conn' > conn /\ \A c \in Conns : c > conn' => c > conn
      BY <1>1, <2>1
    <3>2. \A c \in Conns : c > conn => wire[c] = <<>>
      BY DEF Ordered
    <3> QED BY <2>1, <3>1, <3>2
  <2>3. "ST" \notin torn' => Continues'
    BY <1>5, <2>2 DEF Continues
  <2> QED BY <1>5, <2>1, <2>2, <2>3 DEF Ordered
<1>6. CASE ReadyReconnect \/ FlushSyscall \/ LimitReconnect \/ SendReconnect
  <2>1. Reconnect /\ sending' = 0 /\ s_pc' # "add" /\ torn \subseteq torn'
    BY <1>1, <1>6, ReconnectST
  <2> QED BY <1>5, <2>1
<1>7. CASE RecvReconnect
  <2>1. Reconnect /\ DropPartial /\ torn' = (IF s_pc = "add" THEN torn \union {"ST"} ELSE torn) /\ s_pc' = s_pc
    BY <1>7 DEF RecvReconnect, ReconnectByRT
  <2>2. sending' = 0
    BY <2>1 DEF DropPartial
  <2> QED BY <1>5, <2>1, <2>2
<1>8. ASSUME NEW q \in Queries, NEW from \in 0 .. Parts - 1, NEW to \in from + 1 .. Parts, Written(q, from, to),
             UNCHANGED <<conn, torn>>, "ST" \notin torn => FitsBehind(Parts, wire[conn], q, from)
      PROVE  (\A c \in Conns : c > conn' => wire'[c] = <<>>) /\ ("ST" \notin torn' => Behind(q, to))
  <2>1. \A b \in Conns \ {conn} : wire'[b] = wire[b]
    BY <1>1, <1>8, WriteAdds
  <2>2. ASSUME NEW c \in Conns, c > conn' PROVE wire'[c] = <<>>
    <3>1. c > conn /\ c # conn
      BY <1>1, <1>8, <2>2
    <3>2. wire[c] = <<>>
      BY <3>1 DEF Ordered
    <3> QED BY <2>1, <3>1, <3>2
  <2>3. ASSUME "ST" \notin torn'
        PROVE  Behind(q, to)
    <3>1. FitsBehind(Parts, wire[conn], q, from) /\ AllOrderly(wire)
      BY <1>8, <2>3 DEF Ordered
    <3> QED BY <1>1, <1>8, <3>1, WriteFollows
  <2> QED BY <2>2, <2>3
<1>9. CASE FlushWrite
  <2>1. PICK to \in sending + 1 .. Parts : Written(qid, sending, to) /\ s_from' = sending /\ s_n' = to - sending
    BY <1>9 DEF FlushWrite
  <2>2. UNCHANGED <<is_sending, sending, qid, conn, torn>> /\ is_sending /\ s_pc' = "add" /\ s_pc # "add" /\ qid \in Queries
    BY <1>2, <1>9 DEF FlushWrite, STFrame, query, session, InReady
  <2>3. "ST" \notin torn => FitsBehind(Parts, wire[conn], qid, sending)
    BY <2>2, Zenon DEF Ordered, Continues, LastPiece, FitsBehind
  <2>4. (\A c \in Conns : c > conn' => wire'[c] = <<>>) /\ ("ST" \notin torn' => Behind(qid, to))
    BY <1>1, <1>8, <2>1, <2>2, <2>3
  <2>5. s_from' + s_n' = to /\ s_from' = sending'
    BY <1>1, <2>1, <2>2
  <2>6. "ST" \notin torn' => Continues' /\ AllOrderly(wire')
    BY <2>2, <2>4, <2>5, Zenon DEF Continues, LastPiece, Behind
  <2> QED BY <2>4, <2>6 DEF Ordered
<1>10. CASE SendWrite
  <2>1. PICK to \in 1 .. Parts :
          /\ Written(qid', 0, to)
          /\ IF to = Parts THEN s_pc' = "count" /\ UNCHANGED <<is_sending, sending>>
             ELSE s_pc' = "idle" /\ is_sending' = TRUE /\ sending' = to
    BY <1>10 DEF SendWrite
  <2>2. UNCHANGED <<conn, torn>> /\ s_pc = "send" /\ ~is_sending /\ qid' = qid + 1 /\ qid < MaxQueries
    BY <1>2, <1>10 DEF SendWrite, InSend, STFrame, session
  <2>3. PICK q \in Queries : q = qid'
    BY <1>1, <2>2 DEF Queries
  <2>4. Written(q, 0, to) /\ 0 \in 0 .. Parts - 1 /\ to \in 0 + 1 .. Parts /\ to > 0
    BY <2>1, <2>3 DEF Parts
  <2>5. "ST" \notin torn => FitsBehind(Parts, wire[conn], q, 0)
    <3>1. "ST" \notin torn => wire[conn] = <<>> \/ LastPiece[2] = Parts
      BY <2>2, Zenon DEF Ordered, Continues
    <3>2. ~(0 > 0)
      OBVIOUS
    <3> QED BY <3>1, <3>2, Zenon DEF FitsBehind, LastPiece
  <2>6. (\A c \in Conns : c > conn' => wire'[c] = <<>>) /\ ("ST" \notin torn' => Behind(q, to))
    BY <1>8, <2>2, <2>4, <2>5
  <2>7. ASSUME Behind(q, to) PROVE Continues' /\ AllOrderly(wire')
    <3>1. wire'[conn'] # <<>> /\ LastPiece' = <<q, to>> /\ AllOrderly(wire') /\ <<q, to>>[2] = to
      BY <2>2, <2>7, Zenon DEF Behind, LastPiece
    <3>2. CASE to = Parts
      BY <2>1, <2>2, <3>1, <3>2, Zenon DEF Continues
    <3>3. CASE to # Parts
      BY <2>1, <2>3, <2>4, <3>1, <3>3, Zenon DEF Continues
    <3> QED BY <3>2, <3>3
  <2> QED BY <2>6, <2>7 DEF Ordered
<1>11. CASE FlushAdd
  <2>1. PICK base \in {s_from, sending} :
          IF base + s_n < Parts
          THEN sending' = base + s_n /\ s_pc' = "idle" /\ is_sending' = is_sending
          ELSE sending' = 0 /\ is_sending' = FALSE /\ s_pc' = "limit"
    BY <1>11 DEF FlushAdd, Finished
  <2>2. UNCHANGED <<s_from, s_n, qid, wire, conn, torn>> /\ s_pc = "add"
    BY <1>11 DEF FlushAdd, STFrame, session, sLocals
  <2>3. ASSUME Continues PROVE Continues'
    <3>1. is_sending /\ base = s_from /\ wire[conn] # <<>> /\ LastPiece = <<qid, s_from + s_n>>
      BY <2>1, <2>2, <2>3 DEF Continues
    <3>2. LastPiece' = LastPiece /\ s_n >= 1 /\ s_from + s_n <= Parts
      BY <2>2 DEF LastPiece, Loaded
    <3>3. CASE s_from + s_n < Parts
      <4>1. sending' = s_from + s_n /\ s_pc' = "idle" /\ is_sending' /\ sending' > 0
        BY <1>1, <2>1, <3>1, <3>2, <3>3
      <4>2. wire'[conn'] # <<>> /\ LastPiece' = <<qid', sending'>>
        BY <2>2, <3>1, <3>2, <4>1, Zenon
      <4> QED BY <4>1, <4>2 DEF Continues
    <3>4. CASE s_from + s_n = Parts
      BY <1>1, <2>1, <2>2, <3>1, <3>2, <3>4, Zenon DEF Continues
    <3> QED BY <1>1, <3>2, <3>3, <3>4
  <2> QED BY <1>3, <2>2, <2>3
<1> QED BY <1>4, <1>6, <1>7, <1>9, <1>10, <1>11, WireQuiet, Zenon DEF Next, ST, RT, SockReady, SendTo, Recv

-----------------------------------------------------------------------------
(* Requests are counted *)

LEMMA CountedKept ==
  ASSUME DotInv, TypeOK, Loaded, Ordered, Counted, [Next]_vars
  PROVE  Counted'
<1>1. /\ STypes /\ conn \in Conns /\ conn \in Nat /\ nqpc_sent \in Nat /\ PerConn \in Nat /\ sending \in Nat
      /\ is_sending \in BOOLEAN /\ is_ready \in BOOLEAN
      /\ MaxQueries \in Nat /\ qid \in 0 .. MaxQueries /\ Parts \in Nat /\ s_from \in Nat /\ s_n \in Nat
  <2>1. STypes
    BY TypesMeet
  <2>2. /\ conn \in Conns /\ nqpc_sent \in Nat /\ sending \in 0 .. Parts - 1
        /\ is_sending \in BOOLEAN /\ is_ready \in BOOLEAN /\ qid \in 0 .. MaxQueries /\ s_from \in Nat /\ s_n \in Nat
    BY <2>1 DEF STypes, Parts
  <2>3. conn \in Nat /\ sending \in Nat /\ PerConn \in Nat /\ MaxQueries \in Nat /\ Parts \in Nat
    BY <2>2, DotAssumption DEF Conns, Parts
  <2> QED BY <2>1, <2>2, <2>3
<1>2. requests \in Nat /\ (PerConn > 0 => requests <= PerConn)
  BY DEF Counted
<1>3. (is_sending => qid \in Queries) /\ (s_pc \in {"limit", "send"} => ~is_sending)
  BY <1>1 DEF DotInv, Pending, Queries
<1>5. ASSUME Reconnect PROVE Counted'
  <2>1. requests' = 0 /\ nqpc_sent' = 0
    BY <1>5 DEF Reconnect
  <2>2. 0 <= 0 + (IF Uncounted' THEN 1 ELSE 0) /\ (PerConn > 0 => 0 < PerConn /\ 0 <= PerConn)
    BY <1>1
  <2> QED BY <2>1, <2>2 DEF Counted
<1>6. CASE ReadyReconnect \/ FlushSyscall \/ LimitReconnect \/ SendReconnect \/ RecvReconnect
  BY <1>1, <1>5, <1>6, ReconnectST DEF RecvReconnect, ReconnectByRT
<1>7. CASE UNCHANGED vars \/ Peer \/ RecvMore \/ RecvAgain \/ RecvRead \/ RecvAdd \/ RecvParse
           \/ RecvTake \/ RecvWild \/ RecvReturn \/ RecvFatal
  <2>1. UNCHANGED <<s_pc, is_ready, is_sending, sending, nqpc_sent, requests>>
    <3>1. RTFrame \/ PeerFrame \/ UNCHANGED vars
      BY <1>7 DEF RecvMore, RecvAgain, RecvRead, RecvAdd, RecvParse, RecvTake, RecvWild, RecvReturn, RecvFatal,
         Peer, Established, Lost, Answer, TimePasses
    <3> QED BY <3>1 DEF RTFrame, PeerFrame, vars, session, query, taken, counts
  <2> QED BY <1>2, <2>1 DEF Counted, Uncounted
<1>8. CASE FlushNothing \/ FlushWant \/ WaitTimedOut \/ ShakeWant \/ ShakeFail \/ SendNothing
  <2>1. UNCHANGED <<is_ready, is_sending, sending, nqpc_sent, requests>>
    BY <1>8, Zenon DEF FlushNothing, FlushWant, WaitTimedOut, ShakeWant, ShakeFail, SendNothing, session, query, taken, counts
  <2>2. s_pc' \in {"limit", "idle"} /\ s_pc \in {"held", "idle", "send"}
    BY <1>8, Zenon DEF FlushNothing, FlushWant, WaitTimedOut, ShakeWant, ShakeFail, SendNothing, Shaking, InReady
  <2>3. Uncounted' = Uncounted
    BY <2>1, <2>2 DEF Uncounted
  <2> QED BY <1>2, <2>1, <2>2, <2>3 DEF Counted
<1>9. CASE Limit
  <2>1. UNCHANGED <<is_ready, is_sending, sending, nqpc_sent, requests>> /\ s_pc = "limit" /\ ~is_sending
    BY <1>3, <1>9 DEF Limit, session, query, taken
  <2>2. s_pc' \in {"send", "relock", "idle"} /\ (s_pc' = "send" => ~LimitReached)
    BY <1>9 DEF Limit
  <2>3. ~Uncounted /\ ~Uncounted'
    BY <2>1, <2>2 DEF Uncounted
  <2>4. requests <= nqpc_sent
    BY <1>1, <1>2, <2>3 DEF Counted
  <2>5. s_pc' = "send" /\ PerConn > 0 => requests < PerConn
    BY <1>1, <1>2, <2>2, <2>4 DEF LimitReached
  <2> QED BY <1>1, <1>2, <2>1, <2>2, <2>3, <2>4, <2>5 DEF Counted
<1>10. CASE ShakeDone
  <2>1. UNCHANGED <<is_sending, sending, nqpc_sent, requests>> /\ s_pc' = "event" /\ ~is_ready
    BY <1>10 DEF ShakeDone, Shaking, query, taken, counts
  <2>2. requests = 0
    BY <2>1 DEF Counted
  <2>3. 0 <= nqpc_sent + (IF Uncounted' THEN 1 ELSE 0) /\ (PerConn > 0 => 0 < PerConn)
    BY <1>1
  <2> QED BY <1>2, <2>1, <2>2, <2>3 DEF Counted
<1>11. CASE ReadyReturn
  <2>1. UNCHANGED <<is_ready, is_sending, sending, nqpc_sent, requests>> /\ s_pc = "event" /\ s_pc' \in {"idle", "send"}
    BY <1>11 DEF ReadyReturn, ReadyIfFree, session, query, taken, counts
  <2>2. Uncounted' = Uncounted
    BY <2>1 DEF Uncounted
  <2> QED BY <1>2, <2>1, <2>2 DEF Counted
<1>12. CASE SendKeep \/ SendFail
  <2>1. UNCHANGED <<is_ready, nqpc_sent, requests>> /\ s_pc = "send" /\ s_pc' = "idle" /\ ~is_sending
        /\ (is_sending' => sending' = 0)
    BY <1>3, <1>12 DEF SendKeep, SendFail, InSend, session, taken, counts
  <2>2. ~Uncounted /\ ~Uncounted'
    BY <1>1, <2>1 DEF Uncounted
  <2> QED BY <1>2, <2>1, <2>2 DEF Counted
<1>13. CASE SendCount
  <2>1. UNCHANGED <<is_ready, is_sending, sending, requests>> /\ s_pc = "count" /\ s_pc' = "idle" /\ nqpc_sent' = nqpc_sent + 1
    BY <1>13 DEF SendCount, session, query, taken
  <2>2. requests <= nqpc_sent + 1
    BY <1>1, <1>2, <2>1 DEF Counted, Uncounted
  <2>3. requests <= nqpc_sent' + (IF Uncounted' THEN 1 ELSE 0)
    BY <1>1, <1>2, <2>1, <2>2
  <2> QED BY <1>2, <2>1, <2>3 DEF Counted
<1>14. CASE FlushAdd
  <2>1. PICK base \in {s_from, sending} :
          IF base + s_n < Parts
          THEN sending' = base + s_n /\ s_pc' = "idle" /\ is_sending' = is_sending /\ nqpc_sent' = nqpc_sent
          ELSE sending' = 0 /\ is_sending' = FALSE /\ s_pc' = "limit" /\ nqpc_sent' = nqpc_sent + 1
    BY <1>14 DEF FlushAdd, Finished
  <2>2. UNCHANGED <<is_ready, requests>> /\ s_pc = "add" /\ s_n >= 1
    BY <1>14 DEF FlushAdd, session, Loaded
  <2>3. /\ requests <= nqpc_sent + 1 /\ (~is_sending => requests = 0)
        /\ ~is_ready => requests = 0
    BY <1>1, <1>2, <2>2 DEF Counted, Uncounted
  <2>4. CASE base + s_n < Parts
    <3>1. sending' > 0 /\ s_pc' = "idle" /\ is_sending' = is_sending /\ nqpc_sent' = nqpc_sent
      BY <1>1, <2>1, <2>2, <2>4
    <3>2. Uncounted' = is_sending
      BY <1>1, <3>1 DEF Uncounted
    <3>3. requests <= nqpc_sent + (IF Uncounted' THEN 1 ELSE 0)
      BY <1>1, <1>2, <2>3, <3>2
    <3>4. ~(is_sending' /\ sending' = 0)
      BY <3>1
    <3> QED BY <1>2, <2>2, <2>3, <3>1, <3>3, <3>4 DEF Counted
  <2>5. CASE ~(base + s_n < Parts)
    <3>1. ~is_sending' /\ s_pc' = "limit" /\ nqpc_sent' = nqpc_sent + 1
      BY <2>1, <2>5
    <3>2. requests <= nqpc_sent' + (IF Uncounted' THEN 1 ELSE 0)
      BY <1>1, <1>2, <2>3, <3>1
    <3> QED BY <1>2, <2>2, <2>3, <3>1, <3>2 DEF Counted
  <2> QED BY <2>4, <2>5
<1>16. CASE FlushWrite
  <2>1. PICK to \in sending + 1 .. Parts : Written(qid, sending, to)
    BY <1>16 DEF FlushWrite
  <2>2. /\ UNCHANGED <<is_ready, is_sending, sending, nqpc_sent>> /\ is_ready /\ is_sending
        /\ s_pc' = "add" /\ s_pc \in {"held", "idle"} /\ qid \in Queries /\ sending \in 0 .. Parts - 1
    BY <1>1, <1>3, <1>16 DEF FlushWrite, query, counts, session, InReady, STypes
  <2>3. /\ sending = 0 => requests <= nqpc_sent /\ (PerConn > 0 => requests < PerConn)
        /\ requests <= nqpc_sent + 1
    BY <1>1, <1>2, <2>2 DEF Counted, Uncounted
  <2>4. /\ PerConn > 0 => requests' <= PerConn
        /\ sending = 0 => requests' = requests + 1
        /\ sending # 0 => requests' = requests
    BY <1>1, <1>2, <2>1, <2>3 DEF Written
  <2>5. requests' <= nqpc_sent' + 1 /\ Uncounted'
    BY <1>1, <1>2, <2>2, <2>3, <2>4 DEF Uncounted
  <2> QED BY <2>2, <2>4, <2>5 DEF Counted
<1>17. CASE SendWrite
  <2>1. PICK to \in 1 .. Parts :
          /\ Written(qid', 0, to)
          /\ IF to = Parts THEN s_pc' = "count" /\ UNCHANGED <<is_sending, sending>>
             ELSE s_pc' = "idle" /\ is_sending' = TRUE /\ sending' = to
    BY <1>17 DEF SendWrite
  <2>2. /\ UNCHANGED <<is_ready, nqpc_sent>> /\ is_ready /\ s_pc = "send" /\ ~is_sending
        /\ qid' = qid + 1 /\ qid < MaxQueries
    BY <1>3, <1>17 DEF SendWrite, InSend, counts, session
  <2>3. PICK q \in Queries : q = qid'
    BY <1>1, <2>2 DEF Queries
  <2>4. Written(q, 0, to) /\ 0 \in 0 .. Parts - 1 /\ to \in 0 + 1 .. Parts /\ to > 0
    BY <2>1, <2>3 DEF Parts
  <2>5. requests <= nqpc_sent /\ (PerConn > 0 => requests < PerConn)
    BY <1>1, <1>2, <2>2 DEF Counted, Uncounted
  <2>6. (PerConn > 0 => requests' <= PerConn) /\ requests' = requests + 1
    BY <1>1, <1>2, <2>4, <2>5 DEF Written
  <2>7. s_pc' \in {"count", "idle"} /\ ~(is_sending' /\ sending' = 0) /\ Uncounted'
    BY <2>1, <2>2, <2>4 DEF Uncounted
  <2>8. requests' <= nqpc_sent' + 1
    BY <1>1, <1>2, <2>2, <2>5, <2>6
  <2> QED BY <2>2, <2>6, <2>7, <2>8 DEF Counted
<1> QED BY <1>6, <1>7, <1>8, <1>9, <1>10, <1>11, <1>12, <1>13, <1>14, <1>16, <1>17
        DEF Next, ST, RT, SockReady, SendTo, Recv

-----------------------------------------------------------------------------
(* The whole invariant *)

\* Buffers and Framed carry the framing of the responses, Loaded and Ordered that
\* of the requests, and Counted their number.
WholeInv == DotInv /\ TypeOK /\ Buffers /\ Loaded /\ Framed /\ Ordered /\ Counted

LEMMA WholeInit == Init => WholeInv
<1> SUFFICES ASSUME Init PROVE WholeInv
  OBVIOUS
<1>1. /\ conn = 1 /\ 1 \in Conns /\ MaxConns \in Nat /\ MaxQueries \in Nat /\ PerConn \in Nat /\ BufSize \in Nat
      /\ recvbuf = <<>> /\ Len(recvbuf) = 0 /\ down = <<>> /\ Len(down) = 0 /\ wire = [c \in Conns |-> <<>>]
      /\ is_conn_ready \in BOOLEAN /\ state \in {"tcp", "connecting"}
  BY DotAssumption DEF Init, Conns
<1>2. TypeOK
  <2>1. wire \in [Conns -> Seq(Piece)] /\ down \in Seq(Pieces) /\ recvbuf \in Seq(Pieces)
    BY <1>1
  <2>2. 0 \in 0 .. Parts /\ 0 \in 0 .. Parts - 1 /\ 0 \in 0 .. MaxQueries /\ 0 \in 0 .. BufSize /\ 0 <= BufSize
    BY <1>1 DEF Parts
  <2>3. STypes
    BY <1>1, <2>1, <2>2, Zenon DEF Init, STypes
  <2>4. RTypes
    BY <1>1, <2>1, <2>2, Zenon DEF Init, RTypes
  <2>5. requests \in Nat
    BY DEF Init
  <2> QED BY <2>3, <2>4, <2>5, TypesMeet
<1>3. \A c \in Conns : wire[c] = <<>> /\ DOMAIN wire[c] = {}
  BY <1>1
<1>4. Buffers /\ Loaded
  BY <1>1 DEF Init, Buffers, Loaded
<1>5. Framed
  <2>1. Held = 0 /\ (0 + 0) % Parts = 0 /\ 1 .. 0 = {}
    BY DEF Init, Held, Parts
  <2> QED BY <1>1, <2>1 DEF Init, Framed
<1>6. Ordered
  <2>1. s_pc = "idle" /\ ~is_sending
    BY DEF Init
  <2> QED BY <1>1, <1>3, <2>1 DEF Ordered, Continues, AllOrderly
<1>7. Counted
  <2>1. requests = 0
    BY DEF Init
  <2>2. 0 <= 0 + (IF Uncounted THEN 1 ELSE 0)
    OBVIOUS
  <2> QED BY <1>1, <1>3, <2>1, <2>2 DEF Counted, Init
<1> QED BY <1>2, <1>4, <1>5, <1>6, <1>7, InitHolds DEF WholeInv

LEMMA WholeInductive == Spec => []WholeInv
<1>1. WholeInv /\ [Next]_vars => WholeInv'
  <2> SUFFICES ASSUME WholeInv, [Next]_vars PROVE WholeInv'
    OBVIOUS
  <2>1. DotInv /\ TypeOK /\ Buffers /\ Loaded /\ Framed /\ Ordered /\ Counted
    BY DEF WholeInv
  <2>2. DotInv'
    BY <2>1, NextKept
  <2>3. STypes' /\ Loaded'
    BY <2>1, STypesKept
  <2>4. RTypes' /\ Buffers'
    BY <2>1, RTypesKept
  <2>5. Counted'
    BY <2>1, CountedKept
  <2>6. TypeOK'
    BY <2>3, <2>4, <2>5, Zenon DEF TypeOK, STypes, RTypes, Piece, Counted
  <2>7. Framed'
    BY <2>1, FramedKept
  <2>8. Ordered'
    BY <2>1, OrderedKept
  <2> QED BY <2>2, <2>3, <2>4, <2>5, <2>6, <2>7, <2>8 DEF WholeInv
<1> QED BY <1>1, WholeInit, PTL DEF Spec

-----------------------------------------------------------------------------
(* The theorems *)

\* perf__dot_sendto and perf__dot_sockready implement StreamSocket, also if RT drops
\* a query that ST has just written to its end: then it is still reported, once.
THEOREM Implements == Spec => KeepsPromise
<1>1. Init => Sock!SockInit
  BY DEF Init, Sock!SockInit
<1>2. DotInv /\ [Next]_vars => [Sock!SockNext]_<<IF is_sending THEN qid ELSE 0, reported>>
  <2> SUFFICES ASSUME DotInv, [Next]_vars
               PROVE  [Sock!SockNext]_<<IF is_sending THEN qid ELSE 0, reported>>
    OBVIOUS
  <2>1. CASE UNCHANGED vars
    BY <2>1 DEF vars, query, taken
  <2>2. CASE Next
    <3>1. QueryStep
      BY <2>2, EveryStep
    <3>2. /\ is_sending \in BOOLEAN /\ qid \in Nat
          /\ \A q \in reported : q <= qid /\ q \in Nat
          /\ is_sending \/ s_pc = "add" => qid # 0 /\ qid \in Queries /\ qid \notin reported
          /\ s_pc = "send" => ~is_sending
      BY DotAssumption DEF DotInv, Types, Pending, Queries
    <3>3. qid + 1 \notin reported /\ qid + 1 # 0
      BY <3>2
    <3>4. CASE Nothing
      BY <3>2, <3>4 DEF Nothing
    <3>5. CASE Dropped
      BY <3>2, <3>5 DEF Dropped, Sock!SockNext, Sock!Drop
    <3>6. CASE Reported
      <4>1. CASE is_sending
        BY <3>2, <3>6, <4>1 DEF Reported, Sock!SockNext, Sock!Finish
      <4>2. CASE ~is_sending
        <5>1. Sock!Take(qid)
          BY <3>2, <3>6, <4>2 DEF Reported, Sock!Take
        <5> QED BY <3>2, <3>6, <5>1 DEF Reported, Sock!SockNext
      <4> QED BY <4>1, <4>2
    <3>7. CASE Taken
      <4>1. Sock!Take(qid')
        BY <3>2, <3>3, <3>7 DEF Taken, Sock!Take
      <4> QED BY <4>1, <3>7 DEF Taken, Sock!SockNext
    <3>8. CASE Kept
      <4>1. Sock!Keep(qid')
        BY <3>2, <3>3, <3>8 DEF Kept, Sock!Keep
      <4> QED BY <4>1, <3>8 DEF Kept, Sock!SockNext
    <3> QED BY <3>1, <3>4, <3>5, <3>6, <3>7, <3>8 DEF QueryStep
  <2> QED BY <2>1, <2>2
<1> QED BY <1>1, <1>2, Inductive, PTL DEF Spec, KeepsPromise, Sock!SockSpec

\* Both directions are framed: perf__dot_recv finds the beginning of a response of
\* the connection in use where it looks for one and moves memory only within its
\* buffer, and the pieces that perf__dot_sendto and perf__dot_sockready write follow
\* each other, unless one thread reconnected while the other was past its
\* PERF_UNLOCK.
THEOREM FramingSafe == Spec => []FramingKept
<1>1. WholeInv => FramingKept
  <2> SUFFICES ASSUME WholeInv PROVE FramingKept
    OBVIOUS
  <2>1. TypeOK /\ Framed /\ Ordered
    BY DEF WholeInv
  <2>2. ASSUME "RT" \notin torn
        PROVE  r_pc # "crashed" /\ \A i \in 1 .. at : recvbuf[i] = <<conn, ((i - 1) % Parts) + 1>>
    <3>1. Held \in Nat /\ at \in Nat /\ at <= Held
      <4>0. RTypes
        BY <2>1, TypesMeet
      <4>1. at \in Nat /\ r_at \in Nat /\ r_n \in Nat /\ (r_pc = "add" => at = r_at)
        BY <2>1, <2>2, <4>0, DotAssumption DEF RTypes, Framed
      <4> QED BY <4>1 DEF Held
    <3>2. \A i \in 1 .. at : i \in 1 .. Held
      BY <3>1
    <3> QED BY <2>1, <2>2, <3>2 DEF Framed
  <2>3. ASSUME "ST" \notin torn, NEW c \in Conns, NEW i \in DOMAIN wire[c]
        PROVE  \/ wire[c][i][2] = 1 /\ (i > 1 => wire[c][i - 1][2] = Parts)
               \/ i > 1 /\ wire[c][i] = <<wire[c][i - 1][1], wire[c][i - 1][2] + 1>>
    BY <2>1, <2>3 DEF Ordered, AllOrderly, Orderly
  <2> QED BY <2>1, <2>2, <2>3 DEF FramingKept
<1> QED BY <1>1, WholeInductive, PTL

\* No connection carries more than num_queries_per_conn queries, although
\* perf__dot_sockready and perf__dot_sendto count without the mutex and either
\* thread resets the counter: what is not counted yet is one query, and the limit is
\* looked at after it is.
THEOREM LimitSafe == Spec => []PerConnKept
<1>1. WholeInv => PerConnKept
  BY DEF WholeInv, Counted, PerConnKept
<1> QED BY <1>1, WholeInductive, PTL
=============================================================================
